--------------------------- MODULE LogStreamProofs ---------------------------
(***************************************************************************)
(* Theorems about LogStream, for any number of readers, lines and restarts *)
(* of the log service.                                                     *)
(***************************************************************************)
EXTENDS LogStream, TLAPS

-----------------------------------------------------------------------------
(* Sequences *)

LEMMA AppendToSet ==
  ASSUME NEW S, NEW s \in Seq(S), NEW e \in S
  PROVE  /\ Append(s, e) \in Seq(S)
         /\ Len(Append(s, e)) = Len(s) + 1 /\ Last(Append(s, e)) = e
         /\ ToSet(Append(s, e)) = ToSet(s) \cup {e}
<1>1. /\ Append(s, e) \in Seq(S)
      /\ Len(s) \in Nat /\ Len(Append(s, e)) = Len(s) + 1
      /\ DOMAIN s = 1 .. Len(s) /\ DOMAIN Append(s, e) = 1 .. Len(s) + 1
      /\ \A i \in 1 .. Len(s) : Append(s, e)[i] = s[i]
      /\ Append(s, e)[Len(s) + 1] = e
  OBVIOUS
<1>2. \A i : i \in 1 .. Len(s) + 1 <=> i \in 1 .. Len(s) \/ i = Len(s) + 1
  BY <1>1
<1>3. ToSet(Append(s, e)) = ToSet(s) \cup {e}
  BY <1>1, <1>2 DEF ToSet
<1>4. QED
  BY <1>1, <1>3 DEF Last

-----------------------------------------------------------------------------
(* The inductive invariant *)

(* A line is in the store only under a number that was given out, and a    *)
(* crash loses the lines from some number on.                              *)
StoreInv ==
  /\ line_counter \in 0 .. MaxLines
  /\ stored \subseteq 1 .. line_counter
  /\ \E l \in 1 .. line_counter + 1 : durable = {m \in stored : m < l}

(* What a fetcher has counted and what its scan has come to.               *)
Fetchers ==
  [open : BOOLEAN, key : Nat, iterating : BOOLEAN, seen : SUBSET stored,
   next : Nat, sent : Seq(stored)]

FetcherOK(f) ==
  /\ f \in Fetchers
  /\ ~f.open => f = Closed
  /\ f.key = Len(f.sent)
  /\ f.sent # <<>> => Len(f.sent) <= Last(f.sent) + 1

(* No stored line below the key, or below where the scan has come to, is   *)
(* missing from what was sent.                                             *)
NothingMissed(f) ==
  /\ f.key <= line_counter + 1 /\ f.next <= line_counter + 1
  /\ \A m \in stored : m < f.key => m \in ToSet(f.sent)
  /\ f.iterating =>
       /\ f.key <= f.next
       /\ \A m \in stored : m < f.next => m \in ToSet(f.sent)

StreamInv ==
  /\ posting \in BOOLEAN /\ crashes \in 0 .. MaxCrashes
  /\ StoreInv
  /\ DOMAIN fetcher = Readers /\ fetcher = [r \in Readers |-> fetcher[r]]
  /\ \A r \in Readers : FetcherOK(fetcher[r]) /\ NothingMissed(fetcher[r])

LEMMA StreamInit == Init => StreamInv
<1> SUFFICES ASSUME Init PROVE StreamInv
  OBVIOUS
<1> USE LogStreamAssumption
<1>1. StoreInv
  BY DEF Init, StoreInv
<1>2. ASSUME NEW r \in Readers
      PROVE  FetcherOK(fetcher[r]) /\ NothingMissed(fetcher[r])
  BY DEF Init, FetcherOK, Fetchers, NothingMissed, Closed
<1>3. QED
  BY <1>1, <1>2 DEF Init, StreamInv

(* The steps of the service: the store grows at its end or shrinks to what *)
(* is durable.                                                             *)
LEMMA ServiceStep ==
  ASSUME StreamInv, ReceiveLog \/ EndPost \/ Flush \/ Crash
  PROVE  StreamInv'
<1> USE LogStreamAssumption DEF StreamInv
<1>1. CASE ReceiveLog
  <2>1. /\ line_counter \in Nat /\ line_counter' = line_counter + 1
        /\ line_counter' \in 0 .. MaxLines
        /\ stored' \in {stored, stored \cup {line_counter'}}
        /\ stored \subseteq 1 .. line_counter
        /\ UNCHANGED <<posting, durable, fetcher, crashes>>
    BY <1>1 DEF ReceiveLog, StoreInv
  <2>2. StoreInv'
    <3>1. PICK l \in 1 .. line_counter + 1 : durable = {m \in stored : m < l}
      BY DEF StoreInv
    <3>2. l \in 1 .. line_counter' + 1 /\ durable' = {m \in stored' : m < l}
      BY <2>1, <3>1
    <3>3. QED
      BY <2>1, <3>2 DEF StoreInv
  <2>3. ASSUME NEW r \in Readers
        PROVE  FetcherOK(fetcher[r])' /\ NothingMissed(fetcher[r])'
    <3>1. FetcherOK(fetcher[r]) /\ NothingMissed(fetcher[r])
      OBVIOUS
    <3>2. Seq(stored) \subseteq Seq(stored')
      BY <2>1
    <3>3. FetcherOK(fetcher[r])'
      BY <2>1, <3>1, <3>2 DEF FetcherOK, Fetchers, Closed
    <3>4. NothingMissed(fetcher[r])'
      BY <2>1, <3>1 DEF NothingMissed, FetcherOK, Fetchers
    <3>5. QED
      BY <3>3, <3>4
  <2>4. QED
    BY <2>1, <2>2, <2>3
<1>2. CASE EndPost
  BY <1>2 DEF EndPost, StoreInv, FetcherOK, Fetchers, NothingMissed, Closed
<1>3. CASE Flush
  <2>1. /\ durable' = stored
        /\ UNCHANGED <<line_counter, posting, stored, fetcher, crashes>>
    BY <1>3 DEF Flush
  <2>2. StoreInv'
    <3>1. line_counter \in Nat /\ stored \subseteq 1 .. line_counter
      BY DEF StoreInv
    <3>2. /\ line_counter + 1 \in 1 .. line_counter + 1
          /\ durable' = {m \in stored : m < line_counter + 1}
      BY <2>1, <3>1
    <3>3. QED
      BY <2>1, <3>1, <3>2 DEF StoreInv
  <2>3. QED
    BY <2>1, <2>2 DEF FetcherOK, Fetchers, NothingMissed, Closed
<1>4. CASE Crash
  <2>1. /\ posting' = FALSE /\ crashes' \in 0 .. MaxCrashes
        /\ stored' = durable /\ fetcher' = [r \in Readers |-> Closed]
        /\ UNCHANGED <<line_counter, durable>>
    BY <1>4 DEF Crash
  <2>2. StoreInv'
    <3>1. /\ line_counter \in Nat /\ line_counter \in 0 .. MaxLines
          /\ durable \subseteq stored /\ stored \subseteq 1 .. line_counter
      BY DEF StoreInv
    <3>2. /\ line_counter + 1 \in 1 .. line_counter + 1
          /\ durable = {m \in durable : m < line_counter + 1}
      BY <3>1
    <3>3. QED
      BY <2>1, <3>1, <3>2 DEF StoreInv
  <2>3. ASSUME NEW r \in Readers
        PROVE  FetcherOK(fetcher[r])' /\ NothingMissed(fetcher[r])'
    BY <2>1, <2>2 DEF StoreInv, FetcherOK, Fetchers, NothingMissed, Closed
  <2>4. QED
    BY <2>1, <2>2, <2>3
<1>5. QED
  BY <1>1, <1>2, <1>3, <1>4

(* The steps of a reader change its fetcher alone.                         *)
LEMMA FetcherUpdate ==
  ASSUME StreamInv, NEW r \in Readers, NEW f,
         fetcher' = [fetcher EXCEPT ![r] = f], UNCHANGED logVars,
         FetcherOK(f), NothingMissed(f)
  PROVE  StreamInv'
<1>1. UNCHANGED <<line_counter, posting, stored, durable, crashes>>
  BY DEF logVars
<1>2. /\ DOMAIN fetcher = Readers
      /\ \A q \in Readers : fetcher'[q] = IF q = r THEN f ELSE fetcher[q]
  BY DEF StreamInv
<1>3. ASSUME NEW q \in Readers
      PROVE  FetcherOK(fetcher[q])' /\ NothingMissed(fetcher[q])'
  BY <1>1, <1>2 DEF StreamInv, FetcherOK, Fetchers, NothingMissed, Closed
<1>4. QED
  BY <1>1, <1>2, <1>3 DEF StreamInv, StoreInv

(* What the steps of a reader make of its fetcher, field by field.         *)
LEMMA GetLogsEffect ==
  ASSUME NEW r \in Readers, GetLogs(r)
  PROVE  \E g \in Fetchers :
           /\ fetcher' = [fetcher EXCEPT ![r] = g]
           /\ g.open /\ g.key = 0 /\ ~g.iterating /\ g.next = 0 /\ g.sent = <<>>
<1>1. Closed \in Fetchers
  BY DEF Closed, Fetchers
<1>2. Closed.key = 0 /\ ~Closed.iterating /\ Closed.next = 0 /\ Closed.sent = <<>>
  BY DEF Closed
<1> DEFINE g == [Closed EXCEPT !.open = TRUE]
<1>3. g \in Fetchers
  BY <1>1, Zenon DEF Fetchers
<1>4. /\ g.open = TRUE /\ g.key = Closed.key /\ g.iterating = Closed.iterating
      /\ g.next = Closed.next /\ g.sent = Closed.sent
  BY <1>1, Zenon DEF Fetchers
<1>5. fetcher' = [fetcher EXCEPT ![r] = g]
  BY Zenon DEF GetLogs
<1> HIDE DEF g
<1>6. QED
  BY <1>2, <1>3, <1>4, <1>5

LEMMA ScanEffect ==
  ASSUME NEW r \in Readers, DOMAIN fetcher = Readers, fetcher[r] \in Fetchers,
         Scan(r)
  PROVE  \E g \in Fetchers :
           /\ fetcher' = [fetcher EXCEPT ![r] = g]
           /\ g.open = fetcher[r].open /\ g.key = fetcher[r].key
           /\ g.next = fetcher[r].key /\ g.sent = fetcher[r].sent
<1> DEFINE f == fetcher[r]
           seen == {l \in stored : l >= f.key}
           g == [f EXCEPT !.iterating = TRUE, !.next = f.key, !.seen = seen]
<1>1. fetcher' = [fetcher EXCEPT ![r] = g]
  BY Zenon DEF Scan
<1>2. TRUE \in BOOLEAN /\ f.key \in Nat /\ seen \in SUBSET stored
  BY DEF Fetchers
<1> HIDE DEF seen
<1>3. g \in Fetchers
  BY <1>2, Zenon DEF Fetchers
<1>4. g.open = f.open /\ g.key = f.key /\ g.next = f.key /\ g.sent = f.sent
  BY Zenon DEF Fetchers
<1> HIDE DEF g
<1>5. QED
  BY <1>1, <1>3, <1>4

LEMMA YieldEffect ==
  ASSUME NEW r \in Readers, DOMAIN fetcher = Readers, fetcher[r] \in Fetchers,
         Yield(r)
  PROVE  \E l \in stored : \E g \in Fetchers :
           /\ l >= fetcher[r].next
           /\ \A m \in stored : m >= fetcher[r].next => m >= l
           /\ fetcher' = [fetcher EXCEPT ![r] = g]
           /\ g.open = fetcher[r].open /\ g.key = fetcher[r].key + 1
           /\ g.next = l + 1 /\ g.sent = Append(fetcher[r].sent, l)
<1> DEFINE f == fetcher[r]
<1>1. PICK l \in stored :
        /\ l >= f.next /\ \A m \in stored : m >= f.next => m >= l
        /\ fetcher' = [fetcher EXCEPT ![r].key = f.key + 1, ![r].next = l + 1,
                                      ![r].sent = Append(f.sent, l)]
  BY DEF Yield
<1> DEFINE k == f.key + 1
           n == l + 1
           s == Append(f.sent, l)
<1>2. k \in Nat /\ n \in Nat /\ s \in Seq(stored)
  BY <1>1 DEF Fetchers
<1>3. fetcher' = [fetcher EXCEPT ![r].key = k, ![r].next = n, ![r].sent = s]
  BY <1>1
<1> HIDE DEF k, n, s
<1> DEFINE g == [f EXCEPT !.key = k, !.next = n, !.sent = s]
<1>4. fetcher' = [fetcher EXCEPT ![r] = g]
  BY <1>3, Zenon
<1>5. g \in Fetchers
  BY <1>2, Zenon DEF Fetchers
<1>6. g.open = f.open /\ g.key = k /\ g.next = n /\ g.sent = s
  BY Zenon DEF Fetchers
<1> HIDE DEF g
<1>7. QED
  BY <1>1, <1>4, <1>5, <1>6 DEF k, n, s

LEMMA ScanOverEffect ==
  ASSUME NEW r \in Readers, DOMAIN fetcher = Readers, fetcher[r] \in Fetchers,
         ScanEnds(r) \/ ScanFails(r)
  PROVE  \E g \in Fetchers :
           /\ fetcher' = [fetcher EXCEPT ![r] = g]
           /\ g.open = fetcher[r].open /\ g.key = fetcher[r].key /\ g.next = 0
           /\ ~g.iterating /\ g.sent = fetcher[r].sent
<1> DEFINE f == fetcher[r]
           g == [f EXCEPT !.iterating = FALSE, !.seen = {}, !.next = 0]
<1>1. fetcher' = [fetcher EXCEPT ![r] = g]
  BY Zenon DEF ScanEnds, ScanFails
<1>2. FALSE \in BOOLEAN /\ 0 \in Nat /\ {} \in SUBSET stored
  OBVIOUS
<1>3. g \in Fetchers
  BY <1>2, Zenon DEF Fetchers
<1>4. /\ g.open = f.open /\ g.key = f.key /\ g.next = 0 /\ g.iterating = FALSE
      /\ g.sent = f.sent
  BY Zenon DEF Fetchers
<1> HIDE DEF g
<1>5. QED
  BY <1>1, <1>3, <1>4

LEMMA ReaderStep ==
  ASSUME StreamInv, NEW r \in Readers,
         \/ GetLogs(r) \/ Leave(r) \/ Scan(r) \/ Yield(r) \/ ScanEnds(r)
         \/ ScanFails(r)
  PROVE  StreamInv'
<1> DEFINE f == fetcher[r]
<1>1. /\ f \in Fetchers /\ FetcherOK(f) /\ NothingMissed(f)
      /\ DOMAIN fetcher = Readers
      /\ line_counter \in Nat /\ stored \subseteq 1 .. line_counter
  BY LogStreamAssumption DEF StreamInv, FetcherOK, Fetchers, StoreInv
<1>2. CASE GetLogs(r)
  <2>1. PICK g \in Fetchers :
          /\ fetcher' = [fetcher EXCEPT ![r] = g]
          /\ g.open /\ g.key = 0 /\ ~g.iterating /\ g.next = 0 /\ g.sent = <<>>
    BY <1>2, GetLogsEffect
  <2>2. FetcherOK(g) /\ NothingMissed(g)
    BY <1>1, <2>1 DEF FetcherOK, NothingMissed
  <2>3. QED
    BY <1>2, <2>1, <2>2, FetcherUpdate DEF GetLogs
<1>3. CASE Leave(r)
  <2>1. FetcherOK(Closed) /\ NothingMissed(Closed)
    BY <1>1 DEF FetcherOK, NothingMissed, Closed, Fetchers
  <2>2. QED
    BY <1>3, <2>1, FetcherUpdate DEF Leave
<1>4. CASE Scan(r)
  <2>1. f.open /\ UNCHANGED logVars
    BY <1>4 DEF Scan
  <2>2. PICK g \in Fetchers :
          /\ fetcher' = [fetcher EXCEPT ![r] = g]
          /\ g.open = f.open /\ g.key = f.key /\ g.next = f.key /\ g.sent = f.sent
    BY <1>1, <1>4, ScanEffect
  <2>3. FetcherOK(g)
    BY <1>1, <2>1, <2>2 DEF FetcherOK
  <2>4. NothingMissed(g)
    <3>1. /\ f.key \in Nat /\ f.key <= line_counter + 1
          /\ \A m \in stored : m < f.key => m \in ToSet(f.sent)
      BY <1>1 DEF NothingMissed, Fetchers
    <3>2. QED
      BY <2>2, <3>1 DEF NothingMissed
  <2>5. QED
    BY <2>1, <2>2, <2>3, <2>4, FetcherUpdate
<1>5. CASE Yield(r)
  <2>1. f.iterating /\ UNCHANGED logVars
    BY <1>5 DEF Yield
  <2>2. PICK l \in stored, g \in Fetchers :
          /\ l >= f.next /\ \A m \in stored : m >= f.next => m >= l
          /\ fetcher' = [fetcher EXCEPT ![r] = g]
          /\ g.open = f.open /\ g.key = f.key + 1 /\ g.next = l + 1
          /\ g.sent = Append(f.sent, l)
    BY <1>1, <1>5, YieldEffect
  <2>3. /\ f.key \in Nat /\ f.next \in Nat /\ f.sent \in Seq(stored)
        /\ f.key <= f.next /\ f.next <= l /\ l \in 1 .. line_counter
        /\ f.open
    BY <1>1, <2>1, <2>2 DEF FetcherOK, NothingMissed, Fetchers, Closed
  <2>4. /\ g.sent # <<>> /\ Len(g.sent) = Len(f.sent) + 1 /\ Last(g.sent) = l
        /\ ToSet(g.sent) = ToSet(f.sent) \cup {l}
    <3>1. /\ Append(f.sent, l) # <<>> /\ Len(Append(f.sent, l)) = Len(f.sent) + 1
          /\ Last(Append(f.sent, l)) = l
          /\ ToSet(Append(f.sent, l)) = ToSet(f.sent) \cup {l}
      BY <2>3, AppendToSet
    <3>2. QED
      BY <2>2, <3>1
  <2>5. FetcherOK(g)
    <3>1. f.key = Len(f.sent)
      BY <1>1 DEF FetcherOK
    <3>2. QED
      BY <2>2, <2>3, <2>4, <3>1 DEF FetcherOK
  <2>6. ASSUME NEW m \in stored, m < l + 1 PROVE m \in ToSet(g.sent)
    <3>1. m < f.next \/ m = l
      BY <1>1, <2>2, <2>3, <2>6
    <3>2. QED
      BY <1>1, <2>1, <2>4, <3>1 DEF NothingMissed
  <2>7. NothingMissed(g)
    <3>1. g.key <= g.next /\ g.next = l + 1 /\ g.next <= line_counter + 1
      BY <1>1, <2>2, <2>3
    <3>2. \A m \in stored : m < g.next => m \in ToSet(g.sent)
      BY <2>6, <3>1
    <3>3. \A m \in stored : m < g.key => m < g.next
      BY <1>1, <2>2, <2>3, <3>1
    <3>4. /\ g.key <= line_counter + 1
          /\ \A m \in stored : m < g.key => m \in ToSet(g.sent)
      BY <1>1, <2>2, <2>3, <3>1, <3>2, <3>3
    <3>5. QED
      BY <3>1, <3>2, <3>4 DEF NothingMissed
  <2>8. QED
    BY <2>1, <2>2, <2>5, <2>7, FetcherUpdate
<1>6. CASE ScanEnds(r) \/ ScanFails(r)
  <2>1. f.iterating /\ f.open /\ UNCHANGED logVars
    BY <1>1, <1>6 DEF ScanEnds, ScanFails, FetcherOK, Closed
  <2>2. PICK g \in Fetchers :
          /\ fetcher' = [fetcher EXCEPT ![r] = g]
          /\ g.open = f.open /\ g.key = f.key /\ g.next = 0
          /\ ~g.iterating /\ g.sent = f.sent
    BY <1>1, <1>6, ScanOverEffect
  <2>3. FetcherOK(g)
    BY <1>1, <2>1, <2>2 DEF FetcherOK
  <2>4. NothingMissed(g)
    <3>1. /\ f.key <= line_counter + 1
          /\ \A m \in stored : m < f.key => m \in ToSet(f.sent)
      BY <1>1 DEF NothingMissed
    <3>2. QED
      BY <1>1, <2>2, <3>1 DEF NothingMissed
  <2>5. QED
    BY <2>1, <2>2, <2>3, <2>4, FetcherUpdate
<1>7. QED
  BY <1>2, <1>3, <1>4, <1>5, <1>6

LEMMA StreamStep == StreamInv /\ [Next]_vars => StreamInv'
<1> SUFFICES ASSUME StreamInv, [Next]_vars PROVE StreamInv'
  OBVIOUS
<1>1. CASE UNCHANGED vars
  BY <1>1 DEF vars, StreamInv, StoreInv, FetcherOK, Fetchers, NothingMissed, Closed
<1>2. QED
  BY <1>1, ServiceStep, ReaderStep DEF Next

(* The tables of post_logs, the keys of the fetchers and what into_stream  *)
(* has yielded agree line by line, whatever fails and restarts.            *)
THEOREM StreamInvariant == Spec => []StreamInv
<1>1. QED
  BY StreamInit, StreamStep, PTL DEF Spec

-----------------------------------------------------------------------------
(* What follows from it *)

(* The tables of post_logs and the state of every DbFetcher always have    *)
(* their types.                                                            *)
THEOREM Typing == Spec => []TypeOK
<1>1. StreamInv => TypeOK
  BY DEF StreamInv, StoreInv, FetcherOK, Fetchers, TypeOK
<1>2. QED
  BY <1>1, StreamInvariant, PTL

(* A fetcher's key, which it advances by one for every line it yields,     *)
(* never passes a line the reader lacks (DbFetcher::into_stream), however  *)
(* many lines failed to be stored and however often a scan was repeated.   *)
THEOREM KeyStaysBehind == Spec => []KeyNotAhead
<1>1. StreamInv => KeyNotAhead
  BY DEF StreamInv, FetcherOK, Fetchers, KeyNotAhead
<1>2. QED
  BY <1>1, StreamInvariant, PTL

-----------------------------------------------------------------------------
(* Every stream is a LogFeed *)

(* Of a stored line, a stream has sent all the lines before.               *)
LEMMA FeedStep ==
  ASSUME StreamInv, [Next]_vars, NEW r \in Readers
  PROVE  [Feed(r)!Next]_(Feed(r)!vars)
<1> DEFINE f == fetcher[r]
           f1 == fetcher'[r]
<1>0. /\ f \in Fetchers /\ FetcherOK(f) /\ NothingMissed(f)
      /\ DOMAIN fetcher = Readers
      /\ line_counter \in Nat /\ stored \subseteq 1 .. line_counter
      /\ line_counter <= MaxLines
  BY LogStreamAssumption DEF StreamInv, FetcherOK, Fetchers, StoreInv
<1>1. CASE ReceiveLog
  <2>1. /\ line_counter' = line_counter + 1 /\ line_counter < MaxLines
        /\ stored' \in {stored, stored \cup {line_counter'}} /\ f1 = f
    BY <1>1 DEF ReceiveLog
  <2>2. CASE stored' = stored
    BY <2>1, <2>2 DEF Feed!vars
  <2>3. CASE stored' = stored \cup {line_counter'}
    <3>1. /\ line_counter' \in Lines /\ line_counter' \notin stored
          /\ Feed(r)!Before(line_counter') = stored
      <4>1. \A m \in stored : m < line_counter' /\ m # line_counter'
        BY <1>0, <2>1
      <4>2. {m \in stored : m < line_counter'} = stored
        BY <4>1
      <4>3. line_counter' \in Lines
        BY <1>0, <2>1, LogStreamAssumption DEF Lines
      <4>4. QED
        BY <4>1, <4>2, <4>3 DEF Feed!Before
    <3>2. Feed(r)!Store
      BY <2>1, <2>3, <3>1 DEF Feed!Store
    <3>3. QED
      BY <3>2 DEF Feed!Next
  <2>4. QED
    BY <2>1, <2>2, <2>3
<1>2. CASE EndPost \/ Flush
  BY <1>2 DEF EndPost, Flush, Feed!vars
<1>3. CASE Crash
  <2>1. /\ stored' = durable /\ f1 = Closed
    BY <1>3 DEF Crash
  <2>2. f1.open = FALSE /\ f1.sent = <<>>
    BY <2>1 DEF Closed
  <2>3. stored' \in {stored} \cup {Feed(r)!Before(l) : l \in Lines}
    <3>1. PICK l \in 1 .. line_counter + 1 : durable = {m \in stored : m < l}
      BY DEF StreamInv, StoreInv
    <3>2. CASE l = line_counter + 1
      <4>1. \A m \in stored : m < l
        BY <1>0, <3>2
      <4>2. durable = stored
        BY <3>1, <4>1
      <4>3. QED
        BY <2>1, <4>2
    <3>3. CASE l # line_counter + 1
      <4>1. l \in Lines
        BY <1>0, <3>3, LogStreamAssumption DEF Lines
      <4>2. durable = Feed(r)!Before(l)
        BY <3>1 DEF Feed!Before
      <4>3. QED
        BY <2>1, <4>1, <4>2
    <3>4. QED
      BY <3>2, <3>3
  <2>4. Feed(r)!Lose
    BY <2>2, <2>3 DEF Feed!Lose
  <2>5. QED
    BY <2>4 DEF Feed!Next
<1>4. ASSUME NEW q \in Readers,
             \/ GetLogs(q) \/ Leave(q) \/ Scan(q) \/ Yield(q) \/ ScanEnds(q)
             \/ ScanFails(q)
      PROVE  [Feed(r)!Next]_(Feed(r)!vars)
  <2>1. stored' = stored
    BY <1>4 DEF GetLogs, Leave, Scan, Yield, ScanEnds, ScanFails, logVars
  <2>2. fetcher[q] \in Fetchers
    BY DEF StreamInv, FetcherOK
  <2>3. CASE q # r
    <3>1. \E g : fetcher' = [fetcher EXCEPT ![q] = g]
      BY <1>0, <1>4, <2>2, GetLogsEffect, ScanEffect, YieldEffect, ScanOverEffect
         DEF Leave
    <3>2. f1 = f
      BY <1>0, <2>3, <3>1
    <3>3. QED
      BY <2>1, <3>2 DEF Feed!vars
  <2>4. CASE q = r /\ GetLogs(r)
    <3>1. f1.open = TRUE /\ f1.sent = <<>>
      BY <1>0, <2>4, GetLogsEffect DEF Fetchers
    <3>2. f.open = FALSE /\ f.sent = <<>>
      BY <1>0, <2>4 DEF GetLogs, FetcherOK, Fetchers, Closed
    <3>3. Feed(r)!Open
      BY <2>1, <3>1, <3>2 DEF Feed!Open
    <3>4. QED
      BY <3>3 DEF Feed!Next
  <2>5. CASE q = r /\ Leave(r)
    <3>1. f.open /\ f1 = Closed
      BY <1>0, <2>5 DEF Leave
    <3>2. Feed(r)!Close
      BY <2>1, <3>1 DEF Feed!Close, Closed
    <3>3. QED
      BY <3>2 DEF Feed!Next
  <2>6. CASE q = r /\ (Scan(r) \/ ScanEnds(r) \/ ScanFails(r))
    <3>1. f1.open = f.open /\ f1.sent = f.sent
      BY <1>0, <2>6, ScanEffect, ScanOverEffect
    <3>2. QED
      BY <2>1, <3>1 DEF Feed!vars
  <2>7. CASE q = r /\ Yield(r)
    <3>1. PICK l \in stored :
            /\ l >= f.next /\ \A m \in stored : m >= f.next => m >= l
            /\ f1.open = f.open /\ f1.sent = Append(f.sent, l)
      BY <1>0, <2>7, YieldEffect
    <3>2. f.iterating /\ f.open /\ f.next \in Nat
      BY <1>0, <2>7 DEF Yield, FetcherOK, Closed, Fetchers
    <3>3. ASSUME NEW m \in stored, m < l PROVE m \in ToSet(f.sent)
      <4>1. m < f.next
        BY <1>0, <3>1, <3>2, <3>3
      <4>2. QED
        BY <1>0, <3>2, <4>1 DEF NothingMissed
    <3>4. Feed(r)!Before(l) \subseteq Feed(r)!Range(f.sent)
      BY <3>3 DEF Feed!Before, Feed!Range, ToSet
    <3>5. Feed(r)!Send(l)
      BY <2>1, <3>1, <3>2, <3>4 DEF Feed!Send
    <3>6. l \in Lines
      BY <1>0, LogStreamAssumption DEF Lines
    <3>7. QED
      BY <3>5, <3>6 DEF Feed!Next
  <2>8. QED
    BY <1>4, <2>3, <2>4, <2>5, <2>6, <2>7
<1>5. CASE UNCHANGED vars
  BY <1>5 DEF vars, Feed!vars
<1>6. QED
  BY <1>1, <1>2, <1>3, <1>4, <1>5 DEF Next

(* DbFetcher::into_stream never passes over a stored line, whatever is     *)
(* stored while it scans, fails or scans again: every stream implements    *)
(* LogFeed, for every line the reader is sent has all those before it.     *)
THEOREM FeedImplemented == Spec => FeedKept
<1>1. Init => \A r \in Readers : Feed(r)!Init
  BY DEF Init, Closed, Feed!Init
<1>2. StreamInv /\ [Next]_vars
        => [\A r \in Readers : [Feed(r)!Next]_(Feed(r)!vars)]_vars
  BY FeedStep
<1>3. QED
  BY <1>1, <1>2, StreamInvariant, PTL DEF Spec, FeedKept

=============================================================================
