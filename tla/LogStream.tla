------------------------------ MODULE LogStream ------------------------------
(***************************************************************************)
(* The log of one job on the log service: post_logs numbers the lines of   *)
(* the runner's request and puts them into the key-value store; get_logs   *)
(* reads them back for each reader with DbFetcher, which scans the store   *)
(* again and again from a key that it advances by one for every line it    *)
(* yields.  The requests, and the scans of the readers, interleave freely. *)
(***************************************************************************)
EXTENDS Naturals, Sequences, SequencesExt

CONSTANTS
  Readers,     (* requests to read the log that may be open at once *)
  MaxLines,    (* bound: lines the runner posts *)
  MaxCrashes   (* bound: restarts of the log service *)

ASSUME LogStreamAssumption == MaxLines \in Nat /\ MaxCrashes \in Nat

VARIABLES
  line_counter,   (* of post_logs *)
  posting,        (* the runner's request goes on *)
  stored,         (* the lines that a scan sees *)
  durable,        (* those that would survive a crash *)
  fetcher,        (* the DbFetcher of each reader *)
  crashes

vars == <<line_counter, posting, stored, durable, fetcher, crashes>>

Lines == 1 .. MaxLines

(* A fetcher: key is the LogLineKey; while it iterates over a scan, seen   *)
(* are the lines the scan began with and next the least one it may yield.  *)
Closed ==
  [open |-> FALSE, key |-> 0, iterating |-> FALSE, seen |-> {}, next |-> 0,
   sent |-> <<>>]

TypeOK ==
  /\ line_counter \in 0 .. MaxLines
  /\ posting \in BOOLEAN
  /\ durable \subseteq stored /\ stored \subseteq 1 .. line_counter
  /\ crashes \in 0 .. MaxCrashes
  /\ \A r \in Readers :
       LET f == fetcher[r] IN
       /\ f.open \in BOOLEAN /\ f.iterating \in BOOLEAN
       /\ f.key \in Nat /\ f.next \in Nat
       /\ f.seen \subseteq stored
       /\ f.sent \in Seq(stored)

Init ==
  /\ line_counter = 0 /\ posting = TRUE
  /\ stored = {} /\ durable = {}
  /\ fetcher = [r \in Readers |-> Closed]
  /\ crashes = 0

(***************************************************************************)
(* post_logs.                                                              *)
(***************************************************************************)

(* Mutant of ReceiveLog: the line is put before the counter advances.      *)
ReceiveLogEarly ==
  /\ posting /\ line_counter < MaxLines
  /\ line_counter' = line_counter + 1
  /\ stored' \in {stored, stored \cup {line_counter}}
  /\ UNCHANGED <<posting, durable, fetcher, crashes>>

(* A line that parses takes the next number; put fails or the line is      *)
(* there.  A line that does not parse takes no number and changes nothing. *)
ReceiveLog ==
  /\ posting /\ line_counter < MaxLines
  /\ line_counter' = line_counter + 1
  /\ stored' \in {stored, stored \cup {line_counter'}}
  /\ UNCHANGED <<posting, durable, fetcher, crashes>>

EndPost ==
  /\ posting /\ posting' = FALSE
  /\ UNCHANGED <<line_counter, stored, durable, fetcher, crashes>>

(* put does not wait for the write to be durable (await_durable: false);   *)
(* the store flushes by itself.                                            *)
Flush ==
  /\ durable # stored /\ durable' = stored
  /\ UNCHANGED <<line_counter, posting, stored, fetcher, crashes>>

(* The service stops and starts again: every request is cut off, and the   *)
(* lines that were not flushed are lost.                                   *)
Crash ==
  /\ crashes < MaxCrashes /\ crashes' = crashes + 1
  /\ posting' = FALSE /\ stored' = durable
  /\ fetcher' = [r \in Readers |-> Closed]
  /\ UNCHANGED <<line_counter, durable>>

(***************************************************************************)
(* get_logs and into_stream.                                               *)
(***************************************************************************)

logVars == <<line_counter, posting, stored, durable, crashes>>

GetLogs(r) ==
  /\ ~fetcher[r].open
  /\ fetcher' = [fetcher EXCEPT ![r] = [Closed EXCEPT !.open = TRUE]]
  /\ UNCHANGED logVars

(* The browser closes its event source.                                    *)
Leave(r) ==
  /\ fetcher[r].open
  /\ fetcher' = [fetcher EXCEPT ![r] = Closed]
  /\ UNCHANGED logVars

(* Mutant of Scan: it runs only once.                                      *)
ScanOnce(r) ==
  LET f == fetcher[r] IN
  /\ f.open /\ ~f.iterating /\ f.key = 0
  /\ fetcher' = [fetcher EXCEPT ![r].iterating = TRUE, ![r].next = 0,
                                ![r].seen = stored]
  /\ UNCHANGED logVars

Scan(r) ==
  LET f == fetcher[r] IN
  /\ f.open /\ ~f.iterating
  /\ fetcher' = [fetcher EXCEPT ![r].iterating = TRUE, ![r].next = f.key,
                                ![r].seen = {l \in stored : l >= f.key}]
  /\ UNCHANGED logVars

(* Mutant of Yield: the key stays behind.                                  *)
YieldOnly(r) ==
  LET f == fetcher[r] IN
  /\ f.iterating
  /\ \E l \in stored :
       /\ l >= f.next /\ \A m \in stored : m >= f.next => m >= l
       /\ fetcher' = [fetcher EXCEPT ![r].next = l + 1, ![r].sent = Append(f.sent, l)]
  /\ UNCHANGED logVars

(* The next line there is.  An iterator may see lines stored after the     *)
(* scan began, then in the order they were stored, or end before them.     *)
Yield(r) ==
  LET f == fetcher[r] IN
  /\ f.iterating
  /\ \E l \in stored :
       /\ l >= f.next /\ \A m \in stored : m >= f.next => m >= l
       /\ fetcher' = [fetcher EXCEPT ![r].key = f.key + 1, ![r].next = l + 1,
                                     ![r].sent = Append(f.sent, l)]
  /\ UNCHANGED logVars

(* Mutant of ScanEnds: the key advances past a line that is not there yet. *)
ScanEndsAhead(r) ==
  LET f == fetcher[r] IN
  /\ f.iterating /\ \A m \in f.seen : m < f.next
  /\ fetcher' = [fetcher EXCEPT ![r].iterating = FALSE, ![r].seen = {}, ![r].next = 0,
                                ![r].key = IF f.next = f.key THEN f.key + 1 ELSE f.key]
  /\ UNCHANGED logVars

(* When nothing was found, the fetcher sleeps before it scans again.       *)
ScanEnds(r) ==
  LET f == fetcher[r] IN
  /\ f.iterating /\ \A m \in f.seen : m < f.next
  /\ fetcher' = [fetcher EXCEPT ![r].iterating = FALSE, ![r].seen = {}, ![r].next = 0]
  /\ UNCHANGED logVars

(* The iterator fails: the lines of the scan that are left are not read.   *)
ScanFails(r) ==
  LET f == fetcher[r] IN
  /\ f.iterating /\ \E m \in f.seen : m >= f.next
  /\ fetcher' = [fetcher EXCEPT ![r].iterating = FALSE, ![r].seen = {}, ![r].next = 0]
  /\ UNCHANGED logVars

Next ==
  \/ ReceiveLog \/ EndPost \/ Flush \/ Crash
  \/ \E r \in Readers :
       GetLogs(r) \/ Leave(r) \/ Scan(r) \/ Yield(r) \/ ScanEnds(r) \/ ScanFails(r)

Spec == Init /\ [][Next]_vars

(* A fetcher's loop runs on; its scans do not all fail before they have    *)
(* yielded a line.                                                         *)
FairSpec ==
  Spec /\ \A r \in Readers :
            WF_vars(Scan(r)) /\ WF_vars(ScanEnds(r)) /\ SF_vars(Yield(r))

(***************************************************************************)
(* Properties.                                                             *)
(***************************************************************************)

(* The key counts the lines yielded, repeats included, yet it is never     *)
(* beyond the line after the last one yielded (stream.rs:82): the next     *)
(* scan begins at or before every line the reader does not have, and       *)
(* however many puts failed a stream has sent at most one line more than   *)
(* the number of its last line.                                            *)
KeyNotAhead ==
  \A r \in Readers :
    LET sent == fetcher[r].sent IN
    /\ fetcher[r].key = Len(sent)
    /\ sent # <<>> => Len(sent) <= Last(sent) + 1

(* Every stream is a LogFeed: a stored line is never passed over, whatever *)
(* is stored while the fetcher scans, fails or scans again, and lines come *)
(* for the first time in the order the runner posted them.                 *)
Feed(r) == INSTANCE LogFeed WITH open <- fetcher[r].open, sent <- fetcher[r].sent

FeedKept ==
  /\ \A r \in Readers : Feed(r)!Init
  /\ [][\A r \in Readers : [Feed(r)!Next]_(Feed(r)!vars)]_vars

(* A line that is stored reaches a reader that stays, also one that began  *)
(* to read before the first line was posted (stream.rs:75: the fetcher     *)
(* scans for ever).                                                        *)
LinesArrive ==
  \A r \in Readers, l \in Lines :
    (fetcher[r].open /\ l \in stored) ~>
      (l \in ToSet(fetcher[r].sent) \/ ~fetcher[r].open)

==============================================================================
