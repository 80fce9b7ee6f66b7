-------------------------- MODULE LogViewersProofs ---------------------------
(***************************************************************************)
(* Theorems about LogViewers, for any number of jobs, lines, connections   *)
(* and errors.                                                             *)
(***************************************************************************)
EXTENDS LogViewers, FiniteSetTheorems, SequenceTheorems, WellFoundedInduction, TLAPS

-----------------------------------------------------------------------------
(* What Filter computes *)

(* Induction: a set of numbers that is not empty has a least one.          *)
LEMMA LeastNumber ==
  ASSUME NEW T \in SUBSET Nat, T # {}
  PROVE  \E m \in T : \A n \in T : m <= n
<1> DEFINE R == OpToRel(<, Nat)
<1>1. IsWellFoundedOn(R, Nat)
  BY NatLessThanWellFounded
<1>2. \A x, y \in Nat : <<x, y>> \in R <=> x < y
  BY DEF OpToRel
<1> HIDE DEF R
<1>3. PICK m \in T : \A n \in T : ~(<<n, m>> \in R)
  BY <1>1, WFMin
<1>4. ASSUME NEW n \in T  PROVE m <= n
  <2>1. ~(n < m) /\ n \in Nat /\ m \in Nat
    BY <1>2, <1>3
  <2>2. QED
    BY <2>1
<1>5. QED
  BY <1>4

(* kept[n] is what the viewer shows of the first n lines, for n up to m.   *)
Keeps(S, viewer, lines, m, kept) ==
  /\ kept \in [0 .. m -> Seq(S)] /\ kept[0] = <<>>
  /\ \A n \in 1 .. m :
       kept[n] = IF Shown(viewer, lines[n]) THEN Append(kept[n - 1], lines[n])
                 ELSE kept[n - 1]

LEMMA KeepsMore ==
  ASSUME NEW S, NEW viewer, NEW lines \in Seq(S), NEW m \in Nat, m + 1 <= Len(lines),
         NEW kept, Keeps(S, viewer, lines, m, kept)
  PROVE  \E more : Keeps(S, viewer, lines, m + 1, more)
<1> DEFINE last == IF Shown(viewer, lines[m + 1]) THEN Append(kept[m], lines[m + 1])
                   ELSE kept[m]
           more == [n \in 0 .. m + 1 |-> IF n = m + 1 THEN last ELSE kept[n]]
<1>1. lines[m + 1] \in S
  OBVIOUS
<1>2. /\ kept \in [0 .. m -> Seq(S)] /\ kept[0] = <<>>
      /\ \A n \in 1 .. m :
           kept[n] = IF Shown(viewer, lines[n]) THEN Append(kept[n - 1], lines[n])
                     ELSE kept[n - 1]
  BY DEF Keeps
<1>3. last \in Seq(S)
  <2>1. kept[m] \in Seq(S)
    BY <1>2
  <2>2. Append(kept[m], lines[m + 1]) \in Seq(S)
    BY <1>1, <2>1
  <2>3. QED
    BY <2>1, <2>2
<1>4. more[m + 1] = last /\ \A n \in 0 .. m : more[n] = kept[n]
  <2> HIDE DEF last
  <2>1. QED
    OBVIOUS
<1>5. more \in [0 .. m + 1 -> Seq(S)]
  <2> HIDE DEF last
  <2>1. QED
    BY <1>2, <1>3
<1> HIDE DEF more
<1>6. ASSUME NEW n \in 1 .. m + 1
      PROVE  more[n] = IF Shown(viewer, lines[n]) THEN Append(more[n - 1], lines[n])
                       ELSE more[n - 1]
  <2>1. CASE n = m + 1
    <3>1. more[n - 1] = kept[m]
      BY <1>4, <2>1
    <3>2. QED
      BY <1>4, <2>1, <3>1
  <2>2. CASE n # m + 1
    <3>1. n \in 1 .. m /\ more[n - 1] = kept[n - 1] /\ more[n] = kept[n]
      BY <1>4, <2>2
    <3>2. QED
      BY <1>2, <3>1
  <2>3. QED
    BY <2>1, <2>2
<1>7. Keeps(S, viewer, lines, m + 1, more)
  BY <1>2, <1>4, <1>5, <1>6 DEF Keeps
<1>8. QED
  BY <1>7

LEMMA KeepsExist ==
  ASSUME NEW S, NEW viewer, NEW lines \in Seq(S)
  PROVE  \A m \in 0 .. Len(lines) : \E kept : Keeps(S, viewer, lines, m, kept)
<1> DEFINE Without == {m \in 0 .. Len(lines) : ~ \E kept : Keeps(S, viewer, lines, m, kept)}
<1>1. Without \in SUBSET Nat
  OBVIOUS
<1>2. SUFFICES ASSUME Without # {}  PROVE FALSE
  OBVIOUS
<1>3. PICK m \in Without : \A n \in Without : m <= n
  BY <1>1, <1>2, LeastNumber
<1>4. Keeps(S, viewer, lines, 0, [n \in 0 .. 0 |-> <<>>])
  <2>1. [n \in 0 .. 0 |-> <<>>] \in [0 .. 0 -> Seq(S)] /\ [n \in 0 .. 0 |-> <<>>][0] = <<>>
    OBVIOUS
  <2>2. 1 .. 0 = {}
    OBVIOUS
  <2>3. QED
    BY <2>1, <2>2 DEF Keeps
<1>5. m # 0
  BY <1>4
<1>6. m \in Nat /\ m - 1 \in Nat /\ m - 1 < m /\ m <= Len(lines) /\ m = (m - 1) + 1
      /\ m - 1 \in 0 .. Len(lines)
  BY <1>5
<1>7. m - 1 \notin Without
  BY <1>3, <1>6
<1>8. PICK kept : Keeps(S, viewer, lines, m - 1, kept)
  BY <1>6, <1>7
<1>9. \E more : Keeps(S, viewer, lines, m, more)
  <2>1. DEFINE p == m - 1
  <2>2. p \in Nat /\ p + 1 <= Len(lines) /\ Keeps(S, viewer, lines, p, kept) /\ p + 1 = m
    BY <1>6, <1>8
  <2> HIDE DEF p
  <2>3. \E more : Keeps(S, viewer, lines, p + 1, more)
    BY <2>2, KeepsMore
  <2>4. QED
    BY <2>2, <2>3
<1>10. QED
  BY <1>9

(* What is kept is decided by the two filters and the lines.               *)
LEMMA KeepsAgree ==
  ASSUME NEW S, NEW viewer, NEW other, NEW lines \in Seq(S), NEW m \in Nat,
         \A line \in S : Shown(viewer, line) <=> Shown(other, line), m <= Len(lines),
         NEW kept, Keeps(S, viewer, lines, m, kept), NEW also, Keeps(S, other, lines, m, also)
  PROVE  kept[m] = also[m]
<1> DEFINE Differ == {n \in 0 .. m : kept[n] # also[n]}
<1>1. Differ \in SUBSET Nat
  OBVIOUS
<1>2. SUFFICES ASSUME Differ # {}  PROVE FALSE
  OBVIOUS
<1>3. PICK n \in Differ : \A l \in Differ : n <= l
  BY <1>1, <1>2, LeastNumber
<1>4. n # 0
  BY DEF Keeps
<1>5. n \in 1 .. m /\ n - 1 \in 0 .. m /\ n - 1 < n /\ n - 1 \in Nat /\ lines[n] \in S
  BY <1>4
<1>6. kept[n - 1] = also[n - 1]
  BY <1>3, <1>5
<1>7. Shown(viewer, lines[n]) <=> Shown(other, lines[n])
  BY <1>5
<1>8. /\ kept[n] = IF Shown(viewer, lines[n]) THEN Append(kept[n - 1], lines[n])
                   ELSE kept[n - 1]
      /\ also[n] = IF Shown(other, lines[n]) THEN Append(also[n - 1], lines[n])
                   ELSE also[n - 1]
  BY <1>5 DEF Keeps
<1>9. kept[n] = also[n]
  BY <1>6, <1>7, <1>8
<1>10. QED
  BY <1>9

LEMMA FilterKeeps ==
  ASSUME NEW S, NEW viewer, NEW lines \in Seq(S)
  PROVE  \E kept : /\ Keeps(S, viewer, lines, Len(lines), kept)
                   /\ Filter(viewer, lines) = kept[Len(lines)]
<1> DEFINE Body(f) == [n \in 0 .. Len(lines) |->
                         IF n = 0 THEN <<>>
                         ELSE IF Shown(viewer, lines[n]) THEN Append(f[n - 1], lines[n])
                         ELSE f[n - 1]]
           kept == CHOOSE f : f = Body(f)
<1>1. Len(lines) \in Nat /\ Len(lines) \in 0 .. Len(lines)
  OBVIOUS
<1>2. PICK some : Keeps(S, viewer, lines, Len(lines), some)
  BY <1>1, KeepsExist
<1>3. some = Body(some)
  <2>1. ASSUME NEW n \in 0 .. Len(lines)  PROVE some[n] = Body(some)[n]
    <3>1. CASE n = 0
      BY <1>2, <3>1 DEF Keeps
    <3>2. CASE n # 0
      <4>1. n \in 1 .. Len(lines)
        BY <3>2
      <4>2. QED
        BY <1>2, <3>2, <4>1 DEF Keeps
    <3>3. QED
      BY <3>1, <3>2
  <2>2. some \in [0 .. Len(lines) -> Seq(S)] /\ DOMAIN Body(some) = 0 .. Len(lines)
    BY <1>2 DEF Keeps
  <2>3. QED
    BY <2>1, <2>2
<1>4. kept = Body(kept)
  <2> HIDE DEF Body
  <2>1. \E f : f = Body(f)
    BY <1>3
  <2>2. QED
    BY <2>1
<1>5. Filter(viewer, lines) = kept[Len(lines)]
  BY DEF Filter
<1> HIDE DEF kept
<1>6. /\ DOMAIN kept = 0 .. Len(lines) /\ kept[0] = <<>>
      /\ \A n \in 1 .. Len(lines) :
           kept[n] = IF Shown(viewer, lines[n]) THEN Append(kept[n - 1], lines[n])
                     ELSE kept[n - 1]
  <2>1. DOMAIN Body(kept) = 0 .. Len(lines) /\ Body(kept)[0] = <<>>
    BY <1>1
  <2>2. ASSUME NEW n \in 1 .. Len(lines)
        PROVE  Body(kept)[n] = IF Shown(viewer, lines[n]) THEN Append(kept[n - 1], lines[n])
                               ELSE kept[n - 1]
    <3>1. n \in 0 .. Len(lines) /\ n # 0
      BY <1>1
    <3>2. QED
      BY <3>1
  <2> HIDE DEF Body
  <2>3. QED
    BY <1>4, <2>1, <2>2
<1>7. ASSUME NEW n \in 0 .. Len(lines)  PROVE kept[n] \in Seq(S)
  <2> DEFINE Untyped == {l \in 0 .. Len(lines) : kept[l] \notin Seq(S)}
  <2>1. SUFFICES ASSUME Untyped # {}  PROVE FALSE
    OBVIOUS
  <2>2. Untyped \in SUBSET Nat
    BY <1>1
  <2>3. PICK m \in Untyped : \A l \in Untyped : m <= l
    BY <2>1, <2>2, LeastNumber
  <2>4. m # 0
    <3>1. <<>> \in Seq(S)
      OBVIOUS
    <3>2. kept[m] \notin Seq(S)
      OBVIOUS
    <3>3. QED
      BY <1>6, <3>1, <3>2
  <2>5. m \in 1 .. Len(lines) /\ m - 1 \in 0 .. Len(lines) /\ m - 1 < m /\ lines[m] \in S
    BY <1>1, <2>4
  <2>6. kept[m - 1] \in Seq(S)
    BY <2>3, <2>5
  <2>7. Append(kept[m - 1], lines[m]) \in Seq(S)
    BY <2>5, <2>6
  <2>8. kept[m] \in Seq(S)
    BY <1>6, <2>5, <2>6, <2>7
  <2>9. QED
    BY <2>8
<1>8. kept \in [0 .. Len(lines) -> Seq(S)]
  <2>1. kept = [n \in 0 .. Len(lines) |-> kept[n]]
    BY <1>4, <1>6
  <2>2. QED
    BY <1>7, <2>1
<1>9. Keeps(S, viewer, lines, Len(lines), kept)
  BY <1>6, <1>8 DEF Keeps
<1>10. QED
  BY <1>5, <1>9

LEMMA FilterTyping ==
  ASSUME NEW S, NEW viewer, NEW lines \in Seq(S)
  PROVE  Filter(viewer, lines) \in Seq(S)
<1>1. PICK kept : /\ Keeps(S, viewer, lines, Len(lines), kept)
                  /\ Filter(viewer, lines) = kept[Len(lines)]
  BY FilterKeeps
<1>2. Len(lines) \in 0 .. Len(lines)
  OBVIOUS
<1>3. QED
  BY <1>1, <1>2 DEF Keeps

LEMMA FilterAgrees ==
  ASSUME NEW S, NEW viewer, NEW other, NEW lines \in Seq(S),
         \A line \in S : Shown(viewer, line) <=> Shown(other, line)
  PROVE  Filter(viewer, lines) = Filter(other, lines)
<1>1. PICK kept : /\ Keeps(S, viewer, lines, Len(lines), kept)
                  /\ Filter(viewer, lines) = kept[Len(lines)]
  BY FilterKeeps
<1>2. PICK also : /\ Keeps(S, other, lines, Len(lines), also)
                  /\ Filter(other, lines) = also[Len(lines)]
  BY FilterKeeps
<1>3. Len(lines) \in Nat /\ Len(lines) <= Len(lines)
  OBVIOUS
<1>4. kept[Len(lines)] = also[Len(lines)]
  BY <1>1, <1>2, <1>3, KeepsAgree
<1>5. QED
  BY <1>1, <1>2, <1>4

LEMMA AppendToConcat ==
  ASSUME NEW S, NEW s \in Seq(S), NEW t \in Seq(S), NEW e \in S
  PROVE  s \o Append(t, e) = Append(s \o t, e)
<1> DEFINE a == s \o Append(t, e)
           b == Append(s \o t, e)
           n == Len(s) + Len(t) + 1
<1>1. Append(t, e) \in Seq(S) /\ s \o t \in Seq(S)
  OBVIOUS
<1>2. /\ a \in Seq(S) /\ Len(a) = n /\ \A i \in 1 .. Len(s) : a[i] = s[i]
      /\ \A i \in 1 .. Len(t) : a[Len(s) + i] = t[i]
      /\ a[n] = e
  BY <1>1
<1>3. /\ b \in Seq(S) /\ Len(b) = n /\ \A i \in 1 .. Len(s) : b[i] = s[i]
      /\ \A i \in 1 .. Len(t) : b[Len(s) + i] = t[i]
      /\ b[n] = e
  BY <1>1
<1> HIDE DEF a, b
<1>4. ASSUME NEW i \in 1 .. n  PROVE a[i] = b[i]
  <2>1. CASE i \in 1 .. Len(s)
    BY <1>2, <1>3, <2>1
  <2>2. CASE i \in Len(s) + 1 .. Len(s) + Len(t)
    <3>1. i - Len(s) \in 1 .. Len(t) /\ i = Len(s) + (i - Len(s))
      BY <2>2
    <3>2. QED
      BY <1>2, <1>3, <3>1
  <2>3. CASE i = n
    BY <1>2, <1>3, <2>3
  <2>4. QED
    BY <2>1, <2>2, <2>3
<1>5. a = b
  BY <1>2, <1>3, <1>4, SeqEqual
<1>6. QED
  BY <1>5 DEF a, b

(* Filter distributes over concatenation, so that a viewer may append what *)
(* it shows of a batch.                                                    *)
LEMMA FilterConcat ==
  ASSUME NEW S, NEW viewer, NEW lines \in Seq(S), NEW batch \in Seq(S)
  PROVE  Filter(viewer, lines \o batch) = Filter(viewer, lines) \o Filter(viewer, batch)
<1> DEFINE l == Len(lines)
           b == Len(batch)
           all == lines \o batch
<1>1. /\ l \in Nat /\ b \in Nat /\ all \in Seq(S) /\ Len(all) = l + b
      /\ \A n \in 1 .. l : all[n] = lines[n]
      /\ \A n \in 1 .. b : all[l + n] = batch[n]
  OBVIOUS
<1>2. PICK kept : Keeps(S, viewer, lines, l, kept) /\ Filter(viewer, lines) = kept[l]
  BY FilterKeeps
<1>3. PICK more : Keeps(S, viewer, batch, b, more) /\ Filter(viewer, batch) = more[b]
  BY FilterKeeps
<1>4. PICK whole : /\ Keeps(S, viewer, all, Len(all), whole)
                   /\ Filter(viewer, all) = whole[Len(all)]
  BY <1>1, FilterKeeps, ZenonT(40)
<1> DEFINE joined == [n \in 0 .. l + b |-> IF n <= l THEN kept[n] ELSE kept[l] \o more[n - l]]
<1> HIDE DEF all, l, b
<1>5. kept[l] \in Seq(S) /\ more[b] \in Seq(S) /\ more[0] = <<>> /\ kept[0] = <<>>
  BY <1>1, <1>2, <1>3 DEF Keeps
<1>6. joined \in [0 .. l + b -> Seq(S)]
  <2>1. ASSUME NEW n \in 0 .. l + b
        PROVE  (IF n <= l THEN kept[n] ELSE kept[l] \o more[n - l]) \in Seq(S)
    <3>1. CASE n <= l
      <4>1. n \in 0 .. l
        BY <1>1, <3>1
      <4>2. QED
        BY <1>2, <3>1, <4>1 DEF Keeps
    <3>2. CASE ~(n <= l)
      <4>1. n - l \in 0 .. b
        BY <1>1, <3>2
      <4>2. more[n - l] \in Seq(S)
        BY <1>3, <4>1 DEF Keeps
      <4>3. kept[l] \o more[n - l] \in Seq(S)
        BY <1>5, <4>2
      <4>4. QED
        BY <3>2, <4>3
    <3>3. QED
      BY <3>1, <3>2
  <2>2. QED
    BY <2>1
<1>7. \A n \in 0 .. l : joined[n] = kept[n]
  BY <1>1
<1>8. ASSUME NEW n \in 0 .. b  PROVE joined[l + n] = kept[l] \o more[n]
  <2>1. l + n \in 0 .. l + b /\ (l + n) - l = n
    BY <1>1
  <2>2. CASE n = 0
    <3>1. l + n <= l /\ l + n = l
      BY <1>1, <2>2
    <3>2. kept[l] \o <<>> = kept[l]
      BY <1>5
    <3>3. QED
      BY <1>5, <2>1, <2>2, <3>1, <3>2
  <2>3. CASE n # 0
    <3>1. ~(l + n <= l)
      BY <1>1, <2>3
    <3>2. QED
      BY <2>1, <3>1
  <2>4. QED
    BY <2>2, <2>3
<1> HIDE DEF joined
<1>9. ASSUME NEW n \in 1 .. l + b
      PROVE  joined[n] = IF Shown(viewer, all[n]) THEN Append(joined[n - 1], all[n])
                         ELSE joined[n - 1]
  <2>1. CASE n <= l
    <3>1. n \in 1 .. l /\ n \in 0 .. l /\ n - 1 \in 0 .. l
      BY <1>1, <2>1
    <3>2. joined[n] = kept[n] /\ joined[n - 1] = kept[n - 1] /\ all[n] = lines[n]
      BY <1>1, <1>7, <3>1
    <3>3. QED
      BY <1>2, <3>1, <3>2 DEF Keeps
  <2>2. CASE ~(n <= l)
    <3>1. PICK i \in 1 .. b : n = l + i
      <4>1. n - l \in 1 .. b /\ n = l + (n - l)
        BY <1>1, <2>2
      <4>2. QED
        BY <4>1
    <3>2. i \in 0 .. b /\ i - 1 \in 0 .. b /\ n - 1 = l + (i - 1)
      BY <1>1, <3>1
    <3>3. /\ joined[n] = kept[l] \o more[i] /\ joined[n - 1] = kept[l] \o more[i - 1]
          /\ all[n] = batch[i]
      BY <1>1, <1>8, <3>1, <3>2
    <3>4. /\ more[i] = IF Shown(viewer, batch[i]) THEN Append(more[i - 1], batch[i])
                       ELSE more[i - 1]
          /\ more[i - 1] \in Seq(S)
      BY <1>3, <3>2 DEF Keeps
    <3>5. batch[i] \in S
      BY <3>1 DEF b
    <3>6. kept[l] \o Append(more[i - 1], batch[i]) = Append(kept[l] \o more[i - 1], batch[i])
      <4>1. \A r, t \in Seq(S) : \A e \in S : r \o Append(t, e) = Append(r \o t, e)
        BY AppendToConcat
      <4>2. QED
        BY <1>5, <3>4, <3>5, <4>1
    <3>7. QED
      BY <3>3, <3>4, <3>6
  <2>3. QED
    BY <2>1, <2>2
<1>10. Keeps(S, viewer, all, l + b, joined)
  <2>1. joined[0] = <<>>
    BY <1>1, <1>5, <1>7
  <2>2. QED
    BY <1>6, <1>9, <2>1 DEF Keeps
<1>11. whole[l + b] = joined[l + b]
  <2>1. l + b \in Nat /\ l + b <= Len(all) /\ Keeps(S, viewer, all, l + b, whole)
    BY <1>1, <1>4
  <2>2. QED
    BY <1>1, <1>10, <2>1, KeepsAgree
<1>12. joined[l + b] = kept[l] \o more[b]
  <2>1. b \in 0 .. b
    BY <1>1
  <2>2. QED
    BY <1>8, <2>1
<1>13. QED
  BY <1>1, <1>2, <1>3, <1>4, <1>11, <1>12 DEF all

LEMMA FilterAll ==
  ASSUME NEW S, NEW viewer, NEW lines \in Seq(S), \A line \in S : Shown(viewer, line)
  PROVE  Filter(viewer, lines) = lines
<1> DEFINE firsts == [n \in 0 .. Len(lines) |-> [i \in 1 .. n |-> lines[i]]]
<1>1. PICK kept : /\ Keeps(S, viewer, lines, Len(lines), kept)
                  /\ Filter(viewer, lines) = kept[Len(lines)]
  BY FilterKeeps
<1>2. ASSUME NEW n \in 0 .. Len(lines)
      PROVE  /\ [i \in 1 .. n |-> lines[i]] \in Seq(S)
             /\ Len([i \in 1 .. n |-> lines[i]]) = n
  <2>1. n \in Nat /\ \A i \in 1 .. n : lines[i] \in S
    OBVIOUS
  <2>2. QED
    BY <2>1
<1>3. \A n \in 0 .. Len(lines) : firsts[n] = [i \in 1 .. n |-> lines[i]]
  OBVIOUS
<1>4. firsts \in [0 .. Len(lines) -> Seq(S)]
  BY <1>2
<1> HIDE DEF firsts
<1>5. ASSUME NEW n \in 1 .. Len(lines)
      PROVE  firsts[n] = Append(firsts[n - 1], lines[n])
  <2>1. n \in 0 .. Len(lines) /\ n - 1 \in 0 .. Len(lines) /\ lines[n] \in S
    OBVIOUS
  <2>2. /\ firsts[n] = [i \in 1 .. n |-> lines[i]] /\ firsts[n] \in Seq(S)
        /\ firsts[n - 1] = [i \in 1 .. n - 1 |-> lines[i]] /\ firsts[n - 1] \in Seq(S)
        /\ Len(firsts[n]) = n /\ Len(firsts[n - 1]) = n - 1
    BY <1>2, <1>3, <2>1
  <2>3. /\ Append(firsts[n - 1], lines[n]) \in Seq(S)
        /\ Len(Append(firsts[n - 1], lines[n])) = n
        /\ Append(firsts[n - 1], lines[n])[n] = lines[n]
        /\ \A i \in 1 .. n - 1 : Append(firsts[n - 1], lines[n])[i] = firsts[n - 1][i]
    BY <2>1, <2>2
  <2>4. \A i \in 1 .. n : firsts[n][i] = Append(firsts[n - 1], lines[n])[i]
    BY <2>2, <2>3
  <2>5. QED
    BY <2>2, <2>3, <2>4, SeqEqual
<1>6. Keeps(S, viewer, lines, Len(lines), firsts)
  <2>1. firsts[0] = <<>>
    <3>1. 0 \in 0 .. Len(lines)
      OBVIOUS
    <3>2. firsts[0] \in Seq(S) /\ Len(firsts[0]) = 0
      BY <1>2, <1>3, <3>1
    <3>3. QED
      BY <3>2, EmptySeq
  <2>2. \A n \in 1 .. Len(lines) : Shown(viewer, lines[n])
    OBVIOUS
  <2>3. QED
    BY <1>4, <1>5, <2>1, <2>2 DEF Keeps
<1>7. kept[Len(lines)] = firsts[Len(lines)]
  BY <1>1, <1>6, KeepsAgree
<1>8. firsts[Len(lines)] = lines
  BY <1>3
<1>9. QED
  BY <1>1, <1>7, <1>8

-----------------------------------------------------------------------------
(* The inductive invariant *)

ViewersOK == logViewers \in [Jobs -> Viewers] /\ FilteredIsFilter

ObjectsOK ==
  /\ objects \in Seq(StateObjects) /\ Len(objects) <= MaxConnects
  /\ \A o \in Objects : objects[o].got <= Length[objects[o].id]
  /\ connectionStates \in [Jobs -> {None} \cup Objects]
  /\ connections \in [Jobs -> {None} \cup Objects]
  /\ errors \in 0 .. MaxErrors

(* A current object is on its way in one way.                              *)
OneWay(object) ==
  /\ object.isConnecting
  /\ object.source \in Live \/ object.deferred \/ object.retryTimeout
  /\ object.source \in Live => ~object.deferred /\ ~object.retryTimeout
  /\ object.deferred => ~object.retryTimeout

(* What is left of an object that is no longer current.                    *)
Ended(object) ==
  /\ object.source \notin Live /\ ~object.retryTimeout
  /\ object.isConnecting => ~object.deferred
  /\ ~object.isConnecting => object.messageBuffer = <<>> /\ ~object.batchTimeout

(* The objects of one id.                                                  *)
ConnectionOK(j) ==
  /\ connectionStates[j] # None => objects[connectionStates[j]].id = j
  /\ connections[j] # None =>
       objects[connections[j]].id = j /\ objects[connections[j]].source \in Live
  /\ \A o \in Objects :
       objects[o].id = j =>
         /\ objects[o].source \in Live => connections[j] = o
         /\ connectionStates[j] = o => OneWay(objects[o])
         /\ connectionStates[j] # o => Ended(objects[o])

ConnectionsInv == ObjectsOK /\ \A j \in Jobs : ConnectionOK(j)

-----------------------------------------------------------------------------
(* The viewers *)

LEMMA FlushedTyping ==
  ASSUME ObjectsOK, NEW j \in Jobs
  PROVE  Flushed(j) \in Seq(LogLines)
<1>1. CASE connectionStates[j] = None
  <2>1. <<>> \in Seq(LogLines)
    OBVIOUS
  <2>2. QED
    BY <1>1, <2>1 DEF Flushed
<1>2. CASE connectionStates[j] # None
  <2>1. connectionStates[j] \in Objects
    BY <1>2 DEF ObjectsOK
  <2>2. objects[connectionStates[j]] \in StateObjects
    BY <2>1 DEF ObjectsOK, Objects
  <2>3. QED
    BY <1>2, <2>2 DEF Flushed, StateObjects
<1>3. QED
  BY <1>1, <1>2

LEMMA AppendedOK ==
  ASSUME NEW viewer \in Viewers, viewer.filteredLogs = Filter(viewer, viewer.logs),
         NEW batch \in Seq(LogLines)
  PROVE  /\ Appended(viewer, batch) \in Viewers
         /\ Appended(viewer, batch).filteredLogs =
              Filter(Appended(viewer, batch), Appended(viewer, batch).logs)
<1> DEFINE logs == viewer.logs \o batch
           filtered == IF viewer.showDebugLogs /\ ~viewer.search THEN logs
                       ELSE viewer.filteredLogs \o Filter(viewer, batch)
           after == [viewer EXCEPT !.logs = logs, !.filteredLogs = filtered]
<1>1. Appended(viewer, batch) = after
  BY DEF Appended, Viewers
<1>2. viewer.logs \in Seq(LogLines) /\ viewer.filteredLogs \in Seq(LogLines)
  BY DEF Viewers
<1>3. logs \in Seq(LogLines)
  BY <1>2
<1>4. Filter(viewer, batch) \in Seq(LogLines)
  BY FilterTyping
<1>5. filtered \in Seq(LogLines)
  BY <1>2, <1>3, <1>4
<1>6. filtered = Filter(viewer, logs)
  <2>1. CASE viewer.showDebugLogs /\ ~viewer.search
    <3>1. \A line \in LogLines : Shown(viewer, line)
      BY <2>1 DEF Shown
    <3>2. Filter(viewer, logs) = logs
      BY <1>3, <3>1, FilterAll
    <3>3. QED
      BY <2>1, <3>2
  <2>2. CASE ~(viewer.showDebugLogs /\ ~viewer.search)
    <3>1. ASSUME NEW lines \in Seq(LogLines)
          PROVE  Filter(viewer, lines \o batch) = Filter(viewer, lines) \o Filter(viewer, batch)
      BY FilterConcat
    <3>2. Filter(viewer, logs) = Filter(viewer, viewer.logs) \o Filter(viewer, batch)
      BY <1>2, <3>1
    <3>3. QED
      BY <2>2, <3>2
  <2>3. QED
    BY <2>1, <2>2
<1> HIDE DEF logs, filtered
<1>7. /\ after \in Viewers /\ after.logs = logs /\ after.filteredLogs = filtered
      /\ after.showDebugLogs = viewer.showDebugLogs /\ after.search = viewer.search
  BY <1>3, <1>5 DEF Viewers
<1> HIDE DEF after
<1>8. \A line \in LogLines : Shown(viewer, line) <=> Shown(after, line)
  BY <1>7 DEF Shown
<1>9. Filter(viewer, logs) = Filter(after, logs)
  BY <1>3, <1>8, FilterAgrees
<1>10. QED
  BY <1>1, <1>6, <1>7, <1>9

LEMMA SseMessagesOK ==
  ASSUME NEW viewers \in [Jobs -> Viewers], NEW batch \in Seq(LogLines),
         \A j \in Jobs : viewers[j].filteredLogs = Filter(viewers[j], viewers[j].logs)
  PROVE  /\ SseMessages(viewers, batch) \in [Jobs -> Viewers]
         /\ \A j \in Jobs : SseMessages(viewers, batch)[j].filteredLogs =
              Filter(SseMessages(viewers, batch)[j], SseMessages(viewers, batch)[j].logs)
<1>1. ASSUME NEW j \in Jobs
      PROVE  /\ SseMessages(viewers, batch)[j] \in Viewers
             /\ SseMessages(viewers, batch)[j].filteredLogs =
                  Filter(SseMessages(viewers, batch)[j], SseMessages(viewers, batch)[j].logs)
  <2>1. CASE viewers[j].open
    <3>1. SseMessages(viewers, batch)[j] = Appended(viewers[j], batch)
      BY <2>1 DEF SseMessages
    <3>2. viewers[j] \in Viewers
      OBVIOUS
    <3>3. QED
      BY <3>1, <3>2, AppendedOK
  <2>2. CASE ~viewers[j].open
    <3>1. SseMessages(viewers, batch)[j] = viewers[j]
      BY <2>2 DEF SseMessages
    <3>2. QED
      BY <3>1
  <2>3. QED
    BY <2>1, <2>2
<1>2. DOMAIN SseMessages(viewers, batch) = Jobs
      /\ SseMessages(viewers, batch) = [j \in Jobs |-> SseMessages(viewers, batch)[j]]
  BY DEF SseMessages
<1>3. QED
  BY <1>1, <1>2

LEMMA ShutOK ==
  ASSUME NEW shut \in {Shut, [Shut EXCEPT !.open = TRUE]}
  PROVE  shut \in Viewers /\ shut.filteredLogs = Filter(shut, shut.logs)
<1>1. <<>> \in Seq(LogLines) /\ <<>> \in Seq({})
  OBVIOUS
<1>2. shut \in Viewers /\ shut.filteredLogs = <<>> /\ shut.logs = <<>>
  <2> DEFINE empty == <<>>
             closed == [logs |-> empty, filteredLogs |-> empty, open |-> FALSE,
                        showDebugLogs |-> FALSE, search |-> FALSE]
             opened == [closed EXCEPT !.open = TRUE]
  <2>1. shut = closed \/ shut = opened
    BY DEF Shut
  <2>2. empty \in Seq(LogLines)
    OBVIOUS
  <2> HIDE DEF empty
  <2>3. closed \in Viewers /\ closed.filteredLogs = empty /\ closed.logs = empty
    BY <2>2 DEF Viewers
  <2>4. opened \in Viewers /\ opened.filteredLogs = empty /\ opened.logs = empty
    BY <2>2 DEF Viewers
  <2>5. QED
    BY <2>1, <2>3, <2>4 DEF empty
<1>3. Filter(shut, <<>>) = <<>>
  <2>1. \A line \in {} : Shown(shut, line)
    OBVIOUS
  <2> DEFINE empty == <<>>
             nothing == {}
  <2>2. empty \in Seq(nothing) /\ \A line \in nothing : Shown(shut, line)
    OBVIOUS
  <2> HIDE DEF empty, nothing
  <2>3. Filter(shut, empty) = empty
    BY <2>2, FilterAll
  <2>4. QED
    BY <2>3 DEF empty
<1>4. QED
  BY <1>2, <1>3

LEMMA RefilteredOK ==
  ASSUME NEW viewer \in Viewers
  PROVE  /\ applyFilters(viewer) \in Viewers
         /\ applyFilters(viewer).filteredLogs =
              Filter(applyFilters(viewer), applyFilters(viewer).logs)
<1> DEFINE filtered == Filter(viewer, viewer.logs)
<1>1. viewer.logs \in Seq(LogLines)
  BY DEF Viewers
<1>2. filtered \in Seq(LogLines)
  BY <1>1, FilterTyping
<1>3. applyFilters(viewer) = [viewer EXCEPT !.filteredLogs = filtered]
  BY DEF applyFilters
<1> DEFINE after == [viewer EXCEPT !.filteredLogs = filtered]
<1> HIDE DEF filtered
<1>4. /\ after \in Viewers /\ after.logs = viewer.logs /\ after.filteredLogs = filtered
      /\ after.showDebugLogs = viewer.showDebugLogs /\ after.search = viewer.search
  BY <1>2 DEF Viewers
<1> HIDE DEF after
<1>5. \A line \in LogLines : Shown(viewer, line) <=> Shown(after, line)
  BY <1>4 DEF Shown
<1>6. Filter(viewer, viewer.logs) = Filter(after, viewer.logs)
  BY <1>1, <1>5, FilterAgrees
<1>7. filtered = Filter(after, viewer.logs)
  BY <1>6 DEF filtered
<1>8. QED
  BY <1>3, <1>4, <1>7 DEF after

(* The effect of the actions on the viewers.                               *)
LEMMA ViewersStep ==
  ASSUME ViewersOK, ObjectsOK, [Next]_vars
  PROVE  ViewersOK'
<1> DEFINE OK(viewer) == viewer \in Viewers /\ viewer.filteredLogs = Filter(viewer, viewer.logs)
           AllOK(viewers) == viewers \in [Jobs -> Viewers] /\ \A j \in Jobs : OK(viewers[j])
           opened == [Shut EXCEPT !.open = TRUE]
<1>1. ViewersOK <=> AllOK(logViewers)
  BY DEF ViewersOK, FilteredIsFilter
<1>2. ViewersOK' <=> AllOK(logViewers')
  BY DEF ViewersOK, FilteredIsFilter
<1>3. OK(Shut) /\ OK(opened)
  BY ShutOK
<1>4. ASSUME NEW viewers, AllOK(viewers), NEW batch \in Seq(LogLines)
      PROVE  AllOK(SseMessages(viewers, batch))
  BY <1>4, SseMessagesOK
<1>5. ASSUME NEW viewers, AllOK(viewers), NEW viewer, OK(viewer), NEW j \in Jobs
      PROVE  AllOK([viewers EXCEPT ![j] = viewer])
  BY <1>5
<1> HIDE DEF OK
<1>6. ASSUME NEW viewer \in Viewers  PROVE OK(applyFilters(viewer))
  BY RefilteredOK DEF OK
<1>7. \A j \in Jobs : logViewers[j] \in Viewers
  BY DEF ViewersOK
<1> HIDE DEF opened
<1>8. CASE UNCHANGED logViewers
  BY <1>1, <1>2, <1>8
<1>9. ASSUME NEW j \in Jobs, OpenViewer(j)  PROVE ViewersOK'
  <2>1. Flushed(j) \in Seq(LogLines)
    BY FlushedTyping
  <2>2. AllOK([logViewers EXCEPT ![j] = opened]) /\ AllOK(logViewers)
    BY <1>1, <1>3, <1>5
  <2> HIDE DEF AllOK
  <2>3. \/ logViewers' = SseMessages([logViewers EXCEPT ![j] = opened], Flushed(j))
        \/ logViewers' = [SseMessages(logViewers, Flushed(j)) EXCEPT
                            ![j] = [logViewers EXCEPT ![j] = opened][j]]
    BY <1>9 DEF OpenViewer, opened
  <2>4. [logViewers EXCEPT ![j] = opened][j] = opened
    BY DEF ViewersOK
  <2>5. CASE logViewers' = SseMessages([logViewers EXCEPT ![j] = opened], Flushed(j))
    BY <1>2, <1>4, <2>1, <2>2, <2>5
  <2>6. CASE logViewers' = [SseMessages(logViewers, Flushed(j)) EXCEPT ![j] = opened]
    <3>1. AllOK(SseMessages(logViewers, Flushed(j)))
      BY <1>4, <2>1, <2>2
    <3>2. AllOK([SseMessages(logViewers, Flushed(j)) EXCEPT ![j] = opened])
      BY <1>3, <1>5, <3>1
    <3>3. QED
      BY <1>2, <2>6, <3>2
  <2>7. QED
    BY <2>3, <2>4, <2>5, <2>6
<1>10. ASSUME NEW j \in Jobs, CloseViewer(j)  PROVE ViewersOK'
  <2>1. Flushed(j) \in Seq(LogLines)
    BY FlushedTyping
  <2>2. AllOK([logViewers EXCEPT ![j] = Shut])
    BY <1>1, <1>3, <1>5
  <2> HIDE DEF AllOK
  <2>3. logViewers' = SseMessages([logViewers EXCEPT ![j] = Shut], Flushed(j))
    BY <1>10 DEF CloseViewer
  <2>4. QED
    BY <1>2, <1>4, <2>1, <2>2, <2>3
<1>11. ASSUME NEW j \in Jobs, SetSearch(j)  PROVE ViewersOK'
  <2> DEFINE searched == [logViewers[j] EXCEPT !.search = ~logViewers[j].search]
  <2>1. searched \in Viewers
    BY <1>7 DEF Viewers
  <2>2. logViewers' = [logViewers EXCEPT ![j] = applyFilters(searched)]
    BY <1>11 DEF SetSearch
  <2> HIDE DEF searched
  <2>3. OK(applyFilters(searched))
    BY <1>6, <2>1
  <2> HIDE DEF AllOK
  <2>4. QED
    BY <1>1, <1>2, <1>5, <2>2, <2>3
<1>12. ASSUME NEW j \in Jobs, ToggleDebugLogs(j)  PROVE ViewersOK'
  <2> DEFINE toggled == [logViewers[j] EXCEPT !.showDebugLogs = ~logViewers[j].showDebugLogs]
  <2>1. toggled \in Viewers
    BY <1>7 DEF Viewers
  <2>2. logViewers' = [logViewers EXCEPT ![j] = applyFilters(toggled)]
    BY <1>12 DEF ToggleDebugLogs
  <2> HIDE DEF toggled
  <2>3. OK(applyFilters(toggled))
    BY <1>6, <2>1
  <2> HIDE DEF AllOK
  <2>4. QED
    BY <1>1, <1>2, <1>5, <2>2, <2>3
<1>13. CASE LeavePage
  <2>1. logViewers' = [j \in Jobs |-> Shut]
    BY <1>13 DEF LeavePage
  <2>2. AllOK([j \in Jobs |-> Shut])
    <3>1. Shut \in Viewers
      BY <1>3 DEF OK
    <3>2. QED
      BY <1>3, <3>1
  <2>3. QED
    BY <1>2, <2>1, <2>2
<1>14. ASSUME NEW o \in Objects, SendBatch(o)  PROVE ViewersOK'
  <2>1. logViewers' = SseMessages(logViewers, objects[o].messageBuffer)
    BY <1>14 DEF SendBatch
  <2>2. objects[o] \in StateObjects
    BY DEF ObjectsOK, Objects
  <2>3. objects[o].messageBuffer \in Seq(LogLines)
    BY <2>2 DEF StateObjects
  <2> HIDE DEF AllOK
  <2>4. QED
    BY <1>1, <1>2, <1>4, <2>1, <2>3
<1>15. ASSUME NEW o \in Objects,
              \/ CreateSource(o) \/ CreateFails(o) \/ Retry(o) \/ OnOpen(o) \/ OnMessage(o)
              \/ OnError(o)
       PROVE  UNCHANGED logViewers
  BY <1>15 DEF CreateSource, CreateFails, Retry, OnOpen, OnMessage, OnError
<1>16. CASE UNCHANGED vars
  <2>1. UNCHANGED logViewers
    BY <1>16 DEF vars
  <2>2. QED
    BY <1>8, <2>1
<1>17. CASE Next
  <2> HIDE DEF AllOK
  <2>1. QED
    BY <1>8, <1>9, <1>10, <1>11, <1>12, <1>13, <1>14, <1>15, <1>17, LogViewersAssumption
       DEF Next
<1>18. QED
  BY <1>16, <1>17

-----------------------------------------------------------------------------
(* The connections *)

(* Changes of the objects of one id.                                       *)
LEMMA OneId ==
  ASSUME ConnectionsInv, ObjectsOK', NEW j \in Jobs, ConnectionOK(j)',
         Len(objects) <= Len(objects'),
         \A o \in Objects : objects'[o].id = objects[o].id,
         \A o \in Objects : objects[o].id # j => objects'[o] = objects[o],
         \A o \in Objects' : o \in Objects \/ objects'[o].id = j,
         \A k \in Jobs \ {j} : connectionStates'[k] = connectionStates[k],
         \A k \in Jobs \ {j} : connections'[k] = connections[k]
  PROVE  ConnectionsInv'
<1>1. ASSUME NEW k \in Jobs \ {j}  PROVE ConnectionOK(k)'
  <2>1. connectionStates'[k] = connectionStates[k] /\ connections'[k] = connections[k]
    OBVIOUS
  <2>2. ConnectionOK(k) /\ connectionStates[k] \in {None} \cup Objects
        /\ connections[k] \in {None} \cup Objects
    BY DEF ConnectionsInv, ObjectsOK
  <2>3. ASSUME NEW o \in Objects, objects[o].id = k  PROVE objects'[o] = objects[o]
    BY <2>3
  <2>4. connectionStates[k] # None => objects'[connectionStates[k]].id = k
    BY <2>2 DEF ConnectionOK
  <2>5. connections[k] # None =>
          objects'[connections[k]].id = k /\ objects'[connections[k]].source \in Live
    BY <2>2, <2>3 DEF ConnectionOK
  <2>6. ASSUME NEW o \in Objects', objects'[o].id = k
        PROVE  /\ objects'[o].source \in Live => connections[k] = o
               /\ connectionStates[k] = o => OneWay(objects'[o])
               /\ connectionStates[k] # o => Ended(objects'[o])
    <3>1. o \in Objects /\ objects[o].id = k
      BY <2>6
    <3>2. objects'[o] = objects[o]
      BY <2>3, <3>1
    <3>3. QED
      BY <2>2, <3>1, <3>2 DEF ConnectionOK
  <2>7. QED
    BY <2>1, <2>4, <2>5, <2>6 DEF ConnectionOK
<1>2. QED
  BY <1>1 DEF ConnectionsInv

(* Each object is replaced by one of the same id.                          *)
LEMMA MappedObjects ==
  ASSUME ObjectsOK, NEW f, objects' = [o \in Objects |-> f[o]],
         \A o \in Objects : f[o] \in StateObjects,
         \A o \in Objects : f[o].id = objects[o].id /\ f[o].got <= Length[f[o].id]
  PROVE  /\ objects' \in Seq(StateObjects) /\ Len(objects') = Len(objects)
         /\ Objects' = Objects /\ Len(objects') <= MaxConnects
         /\ \A o \in Objects : objects'[o] = f[o]
         /\ \A o \in Objects' : objects'[o].got <= Length[objects'[o].id]
<1>1. Objects = 1 .. Len(objects) /\ Len(objects) \in Nat
  BY DEF Objects, ObjectsOK
<1>2. objects' \in [1 .. Len(objects) -> StateObjects]
  BY <1>1
<1>3. objects' \in Seq(StateObjects) /\ Len(objects') = Len(objects)
  BY <1>1, <1>2, IsASeq, LenProperties
<1>4. Objects' = Objects
  BY <1>2, <1>1 DEF Objects
<1>5. QED
  BY <1>3, <1>4 DEF ObjectsOK

LEMMA UpdatedObject ==
  ASSUME ObjectsOK, NEW o \in Objects, NEW changed \in StateObjects, Update(o, changed),
         changed.id = objects[o].id, changed.got <= Length[changed.id]
  PROVE  /\ objects' \in Seq(StateObjects) /\ Len(objects') = Len(objects)
         /\ Objects' = Objects /\ Len(objects') <= MaxConnects
         /\ \A p \in Objects : objects'[p] = IF p = o THEN changed ELSE objects[p]
         /\ \A p \in Objects' : objects'[p].got <= Length[objects'[p].id]
<1> DEFINE f == [p \in Objects |-> IF p = o THEN changed ELSE objects[p]]
<1>1. objects' = [p \in Objects |-> f[p]]
  BY DEF Update, Objects
<1>2. ASSUME NEW p \in Objects
      PROVE  /\ f[p] \in StateObjects /\ f[p].id = objects[p].id
             /\ f[p].got <= Length[f[p].id]
    BY DEF ObjectsOK, Objects
<1>3. \A p \in Objects : f[p] = IF p = o THEN changed ELSE objects[p]
  OBVIOUS
<1> HIDE DEF f
<1>4. QED
  BY <1>1, <1>2, <1>3, MappedObjects

(* Changes of one object, and of the entries of its id.                    *)
LEMMA OneObject ==
  ASSUME ConnectionsInv, NEW o \in Objects, NEW changed \in StateObjects, Update(o, changed),
         changed.id = objects[o].id, changed.got <= Length[changed.id],
         NEW state \in {None, connectionStates[changed.id]},
         NEW connection \in {None, o, connections[changed.id]},
         connectionStates' = [connectionStates EXCEPT ![changed.id] = state],
         connections' = [connections EXCEPT ![changed.id] = connection],
         errors' \in 0 .. MaxErrors,
         changed.source \in Live <=> connection = o,
         connection = connections[changed.id] \/ connections[changed.id] \in {None, o},
         state = o => OneWay(changed),
         state # o => Ended(changed),
         state # connectionStates[changed.id] => connectionStates[changed.id] = o
  PROVE  ConnectionsInv'
<1> DEFINE j == changed.id
<1>1. /\ objects' \in Seq(StateObjects) /\ Len(objects') = Len(objects)
      /\ Objects' = Objects /\ Len(objects') <= MaxConnects
      /\ \A p \in Objects : objects'[p] = IF p = o THEN changed ELSE objects[p]
      /\ \A p \in Objects' : objects'[p].got <= Length[objects'[p].id]
  BY UpdatedObject DEF ConnectionsInv
<1>2. j \in Jobs
  BY DEF StateObjects
<1>3. /\ connectionStates \in [Jobs -> {None} \cup Objects]
      /\ connections \in [Jobs -> {None} \cup Objects]
      /\ ConnectionOK(j) /\ objects \in Seq(StateObjects)
  BY <1>2 DEF ConnectionsInv, ObjectsOK
<1>4. o # None /\ Objects = 1 .. Len(objects) /\ Len(objects) \in Nat
  BY <1>3 DEF Objects, None
<1>5. /\ connectionStates' \in [Jobs -> {None} \cup Objects]
      /\ connections' \in [Jobs -> {None} \cup Objects]
      /\ connectionStates'[j] = state /\ connections'[j] = connection
      /\ \A k \in Jobs \ {j} : connectionStates'[k] = connectionStates[k]
      /\ \A k \in Jobs \ {j} : connections'[k] = connections[k]
  BY <1>2, <1>3
<1>6. ObjectsOK'
  BY <1>1, <1>5 DEF ObjectsOK
<1>7. objects'[o] = changed /\ \A p \in Objects \ {o} : objects'[p] = objects[p]
  BY <1>1
<1>8. ConnectionOK(j)'
  <2>1. ASSUME connectionStates'[j] # None  PROVE objects'[connectionStates'[j]].id = j
    <3>1. connectionStates'[j] = connectionStates[j]
      BY <1>5, <2>1
    <3>2. connectionStates[j] \in Objects /\ objects[connectionStates[j]].id = j
      BY <1>2, <1>3, <2>1, <3>1 DEF ConnectionOK
    <3>3. QED
      BY <1>7, <3>1, <3>2
  <2>2. ASSUME connections'[j] # None
        PROVE  objects'[connections'[j]].id = j /\ objects'[connections'[j]].source \in Live
    <3>1. CASE connection = o
      BY <1>5, <1>7, <3>1
    <3>2. CASE connection # o
      <4>1. connections'[j] = connections[j] /\ connections[j] # None /\ connections[j] # o
        BY <1>5, <2>2, <3>2
      <4>2. /\ connections[j] \in Objects /\ objects[connections[j]].id = j
            /\ objects[connections[j]].source \in Live
        BY <1>2, <1>3, <4>1 DEF ConnectionOK
      <4>3. QED
        BY <1>7, <4>1, <4>2
    <3>3. QED
      BY <3>1, <3>2
  <2>3. ASSUME NEW p \in Objects, objects'[p].id = j
        PROVE  /\ objects'[p].source \in Live => connections'[j] = p
               /\ connectionStates'[j] = p => OneWay(objects'[p])
               /\ connectionStates'[j] # p => Ended(objects'[p])
    <3>1. CASE p = o
      BY <1>5, <1>7, <3>1
    <3>2. CASE p # o
      <4>1. objects'[p] = objects[p] /\ objects[p].id = j
        BY <1>7, <2>3, <3>2
      <4>2. /\ objects[p].source \in Live => connections[j] = p
            /\ connectionStates[j] = p => OneWay(objects[p])
            /\ connectionStates[j] # p => Ended(objects[p])
        BY <1>3, <4>1 DEF ConnectionOK
      <4>3. connections'[j] = connections[j] \/ connections[j] \in {None, o}
        BY <1>5
      <4>4. p # None
        BY <1>4 DEF None
      <4>5. connections[j] = p => connections'[j] = p
        BY <3>2, <4>3, <4>4
      <4>6. connectionStates'[j] = p <=> connectionStates[j] = p
        BY <1>5, <3>2, <4>4
      <4>7. QED
        BY <4>1, <4>2, <4>5, <4>6
    <3>3. QED
      BY <3>1, <3>2
  <2>4. QED
    BY <1>1, <2>1, <2>2, <2>3 DEF ConnectionOK
<1>9. \A p \in Objects : objects'[p].id = objects[p].id
  BY <1>1
<1>10. \A p \in Objects : objects[p].id # j => objects'[p] = objects[p]
  BY <1>1
<1> HIDE DEF j
<1>11. Len(objects) <= Len(objects') /\ \A p \in Objects' : p \in Objects
  BY <1>1, <1>4
<1>12. QED
  BY <1>2, <1>5, <1>6, <1>8, <1>9, <1>10, <1>11, OneId

(* What the invariant says of one object.                                  *)
LEMMA ObjectFacts ==
  ASSUME ConnectionsInv, NEW o \in Objects
  PROVE  LET id == objects[o].id IN
         /\ objects[o] \in StateObjects /\ id \in Jobs
         /\ objects[o].got <= Length[id] /\ errors \in 0 .. MaxErrors
         /\ connectionStates = [connectionStates EXCEPT ![id] = connectionStates[id]]
         /\ connections = [connections EXCEPT ![id] = connections[id]]
         /\ objects[o].source \in Live <=> connections[id] = o
         /\ connectionStates[id] = o => OneWay(objects[o])
         /\ connectionStates[id] # o => Ended(objects[o])
         /\ connections[id] \in {None, connectionStates[id]}
         /\ o # None
<1> DEFINE id == objects[o].id
<1>1. /\ objects \in Seq(StateObjects) /\ connectionStates \in [Jobs -> {None} \cup Objects]
      /\ connections \in [Jobs -> {None} \cup Objects] /\ errors \in 0 .. MaxErrors
      /\ objects[o].got <= Length[id]
  BY DEF ConnectionsInv, ObjectsOK
<1>2. objects[o] \in StateObjects
  BY <1>1 DEF Objects
<1>3. id \in Jobs
  BY <1>2 DEF StateObjects
<1>4. o # None
  BY <1>1 DEF None, Objects
<1>5. ConnectionOK(id)
  BY <1>3 DEF ConnectionsInv
<1>6. connectionStates = [connectionStates EXCEPT ![id] = connectionStates[id]]
      /\ connections = [connections EXCEPT ![id] = connections[id]]
  BY <1>1
<1>7. objects[o].source \in Live <=> connections[id] = o
  BY <1>4, <1>5 DEF ConnectionOK
<1>8. /\ connectionStates[id] = o => OneWay(objects[o])
      /\ connectionStates[id] # o => Ended(objects[o])
  BY <1>5 DEF ConnectionOK
<1>9. ASSUME connections[id] # None  PROVE connections[id] = connectionStates[id]
  <2>1. /\ connections[id] \in Objects /\ objects[connections[id]].id = id
        /\ objects[connections[id]].source \in Live
    BY <1>1, <1>3, <1>5, <1>9 DEF ConnectionOK
  <2>2. connectionStates[id] # connections[id] => Ended(objects[connections[id]])
    BY <1>5, <2>1 DEF ConnectionOK
  <2>3. QED
    BY <2>1, <2>2 DEF Ended
<1>10. QED
  BY <1>1, <1>2, <1>3, <1>4, <1>6, <1>7, <1>8, <1>9

(* A change that leaves the entries of the id alone.                       *)
LEMMA SameEntries ==
  ASSUME ConnectionsInv, NEW o \in Objects, NEW changed \in StateObjects, Update(o, changed),
         changed.id = objects[o].id, changed.got <= Length[changed.id],
         UNCHANGED <<connectionStates, connections>>, errors' \in 0 .. MaxErrors,
         changed.source \in Live <=> objects[o].source \in Live,
         OneWay(objects[o]) => OneWay(changed),
         Ended(objects[o]) => Ended(changed)
  PROVE  ConnectionsInv'
<1> DEFINE id == changed.id
           state == connectionStates[id]
           connection == connections[id]
<1>1. /\ connectionStates = [connectionStates EXCEPT ![id] = state]
      /\ connections = [connections EXCEPT ![id] = connection]
      /\ changed.source \in Live <=> connection = o
      /\ state = o => OneWay(changed)
      /\ state # o => Ended(changed)
  BY ObjectFacts
<1>2. /\ state \in {None, connectionStates[changed.id]}
      /\ connection \in {None, o, connections[changed.id]}
      /\ connection = connections[changed.id] /\ state = connectionStates[changed.id]
  OBVIOUS
<1>3. /\ connectionStates' = [connectionStates EXCEPT ![changed.id] = state]
      /\ connections' = [connections EXCEPT ![changed.id] = connection]
  BY <1>1
<1> HIDE DEF id, state, connection
<1>4. QED
  BY <1>1, <1>2, <1>3, OneObject

LEMMA CreateSourceOK ==
  ASSUME ConnectionsInv, NEW o \in Objects, CreateSource(o)
  PROVE  ConnectionsInv'
<1> DEFINE state == objects[o]
           id == objects[o].id
           created == [state EXCEPT !.deferred = FALSE, !.source = "connecting", !.got = 0]
           stopped == [state EXCEPT !.deferred = FALSE]
<1>1. /\ state \in StateObjects /\ id \in Jobs
      /\ state.got <= Length[id] /\ errors \in 0 .. MaxErrors
      /\ connectionStates = [connectionStates EXCEPT ![id] = connectionStates[id]]
      /\ connections = [connections EXCEPT ![id] = connections[id]]
      /\ state.source \in Live <=> connections[id] = o
      /\ connectionStates[id] = o => OneWay(state)
      /\ connectionStates[id] # o => Ended(state)
      /\ connections[id] \in {None, connectionStates[id]} /\ o # None
  BY ObjectFacts
<1>2. state.deferred /\ UNCHANGED <<connectionStates, errors>>
  BY DEF CreateSource
<1>3. CASE state.isConnecting
  <2>1. Update(o, created) /\ connections' = [connections EXCEPT ![id] = o]
    BY <1>3 DEF CreateSource
  <2>2. connectionStates[id] = o
    BY <1>1, <1>2, <1>3 DEF Ended
  <2>3. state.source \notin Live /\ ~state.retryTimeout
    BY <1>1, <1>2, <2>2 DEF OneWay
  <2> HIDE DEF state
  <2>4. /\ created \in StateObjects /\ created.id = state.id /\ created.got = 0
        /\ created.isConnecting = state.isConnecting /\ ~created.deferred
        /\ created.retryTimeout = state.retryTimeout /\ created.source = "connecting"
    BY <1>1 DEF StateObjects, Sources, Live
  <2> HIDE DEF created
  <2>5. OneWay(created) /\ created.source \in Live
    BY <1>3, <2>3, <2>4 DEF OneWay, Live
  <2>6. created.got <= Length[created.id] /\ state.id = id
    BY <1>1, <2>4, LogViewersAssumption DEF state
  <2>7. connections[id] \in {None, o}
    BY <1>1, <2>2
  <2> HIDE DEF id
  <2>8. /\ created.id = objects[o].id /\ created.id = id
        /\ o \in {None, connectionStates[created.id]}
        /\ o \in {None, o, connections[created.id]}
        /\ connectionStates' = [connectionStates EXCEPT ![created.id] = o]
        /\ connections' = [connections EXCEPT ![created.id] = o]
        /\ errors' \in 0 .. MaxErrors
        /\ connectionStates[created.id] = o
    BY <1>1, <1>2, <2>1, <2>2, <2>4, <2>6 DEF state
  <2>9. QED
    BY <2>1, <2>4, <2>5, <2>6, <2>7, <2>8, OneObject
<1>4. CASE ~state.isConnecting
  <2>1. Update(o, stopped) /\ connections' = connections
    BY <1>4 DEF CreateSource
  <2> HIDE DEF state
  <2>2. /\ stopped \in StateObjects /\ stopped.id = state.id /\ stopped.got = state.got
        /\ stopped.isConnecting = state.isConnecting /\ ~stopped.deferred
        /\ stopped.retryTimeout = state.retryTimeout /\ stopped.source = state.source
        /\ stopped.messageBuffer = state.messageBuffer
        /\ stopped.batchTimeout = state.batchTimeout
    BY <1>1 DEF StateObjects
  <2> HIDE DEF stopped
  <2>3. /\ OneWay(state) => OneWay(stopped)
        /\ Ended(state) => Ended(stopped)
    BY <1>4, <2>2 DEF Ended, OneWay
  <2>4. stopped.got <= Length[stopped.id] /\ errors' \in 0 .. MaxErrors
    BY <1>1, <1>2, <2>2 DEF state
  <2>5. QED
    BY <1>2, <2>1, <2>2, <2>3, <2>4, SameEntries DEF state
<1>5. QED
  BY <1>3, <1>4

LEMMA OnOpenOK ==
  ASSUME ConnectionsInv, NEW o \in Objects, OnOpen(o)
  PROVE  ConnectionsInv'
<1> DEFINE state == objects[o]
           changed == [state EXCEPT !.source = "open"]
<1>1. /\ state \in StateObjects /\ state.id \in Jobs
      /\ state.got <= Length[state.id] /\ errors \in 0 .. MaxErrors
  BY ObjectFacts
<1>2. /\ Update(o, changed) /\ UNCHANGED <<connectionStates, connections, errors>>
      /\ state.source = "connecting"
  BY DEF OnOpen
<1> HIDE DEF state
<1>4. changed \in StateObjects /\ changed.id = state.id
      /\ changed.got = state.got /\ changed.source = "open"
      /\ changed.isConnecting = state.isConnecting /\ changed.deferred = state.deferred
      /\ changed.retryTimeout = state.retryTimeout
  BY <1>1 DEF StateObjects, Sources, Live
<1> HIDE DEF changed
<1>5. /\ changed.source \in Live <=> state.source \in Live
      /\ OneWay(state) => OneWay(changed)
      /\ Ended(state) => Ended(changed)
  BY <1>2, <1>4 DEF OneWay, Ended, Live
<1>6. changed.got <= Length[changed.id]
  BY <1>1, <1>2, <1>4, LogViewersAssumption
<1>7. QED
  BY <1>1, <1>2, <1>4, <1>5, <1>6, SameEntries DEF state

LEMMA OnMessageOK ==
  ASSUME ConnectionsInv, NEW o \in Objects, OnMessage(o)
  PROVE  ConnectionsInv'
<1> DEFINE state == objects[o]
           buffer == Append(state.messageBuffer, <<state.id, state.got + 1>>)
           next == state.got + 1
           changed == [state EXCEPT !.got = next, !.batchTimeout = TRUE,
                                    !.messageBuffer = buffer]
<1>1. /\ state \in StateObjects /\ state.id \in Jobs
      /\ state.got <= Length[state.id] /\ errors \in 0 .. MaxErrors
  BY ObjectFacts
<1>2. /\ Update(o, changed) /\ UNCHANGED <<connectionStates, connections, errors>>
      /\ state.source = "open" /\ state.got < Length[state.id]
  BY DEF OnMessage
<1>3. buffer \in Seq(LogLines) /\ state.got \in Nat /\ Length[state.id] \in Nat
      /\ next \in Nat
  <2>1. state.messageBuffer \in Seq(LogLines) /\ state.got \in Nat
    BY <1>1 DEF StateObjects
  <2>2. <<state.id, state.got + 1>> \in LogLines
    BY <1>1, <1>2, <2>1, LogViewersAssumption DEF LogLines
  <2>3. QED
    BY <1>1, <2>1, <2>2, LogViewersAssumption
<1> HIDE DEF state, buffer, next
<1>4. changed \in StateObjects /\ changed.id = state.id
      /\ changed.got = next /\ changed.source = state.source
      /\ changed.isConnecting = state.isConnecting /\ changed.deferred = state.deferred
      /\ changed.retryTimeout = state.retryTimeout
  BY <1>1, <1>3 DEF StateObjects
<1> HIDE DEF changed
<1>5. /\ changed.source \in Live <=> state.source \in Live
      /\ OneWay(state) => OneWay(changed)
      /\ Ended(state) => Ended(changed)
  BY <1>2, <1>4 DEF OneWay, Ended, Live
<1>6. changed.got <= Length[changed.id]
  BY <1>2, <1>3, <1>4 DEF next
<1>7. QED
  BY <1>1, <1>2, <1>4, <1>5, <1>6, SameEntries DEF state

LEMMA SendBatchOK ==
  ASSUME ConnectionsInv, NEW o \in Objects, SendBatch(o)
  PROVE  ConnectionsInv'
<1> DEFINE state == objects[o]
           changed == [state EXCEPT !.batchTimeout = FALSE, !.messageBuffer = <<>>]
<1>1. /\ state \in StateObjects /\ state.id \in Jobs
      /\ state.got <= Length[state.id] /\ errors \in 0 .. MaxErrors
  BY ObjectFacts
<1>2. /\ Update(o, changed) /\ UNCHANGED <<connectionStates, connections, errors>>
      /\ state.batchTimeout
  BY DEF SendBatch
<1>3. <<>> \in Seq(LogLines)
  OBVIOUS
<1> HIDE DEF state
<1>4. changed \in StateObjects /\ changed.id = state.id
      /\ changed.got = state.got /\ changed.source = state.source
      /\ changed.isConnecting = state.isConnecting /\ changed.deferred = state.deferred
      /\ changed.retryTimeout = state.retryTimeout
      /\ ~changed.batchTimeout /\ changed.messageBuffer = <<>>
  BY <1>1, <1>3 DEF StateObjects
<1> HIDE DEF changed
<1>5. /\ changed.source \in Live <=> state.source \in Live
      /\ OneWay(state) => OneWay(changed)
      /\ Ended(state) => Ended(changed)
  BY <1>2, <1>4 DEF OneWay, Ended, Live
<1>6. changed.got <= Length[changed.id]
  BY <1>1, <1>2, <1>4, LogViewersAssumption
<1>7. QED
  BY <1>1, <1>2, <1>4, <1>5, <1>6, SameEntries DEF state

LEMMA CreateFailsOK ==
  ASSUME ConnectionsInv, NEW o \in Objects, CreateFails(o)
  PROVE  ConnectionsInv'
<1> DEFINE state == objects[o]
           id == objects[o].id
           stopped == [state EXCEPT !.deferred = FALSE]
<1>1. /\ state \in StateObjects /\ id \in Jobs
      /\ state.got <= Length[id] /\ errors \in 0 .. MaxErrors
      /\ connectionStates = [connectionStates EXCEPT ![id] = connectionStates[id]]
      /\ connections = [connections EXCEPT ![id] = connections[id]]
      /\ state.source \in Live <=> connections[id] = o
      /\ connectionStates[id] = o => OneWay(state)
      /\ connectionStates[id] # o => Ended(state)
      /\ connections[id] \in {None, connectionStates[id]} /\ o # None
  BY ObjectFacts
<1>2. /\ state.deferred /\ state.isConnecting /\ Update(o, stopped)
      /\ connectionStates' = [connectionStates EXCEPT ![id] = None]
      /\ connections' = connections
      /\ errors < MaxErrors /\ errors' = errors + 1
  BY DEF CreateFails
<1>3. connectionStates[id] = o
  BY <1>1, <1>2 DEF Ended
<1>4. state.source \notin Live /\ ~state.retryTimeout /\ connections[id] # o
  BY <1>1, <1>2, <1>3 DEF OneWay
<1> HIDE DEF state
<1>5. /\ stopped \in StateObjects /\ stopped.id = state.id /\ stopped.got = state.got
      /\ stopped.isConnecting = state.isConnecting /\ ~stopped.deferred
      /\ stopped.retryTimeout = state.retryTimeout /\ stopped.source = state.source
  BY <1>1 DEF StateObjects
<1> HIDE DEF stopped
<1>6. Ended(stopped) /\ stopped.source \notin Live
  BY <1>2, <1>4, <1>5 DEF Ended
<1>7. state.id = id
  BY DEF state
<1> HIDE DEF id
<1>8. /\ stopped.id = objects[o].id /\ stopped.got <= Length[stopped.id]
      /\ None \in {None, connectionStates[stopped.id]}
      /\ connections[stopped.id] \in {None, o, connections[stopped.id]}
      /\ connectionStates' = [connectionStates EXCEPT ![stopped.id] = None]
      /\ connections' = [connections EXCEPT ![stopped.id] = connections[stopped.id]]
      /\ errors' \in 0 .. MaxErrors
      /\ connectionStates[stopped.id] = o /\ connections[stopped.id] # o
  BY <1>1, <1>2, <1>3, <1>4, <1>5, <1>7, LogViewersAssumption DEF state
<1>9. QED
  BY <1>1, <1>2, <1>5, <1>6, <1>8, OneObject

LEMMA OnErrorOK ==
  ASSUME ConnectionsInv, NEW o \in Objects, OnError(o)
  PROVE  ConnectionsInv'
<1> DEFINE state == objects[o]
           id == objects[o].id
           failed == [state EXCEPT !.source = "closed", !.retryTimeout = TRUE]
<1>1. /\ state \in StateObjects /\ id \in Jobs
      /\ state.got <= Length[id] /\ errors \in 0 .. MaxErrors
      /\ connectionStates = [connectionStates EXCEPT ![id] = connectionStates[id]]
      /\ connections = [connections EXCEPT ![id] = connections[id]]
      /\ state.source \in Live <=> connections[id] = o
      /\ connectionStates[id] = o => OneWay(state)
      /\ connectionStates[id] # o => Ended(state)
      /\ connections[id] \in {None, connectionStates[id]} /\ o # None
  BY ObjectFacts
<1>2. state.source \in Live /\ errors < MaxErrors /\ errors' = errors + 1
      /\ connectionStates' = connectionStates
  BY DEF OnError
<1>3. connections[id] = o /\ connectionStates[id] = o
  BY <1>1, <1>2
<1>4. OneWay(state)
  BY <1>1, <1>3
<1>5. /\ objects' = [p \in Objects |->
                      [objects[p] EXCEPT !.source = IF p = o THEN "closed" ELSE @,
                                         !.retryTimeout = @ \/ p = o]]
      /\ connections' = [connections EXCEPT ![id] = None]
  BY <1>3, <1>4 DEF OnError, OneWay
<1>6. Update(o, failed)
  <2>1. ASSUME NEW p \in Objects
        PROVE  [objects[p] EXCEPT !.source = IF p = o THEN "closed" ELSE @,
                                  !.retryTimeout = @ \/ p = o]
               = IF p = o THEN failed ELSE objects[p]
    <3>1. objects[p] \in StateObjects
      BY ObjectFacts
    <3>2. CASE p = o
      <4>1. (objects[p].retryTimeout \/ p = o) = TRUE
        BY <3>2
      <4>2. QED
        BY <3>2, <4>1
    <3>3. CASE p # o
      <4>1. (objects[p].retryTimeout \/ p = o) = objects[p].retryTimeout
        BY <3>1, <3>3 DEF StateObjects
      <4>2. QED
        BY <3>1, <3>3, <4>1 DEF StateObjects
    <3>4. QED
      BY <3>2, <3>3
  <2> HIDE DEF failed
  <2>2. objects' = [p \in Objects |-> IF p = o THEN failed ELSE objects[p]]
    BY <1>5, <2>1
  <2>3. [p \in Objects |-> IF p = o THEN failed ELSE objects[p]] = [objects EXCEPT ![o] = failed]
    BY DEF Objects, ConnectionsInv, ObjectsOK
  <2>4. QED
    BY <2>2, <2>3 DEF Update
<1> HIDE DEF state
<1>7. /\ failed \in StateObjects /\ failed.id = state.id /\ failed.got = state.got
      /\ failed.isConnecting = state.isConnecting /\ failed.deferred = state.deferred
      /\ failed.retryTimeout /\ failed.source = "closed"
  BY <1>1 DEF StateObjects, Sources
<1> HIDE DEF failed
<1>8. OneWay(failed) /\ failed.source \notin Live
  BY <1>2, <1>4, <1>7 DEF OneWay, Live
<1>9. state.id = id
  BY DEF state
<1>10. errors' \in 0 .. MaxErrors /\ failed.got <= Length[failed.id]
       /\ failed.id = objects[o].id /\ failed.id = id
  BY <1>1, <1>2, <1>7, <1>9, LogViewersAssumption DEF state
<1> HIDE DEF id
<1>11. /\ o \in {None, connectionStates[failed.id]}
       /\ None \in {None, o, connections[failed.id]}
       /\ connectionStates' = [connectionStates EXCEPT ![failed.id] = o]
       /\ connections' = [connections EXCEPT ![failed.id] = None]
       /\ None # o
       /\ connectionStates[failed.id] = o /\ connections[failed.id] = o
  BY <1>1, <1>2, <1>3, <1>5, <1>10
<1>12. QED
  BY <1>6, <1>7, <1>8, <1>10, <1>11, OneObject

LEMMA RetryOK ==
  ASSUME ConnectionsInv, NEW o \in Objects, Retry(o)
  PROVE  ConnectionsInv'
<1> DEFINE state == objects[o]
           id == objects[o].id
           again == [state EXCEPT !.retryTimeout = FALSE, !.deferred = TRUE]
<1>1. /\ state \in StateObjects /\ id \in Jobs
      /\ state.got <= Length[id] /\ errors \in 0 .. MaxErrors
      /\ connectionStates = [connectionStates EXCEPT ![id] = connectionStates[id]]
      /\ connections = [connections EXCEPT ![id] = connections[id]]
      /\ state.source \in Live <=> connections[id] = o
      /\ connectionStates[id] = o => OneWay(state)
      /\ connectionStates[id] # o => Ended(state)
      /\ connections[id] \in {None, connectionStates[id]} /\ o # None
  BY ObjectFacts
<1>2. /\ state.retryTimeout
      /\ objects' = [p \in Objects |->
           [objects[p] EXCEPT !.retryTimeout = @ /\ p # o,
                              !.deferred = @ \/ (p = connectionStates[id]
                                                  /\ objects[p].isConnecting)]]
      /\ UNCHANGED <<connectionStates, connections, errors>>
  BY DEF Retry
<1>3. connectionStates[id] = o
  BY <1>1, <1>2 DEF Ended
<1>4. OneWay(state)
  BY <1>1, <1>3
<1>5. Update(o, again)
  <2>1. ASSUME NEW p \in Objects
        PROVE  [objects[p] EXCEPT !.retryTimeout = @ /\ p # o,
                                  !.deferred = @ \/ (p = connectionStates[id]
                                                      /\ objects[p].isConnecting)]
               = IF p = o THEN again ELSE objects[p]
    <3>1. objects[p] \in StateObjects
      BY ObjectFacts
    <3>2. CASE p = o
      <4>1. /\ (objects[p].retryTimeout /\ p # o) = FALSE
            /\ (objects[p].deferred \/ (p = connectionStates[id] /\ objects[p].isConnecting))
                 = TRUE
        BY <1>3, <1>4, <3>2 DEF OneWay
      <4>2. QED
        BY <3>2, <4>1
    <3>3. CASE p # o
      <4>1. /\ (objects[p].retryTimeout /\ p # o) = objects[p].retryTimeout
            /\ (objects[p].deferred \/ (p = connectionStates[id] /\ objects[p].isConnecting))
                 = objects[p].deferred
        BY <1>3, <3>1, <3>3 DEF StateObjects
      <4>2. QED
        BY <3>1, <3>3, <4>1 DEF StateObjects
    <3>4. QED
      BY <3>2, <3>3
  <2> HIDE DEF again
  <2>2. objects' = [p \in Objects |-> IF p = o THEN again ELSE objects[p]]
    BY <1>2, <2>1
  <2>3. [p \in Objects |-> IF p = o THEN again ELSE objects[p]] = [objects EXCEPT ![o] = again]
    BY DEF Objects, ConnectionsInv, ObjectsOK
  <2>4. QED
    BY <2>2, <2>3 DEF Update
<1> HIDE DEF state
<1>6. /\ again \in StateObjects /\ again.id = state.id /\ again.got = state.got
      /\ again.isConnecting = state.isConnecting /\ again.deferred
      /\ ~again.retryTimeout /\ again.source = state.source
  BY <1>1 DEF StateObjects
<1> HIDE DEF again
<1>7. OneWay(again) /\ ~Ended(state)
  BY <1>2, <1>4, <1>6 DEF OneWay, Ended
<1>8. again.got <= Length[again.id] /\ again.id = objects[o].id /\ errors' \in 0 .. MaxErrors
  BY <1>1, <1>2, <1>6 DEF state
<1>9. QED
  BY <1>2, <1>5, <1>6, <1>7, <1>8, SameEntries DEF state

(* disconnect, as connect and the closing of a viewer call it.             *)
LEMMA DisconnectedObjects ==
  ASSUME ConnectionsInv, NEW j \in Jobs
  PROVE  /\ Disconnected(j) \in Seq(StateObjects)
         /\ Len(Disconnected(j)) = Len(objects)
         /\ \A o \in Objects :
              /\ Disconnected(j)[o].id = objects[o].id
              /\ Disconnected(j)[o].got <= Length[objects[o].id]
              /\ objects[o].id # j => Disconnected(j)[o] = objects[o]
              /\ objects[o].id = j => Ended(Disconnected(j)[o])
<1>1. Objects = 1 .. Len(objects) /\ Len(objects) \in Nat
  BY DEF Objects, ConnectionsInv, ObjectsOK
<1>2. ASSUME NEW o \in Objects
      PROVE  /\ Disconnected(j)[o] \in StateObjects
             /\ Disconnected(j)[o].id = objects[o].id
             /\ Disconnected(j)[o].got <= Length[objects[o].id]
             /\ objects[o].id # j => Disconnected(j)[o] = objects[o]
             /\ objects[o].id = j => Ended(Disconnected(j)[o])
  <2> DEFINE object == objects[o]
             source == IF o = connections[j] THEN "closed" ELSE object.source
             empty == <<>>
             closed == [object EXCEPT !.source = source]
             stopped == [closed EXCEPT !.isConnecting = FALSE, !.retryTimeout = FALSE,
                                       !.batchTimeout = FALSE, !.messageBuffer = empty]
  <2>1. Disconnected(j)[o] = IF o # connectionStates[j] THEN closed ELSE stopped
    BY DEF Disconnected
  <2>2. /\ object \in StateObjects /\ object.id \in Jobs /\ o # None
        /\ object.got <= Length[object.id]
        /\ object.source \in Live <=> connections[object.id] = o
        /\ connectionStates[object.id] # o => Ended(object)
        /\ connections[object.id] \in {None, connectionStates[object.id]}
    BY ObjectFacts
  <2>3. o = connections[j] \/ o = connectionStates[j] => object.id = j
    BY <2>2 DEF ConnectionsInv, ConnectionOK
  <2>4. empty \in Seq(LogLines)
    OBVIOUS
  <2> HIDE DEF object, empty
  <2>5. source \in Sources /\ (o = connections[j] => source = "closed")
        /\ (o # connections[j] => source = object.source)
    BY <2>2 DEF StateObjects, Sources
  <2> HIDE DEF source
  <2>6. /\ closed \in StateObjects /\ closed.id = object.id /\ closed.got = object.got
        /\ closed.source = source /\ closed.isConnecting = object.isConnecting
        /\ closed.retryTimeout = object.retryTimeout /\ closed.deferred = object.deferred
        /\ closed.messageBuffer = object.messageBuffer
        /\ closed.batchTimeout = object.batchTimeout
    BY <2>2, <2>5 DEF StateObjects
  <2>7. o # connections[j] => closed = object
    BY <2>2, <2>5 DEF StateObjects
  <2> HIDE DEF closed
  <2>8. /\ stopped \in StateObjects /\ stopped.id = object.id /\ stopped.got = object.got
        /\ stopped.source = source /\ ~stopped.isConnecting
        /\ ~stopped.retryTimeout /\ ~stopped.batchTimeout
        /\ stopped.messageBuffer = <<>>
    BY <2>4, <2>6 DEF StateObjects, empty
  <2> HIDE DEF stopped
  <2>9. CASE object.id # j
    <3>1. o # connections[j] /\ o # connectionStates[j]
      BY <2>3, <2>9
    <3>2. Disconnected(j)[o] = object
      BY <2>1, <2>7, <3>1
    <3>3. QED
      BY <2>2, <2>9, <3>2 DEF object
  <2>10. CASE object.id = j /\ o = connectionStates[j]
    <3>1. source \notin Live
      BY <2>2, <2>5, <2>10 DEF Live
    <3>2. Ended(stopped)
      BY <2>8, <3>1 DEF Ended
    <3>3. QED
      BY <2>1, <2>2, <2>8, <2>10, <3>2 DEF object
  <2>11. CASE object.id = j /\ o # connectionStates[j]
    <3>1. Ended(object) /\ o # connections[j]
      BY <2>2, <2>11
    <3>2. Disconnected(j)[o] = object
      BY <2>1, <2>7, <2>11, <3>1
    <3>3. QED
      BY <2>2, <3>1, <3>2 DEF object
  <2>12. QED
    BY <2>9, <2>10, <2>11 DEF object
<1>3. Disconnected(j) = [o \in Objects |-> Disconnected(j)[o]]
  BY DEF Disconnected
<1>4. Disconnected(j) \in [1 .. Len(objects) -> StateObjects]
  BY <1>1, <1>2, <1>3
<1>5. Disconnected(j) \in Seq(StateObjects) /\ Len(Disconnected(j)) = Len(objects)
  BY <1>1, <1>4, IsASeq, LenProperties
<1>6. QED
  BY <1>2, <1>5

LEMMA CloseViewerOK ==
  ASSUME ConnectionsInv, NEW j \in Jobs, CloseViewer(j)
  PROVE  ConnectionsInv'
<1>1. /\ objects' \in Seq(StateObjects) /\ Len(objects') = Len(objects)
      /\ \A o \in Objects :
           /\ objects'[o].id = objects[o].id /\ objects'[o].got <= Length[objects[o].id]
           /\ objects[o].id # j => objects'[o] = objects[o]
           /\ objects[o].id = j => Ended(objects'[o])
  BY DisconnectedObjects DEF CloseViewer
<1>2. /\ connectionStates' = [connectionStates EXCEPT ![j] = None]
      /\ connections' = [connections EXCEPT ![j] = None] /\ errors' = errors
  BY DEF CloseViewer
<1>3. ObjectsOK
  BY DEF ConnectionsInv
<1>4. Objects' = Objects /\ 0 \notin Objects /\ Len(objects') <= Len(objects')
  BY <1>1, <1>3 DEF Objects, ObjectsOK
<1>5. /\ connectionStates' \in [Jobs -> {None} \cup Objects] /\ connectionStates'[j] = None
      /\ connections' \in [Jobs -> {None} \cup Objects] /\ connections'[j] = None
      /\ \A k \in Jobs \ {j} : connectionStates'[k] = connectionStates[k]
      /\ \A k \in Jobs \ {j} : connections'[k] = connections[k]
  BY <1>2, <1>3 DEF ObjectsOK
<1>6. ObjectsOK'
  BY <1>1, <1>2, <1>3, <1>4, <1>5 DEF ObjectsOK
<1>7. ConnectionOK(j)'
  BY <1>1, <1>4, <1>5 DEF ConnectionOK, Ended, None
<1>8. \A o \in Objects' : o \in Objects
  BY <1>4
<1>9. Len(objects) <= Len(objects')
  BY <1>1, <1>3 DEF ObjectsOK
<1>10. QED
  BY <1>1, <1>5, <1>6, <1>7, <1>8, <1>9, OneId

LEMMA OpenViewerOK ==
  ASSUME ConnectionsInv, NEW j \in Jobs, OpenViewer(j)
  PROVE  ConnectionsInv'
<1> DEFINE before == Disconnected(j)
           o == Len(objects) + 1
           new == NewObject(j)
<1>1. /\ before \in Seq(StateObjects) /\ Len(before) = Len(objects)
      /\ \A p \in Objects :
           /\ before[p].id = objects[p].id /\ before[p].got <= Length[objects[p].id]
           /\ objects[p].id # j => before[p] = objects[p]
           /\ objects[p].id = j => Ended(before[p])
  BY DisconnectedObjects
<1>2. /\ Len(objects) < MaxConnects /\ objects' = Append(before, new)
      /\ connectionStates' = [connectionStates EXCEPT ![j] = o]
      /\ connections' = [connections EXCEPT ![j] = None] /\ errors' = errors
  BY DEF OpenViewer
<1>3. ObjectsOK
  BY DEF ConnectionsInv
<1>4. /\ new \in StateObjects /\ new.id = j /\ new.got = 0 /\ OneWay(new)
      /\ new.source \notin Live
  <2> DEFINE empty == <<>>
             made == [id |-> j, isConnecting |-> TRUE, deferred |-> TRUE, retryTimeout |-> FALSE,
                      batchTimeout |-> FALSE, messageBuffer |-> empty, source |-> "none",
                      got |-> 0]
  <2>1. new = made
    BY DEF NewObject
  <2>2. empty \in Seq(LogLines)
    OBVIOUS
  <2> HIDE DEF empty
  <2>3. /\ made \in StateObjects /\ made.id = j /\ made.got = 0 /\ made.isConnecting
        /\ made.deferred /\ ~made.retryTimeout /\ made.source = "none"
    BY <2>2 DEF StateObjects, Sources
  <2> HIDE DEF made, new
  <2>4. QED
    BY <2>1, <2>3 DEF OneWay, Live
<1> HIDE DEF before, new
<1>5. /\ objects' \in Seq(StateObjects) /\ Len(objects') = o
      /\ Len(objects) \in Nat /\ Objects = 1 .. Len(objects)
      /\ objects'[o] = new /\ \A p \in Objects : objects'[p] = before[p]
  BY <1>1, <1>2, <1>3, <1>4 DEF Objects, ObjectsOK
<1>6. Objects' = Objects \cup {o} /\ o \notin Objects /\ 0 \notin Objects' /\ o # 0
  BY <1>5 DEF Objects
<1>7. /\ connectionStates' \in [Jobs -> {None} \cup Objects'] /\ connectionStates'[j] = o
      /\ connections' \in [Jobs -> {None} \cup Objects'] /\ connections'[j] = None
      /\ \A k \in Jobs \ {j} : connectionStates'[k] = connectionStates[k]
      /\ \A k \in Jobs \ {j} : connections'[k] = connections[k]
  BY <1>2, <1>3, <1>6 DEF ObjectsOK
<1>8. \A p \in Objects' : objects'[p].got <= Length[objects'[p].id]
  BY <1>1, <1>4, <1>5, <1>6, LogViewersAssumption
<1>9. Len(objects') <= MaxConnects
  BY <1>2, <1>5, LogViewersAssumption
<1>10. ObjectsOK'
  BY <1>2, <1>3, <1>5, <1>7, <1>8, <1>9 DEF ObjectsOK
<1>11. ConnectionOK(j)'
  <2>1. objects'[connectionStates'[j]].id = j
    BY <1>4, <1>5, <1>7
  <2>2. ASSUME NEW p \in Objects', objects'[p].id = j
        PROVE  /\ objects'[p].source \in Live => connections'[j] = p
               /\ connectionStates'[j] = p => OneWay(objects'[p])
               /\ connectionStates'[j] # p => Ended(objects'[p])
    <3>1. CASE p = o
      BY <1>4, <1>5, <1>7, <3>1
    <3>2. CASE p \in Objects
      <4>1. Ended(objects'[p]) /\ p # o
        BY <1>1, <1>5, <1>6, <2>2, <3>2
      <4>2. QED
        BY <1>7, <4>1 DEF Ended
    <3>3. QED
      BY <1>6, <3>1, <3>2
  <2>3. QED
    BY <1>7, <2>1, <2>2 DEF ConnectionOK
<1>12. /\ \A p \in Objects : objects'[p].id = objects[p].id
       /\ \A p \in Objects : objects[p].id # j => objects'[p] = objects[p]
       /\ \A p \in Objects' : p \in Objects \/ objects'[p].id = j
  BY <1>1, <1>4, <1>5, <1>6
<1>13. Len(objects) <= Len(objects')
  BY <1>5
<1>14. QED
  BY <1>7, <1>10, <1>11, <1>12, <1>13, OneId

-----------------------------------------------------------------------------
(* The theorems *)

Inv == ViewersOK /\ ConnectionsInv

LEMMA InvInit == Init => Inv
<1> SUFFICES ASSUME Init  PROVE Inv
  OBVIOUS
<1>1. ViewersOK
  <2>1. Shut \in Viewers /\ Shut.filteredLogs = Filter(Shut, Shut.logs)
    BY ShutOK
  <2>2. QED
    BY <2>1 DEF Init, ViewersOK, FilteredIsFilter
<1>2. objects \in Seq(StateObjects) /\ Len(objects) = 0 /\ Objects = {}
  BY DEF Init, Objects
<1>3. ObjectsOK
  BY <1>2, LogViewersAssumption DEF Init, ObjectsOK
<1>4. ASSUME NEW j \in Jobs  PROVE ConnectionOK(j)
  BY <1>2 DEF Init, ConnectionOK
<1>5. QED
  BY <1>1, <1>3, <1>4 DEF Inv, ConnectionsInv

LEMMA InvStep == Inv /\ [Next]_vars => Inv'
<1> SUFFICES ASSUME Inv, [Next]_vars  PROVE Inv'
  OBVIOUS
<1>1. ConnectionsInv /\ ViewersOK /\ ObjectsOK
  BY DEF Inv, ConnectionsInv
<1>2. ViewersOK'
  BY <1>1, ViewersStep
<1>3. CASE UNCHANGED jsVars
  <2>1. UNCHANGED <<connectionStates, connections, objects, errors>>
    BY <1>3 DEF jsVars
  <2>2. ObjectsOK'
    BY <1>1, <2>1 DEF ObjectsOK, Objects
  <2>3. ASSUME NEW j \in Jobs  PROVE ConnectionOK(j)'
    <3>1. ConnectionOK(j)
      BY <1>1 DEF ConnectionsInv
    <3>2. QED
      BY <2>1, <3>1 DEF ConnectionOK, Objects
  <2>4. QED
    BY <1>2, <2>2, <2>3 DEF Inv, ConnectionsInv
<1>4. ASSUME NEW j \in Jobs, SetSearch(j) \/ ToggleDebugLogs(j)  PROVE UNCHANGED jsVars
  BY <1>4 DEF SetSearch, ToggleDebugLogs
<1>5. LeavePage => UNCHANGED jsVars
  BY DEF LeavePage
<1>6. CASE UNCHANGED vars
  BY <1>3, <1>6 DEF vars, jsVars
<1>7. ASSUME NEW j \in Jobs, OpenViewer(j) \/ CloseViewer(j)  PROVE ConnectionsInv'
  BY <1>1, <1>7, OpenViewerOK, CloseViewerOK
<1>8. ASSUME NEW o \in Objects,
             \/ CreateSource(o) \/ CreateFails(o) \/ Retry(o)
             \/ OnOpen(o) \/ OnMessage(o) \/ SendBatch(o) \/ OnError(o)
      PROVE  ConnectionsInv'
  BY <1>1, <1>8, CreateSourceOK, CreateFailsOK, RetryOK, OnOpenOK, OnMessageOK, SendBatchOK,
     OnErrorOK
<1>9. CASE Next
  BY <1>2, <1>3, <1>4, <1>5, <1>7, <1>8, <1>9, LogViewersAssumption DEF Next, Inv
<1>10. QED
  BY <1>6, <1>9

LEMMA Invariant == Spec => []Inv
<1>1. QED
  BY InvInit, InvStep, PTL DEF Spec

(* Types: what is registered for an id was made for it and is no closed    *)
(* source (interop.ts:89-94, 150-154), for any number of viewers, lines    *)
(* and errors.                                                             *)
THEOREM Typing == Spec => []TypeOK
<1>1. Inv => TypeOK
  BY DEF Inv, ViewersOK, ConnectionsInv, ObjectsOK, ConnectionOK, TypeOK
<1>2. QED
  BY <1>1, Invariant, PTL

(* The lines on the screen, kept up to date batch by batch, are those that *)
(* the filters select of all the lines received (LogViewer.elm:214-228).   *)
THEOREM ScreenFollowsFilters == Spec => []FilteredIsFilter
<1>1. Inv => FilteredIsFilter
  BY DEF Inv, ViewersOK
<1>2. QED
  BY <1>1, Invariant, PTL

(* An id has one connection, however its viewer is closed and opened, and  *)
(* its sources fail, while creations, retries and batches are pending      *)
(* (interop.ts:87-94, 133-205).                                            *)
THEOREM OneConnectionPerId == Spec => []OneConnection
<1>1. ASSUME ConnectionsInv  PROVE OneConnection
  <2> SUFFICES ASSUME NEW o \in Objects
               PROVE  LET object == objects[o] IN
                      /\ object.source \in Live => connections[object.id] = o
                      /\ IF connectionStates[object.id] = o
                         THEN object.isConnecting /\ Cardinality(Ways(o)) = 1
                         ELSE /\ Ways(o) \subseteq {"creation"}
                              /\ IF object.isConnecting THEN ~object.deferred
                                 ELSE object.messageBuffer = <<>> /\ ~object.batchTimeout
    BY DEF OneConnection
  <2>1. /\ objects[o].source \in Live <=> connections[objects[o].id] = o
        /\ connectionStates[objects[o].id] = o => OneWay(objects[o])
        /\ connectionStates[objects[o].id] # o => Ended(objects[o])
    BY <1>1, ObjectFacts
  <2>2. ASSUME OneWay(objects[o])  PROVE Cardinality(Ways(o)) = 1
    <3>1. \E way : Ways(o) = {way}
      <4>1. CASE objects[o].source \in Live
        <5>1. Ways(o) = {"source"}
          BY <2>2, <4>1 DEF Ways, OneWay
        <5>2. QED
          BY <5>1
      <4>2. CASE objects[o].deferred
        <5>1. Ways(o) = {"creation"}
          BY <2>2, <4>2 DEF Ways, OneWay
        <5>2. QED
          BY <5>1
      <4>3. CASE objects[o].retryTimeout
        <5>1. Ways(o) = {"retry"}
          BY <2>2, <4>3 DEF Ways, OneWay
        <5>2. QED
          BY <5>1
      <4>4. QED
        BY <2>2, <4>1, <4>2, <4>3 DEF OneWay
    <3>2. QED
      BY <3>1, FS_Singleton
  <2>3. ASSUME Ended(objects[o])  PROVE Ways(o) \subseteq {"creation"}
    BY <2>3 DEF Ended, Ways
  <2>4. QED
    BY <2>1, <2>2, <2>3 DEF OneWay, Ended
<1>2. Inv => OneConnection
  BY <1>1 DEF Inv
<1>3. QED
  BY <1>2, Invariant, PTL

==============================================================================
