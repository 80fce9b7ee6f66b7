--------------------------- MODULE ResourcesProofs ---------------------------
(***************************************************************************)
(* Theorems about Resources, for any number of attempts, any limits and    *)
(* pools of any size.                                                      *)
(***************************************************************************)
EXTENDS Resources, FiniteSetTheorems, WellFoundedInduction, TLAPS

-----------------------------------------------------------------------------
(* Taking from the front of a queue without repetitions, and putting back  *)
(* at its end.                                                             *)

LEMMA PopFront ==
  ASSUME NEW S, NEW q \in Seq(S), q # <<>>, IsInjective(q)
  PROVE  /\ Tail(q) \in Seq(S) /\ IsInjective(Tail(q))
         /\ Head(q) \in Range(q)
         /\ Range(Tail(q)) = Range(q) \ {Head(q)}
<1>1. /\ Tail(q) \in Seq(S)
      /\ Len(q) \in Nat /\ Len(q) >= 1
      /\ DOMAIN q = 1 .. Len(q) /\ DOMAIN Tail(q) = 1 .. Len(q) - 1
      /\ \A i \in 1 .. Len(q) - 1 : Tail(q)[i] = q[i + 1]
      /\ Head(q) = q[1]
  OBVIOUS
<1>2. \A i, j \in 1 .. Len(q) : q[i] = q[j] => i = j
  BY <1>1 DEF IsInjective
<1>3. IsInjective(Tail(q))
  BY <1>1, <1>2 DEF IsInjective
<1>4. Head(q) \in Range(q)
  BY <1>1 DEF Range
<1>5. ASSUME NEW x \in Range(Tail(q)) PROVE x \in Range(q) \ {Head(q)}
  <2>1. PICK i \in 1 .. Len(q) - 1 : x = q[i + 1]
    BY <1>1 DEF Range
  <2>2. i + 1 \in 1 .. Len(q) /\ i + 1 # 1 /\ 1 \in 1 .. Len(q)
    BY <1>1
  <2>3. QED
    BY <1>1, <1>2, <2>1, <2>2 DEF Range
<1>6. ASSUME NEW x \in Range(q) \ {Head(q)} PROVE x \in Range(Tail(q))
  <2>1. PICK i \in 1 .. Len(q) : x = q[i]
    BY <1>1 DEF Range
  <2>2. i # 1
    BY <1>1, <2>1
  <2>3. i - 1 \in 1 .. Len(q) - 1 /\ (i - 1) + 1 = i
    BY <1>1, <2>2
  <2>4. Tail(q)[i - 1] = x
    BY <1>1, <2>1, <2>3
  <2>5. QED
    BY <1>1, <2>3, <2>4 DEF Range
<1>7. QED
  BY <1>1, <1>3, <1>4, <1>5, <1>6

LEMMA RangeOfTail ==
  ASSUME NEW S, NEW q \in Seq(S), q # <<>>
  PROVE  /\ Tail(q) \in Seq(S) /\ Head(q) \in Range(q)
         /\ Range(Tail(q)) \subseteq Range(q)
<1>1. /\ Tail(q) \in Seq(S)
      /\ \A i \in DOMAIN Tail(q) : i + 1 \in DOMAIN q /\ Tail(q)[i] = q[i + 1]
      /\ 1 \in DOMAIN q /\ Head(q) = q[1]
  OBVIOUS
<1>2. QED
  BY <1>1 DEF Range

LEMMA PushBack ==
  ASSUME NEW S, NEW q \in Seq(S), NEW e \in S
  PROVE  /\ Append(q, e) \in Seq(S)
         /\ Range(Append(q, e)) = Range(q) \cup {e}
         /\ IsInjective(q) /\ e \notin Range(q) => IsInjective(Append(q, e))
<1>1. /\ Append(q, e) \in Seq(S)
      /\ Len(q) \in Nat
      /\ DOMAIN q = 1 .. Len(q) /\ DOMAIN Append(q, e) = 1 .. Len(q) + 1
      /\ \A i \in 1 .. Len(q) : Append(q, e)[i] = q[i]
      /\ Append(q, e)[Len(q) + 1] = e
  OBVIOUS
<1>2. \A i \in 1 .. Len(q) + 1 : i \in 1 .. Len(q) \/ i = Len(q) + 1
  BY <1>1
<1>3. 1 .. Len(q) \subseteq 1 .. Len(q) + 1 /\ Len(q) + 1 \in 1 .. Len(q) + 1
  BY <1>1
<1>4. Range(Append(q, e)) = Range(q) \cup {e}
  BY <1>1, <1>2, <1>3 DEF Range
<1>5. ASSUME IsInjective(q), e \notin Range(q)
      PROVE  IsInjective(Append(q, e))
  <2>1. \A i \in 1 .. Len(q) : q[i] # e
    BY <1>1, <1>5 DEF Range
  <2>2. \A i, j \in 1 .. Len(q) : q[i] = q[j] => i = j
    BY <1>1, <1>5 DEF IsInjective
  <2>3. QED
    BY <1>1, <1>2, <2>1, <2>2 DEF IsInjective
<1>6. QED
  BY <1>1, <1>4, <1>5

-----------------------------------------------------------------------------
(* An attempt takes each address once: its guards follow its stage, and a  *)
(* spawned release still has what it is to give back.                      *)
GuardsInv ==
  \A v \in Vms :
    /\ stage[v] \in {"idle", "claimed", "resourced"} => held["ip"][v] = None
    /\ stage[v] \in {"idle", "claimed", "resourced", "addressed"} =>
         held["cid"][v] = None
    /\ releasing[v] # {} => stage[v] = "gone"
    /\ \A k \in Kinds : k \in releasing[v] => held[k][v] # None

(* What one step does to the pool of one kind: nothing, one address taken  *)
(* from the front by a VM that has none, or one put back by its holder.    *)
Takes(k, v) ==
  /\ free[k] # <<>> /\ held[k][v] = None
  /\ free'[k] = Tail(free[k])
  /\ held'[k] = [held[k] EXCEPT ![v] = Head(free[k])]

Returns(k, v) ==
  /\ held[k][v] # None
  /\ free'[k] = Append(free[k], held[k][v])
  /\ held'[k] = [held[k] EXCEPT ![v] = None]

Leaves(k) == free'[k] = free[k] /\ held'[k] = held[k]

PoolStep(k) == Leaves(k) \/ \E v \in Vms : Takes(k, v) \/ Returns(k, v)

LEMMA TakingConserves ==
  ASSUME TypeOK, NEW k \in Kinds, Conserved(k), NEW v \in Vms, Takes(k, v)
  PROVE  Conserved(k)'
<1> DEFINE q == free[k]  a == Head(q)
<1>1. q \in Seq(Nat) /\ q # <<>> /\ IsInjective(q)
  BY DEF TypeOK, Takes, Conserved
<1>2. /\ IsInjective(Tail(q)) /\ a \in Range(q)
      /\ Range(Tail(q)) = Range(q) \ {a}
  BY <1>1, PopFront
<1>3. held[k] \in [Vms -> Nat]
  BY DEF TypeOK
<1>4. a # None
  BY <1>2, ResourcesAssumption DEF TypeOK, Addresses, None, Kinds
<1>5. \A w \in Vms : held'[k][w] = IF w = v THEN a ELSE held[k][w]
  BY <1>3 DEF Takes
<1>6. free'[k] = Tail(q)
  BY DEF Takes
<1> HIDE DEF q, a
<1>7. \A w \in Vms : held[k][w] # None => held[k][w] \notin Range(q)
  BY DEF Conserved, q
<1>8. ASSUME NEW w \in Vms, held'[k][w] # None
      PROVE  /\ held'[k][w] \notin Range(Tail(q))
             /\ \A u \in Vms \ {w} : held'[k][u] # held'[k][w]
  BY <1>2, <1>4, <1>5, <1>7, <1>8 DEF Conserved
<1>9. Addresses(k) \subseteq Range(Tail(q)) \cup {held'[k][w] : w \in Vms}
  <2>1. ASSUME NEW x \in Addresses(k), x \notin Range(Tail(q))
        PROVE  \E w \in Vms : x = held'[k][w]
    <3>1. CASE x = a
      BY <3>1, <1>5
    <3>2. CASE x # a
      <4>1. x \notin Range(q)
        BY <1>2, <2>1, <3>2
      <4>2. PICK w \in Vms : x = held[k][w]
        BY <4>1 DEF Conserved, q
      <4>3. w # v
        BY <4>2, ResourcesAssumption DEF Takes, Addresses, None, Kinds
      <4>4. QED
        BY <4>2, <4>3, <1>5
    <3>3. QED
      BY <3>1, <3>2
  <2>2. QED
    BY <2>1
<1>10. QED
  BY <1>2, <1>6, <1>8, <1>9 DEF Conserved, Addresses

LEMMA ReturningConserves ==
  ASSUME TypeOK, NEW k \in Kinds, Conserved(k), NEW v \in Vms, Returns(k, v)
  PROVE  Conserved(k)'
<1> DEFINE q == free[k]  a == held[k][v]
<1>1. q \in Seq(Nat) /\ IsInjective(q) /\ a \in Nat /\ a \notin Range(q)
  BY DEF TypeOK, Returns, Conserved
<1>2. /\ IsInjective(Append(q, a))
      /\ Range(Append(q, a)) = Range(q) \cup {a}
  BY <1>1, PushBack
<1>3. held[k] \in [Vms -> Nat]
  BY DEF TypeOK
<1>4. \A w \in Vms : held'[k][w] = IF w = v THEN None ELSE held[k][w]
  BY <1>3 DEF Returns
<1>5. free'[k] = Append(q, a) /\ a # None
  BY DEF Returns
<1>6. \A w \in Vms \ {v} : held[k][w] # a
  BY <1>5 DEF Conserved
<1>7. \A w \in Vms : held[k][w] # None =>
        /\ held[k][w] \notin Range(q)
        /\ \A u \in Vms \ {w} : held[k][u] # held[k][w]
  BY DEF Conserved
<1>8. \A x \in Addresses(k) : x \in Range(q) \/ \E w \in Vms : x = held[k][w]
  BY DEF Conserved
<1>9. a = held[k][v]
  OBVIOUS
<1> HIDE DEF q, a
<1>10. ASSUME NEW w \in Vms, held'[k][w] # None
       PROVE  /\ held'[k][w] \notin Range(Append(q, a))
              /\ \A u \in Vms \ {w} : held'[k][u] # held'[k][w]
  BY <1>2, <1>4, <1>6, <1>7, <1>10
<1>11. \A x \in Addresses(k) :
         x \in Range(Append(q, a)) \/ \E w \in Vms : x = held'[k][w]
  BY <1>2, <1>4, <1>8, <1>9
<1>12. QED
  BY <1>2, <1>5, <1>10, <1>11 DEF Conserved, Addresses

-----------------------------------------------------------------------------
(* The steps that are written with an operator of their own *)

USE ResourcesAssumption DEF Kinds

LEMMA DropGuardsEffect ==
  ASSUME stage \in [Vms -> Stages], releasing \in [Vms -> SUBSET ({"job"} \cup Kinds)],
         NEW v \in Vms, DropGuards(v)
  PROVE  /\ stage' \in [Vms -> Stages] /\ stage'[v] = "gone"
         /\ releasing' \in [Vms -> SUBSET ({"job"} \cup Kinds)]
         /\ \A k \in Kinds : k \in releasing'[v] => held[k][v] # None
         /\ \A w \in Vms \ {v} :
              stage'[w] = stage[w] /\ releasing'[w] = releasing[w]
<1> DEFINE spawned == {"job"} \cup {k \in Kinds : held[k][v] # None}
<1>1. /\ spawned \in SUBSET ({"job"} \cup Kinds)
      /\ \A k \in Kinds : k \in spawned => held[k][v] # None
  OBVIOUS
<1>2. /\ stage' = [stage EXCEPT ![v] = "gone"]
      /\ releasing' = [releasing EXCEPT ![v] = spawned]
  BY DEF DropGuards, Advance
<1> HIDE DEF spawned
<1>3. QED
  BY <1>1, <1>2 DEF Stages

(* Writing one entry of a table of tables. *)
LEMMA HeldUpdate ==
  ASSUME held \in [Kinds -> [Vms -> Nat]], NEW k \in Kinds, NEW v \in Vms,
         NEW a \in Nat, held' = [held EXCEPT ![k][v] = a]
  PROVE  /\ held' \in [Kinds -> [Vms -> Nat]]
         /\ held'[k] = [held[k] EXCEPT ![v] = a]
         /\ \A l \in Kinds \ {k} : held'[l] = held[l]
         /\ \A l \in Kinds, w \in Vms :
              held'[l][w] = IF l = k /\ w = v THEN a ELSE held[l][w]
OBVIOUS

LEMMA TypingStep ==
  ASSUME TypeOK, GuardsInv, [Next]_vars
  PROVE  TypeOK'
<1> USE DEF TypeOK, Stages
<1>1. CASE UNCHANGED vars
  BY <1>1 DEF vars, allocation, Addresses
<1>2. ASSUME NEW v \in Vms, CanAllocate(v) \/ RejectResources(v)
      PROVE  TypeOK'
  BY <1>2 DEF CanAllocate, RejectResources, Advance, allocation, Addresses
<1>3. ASSUME NEW v \in Vms, AllocateResources(v)
      PROVE  TypeOK'
  <2>1. allocated_cpus' \in Nat /\ allocated_memory' \in Nat
    BY <1>3, ResourcesAssumption DEF AllocateResources
  <2>2. stage' \in [Vms -> Stages] /\ jobs' \in SUBSET Vms
    BY <1>3 DEF AllocateResources, Advance
  <2>3. UNCHANGED <<free, held, releasing>>
    BY <1>3 DEF AllocateResources
  <2> HIDE DEF Stages
  <2>4. QED
    BY <2>1, <2>2, <2>3 DEF Addresses
<1>4. ASSUME NEW v \in Vms, DropVm(v)
      PROVE  TypeOK'
  <2>1. DropGuards(v) /\ UNCHANGED <<allocation, free, held>>
    BY <1>4 DEF DropVm
  <2>2. QED
    BY <2>1, DropGuardsEffect DEF allocation, Addresses, Stages
<1>5. ASSUME NEW v \in Vms, NEW k \in Kinds, PoolEmpty(v, k)
      PROVE  TypeOK'
  <2>1. DropGuards(v) /\ UNCHANGED <<allocation, free, held>>
    BY <1>5 DEF PoolEmpty
  <2>2. QED
    BY <2>1, DropGuardsEffect DEF allocation, Addresses, Stages
<1>6. ASSUME NEW v \in Vms, NEW k \in Kinds,
             NEW next \in {"addressed", "built"}, PopAddress(v, k, next)
      PROVE  TypeOK'
  <2>1. free[k] \in Seq(Nat) /\ free[k] # <<>>
    BY <1>6 DEF PopAddress
  <2>2. /\ Tail(free[k]) \in Seq(Nat)
        /\ Range(Tail(free[k])) \subseteq Addresses(k)
        /\ Head(free[k]) \in Addresses(k)
    BY <2>1, RangeOfTail
  <2>3. Head(free[k]) \in Nat
    BY <2>2 DEF Addresses
  <2>4. /\ held' \in [Kinds -> [Vms -> Nat]]
        /\ \A l \in Kinds, w \in Vms : held'[l][w] \in Addresses(l) \cup {None}
    <3>1. held' = [held EXCEPT ![k][v] = Head(free[k])]
      BY <1>6 DEF PopAddress
    <3>2. held' \in [Kinds -> [Vms -> Nat]]
          /\ \A l \in Kinds, w \in Vms :
               held'[l][w] = IF l = k /\ w = v THEN Head(free[k]) ELSE held[l][w]
      BY <3>1, <2>3, HeldUpdate, SMTT(30)
    <3>3. QED
      BY <3>2, <2>2
  <2>5. /\ free' \in [Kinds -> Seq(Nat)]
        /\ \A l \in Kinds : Range(free'[l]) \subseteq Addresses(l)
    BY <1>6, <2>2 DEF PopAddress
  <2>6. QED
    BY <1>6, <2>4, <2>5 DEF PopAddress, Advance, allocation, Addresses
<1>7. ASSUME NEW v \in Vms, ReleaseJob(v)
      PROVE  TypeOK'
  <2>1. releasing' \in [Vms -> SUBSET ({"job"} \cup Kinds)]
    BY <1>7 DEF ReleaseJob
  <2>2. /\ allocated_cpus' \in Nat /\ allocated_memory' \in Nat
        /\ jobs' \in SUBSET Vms
    BY <1>7 DEF ReleaseJob, Monus, allocation
  <2>3. UNCHANGED <<free, held, stage>>
    BY <1>7 DEF ReleaseJob
  <2>4. QED
    BY <2>1, <2>2, <2>3 DEF Addresses
<1>8. ASSUME NEW v \in Vms, NEW k \in Kinds, ReleaseAddress(v, k)
      PROVE  TypeOK'
  <2>1. k \in releasing[v] /\ held[k][v] # None
    BY <1>8 DEF ReleaseAddress, GuardsInv
  <2>2. Append(free[k], held[k][v]) \in Seq(Nat)
        /\ Range(Append(free[k], held[k][v])) \subseteq Addresses(k)
    <3> DEFINE q == free[k]  a == held[k][v]
    <3>1. /\ q \in Seq(Nat) /\ Range(q) \subseteq Addresses(k)
          /\ a \in Nat /\ a \in Addresses(k)
      BY <2>1
    <3> HIDE DEF q, a, TypeOK, Kinds
    <3>2. /\ Append(q, a) \in Seq(Nat)
          /\ Range(Append(q, a)) = Range(q) \cup {a}
      BY <3>1, PushBack
    <3>3. QED
      BY <3>1, <3>2 DEF q, a
  <2>3. /\ held' \in [Kinds -> [Vms -> Nat]]
        /\ \A l \in Kinds, w \in Vms : held'[l][w] \in Addresses(l) \cup {None}
    <3>1. /\ held' = [held EXCEPT ![k][v] = None] /\ None \in Nat
          /\ held \in [Kinds -> [Vms -> Nat]]
      BY <1>8 DEF ReleaseAddress, None
    <3> HIDE DEF TypeOK, Kinds
    <3>2. held' \in [Kinds -> [Vms -> Nat]]
          /\ \A l \in Kinds, w \in Vms :
               held'[l][w] = IF l = k /\ w = v THEN None ELSE held[l][w]
      BY <3>1, HeldUpdate
    <3>3. QED
      BY <3>2 DEF TypeOK
  <2>4. /\ free' \in [Kinds -> Seq(Nat)]
        /\ \A l \in Kinds : Range(free'[l]) \subseteq Addresses(l)
    BY <1>8, <2>2 DEF ReleaseAddress
  <2>5. QED
    BY <1>8, <2>3, <2>4 DEF ReleaseAddress, allocation, Addresses
<1>9. QED
  BY <1>1, <1>2, <1>3, <1>4, <1>5, <1>6, <1>7, <1>8
     DEF Next, Release, AllocateIp, AllocateCid

-----------------------------------------------------------------------------
(* Attempts and their guards *)

LEMMA GuardsStep ==
  ASSUME TypeOK, GuardsInv, [Next]_vars
  PROVE  GuardsInv'
<1> USE DEF GuardsInv
<1>1. CASE UNCHANGED vars
  BY <1>1 DEF vars, allocation
<1>2. ASSUME NEW v \in Vms, CanAllocate(v) \/ RejectResources(v) \/ AllocateResources(v)
      PROVE  GuardsInv'
  <2>1. PICK s \in {"claimed", "gone", "resourced"} :
          /\ stage' = [stage EXCEPT ![v] = s]
          /\ s = "gone" => stage[v] = "claimed"
    BY <1>2 DEF CanAllocate, RejectResources, AllocateResources, Advance
  <2>2. UNCHANGED <<held, releasing>> /\ stage[v] \in {"idle", "claimed"}
    BY <1>2 DEF CanAllocate, RejectResources, AllocateResources
  <2>3. stage'[v] = s /\ \A w \in Vms \ {v} : stage'[w] = stage[w]
    BY <2>1 DEF TypeOK
  <2>4. QED
    BY <2>2, <2>3
<1>3. ASSUME NEW v \in Vms, DropGuards(v), UNCHANGED held
      PROVE  GuardsInv'
  <2>1. /\ stage'[v] = "gone"
        /\ \A k \in Kinds : k \in releasing'[v] => held[k][v] # None
        /\ \A w \in Vms \ {v} :
             stage'[w] = stage[w] /\ releasing'[w] = releasing[w]
    BY <1>3, DropGuardsEffect DEF TypeOK
  <2>2. QED
    BY <1>3, <2>1
<1>4. ASSUME NEW v \in Vms, NEW k \in Kinds,
             NEW next \in {"addressed", "built"}, PopAddress(v, k, next),
             stage[v] = IF k = "ip" THEN "resourced" ELSE "addressed",
             next = IF k = "ip" THEN "addressed" ELSE "built"
      PROVE  GuardsInv'
  <2>1. /\ held' = [held EXCEPT ![k][v] = Head(free[k])]
        /\ stage' = [stage EXCEPT ![v] = next]
        /\ UNCHANGED releasing
    BY <1>4 DEF PopAddress, Advance
  <2>2. free[k] \in Seq(Nat) /\ free[k] # <<>>
    BY <1>4 DEF PopAddress, TypeOK
  <2>3. Head(free[k]) \in Nat
    BY <2>2
  <2>4. \A l \in Kinds, w \in Vms :
          held'[l][w] = IF l = k /\ w = v THEN Head(free[k]) ELSE held[l][w]
    BY <2>1, <2>3, HeldUpdate DEF TypeOK
  <2>5. /\ stage'[v] = next /\ stage[v] # "gone"
        /\ \A w \in Vms \ {v} : stage'[w] = stage[w]
    BY <1>4, <2>1 DEF TypeOK
  <2>6. releasing[v] = {}
    BY <2>5
  <2>7. QED
    BY <1>4, <2>1, <2>4, <2>5, <2>6
<1>5. ASSUME NEW v \in Vms, ReleaseJob(v)
      PROVE  GuardsInv'
  BY <1>5 DEF ReleaseJob, TypeOK
<1>6. ASSUME NEW v \in Vms, NEW k \in Kinds, ReleaseAddress(v, k)
      PROVE  GuardsInv'
  <2>1. /\ held' = [held EXCEPT ![k][v] = None] /\ None \in Nat
        /\ UNCHANGED stage /\ stage[v] = "gone"
        /\ releasing' = [releasing EXCEPT ![v] = @ \ {k}]
    BY <1>6 DEF ReleaseAddress, None
  <2>2. \A l \in Kinds, w \in Vms :
          held'[l][w] = IF l = k /\ w = v THEN None ELSE held[l][w]
    BY <2>1, HeldUpdate DEF TypeOK
  <2>3. /\ releasing'[v] = releasing[v] \ {k}
        /\ \A w \in Vms \ {v} : releasing'[w] = releasing[w]
    BY <2>1 DEF TypeOK
  <2>4. QED
    BY <2>1, <2>2, <2>3
<1>7. QED
  BY <1>1, <1>2, <1>3, <1>4, <1>5, <1>6
     DEF Next, Release, AllocateIp, AllocateCid, DropVm, PoolEmpty

-----------------------------------------------------------------------------
(* Every step is a step of each pool *)

LEMMA PoolSteps ==
  ASSUME TypeOK, GuardsInv, [Next]_vars, NEW k \in Kinds
  PROVE  PoolStep(k)
<1> USE DEF PoolStep
<1>1. CASE UNCHANGED <<free, held>>
  BY <1>1 DEF Leaves
<1>2. ASSUME NEW v \in Vms, NEW l \in Kinds,
             NEW next \in {"addressed", "built"}, PopAddress(v, l, next),
             held[l][v] = None
      PROVE  PoolStep(k)
  <2>1. /\ held' = [held EXCEPT ![l][v] = Head(free[l])]
        /\ free' = [free EXCEPT ![l] = Tail(free[l])]
        /\ free[l] # <<>>
    BY <1>2 DEF PopAddress
  <2>2. free[l] \in Seq(Nat)
    BY DEF TypeOK
  <2>3. Head(free[l]) \in Nat
    BY <2>1, <2>2
  <2>4. /\ held'[l] = [held[l] EXCEPT ![v] = Head(free[l])]
        /\ \A i \in Kinds \ {l} : held'[i] = held[i]
    BY <2>1, <2>3, HeldUpdate DEF TypeOK
  <2>5. /\ free'[l] = Tail(free[l])
        /\ \A i \in Kinds \ {l} : free'[i] = free[i]
    BY <2>1 DEF TypeOK
  <2>6. CASE k = l
    BY <1>2, <2>1, <2>4, <2>5, <2>6 DEF Takes
  <2>7. CASE k # l
    BY <2>4, <2>5, <2>7 DEF Leaves
  <2>8. QED
    BY <2>6, <2>7
<1>3. ASSUME NEW v \in Vms, NEW l \in Kinds, ReleaseAddress(v, l)
      PROVE  PoolStep(k)
  <2>1. /\ held' = [held EXCEPT ![l][v] = None] /\ None \in Nat
        /\ free' = [free EXCEPT ![l] = Append(free[l], held[l][v])]
        /\ held[l][v] # None
    BY <1>3 DEF ReleaseAddress, None, GuardsInv
  <2>2. /\ held'[l] = [held[l] EXCEPT ![v] = None]
        /\ \A i \in Kinds \ {l} : held'[i] = held[i]
    BY <2>1, HeldUpdate DEF TypeOK
  <2>3. /\ free'[l] = Append(free[l], held[l][v])
        /\ \A i \in Kinds \ {l} : free'[i] = free[i]
    BY <2>1 DEF TypeOK
  <2>4. CASE k = l
    BY <2>1, <2>2, <2>3, <2>4 DEF Returns
  <2>5. CASE k # l
    BY <2>2, <2>3, <2>5 DEF Leaves
  <2>6. QED
    BY <2>4, <2>5
<1>4. ASSUME NEW v \in Vms, AllocateIp(v) \/ AllocateCid(v)
      PROVE  PoolStep(k)
  BY <1>1, <1>2, <1>4 DEF AllocateIp, AllocateCid, PoolEmpty, GuardsInv
<1>5. ASSUME NEW v \in Vms,
             \/ CanAllocate(v) \/ AllocateResources(v) \/ RejectResources(v)
             \/ DropVm(v) \/ ReleaseJob(v)
      PROVE  UNCHANGED <<free, held>>
  BY <1>5 DEF CanAllocate, AllocateResources, RejectResources, DropVm,
              ReleaseJob
<1>6. QED
  BY <1>1, <1>3, <1>4, <1>5 DEF Next, Release, vars

-----------------------------------------------------------------------------
(* Addresses *)

PoolInv == TypeOK /\ GuardsInv /\ PoolsConserved

LEMMA PoolInit == Init => PoolInv
<1> SUFFICES ASSUME Init PROVE PoolInv
  OBVIOUS
<1>1. ASSUME NEW k \in Kinds
      PROVE  /\ free[k] \in Seq(Nat) /\ IsInjective(free[k])
             /\ Range(free[k]) = Addresses(k)
             /\ \A v \in Vms : held[k][v] = None
  <2>1. /\ free[k] = [i \in 1 .. PoolSize[k] |-> i] /\ PoolSize[k] \in Nat
        /\ \A v \in Vms : held[k][v] = None
    BY DEF Init, Addresses
  <2>2. free[k] \in Seq(Nat)
    BY <2>1
  <2>3. /\ DOMAIN free[k] = 1 .. PoolSize[k]
        /\ \A i \in 1 .. PoolSize[k] : free[k][i] = i
    BY <2>1
  <2>4. IsInjective(free[k])
    BY <2>3 DEF IsInjective
  <2>5. Range(free[k]) = Addresses(k)
    <3>1. \A x : x \in Range(free[k]) <=>
                   \E i \in 1 .. PoolSize[k] : x = free[k][i]
      BY <2>3 DEF Range
    <3>2. QED
      BY <2>3, <3>1 DEF Addresses
  <2>6. QED
    BY <2>1, <2>2, <2>4, <2>5
<1>2. TypeOK
  <2>1. /\ allocated_cpus \in Nat /\ allocated_memory \in Nat
        /\ jobs \in SUBSET Vms
        /\ stage \in [Vms -> Stages]
        /\ releasing \in [Vms -> SUBSET ({"job"} \cup Kinds)]
    BY DEF Init, Stages
  <2>2. /\ held \in [Kinds -> [Vms -> Nat]]
        /\ free \in [Kinds -> Seq(Nat)]
    BY <1>1 DEF Init, None
  <2>3. QED
    BY <1>1, <2>1, <2>2 DEF TypeOK
<1>3. GuardsInv
  BY <1>1 DEF Init, GuardsInv
<1>4. PoolsConserved
  BY <1>1 DEF PoolsConserved, Conserved
<1>5. QED
  BY <1>2, <1>3, <1>4 DEF PoolInv

LEMMA PoolInvStep == PoolInv /\ [Next]_vars => PoolInv'
<1> SUFFICES ASSUME PoolInv, [Next]_vars PROVE PoolInv'
  OBVIOUS
<1>1. TypeOK' /\ GuardsInv'
  BY TypingStep, GuardsStep DEF PoolInv
<1>2. ASSUME NEW k \in Kinds
      PROVE  Conserved(k)'
  <2>1. Conserved(k) /\ PoolStep(k)
    BY PoolSteps DEF PoolInv, PoolsConserved
  <2>2. CASE Leaves(k)
    BY <2>1, <2>2 DEF Leaves, Conserved, Addresses
  <2>3. CASE \E v \in Vms : Takes(k, v)
    BY <2>1, <2>3, TakingConserves DEF PoolInv
  <2>4. CASE \E v \in Vms : Returns(k, v)
    BY <2>1, <2>4, ReturningConserves DEF PoolInv
  <2>5. QED
    BY <2>1, <2>2, <2>3, <2>4 DEF PoolStep
<1>3. QED
  BY <1>1, <1>2 DEF PoolInv, PoolsConserved

(* Each address is free or belongs to one guard that has yet to return it: *)
(* what allocate_ip, allocate_cid and the tasks of the guards keep.        *)
THEOREM PoolInvariant == Spec => []PoolInv
<1>1. QED
  BY PoolInit, PoolInvStep, PTL DEF Spec

(* ResourceState, the pools and the guards always have their types.        *)
THEOREM Typing == Spec => []TypeOK
<1>1. PoolInv => TypeOK
  BY DEF PoolInv
<1>2. QED
  BY <1>1, PoolInvariant, PTL

(* The guards neither leak an address nor give one back twice, however     *)
(* allocate_ip, allocate_cid and the spawned release_ip and release_cid    *)
(* interleave and wherever an attempt fails.                               *)
THEOREM Conservation == Spec => []PoolsConserved
<1>1. PoolInv => PoolsConserved
  BY DEF PoolInv
<1>2. QED
  BY <1>1, PoolInvariant, PTL

-----------------------------------------------------------------------------
(* Limits *)

LimitsInv == TypeOK /\ IsFiniteSet(jobs) /\ WithinLimits

LEMMA LimitsInit == Init => IsFiniteSet(jobs) /\ WithinLimits
<1> SUFFICES ASSUME Init PROVE IsFiniteSet(jobs) /\ WithinLimits
  OBVIOUS
<1>1. jobs = {} /\ allocated_cpus = 0 /\ allocated_memory = 0
  BY DEF Init
<1>2. IsFiniteSet(jobs) /\ Cardinality(jobs) = 0
  BY <1>1, FS_EmptySet
<1>3. QED
  BY <1>1, <1>2 DEF WithinLimits

(* allocate_resources checks under the lock it writes under. *)
LEMMA AllocationFits ==
  ASSUME LimitsInv, NEW v \in Vms, AllocateResources(v)
  PROVE  IsFiniteSet(jobs') /\ WithinLimits'
<1>1. /\ allocated_cpus \in Nat /\ allocated_memory \in Nat
      /\ Cpus[v] \in Nat /\ Memory[v] \in Nat
      /\ IsFiniteSet(jobs)
  BY DEF LimitsInv, TypeOK
<1>2. /\ Cardinality(jobs) < MaxInstances
      /\ Cpus[v] <= Monus(MaxCpus, allocated_cpus + CpuBuffer)
      /\ Memory[v] <= Monus(MaxMemory, allocated_memory + MemoryBuffer)
      /\ allocated_cpus' = allocated_cpus + Cpus[v]
      /\ allocated_memory' = allocated_memory + Memory[v]
      /\ jobs' = jobs \cup {v}
  BY DEF AllocateResources, Fits
<1>3. allocated_cpus' > 0 => allocated_cpus' + CpuBuffer <= MaxCpus
  BY <1>1, <1>2 DEF Monus, CpuBuffer, LimitsInv, WithinLimits
<1>4. allocated_memory' > 0 => allocated_memory' + MemoryBuffer <= MaxMemory
  BY <1>1, <1>2 DEF Monus, LimitsInv, WithinLimits
<1>5. Cardinality(jobs) \in Nat
  BY <1>1, FS_CardinalityType
<1>6. /\ IsFiniteSet(jobs \cup {v})
      /\ \/ Cardinality(jobs \cup {v}) = Cardinality(jobs)
         \/ Cardinality(jobs \cup {v}) = Cardinality(jobs) + 1
  BY <1>1, FS_AddElement
<1>7. IsFiniteSet(jobs') /\ Cardinality(jobs') <= MaxInstances
  BY <1>2, <1>5, <1>6
<1>8. QED
  BY <1>3, <1>4, <1>7 DEF WithinLimits

LEMMA ReleaseFits ==
  ASSUME LimitsInv, NEW v \in Vms, ReleaseJob(v)
  PROVE  IsFiniteSet(jobs') /\ WithinLimits'
<1>1. CASE UNCHANGED allocation
  BY <1>1 DEF allocation, LimitsInv, WithinLimits
<1>2. CASE /\ v \in jobs
           /\ jobs' = jobs \ {v}
           /\ allocated_cpus' = Monus(allocated_cpus, Cpus[v])
           /\ allocated_memory' = Monus(allocated_memory, Memory[v])
  <2>1. /\ allocated_cpus \in Nat /\ allocated_memory \in Nat
        /\ Cpus[v] \in Nat /\ Memory[v] \in Nat
        /\ IsFiniteSet(jobs) /\ Cardinality(jobs) \in Nat
    BY FS_CardinalityType DEF LimitsInv, TypeOK
  <2>2. allocated_cpus' > 0 => allocated_cpus' + CpuBuffer <= MaxCpus
    BY <1>2, <2>1 DEF Monus, CpuBuffer, LimitsInv, WithinLimits
  <2>3. allocated_memory' > 0 => allocated_memory' + MemoryBuffer <= MaxMemory
    BY <1>2, <2>1 DEF Monus, LimitsInv, WithinLimits
  <2>4. IsFiniteSet(jobs') /\ Cardinality(jobs') <= Cardinality(jobs)
    BY <1>2, <2>1, FS_Subset
  <2>5. Cardinality(jobs') \in Nat
    BY <2>4, FS_CardinalityType
  <2>6. Cardinality(jobs') <= MaxInstances
    BY <2>1, <2>4, <2>5 DEF LimitsInv, WithinLimits
  <2>7. QED
    BY <2>2, <2>3, <2>4, <2>6 DEF WithinLimits
<1>3. QED
  BY <1>1, <1>2 DEF ReleaseJob

LEMMA OtherStepsFit ==
  ASSUME LimitsInv, UNCHANGED allocation
  PROVE  IsFiniteSet(jobs') /\ WithinLimits'
BY DEF LimitsInv, WithinLimits, allocation

LEMMA LimitsStep ==
  ASSUME LimitsInv, [Next]_vars
  PROVE  IsFiniteSet(jobs') /\ WithinLimits'
<1>1. CASE UNCHANGED vars
  BY <1>1, OtherStepsFit DEF vars
<1>2. ASSUME NEW v \in Vms, CanAllocate(v) \/ RejectResources(v)
                           \/ AllocateIp(v) \/ AllocateCid(v) \/ DropVm(v)
      PROVE  UNCHANGED allocation
  BY <1>2 DEF CanAllocate, RejectResources, AllocateIp, AllocateCid, DropVm,
              PopAddress, PoolEmpty
<1>3. ASSUME NEW v \in Vms, NEW k \in Kinds, ReleaseAddress(v, k)
      PROVE  UNCHANGED allocation
  BY <1>3 DEF ReleaseAddress
<1>4. QED
  BY <1>1, <1>2, <1>3, AllocationFits, ReleaseFits, OtherStepsFit
     DEF Next, Release

(* No interleaving of offers, allocations and late releases lets the VMs   *)
(* of one runner have more of the host than check_limits allows.           *)
THEOREM Limits == Spec => []WithinLimits
<1>1. Init => LimitsInv
  BY PoolInit, LimitsInit DEF PoolInv, LimitsInv
<1>2. PoolInv /\ PoolInv' /\ LimitsInv /\ [Next]_vars => LimitsInv'
  BY LimitsStep DEF PoolInv, LimitsInv
<1>3. LimitsInv => WithinLimits
  BY DEF LimitsInv
<1>4. QED
  BY <1>1, <1>2, <1>3, PoolInvariant, PTL DEF Spec

-----------------------------------------------------------------------------
(* Sums                                                                    *)

(* Induction: a set of numbers that is not empty has a least one.          *)
LEMMA LeastNumber ==
  ASSUME NEW T \in SUBSET Nat, T # {}
  PROVE  \E m \in T : \A n \in T : m <= n
<1> DEFINE R == OpToRel(<, Nat)
<1>1. IsWellFoundedOn(R, Nat)
  BY NatLessThanWellFounded
<1>2. \A x, y \in Nat : <<x, y>> \in R <=> x < y
  BY DEF OpToRel
<1> HIDE DEF R
<1>3. PICK m \in T : \A n \in T : ~(<<n, m>> \in R)
  BY <1>1, WFMin
<1>4. ASSUME NEW n \in T  PROVE m <= n
  <2>1. ~(n < m) /\ n \in Nat /\ m \in Nat
    BY <1>2, <1>3
  <2>2. QED
    BY <2>1
<1>5. QED
  BY <1>4

(* g is the sum of f over every part of S, in whatever order.              *)
Sums(g, f, S) ==
  /\ g \in [SUBSET S -> Nat] /\ g[{}] = 0
  /\ \A T \in SUBSET S, x \in S : x \notin T => g[T \cup {x}] = g[T] + f[x]

LEMMA SumsOfMore ==
  ASSUME NEW f \in [Vms -> Nat], NEW S \in SUBSET Vms, NEW x \in S,
         NEW g, Sums(g, f, S \ {x})
  PROVE  \E more : Sums(more, f, S)
<1> DEFINE more == [T \in SUBSET S |-> IF x \in T THEN g[T \ {x}] + f[x] ELSE g[T]]
<1>1. /\ g \in [SUBSET (S \ {x}) -> Nat] /\ g[{}] = 0 /\ f[x] \in Nat
      /\ \A T \in SUBSET (S \ {x}), y \in S \ {x} : y \notin T => g[T \cup {y}] = g[T] + f[y]
  BY DEF Sums
<1>2. ASSUME NEW T \in SUBSET S
      PROVE  /\ T \ {x} \in SUBSET (S \ {x}) /\ g[T \ {x}] \in Nat
             /\ x \notin T => T \in SUBSET (S \ {x}) /\ g[T] \in Nat
  BY <1>1
<1>3. more \in [SUBSET S -> Nat] /\ more[{}] = 0
  <2>1. \A T \in SUBSET S :
          (IF x \in T THEN g[T \ {x}] + f[x] ELSE g[T]) \in Nat
    BY <1>1, <1>2
  <2>2. QED
    BY <1>1, <2>1
<1>4. ASSUME NEW T \in SUBSET S, NEW y \in S, y \notin T
      PROVE  more[T \cup {y}] = more[T] + f[y]
  <2>1. T \cup {y} \in SUBSET S
    OBVIOUS
  <2>2. CASE y = x
    <3>1. x \in T \cup {y} /\ x \notin T /\ (T \cup {y}) \ {x} = T
      BY <2>2, <1>4
    <3>2. QED
      BY <2>1, <2>2, <3>1
  <2>3. CASE y # x /\ x \in T
    <3>1. (T \cup {y}) \ {x} = (T \ {x}) \cup {y} /\ y \notin T \ {x} /\ y \in S \ {x}
      BY <2>3, <1>4
    <3>2. g[(T \cup {y}) \ {x}] = g[T \ {x}] + f[y]
      BY <1>1, <1>2, <3>1
    <3>3. f[y] \in Nat /\ g[T \ {x}] \in Nat
      BY <1>2
    <3>4. QED
      BY <1>1, <2>1, <2>3, <3>2, <3>3
  <2>4. CASE y # x /\ x \notin T
    <3>1. g[T \cup {y}] = g[T] + f[y]
      BY <1>1, <1>2, <1>4, <2>4
    <3>2. QED
      BY <2>1, <2>4, <3>1
  <2>5. QED
    BY <2>2, <2>3, <2>4
<1> HIDE DEF more
<1>5. QED
  BY <1>3, <1>4 DEF Sums

LEMMA SumsExist ==
  ASSUME NEW f \in [Vms -> Nat], NEW S \in SUBSET Vms, IsFiniteSet(S)
  PROVE  \E g : Sums(g, f, S)
<1> DEFINE Lacks(n) == \E T \in SUBSET Vms :
             /\ IsFiniteSet(T) /\ Cardinality(T) = n /\ ~\E g : Sums(g, f, T)
           Ns == {n \in Nat : Lacks(n)}
<1>1. CASE Ns = {}
  <2>1. Cardinality(S) \in Nat
    BY FS_CardinalityType
  <2>2. QED
    BY <1>1, <2>1
<1>2. CASE Ns # {}
  <2>1. PICK n \in Ns : \A m \in Ns : n <= m
    BY <1>2, LeastNumber
  <2>2. PICK T \in SUBSET Vms :
          IsFiniteSet(T) /\ Cardinality(T) = n /\ ~\E g : Sums(g, f, T)
    BY <2>1
  <2>3. CASE T = {}
    <3> DEFINE g == [U \in SUBSET T |-> 0]
    <3>1. g \in [SUBSET T -> Nat] /\ g[{}] = 0
      OBVIOUS
    <3> HIDE DEF g
    <3>2. Sums(g, f, T)
      BY <2>3, <3>1 DEF Sums
    <3>3. QED
      BY <2>2, <3>2
  <2>4. CASE T # {}
    <3>1. PICK x \in T : TRUE
      BY <2>4
    <3>2. IsFiniteSet(T \ {x}) /\ Cardinality(T \ {x}) = n - 1 /\ n - 1 \in Nat
      <4>1. IsFiniteSet(T \ {x}) /\ Cardinality(T \ {x}) = Cardinality(T) - 1
        BY <2>2, <3>1, FS_RemoveElement
      <4>2. Cardinality(T \ {x}) \in Nat
        BY <4>1, FS_CardinalityType
      <4>3. QED
        BY <2>2, <4>1, <4>2
    <3>3. n - 1 \notin Ns
      <4>1. n \in Nat
        BY <2>1
      <4>2. QED
        BY <2>1, <4>1
    <3>4. T \ {x} \in SUBSET Vms
      OBVIOUS
    <3>5. \E g : Sums(g, f, T \ {x})
      BY <3>2, <3>3, <3>4
    <3>6. QED
      BY <2>2, <3>1, <3>5, SumsOfMore
  <2>5. QED
    BY <2>3, <2>4
<1>3. QED
  BY <1>1, <1>2

(* SumFunctionOnSet adds in an order of its own.                           *)
LEMMA SumIs ==
  ASSUME NEW f \in [Vms -> Nat], NEW S \in SUBSET Vms, IsFiniteSet(S),
         NEW g, Sums(g, f, S)
  PROVE  SumFunctionOnSet(f, S) = g[S]
<1> DEFINE Pick(T) == CHOOSE x \in T : TRUE
           Iterates(h) == h = [T \in SUBSET S |->
             IF T = {} THEN 0 ELSE f[Pick(T)] + h[T \ {Pick(T)}]]
<1>1. ASSUME NEW T \in SUBSET S, T # {}
      PROVE  /\ Pick(T) \in T /\ T \ {Pick(T)} \in SUBSET S
             /\ g[T] = f[Pick(T)] + g[T \ {Pick(T)}]
  <2>1. Pick(T) \in T
    BY <1>1
  <2> HIDE DEF Pick
  <2>2. PICK x \in T : x = Pick(T)
    BY <2>1
  <2>3. T \ {x} \in SUBSET S /\ x \in S /\ (T \ {x}) \cup {x} = T
    OBVIOUS
  <2>4. g[T] = g[T \ {x}] + f[x] /\ g[T \ {x}] \in Nat /\ f[x] \in Nat
    BY <2>3 DEF Sums
  <2>5. QED
    BY <2>2, <2>3, <2>4
<1>2. Iterates(g)
  <2> HIDE DEF Pick
  <2>1. g = [T \in SUBSET S |-> g[T]] /\ g[{}] = 0
    BY DEF Sums
  <2>2. \A T \in SUBSET S :
          g[T] = IF T = {} THEN 0 ELSE f[Pick(T)] + g[T \ {Pick(T)}]
    BY <1>1, <2>1
  <2>3. QED
    BY <2>1, <2>2
<1>3. ASSUME NEW h, Iterates(h)  PROVE h[S] = g[S]
  <2> DEFINE Ns == {n \in Nat : \E T \in SUBSET S : Cardinality(T) = n /\ h[T] # g[T]}
  <2>1. CASE Ns = {}
    <3>1. Cardinality(S) \in Nat
      BY FS_CardinalityType
    <3>2. QED
      BY <2>1, <3>1
  <2>2. CASE Ns # {}
    <3>1. PICK n \in Ns : \A m \in Ns : n <= m
      BY <2>2, LeastNumber
    <3>2. PICK T \in SUBSET S : Cardinality(T) = n /\ h[T] # g[T]
      BY <3>1
    <3>3. T # {}
      BY <1>3, <3>2 DEF Sums
    <3>4. h[T] = f[Pick(T)] + h[T \ {Pick(T)}]
      BY <1>3, <3>3
    <3>5. h[T \ {Pick(T)}] # g[T \ {Pick(T)}]
      BY <1>1, <3>2, <3>3, <3>4
    <3>6. /\ Cardinality(T \ {Pick(T)}) = n - 1 /\ n - 1 \in Nat
      <4>1. IsFiniteSet(T)
        BY FS_Subset
      <4>2. /\ IsFiniteSet(T \ {Pick(T)})
            /\ Cardinality(T \ {Pick(T)}) = Cardinality(T) - 1
        BY <1>1, <3>3, <4>1, FS_RemoveElement
      <4>3. Cardinality(T \ {Pick(T)}) \in Nat
        BY <4>2, FS_CardinalityType
      <4>4. QED
        BY <3>2, <4>2, <4>3
    <3>7. n - 1 \in Ns
      BY <1>1, <3>3, <3>5, <3>6
    <3>8. n \in Nat
      BY <3>1
    <3>9. QED
      BY <3>1, <3>7, <3>8
  <2>3. QED
    BY <2>1, <2>2
<1> DEFINE iter == CHOOSE h : Iterates(h)
<1>4. Iterates(iter)
  <2> HIDE DEF Iterates
  <2>1. QED
    BY <1>2
<1>5. SumFunctionOnSet(f, S) = iter[S]
  BY DEF SumFunctionOnSet, FoldFunctionOnSet, MapThenFoldSet
<1> HIDE DEF iter, Iterates
<1>6. QED
  BY <1>3, <1>4, <1>5

LEMMA SumOfMore ==
  ASSUME NEW f \in [Vms -> Nat], NEW S \in SUBSET Vms, IsFiniteSet(S),
         NEW x \in Vms, x \notin S
  PROVE  /\ SumFunctionOnSet(f, S) \in Nat
         /\ SumFunctionOnSet(f, S \cup {x}) = SumFunctionOnSet(f, S) + f[x]
<1> DEFINE more == S \cup {x}
<1>1. more \in SUBSET Vms /\ IsFiniteSet(more)
  BY FS_AddElement
<1>2. PICK g : Sums(g, f, more)
  BY <1>1, SumsExist
<1> DEFINE part == [T \in SUBSET S |-> g[T]]
<1>3. Sums(part, f, S)
  <2>1. \A T \in SUBSET S : T \in SUBSET more /\ g[T] \in Nat /\ part[T] = g[T]
    BY <1>2 DEF Sums
  <2>2. part \in [SUBSET S -> Nat] /\ part[{}] = 0
    BY <1>2, <2>1 DEF Sums
  <2>3. ASSUME NEW T \in SUBSET S, NEW y \in S, y \notin T
        PROVE  part[T \cup {y}] = part[T] + f[y]
    <3>1. T \cup {y} \in SUBSET S
      OBVIOUS
    <3>2. g[T \cup {y}] = g[T] + f[y]
      BY <1>2, <2>1, <2>3 DEF Sums
    <3>3. QED
      BY <2>1, <3>1, <3>2
  <2> HIDE DEF part
  <2>4. QED
    BY <2>2, <2>3 DEF Sums
<1>4. SumFunctionOnSet(f, S) = g[S] /\ g[S] \in Nat
  <2>1. SumFunctionOnSet(f, S) = part[S]
    BY <1>3, SumIs
  <2>2. QED
    BY <1>2, <2>1 DEF Sums
<1>5. SumFunctionOnSet(f, more) = g[more]
  BY <1>1, <1>2, SumIs
<1>6. g[more] = g[S] + f[x]
  BY <1>2 DEF Sums
<1>7. QED
  BY <1>4, <1>5, <1>6

LEMMA SumOfNone == \A f \in [Vms -> Nat] : SumFunctionOnSet(f, {}) = 0
<1> SUFFICES ASSUME NEW f \in [Vms -> Nat]  PROVE SumFunctionOnSet(f, {}) = 0
  OBVIOUS
<1>1. {} \in SUBSET Vms /\ IsFiniteSet({})
  BY FS_EmptySet
<1>2. PICK g : Sums(g, f, {})
  BY <1>1, SumsExist
<1>3. QED
  BY <1>1, <1>2, SumIs DEF Sums

(* The counters. *)

(* An attempt that has yet to allocate has no entry to give back.          *)
AccountingInv ==
  /\ AccountingExact
  /\ \A v \in Vms : stage[v] \in {"idle", "claimed"} => v \notin jobs

LEMMA AccountingStep ==
  ASSUME LimitsInv, AccountingInv, [Next]_vars
  PROVE  AccountingInv'
<1> DEFINE cpus(S) == SumFunctionOnSet(Cpus, S)
           memory(S) == SumFunctionOnSet(Memory, S)
<1>1. /\ Cpus \in [Vms -> Nat] /\ Memory \in [Vms -> Nat]
      /\ jobs \in SUBSET Vms /\ IsFiniteSet(jobs) /\ stage \in [Vms -> Stages]
      /\ allocated_cpus = cpus(jobs) /\ allocated_memory = memory(jobs)
  BY ResourcesAssumption DEF LimitsInv, TypeOK, AccountingInv, AccountingExact
<1>2. ASSUME NEW v \in Vms, AllocateResources(v)  PROVE AccountingInv'
  <2>1. v \notin jobs
    BY <1>2 DEF AllocateResources, AccountingInv
  <2>2. cpus(jobs \cup {v}) = cpus(jobs) + Cpus[v]
    BY <1>1, <2>1, SumOfMore
  <2>3. memory(jobs \cup {v}) = memory(jobs) + Memory[v]
    BY <1>1, <2>1, SumOfMore
  <2>4. AccountingExact'
    BY <1>1, <1>2, <2>2, <2>3 DEF AllocateResources, AccountingExact
  <2>5. \A w \in Vms : stage'[w] \in {"idle", "claimed"} => w \notin jobs'
    BY <1>1, <1>2 DEF AllocateResources, Advance, AccountingInv
  <2>6. QED
    BY <2>4, <2>5 DEF AccountingInv
<1>3. ASSUME NEW v \in Vms, ReleaseJob(v)  PROVE AccountingInv'
  <2>1. stage' = stage /\ jobs' \subseteq jobs
    BY <1>3 DEF ReleaseJob, allocation
  <2>2. CASE UNCHANGED allocation
    BY <2>1, <2>2 DEF allocation, AccountingInv, AccountingExact
  <2>3. CASE /\ v \in jobs
             /\ jobs' = jobs \ {v}
             /\ allocated_cpus' = Monus(allocated_cpus, Cpus[v])
             /\ allocated_memory' = Monus(allocated_memory, Memory[v])
    <3> DEFINE rest == jobs \ {v}
    <3>1. rest \in SUBSET Vms /\ IsFiniteSet(rest) /\ v \notin rest /\ rest \cup {v} = jobs
      BY <1>1, <2>3, FS_RemoveElement
    <3> HIDE DEF rest
    <3>2. cpus(rest) \in Nat /\ cpus(jobs) = cpus(rest) + Cpus[v] /\ Cpus[v] \in Nat
      BY <1>1, <3>1, SumOfMore
    <3>3. memory(rest) \in Nat /\ memory(jobs) = memory(rest) + Memory[v] /\ Memory[v] \in Nat
      BY <1>1, <3>1, SumOfMore
    <3>4. allocated_cpus' = cpus(rest)
      <4> HIDE DEF cpus
      <4>1. QED
        BY <1>1, <2>3, <3>2 DEF Monus
    <3>5. allocated_memory' = memory(rest)
      <4> HIDE DEF memory
      <4>1. QED
        BY <1>1, <2>3, <3>3 DEF Monus
    <3>6. jobs' = rest
      BY <2>3 DEF rest
    <3>7. QED
      BY <2>1, <3>4, <3>5, <3>6 DEF AccountingInv, AccountingExact
  <2>4. QED
    BY <1>3, <2>2, <2>3 DEF ReleaseJob
<1>4. ASSUME NEW v \in Vms, UNCHANGED allocation,
             \A w \in Vms : stage'[w] \in {"idle", "claimed"} =>
                              stage[w] \in {"idle", "claimed"}
      PROVE  AccountingInv'
  BY <1>4 DEF allocation, AccountingInv, AccountingExact
<1>5. ASSUME NEW v \in Vms, CanAllocate(v) \/ RejectResources(v)
                           \/ AllocateIp(v) \/ AllocateCid(v) \/ DropVm(v)
      PROVE  /\ UNCHANGED allocation
             /\ \A w \in Vms : stage'[w] \in {"idle", "claimed"} =>
                                 stage[w] \in {"idle", "claimed"}
  <2>1. PICK s : UNCHANGED allocation /\ stage' = [stage EXCEPT ![v] = s]
                 /\ (s = "claimed" => stage[v] = "idle") /\ s # "idle"
    BY <1>5 DEF CanAllocate, RejectResources, AllocateIp, AllocateCid, DropVm,
                PopAddress, PoolEmpty, DropGuards, Advance
  <2>2. QED
    BY <1>1, <2>1
<1>6. ASSUME NEW v \in Vms, NEW k \in Kinds, ReleaseAddress(v, k)
      PROVE  UNCHANGED allocation /\ stage' = stage
  BY <1>6 DEF ReleaseAddress
<1>7. CASE UNCHANGED vars
  BY <1>7 DEF vars, allocation, AccountingInv, AccountingExact
<1>8. QED
  BY <1>2, <1>3, <1>4, <1>5, <1>6, <1>7 DEF Next, Release

(* The counters of ResourceManager are sums that nobody computes: however  *)
(* allocations and the tasks of dropped guards interleave, no release is   *)
(* repeated, and saturating_sub never cuts off.                            *)
THEOREM Accounting == Spec => []AccountingExact
<1>1. Init => AccountingInv
  BY ResourcesAssumption, SumOfNone DEF Init, AccountingInv, AccountingExact
<1>2. Init => LimitsInv
  BY PoolInit, LimitsInit DEF PoolInv, LimitsInv
<1>3. PoolInv /\ PoolInv' /\ LimitsInv /\ [Next]_vars => LimitsInv'
  BY LimitsStep DEF PoolInv, LimitsInv
<1>4. LimitsInv /\ AccountingInv /\ [Next]_vars => AccountingInv'
  BY AccountingStep
<1>5. AccountingInv => AccountingExact
  BY DEF AccountingInv
<1>6. QED
  BY <1>1, <1>2, <1>3, <1>4, <1>5, PoolInvariant, PTL DEF Spec

-----------------------------------------------------------------------------
(* Each pool is an AddressPool *)

(* The holder of an address is the one VM that has it.                     *)
LEMMA HolderIs ==
  ASSUME NEW k \in Kinds, Conserved(k), NEW a \in Addresses(k), a # None
  PROVE  /\ \A v \in Vms : held[k][v] = a => HolderOf(k)[a] = v
         /\ (\A v \in Vms : held[k][v] # a) => HolderOf(k)[a] = None
<1>1. ASSUME NEW v \in Vms, held[k][v] = a
      PROVE  HolderOf(k)[a] = v
  <2>1. \A w \in Vms : held[k][w] = a <=> w = v
    BY <1>1 DEF Conserved
  <2>2. (CHOOSE w \in Vms : held[k][w] = a) = v
    BY <1>1, <2>1
  <2>3. QED
    BY <1>1, <2>2 DEF HolderOf
<1>2. ASSUME \A v \in Vms : held[k][v] # a
      PROVE  HolderOf(k)[a] = None
  BY <1>2 DEF HolderOf
<1>3. QED
  BY <1>1, <1>2

LEMMA AddressIsSome == \A k \in Kinds : None \notin Addresses(k)
BY ResourcesAssumption DEF Addresses, None, Kinds

(* What AddressPool calls Grant and Return, for the pool of one kind.      *)
Grants(k, a, v) ==
  /\ HolderOf(k)[a] = None
  /\ \A b \in Addresses(k) : HolderOf(k)[b] # v
  /\ HolderOf(k)' = [HolderOf(k) EXCEPT ![a] = v]

TakesBack(k, a) ==
  /\ HolderOf(k)[a] # None
  /\ HolderOf(k)' = [HolderOf(k) EXCEPT ![a] = None]

LEMMA HolderDomain ==
  \A k \in Kinds : DOMAIN HolderOf(k) = Addresses(k)
BY DEF HolderOf

LEMMA TakingGrants ==
  ASSUME PoolInv, PoolInv', NEW k \in Kinds, NEW v \in Vms, Takes(k, v)
  PROVE  \E a \in Addresses(k) : Grants(k, a, v)
<1> DEFINE a == Head(free[k])
<1>1. /\ TypeOK /\ Conserved(k) /\ Conserved(k)'
      /\ held[k] \in [Vms -> Nat] /\ free[k] \in Seq(Nat)
  BY DEF PoolInv, PoolsConserved, TypeOK
<1>2. a \in Range(free[k]) /\ a \in Addresses(k)
  BY <1>1, RangeOfTail DEF TypeOK, Takes
<1>3. a # None
  BY <1>2, AddressIsSome
<1>4. \A w \in Vms : held'[k][w] = IF w = v THEN a ELSE held[k][w]
  BY <1>1 DEF Takes
<1>5. \A w \in Vms : held[k][w] # a
  BY <1>1, <1>2, <1>3 DEF Conserved
<1>6. held[k][v] = None
  BY DEF Takes
<1> HIDE DEF a
<1>7. \A b \in Addresses(k) :
        /\ \A w \in Vms : held[k][w] = b => HolderOf(k)[b] = w
        /\ (\A w \in Vms : held[k][w] # b) => HolderOf(k)[b] = None
        /\ b # None
  BY <1>1, HolderIs, AddressIsSome
<1>8. \A b \in Addresses(k) :
        /\ \A w \in Vms : held'[k][w] = b => HolderOf(k)'[b] = w
        /\ (\A w \in Vms : held'[k][w] # b) => HolderOf(k)'[b] = None
  <2> SUFFICES ASSUME NEW b \in Addresses(k)
               PROVE  /\ \A w \in Vms : held'[k][w] = b => HolderOf(k)'[b] = w
                      /\ (\A w \in Vms : held'[k][w] # b) =>
                           HolderOf(k)'[b] = None
    OBVIOUS
  <2>1. b # None
    BY AddressIsSome
  <2>2. \A w, u \in Vms : held'[k][w] = b /\ held'[k][u] = b => w = u
    BY <1>1, <2>1 DEF Conserved
  <2>3. HolderOf(k)'[b] = IF \E w \in Vms : held'[k][w] = b
                          THEN CHOOSE w \in Vms : held'[k][w] = b
                          ELSE None
    BY DEF HolderOf, Addresses
  <2>4. QED
    BY <2>2, <2>3
<1>9. HolderOf(k)[a] = None
  BY <1>2, <1>5, <1>7
<1>10. ASSUME NEW b \in Addresses(k) PROVE HolderOf(k)[b] # v
  BY <1>6, <1>7, NoVmAssumption
<1>11. ASSUME NEW b \in Addresses(k)
       PROVE  HolderOf(k)'[b] = IF b = a THEN v ELSE HolderOf(k)[b]
  <2>1. CASE b = a
    BY <1>4, <1>8, <2>1
  <2>2. CASE b # a /\ \E w \in Vms : held[k][w] = b
    <3>1. PICK w \in Vms : held[k][w] = b
      BY <2>2
    <3>2. held'[k][w] = b
      BY <1>4, <1>6, <1>7, <3>1
    <3>3. QED
      BY <1>7, <1>8, <2>2, <3>1, <3>2
  <2>3. CASE b # a /\ \A w \in Vms : held[k][w] # b
    BY <1>4, <1>7, <1>8, <2>3
  <2>4. QED
    BY <2>1, <2>2, <2>3
<1>12. HolderOf(k)' = [HolderOf(k) EXCEPT ![a] = v]
  <2>1. HolderOf(k)' = [b \in Addresses(k) |-> HolderOf(k)'[b]]
    BY DEF HolderOf, Addresses
  <2>2. HolderOf(k) = [b \in Addresses(k) |-> HolderOf(k)[b]]
    BY DEF HolderOf
  <2>3. QED
    BY <1>11, <2>1, <2>2
<1>13. QED
  BY <1>2, <1>9, <1>10, <1>12 DEF Grants

LEMMA ReturningTakesBack ==
  ASSUME PoolInv, PoolInv', NEW k \in Kinds, NEW v \in Vms, Returns(k, v)
  PROVE  \E a \in Addresses(k) : TakesBack(k, a)
<1> DEFINE a == held[k][v]
<1>1. /\ TypeOK /\ Conserved(k) /\ Conserved(k)'
      /\ held[k] \in [Vms -> Nat]
  BY DEF PoolInv, PoolsConserved, TypeOK
<1>2. a # None /\ a \in Addresses(k)
  BY <1>1 DEF TypeOK, Returns
<1>3. \A w \in Vms : held'[k][w] = IF w = v THEN None ELSE held[k][w]
  BY <1>1 DEF Returns
<1>4. \A w \in Vms \ {v} : held[k][w] # a
  BY <1>1, <1>2 DEF Conserved
<1>5. held[k][v] = a
  OBVIOUS
<1> HIDE DEF a
<1>6. \A b \in Addresses(k) :
        /\ \A w \in Vms : held[k][w] = b => HolderOf(k)[b] = w
        /\ (\A w \in Vms : held[k][w] # b) => HolderOf(k)[b] = None
        /\ b # None
  BY <1>1, HolderIs, AddressIsSome
<1>7. \A b \in Addresses(k) :
        /\ \A w \in Vms : held'[k][w] = b => HolderOf(k)'[b] = w
        /\ (\A w \in Vms : held'[k][w] # b) => HolderOf(k)'[b] = None
  <2> SUFFICES ASSUME NEW b \in Addresses(k)
               PROVE  /\ \A w \in Vms : held'[k][w] = b => HolderOf(k)'[b] = w
                      /\ (\A w \in Vms : held'[k][w] # b) =>
                           HolderOf(k)'[b] = None
    OBVIOUS
  <2>1. b # None
    BY AddressIsSome
  <2>2. \A w, u \in Vms : held'[k][w] = b /\ held'[k][u] = b => w = u
    BY <1>1, <2>1 DEF Conserved
  <2>3. HolderOf(k)'[b] = IF \E w \in Vms : held'[k][w] = b
                          THEN CHOOSE w \in Vms : held'[k][w] = b
                          ELSE None
    BY DEF HolderOf, Addresses
  <2>4. QED
    BY <2>2, <2>3
<1>8. HolderOf(k)[a] # None
  BY <1>2, <1>5, <1>6, NoVmAssumption
<1>9. ASSUME NEW b \in Addresses(k)
      PROVE  HolderOf(k)'[b] = IF b = a THEN None ELSE HolderOf(k)[b]
  <2>1. CASE b = a
    BY <1>2, <1>3, <1>4, <1>7, <2>1
  <2>2. CASE b # a /\ \E w \in Vms : held[k][w] = b
    <3>1. PICK w \in Vms : held[k][w] = b
      BY <2>2
    <3>2. held'[k][w] = b
      BY <1>3, <1>5, <2>2, <3>1
    <3>3. QED
      BY <1>6, <1>7, <2>2, <3>1, <3>2
  <2>3. CASE b # a /\ \A w \in Vms : held[k][w] # b
    BY <1>3, <1>6, <1>7, <2>3
  <2>4. QED
    BY <2>1, <2>2, <2>3
<1>10. HolderOf(k)' = [HolderOf(k) EXCEPT ![a] = None]
  <2>1. HolderOf(k)' = [b \in Addresses(k) |-> HolderOf(k)'[b]]
    BY DEF HolderOf, Addresses
  <2>2. HolderOf(k) = [b \in Addresses(k) |-> HolderOf(k)[b]]
    BY DEF HolderOf
  <2>3. QED
    BY <1>9, <2>1, <2>2
<1>11. QED
  BY <1>2, <1>8, <1>10 DEF TakesBack

LEMMA HoldersStep ==
  ASSUME PoolInv, PoolInv', [Next]_vars, NEW k \in Kinds
  PROVE  \/ UNCHANGED HolderOf(k)
         \/ \E a \in Addresses(k) :
              TakesBack(k, a) \/ \E v \in Vms : Grants(k, a, v)
<1>1. PoolStep(k)
  BY PoolSteps DEF PoolInv
<1>2. CASE Leaves(k)
  BY <1>2 DEF Leaves, HolderOf, Addresses
<1>3. QED
  BY <1>1, <1>2, TakingGrants, ReturningTakesBack DEF PoolStep

LEMMA HoldersInit ==
  ASSUME Init, NEW k \in Kinds
  PROVE  HolderOf(k) = [a \in Addresses(k) |-> None]
<1>1. \A v \in Vms : held[k][v] = None
  BY DEF Init
<1>2. QED
  BY <1>1, AddressIsSome DEF HolderOf

(* allocate_ip and release_ip, allocate_cid and release_cid, keep what     *)
(* AddressPool promises of a pool of any size: an address goes to one VM   *)
(* that has none of its kind and is free again before another has it.      *)
THEOREM PoolsAreAddressPools == Spec => PoolsImplemented
<1>1. Init => IpPool!Init /\ CidPool!Init
  BY HoldersInit DEF IpPool!Init, CidPool!Init, Kinds
<1>2. ASSUME PoolInv, PoolInv', [Next]_vars
      PROVE  /\ [IpPool!Next]_(HolderOf("ip"))
             /\ [CidPool!Next]_(HolderOf("cid"))
  <2>1. [IpPool!Next]_(HolderOf("ip"))
    BY <1>2, HoldersStep
       DEF IpPool!Next, IpPool!Grant, IpPool!Return, Grants, TakesBack, Kinds
  <2>2. [CidPool!Next]_(HolderOf("cid"))
    BY <1>2, HoldersStep
       DEF CidPool!Next, CidPool!Grant, CidPool!Return, Grants, TakesBack, Kinds
  <2>3. QED
    BY <2>1, <2>2
<1>3. QED
  BY <1>1, <1>2, PoolInvariant, PTL
     DEF Spec, PoolsImplemented, IpPool!Spec, CidPool!Spec

==============================================================================
