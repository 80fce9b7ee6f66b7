----------------------------- MODULE AddressPool -----------------------------
(***************************************************************************)
(* What a pool of addresses promises: a free address goes to a VM that has *)
(* none, stays with it, and comes back.  No address has two holders.       *)
(***************************************************************************)
CONSTANTS Address, Holders, Free

VARIABLE holder   (* who has each address *)

Init == holder = [a \in Address |-> Free]

Grant(a, v) ==
  /\ holder[a] = Free
  /\ \A b \in Address : holder[b] # v
  /\ holder' = [holder EXCEPT ![a] = v]

Return(a) ==
  /\ holder[a] # Free
  /\ holder' = [holder EXCEPT ![a] = Free]

Next == \E a \in Address : Return(a) \/ \E v \in Holders : Grant(a, v)

Spec == Init /\ [][Next]_holder

==============================================================================
