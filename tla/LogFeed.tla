------------------------------- MODULE LogFeed -------------------------------
(***************************************************************************)
(* What a log stream promises the browser: lines of the log, each new one  *)
(* only after all the stored lines before it.  A line may come again.      *)
(***************************************************************************)
EXTENDS Naturals, Sequences, Functions

CONSTANT Lines

VARIABLES
  stored,   (* the lines the log service has *)
  open,     (* the stream is open *)
  sent      (* what it has sent so far *)

vars == <<stored, open, sent>>

Init == stored = {} /\ open = FALSE /\ sent = <<>>

Before(l) == {m \in stored : m < l}

(* A line is stored above every other, or the log service restarts without *)
(* its last lines: the stream is over then.                                *)
Store ==
  /\ \E l \in Lines : Before(l) = stored /\ l \notin stored /\ stored' = stored \cup {l}
  /\ UNCHANGED <<open, sent>>

Lose ==
  /\ stored' \in {stored} \cup {Before(l) : l \in Lines}
  /\ open' = FALSE /\ sent' = <<>>

Open == ~open /\ open' = TRUE /\ UNCHANGED <<stored, sent>>

Send(l) ==
  /\ open /\ l \in stored /\ Before(l) \subseteq Range(sent)
  /\ sent' = Append(sent, l)
  /\ UNCHANGED <<stored, open>>

Close == open /\ open' = FALSE /\ sent' = <<>> /\ UNCHANGED stored

Next == Store \/ Lose \/ Open \/ Close \/ \E l \in Lines : Send(l)

Spec == Init /\ [][Next]_vars

==============================================================================
