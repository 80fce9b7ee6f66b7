----------------------------- MODULE MCWebhook -------------------------------
(* A small instance of Webhook for TLC.                                    *)
EXTENDS Webhook, TLC

CONSTANTS i1, i2, r1

(* Two configurations: two VMs, one of them with its own memory; and one   *)
(* that does not parse, although the memory it gets wrong is overridden.   *)
TwoVms ==
  [memory |-> <<[num |-> 2^22 + 8, unit |-> "gb"]>>, cpus |-> <<>>,
   platforms |-> <<<<Simple("x86_64-linux"),
                     [name |-> "aarch64-darwin", memory |-> <<[num |-> 512, unit |-> "mb"]>>,
                      cpus |-> <<1>>]>>>>]
NoUnit ==
  [memory |-> <<[num |-> 4, unit |-> ""]>>, cpus |-> <<>>,
   platforms |-> <<<<[name |-> "x86_64-linux", memory |-> <<DefaultMemory>>, cpus |-> <<>>]>>>>]

(* Installation ids are told apart by nothing but their equality.          *)
IdsAlike == Permutations(Installations)

SomeClouds == {TwoVms, NoUnit}

==============================================================================
