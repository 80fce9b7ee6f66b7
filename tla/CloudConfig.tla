----------------------------- MODULE CloudConfig -----------------------------
(***************************************************************************)
(* FinalCloud: which VMs a devenv.yaml asks for.  An Option is a sequence  *)
(* of at most one element, an amount of memory a number with its unit.     *)
(***************************************************************************)
EXTENDS Integers, Sequences

(* What serde reads from the file: names and units may be any text.        *)
Options(S) == {option \in Seq(S) : Len(option) <= 1}
Amounts == [num : Nat, unit : STRING]
PlatformConfigs == [name : STRING, memory : Options(Amounts), cpus : Options(Nat)]
Configs ==
  [memory : Options(Amounts), cpus : Options(Nat), platforms : Options(Seq(PlatformConfigs))]

Platforms == {"x86_64-linux", "aarch64-darwin"}

UnwrapOr(option, default) == IF option = <<>> THEN default ELSE option[1]

DefaultMemory == [num |-> 4, unit |-> "gb"]
DefaultCpus == 2

Simple(platform) == [name |-> platform, memory |-> <<>>, cpus |-> <<>>]

(* No devenv.yaml, an empty one, or one without a cloud section.           *)
NoCloud == [memory |-> <<>>, cpus |-> <<>>, platforms |-> <<>>]

(* num * 1024 is computed in a u32: this is (num * 1024) % 2^32.           *)
parse_memory(memory) ==
  IF memory.unit = "gb" THEN (memory.num % 2^22) * 1024 ELSE memory.num

MemoryParses(memory) == memory.unit \in {"gb", "mb"}

PlatformsOf(cloud) ==
  UnwrapOr(cloud.platforms, <<Simple("x86_64-linux"), Simple("aarch64-darwin")>>)

Resolve(cloud, platform) ==
  [platform |-> platform.name,
   memory |-> parse_memory(UnwrapOr(platform.memory, UnwrapOr(cloud.memory, DefaultMemory))),
   cpus |-> UnwrapOr(platform.cpus, UnwrapOr(cloud.cpus, DefaultCpus))]

(* new fails as a whole when any part of it does, the cloud's own memory   *)
(* included when every platform overrides it.                              *)
Parses(cloud) ==
  /\ MemoryParses(UnwrapOr(cloud.memory, DefaultMemory))
  /\ \A k \in DOMAIN PlatformsOf(cloud) :
       LET platform == PlatformsOf(cloud)[k] IN
       /\ platform.name \in Platforms
       /\ platform.memory # <<>> => MemoryParses(platform.memory[1])

FinalCloud(cloud) ==
  [k \in DOMAIN PlatformsOf(cloud) |-> Resolve(cloud, PlatformsOf(cloud)[k])]

==============================================================================
