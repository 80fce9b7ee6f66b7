------------------------------ MODULE Resources ------------------------------
(***************************************************************************)
(* ResourceManager: the CPU and memory counters of a runner process, its   *)
(* pools of IP addresses and vsock CIDs, and the guards through which the  *)
(* tasks that build VMs take from them and give back.  Every operation     *)
(* holds one lock from start to end, so each is one action; a guard that   *)
(* is dropped cannot wait for a lock and spawns a task that releases.      *)
(*                                                                         *)
(* A member of Vms is one attempt to build a VM.  Each makes itself a      *)
(* fresh uuid to allocate under (LinuxVm::new, MacosVm::new), which is why *)
(* release_job with the id of a job, as on JobCancelled, finds nothing.    *)
(***************************************************************************)
EXTENDS Integers, Sequences, FiniteSets, Functions

CONSTANTS
  Vms,           (* attempts to build a VM *)
  Cpus, Memory,  (* what each asks for *)
  MaxCpus, MaxMemory, MaxInstances,   (* ResourceLimits; a MaxInstances no
                                         less than the VMs is None *)
  MemoryBuffer,  (* kept free; 100 MB in the code *)
  PoolSize       (* 253 IP addresses and 1022 CIDs in the code *)

Kinds == {"ip", "cid"}

ASSUME ResourcesAssumption ==
  /\ Cpus \in [Vms -> Nat] /\ Memory \in [Vms -> Nat]
  /\ MaxCpus \in Nat /\ MaxMemory \in Nat /\ MaxInstances \in Nat
  /\ MemoryBuffer \in Nat
  /\ PoolSize \in [Kinds -> Nat]

CpuBuffer == 1
None == 0

ASSUME NoVmAssumption == None \notin Vms

Addresses(k) == 1 .. PoolSize[k]

VARIABLES
  allocated_cpus, allocated_memory,   (* ResourceState *)
  jobs,       (* ResourceState.jobs: the attempts that hold resources *)
  free,       (* free_ips and free_cids *)
  held,       (* the address in a guard, or in the task releasing it *)
  stage,      (* how far the attempt has come *)
  releasing   (* the guards of each attempt whose release is spawned *)

allocation == <<allocated_cpus, allocated_memory, jobs>>
vars == <<allocation, free, held, stage, releasing>>

Stages == {"idle", "claimed", "resourced", "addressed", "built", "gone"}

TypeOK ==
  /\ allocated_cpus \in Nat /\ allocated_memory \in Nat
  /\ jobs \in SUBSET Vms
  /\ free \in [Kinds -> Seq(Nat)]
  /\ \A k \in Kinds : Range(free[k]) \subseteq Addresses(k)
  /\ held \in [Kinds -> [Vms -> Nat]]
  /\ \A k \in Kinds, v \in Vms : held[k][v] \in Addresses(k) \cup {None}
  /\ stage \in [Vms -> Stages]
  /\ releasing \in [Vms -> SUBSET ({"job"} \cup Kinds)]

Init ==
  /\ allocated_cpus = 0 /\ allocated_memory = 0
  /\ jobs = {}
  /\ free = [k \in Kinds |-> [i \in Addresses(k) |-> i]]
  /\ held = [k \in Kinds |-> [v \in Vms |-> None]]
  /\ stage = [v \in Vms |-> "idle"]
  /\ releasing = [v \in Vms |-> {}]

(* saturating_sub *)
Monus(m, n) == IF n <= m THEN m - n ELSE 0

(* Mutant: the reserve is not kept. *)
FitsExactly(cpus, memory) ==
  /\ Cardinality(jobs) < MaxInstances
  /\ cpus <= Monus(MaxCpus, allocated_cpus)
  /\ memory <= Monus(MaxMemory, allocated_memory)

(* check_limits finds no reason to reject. *)
Fits(cpus, memory) ==
  /\ Cardinality(jobs) < MaxInstances
  /\ cpus <= Monus(MaxCpus, allocated_cpus + CpuBuffer)
  /\ memory <= Monus(MaxMemory, allocated_memory + MemoryBuffer)

Advance(v, s) == stage' = [stage EXCEPT ![v] = s]

(* Mutants: an attempt that fails early forgets its guard; every attempt   *)
(* gives back addresses it may not have.                                   *)
DropWhenBuilt(v) ==
  /\ Advance(v, "gone")
  /\ releasing' = [releasing EXCEPT ![v] =
                     IF stage[v] = "resourced" THEN {} ELSE {"job"} \cup Kinds]

DropAll(v) ==
  /\ Advance(v, "gone")
  /\ releasing' = [releasing EXCEPT ![v] = {"job"} \cup Kinds]

(* Drop for ResourceGuard, IpGuard and CidGuard: each guard the attempt    *)
(* still has spawns its release.                                           *)
DropGuards(v) ==
  /\ Advance(v, "gone")
  /\ releasing' = [releasing EXCEPT ![v] =
                     {"job"} \cup {k \in Kinds : held[k][v] # None}]

(* can_allocate, when the job is offered: nothing is reserved, and the     *)
(* claim, the answer and the launch lie between this and the allocation.   *)
CanAllocate(v) ==
  /\ stage[v] = "idle"
  /\ Fits(Cpus[v], Memory[v])
  /\ Advance(v, "claimed")
  /\ UNCHANGED <<allocation, free, held, releasing>>

(* allocate_resources: checked again, under the write lock. *)
AllocateResources(v) ==
  /\ stage[v] = "claimed"
  /\ Fits(Cpus[v], Memory[v])
  /\ allocated_cpus' = allocated_cpus + Cpus[v]
  /\ allocated_memory' = allocated_memory + Memory[v]
  /\ jobs' = jobs \cup {v}
  /\ Advance(v, "resourced")
  /\ UNCHANGED <<free, held, releasing>>

RejectResources(v) ==
  /\ stage[v] = "claimed"
  /\ ~Fits(Cpus[v], Memory[v])
  /\ Advance(v, "gone")
  /\ UNCHANGED <<allocation, free, held, releasing>>

(* Mutant: the address is read but left in the pool. *)
PeekAddress(v, k, next) ==
  /\ free[k] # <<>>
  /\ held' = [held EXCEPT ![k][v] = Head(free[k])]
  /\ Advance(v, next)
  /\ UNCHANGED <<allocation, free, releasing>>

(* allocate_ip and allocate_cid: pop_front. *)
PopAddress(v, k, next) ==
  /\ free[k] # <<>>
  /\ held' = [held EXCEPT ![k][v] = Head(free[k])]
  /\ free' = [free EXCEPT ![k] = Tail(@)]
  /\ Advance(v, next)
  /\ UNCHANGED <<allocation, releasing>>

(* An empty pool fails the attempt and drops the guards it has. *)
PoolEmpty(v, k) ==
  /\ free[k] = <<>>
  /\ DropGuards(v)
  /\ UNCHANGED <<allocation, free, held>>

AllocateIp(v) ==
  /\ stage[v] = "resourced"
  /\ PopAddress(v, "ip", "addressed") \/ PoolEmpty(v, "ip")

AllocateCid(v) ==
  /\ stage[v] = "addressed"
  /\ PopAddress(v, "cid", "built") \/ PoolEmpty(v, "cid")

(* The attempt fails before it has an address (copying the root file       *)
(* system, spawning the hypervisor) or after (create_vm, boot_vm), or the  *)
(* VM ends: the guards are dropped.                                        *)
DropVm(v) ==
  /\ stage[v] \in {"resourced", "built"}
  /\ DropGuards(v)
  /\ UNCHANGED <<allocation, free, held>>

(* Mutant: the memory counter is lowered by the number of CPUs. *)
ReleaseSwapped(v) ==
  /\ "job" \in releasing[v]
  /\ jobs' = jobs \ {v}
  /\ allocated_cpus' = Monus(allocated_cpus, Cpus[v])
  /\ allocated_memory' = Monus(allocated_memory, Cpus[v])
  /\ releasing' = [releasing EXCEPT ![v] = @ \ {"job"}]
  /\ UNCHANGED <<free, held, stage>>

(* release_job, in the task the guard spawned. *)
ReleaseJob(v) ==
  /\ "job" \in releasing[v]
  /\ IF v \in jobs
     THEN /\ jobs' = jobs \ {v}
          /\ allocated_cpus' = Monus(allocated_cpus, Cpus[v])
          /\ allocated_memory' = Monus(allocated_memory, Memory[v])
     ELSE UNCHANGED allocation
  /\ releasing' = [releasing EXCEPT ![v] = @ \ {"job"}]
  /\ UNCHANGED <<free, held, stage>>

(* release_ip and release_cid: push_back. *)
ReleaseAddress(v, k) ==
  /\ k \in releasing[v]
  /\ free' = [free EXCEPT ![k] = Append(@, held[k][v])]
  /\ held' = [held EXCEPT ![k][v] = None]
  /\ releasing' = [releasing EXCEPT ![v] = @ \ {k}]
  /\ UNCHANGED <<allocation, stage>>

Release(v) == ReleaseJob(v) \/ \E k \in Kinds : ReleaseAddress(v, k)

Next ==
  \E v \in Vms :
    \/ CanAllocate(v) \/ AllocateResources(v) \/ RejectResources(v)
    \/ AllocateIp(v) \/ AllocateCid(v) \/ DropVm(v) \/ Release(v)

(* Spawned tasks run. *)
Spec == Init /\ [][Next]_vars
FairSpec == Spec /\ \A v \in Vms : WF_vars(Release(v))

-----------------------------------------------------------------------------
(* Correctness *)

(* The counters are the sums of what the jobs in the map asked for: no     *)
(* release is lost, repeated or cut off at zero by saturating_sub.         *)
AccountingExact ==
  /\ allocated_cpus = SumFunctionOnSet(Cpus, jobs)
  /\ allocated_memory = SumFunctionOnSet(Memory, jobs)

(* However checks, allocations and late releases interleave, the VMs leave *)
(* the host a CPU and the memory buffer, and never exceed max_instances.   *)
WithinLimits ==
  /\ allocated_cpus > 0 => allocated_cpus + CpuBuffer <= MaxCpus
  /\ allocated_memory > 0 => allocated_memory + MemoryBuffer <= MaxMemory
  /\ Cardinality(jobs) <= MaxInstances

(* Every address is in the pool once or with one VM, never both and never  *)
(* neither: guards leak nothing and give nothing back twice.               *)
Conserved(k) ==
  /\ IsInjective(free[k])
  /\ \A v \in Vms : held[k][v] # None =>
       /\ held[k][v] \notin Range(free[k])
       /\ \A w \in Vms \ {v} : held[k][w] # held[k][v]
  /\ Addresses(k) \subseteq Range(free[k]) \cup {held[k][v] : v \in Vms}

PoolsConserved == \A k \in Kinds : Conserved(k)

(* Once every VM is gone everything is available again. *)
EverythingComesBack ==
  (\A v \in Vms : stage[v] = "gone") ~>
    /\ allocated_cpus = 0 /\ allocated_memory = 0
    /\ \A k \in Kinds : Len(free[k]) = PoolSize[k]

(* Each pool implements AddressPool, an address being held until its       *)
(* release has run.                                                        *)
HolderOf(k) ==
  [a \in Addresses(k) |->
     IF \E v \in Vms : held[k][v] = a
     THEN CHOOSE v \in Vms : held[k][v] = a
     ELSE None]

IpPool == INSTANCE AddressPool
  WITH Address <- Addresses("ip"), Holders <- Vms, Free <- None,
       holder <- HolderOf("ip")

CidPool == INSTANCE AddressPool
  WITH Address <- Addresses("cid"), Holders <- Vms, Free <- None,
       holder <- HolderOf("cid")

PoolsImplemented == IpPool!Spec /\ CidPool!Spec

==============================================================================
