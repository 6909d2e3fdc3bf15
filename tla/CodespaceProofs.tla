--------------------------- MODULE CodespaceProofs ---------------------------
(***************************************************************************)
(* The Codespace in the cluster, for any number of versions, Pod names and *)
(* disturbances: OneWriter, DataKept and FinalIsTrue of Codespace.         *)
(***************************************************************************)
EXTENDS Codespace, TLAPS

Preparing  == {"volume", "record_volume", "name", "pod", "record_pod"}
RecPlaces  == Preparing \cup {"idle", "stop", "remove", "release", "finish"}
CoordPlaces == {"idle", "accept", "bind", "clear", "grant", "reject", "rejected"} \cup Decisions
RepPlaces  == {"idle", "result", "final", "save"}
Numbers    == 0 .. LastVersion
PodNumbers == 0 .. LastPod

Ops == [version : Numbers, type : Types]
Resources ==
  [exists : BOOLEAN, version : Numbers, type : Types, bound : BOOLEAN, settled : Numbers,
   result : Numbers, ok : BOOLEAN, recovery : {"none", "stop", "delete"}, pod : PodNumbers,
   uid : PodNumbers, vol : Nat, stopped : Ops, target : BOOLEAN, deleting : BOOLEAN]
Pods == [state : {"none", "pending", "scheduled", "ended"}, deleting : BOOLEAN]

GiteaType ==
  /\ op \in Ops
  /\ final \in [Versions -> {"none", "done", "failed"}]
  /\ said \in [Versions -> {"none", "done", "failed"}]

ClusterType ==
  /\ pods \in [PodNames -> Pods] /\ names \in PodNumbers /\ alive \subseteq PodNames
  /\ volume \in {"none", "live", "deleting"} /\ volumes \in Nat

ThreadType ==
  /\ cs \in Resources
  /\ coord \in [pc : CoordPlaces, cs : Resources, op : Ops, new : BOOLEAN]
  /\ rec \in [pc : RecPlaces, cs : Resources]
  /\ rep \in [pc : RepPlaces, cs : Resources]

TypeOK == GiteaType /\ ClusterType /\ ThreadType

(* Only the reconciler writes the Pod, its UID and the volume and removes   *)
(* the resource, so what it read of them is what they are.                  *)
RecCurrent ==
  /\ rec.pc # "idle" =>
        cs.exists /\ rec.cs.pod = cs.pod /\ rec.cs.uid = cs.uid /\ rec.cs.vol = cs.vol
  /\ cs.uid \in {0, cs.pod}
  /\ rec.pc = "name" => cs.pod = 0
  /\ rec.pc \in {"pod", "record_pod", "release"} => cs.pod # 0

(* Every Pod is the one the resource names, and a Pod that is let go has no *)
(* process.                                                                 *)
Writers ==
  /\ \A n \in PodNames : pods[n].state # "none" => cs.exists /\ cs.pod = n
  /\ \A n \in alive : pods[n].state = "scheduled"
  /\ rec.pc = "release" =>
        pods[cs.pod].state = "none"
        \/ (pods[cs.pod].deleting /\ pods[cs.pod].state \in {"pending", "ended"})
  /\ rec.pc = "finish" => \A n \in PodNames : pods[n].state = "none"

(* Gitea's operations: the first is the only create, all before the current *)
(* one are final, and a failed create or a final delete gave the codespace  *)
(* up.                                                                      *)
Creates == {"create", "abort_create"}
GiteaOrder ==
  /\ IF op.version = 0 THEN op.type = "create" ELSE op.type \in Creates <=> op.version = 1
  /\ \A v \in Versions : v < op.version => final[v] # "none"
  /\ \A v \in Versions : final[v] # "none" => v <= op.version
  /\ \A v \in Versions : v = 1 /\ final[v] = "failed" => gone
  /\ op.version > 0 /\ op.type = "delete" /\ final[op.version] # "none" => gone

(* What a thread knows of the operations is the current one, an earlier     *)
(* one, or the current one before it was aborted; a delete is never earlier *)
(* unless the codespace is given up.                                        *)
GivenUp == gone \/ op.type = "delete"
NotAfter(o, p) ==
  /\ o.version <= p.version
  /\ o.version = p.version => o.type = p.type \/ (o.type \in Startup /\ p.type \in Aborts)
KnownAs(v, t) ==
  /\ v <= op.version
  /\ v = op.version => t = op.type \/ (t \in Startup /\ op.type \in Aborts)
  /\ v > 0 => (t \in Creates <=> v = 1)
  /\ t = "delete" => GivenUp
Known(o) ==
  /\ NotAfter(o, op)
  /\ o.version > 0 => (o.type \in Creates <=> o.version = 1)
  /\ o.type = "delete" => GivenUp

CoordKnown ==
  /\ Known(coord.op) /\ Known(coord.cs)
  /\ coord.pc \in {"accept", "bind", "reject", "rejected"} => coord.op.version > 0
  /\ coord.pc = "accept" => NotAfter(cs, coord.op)

AllKnown ==
  /\ Known(cs) /\ Known(rec.cs) /\ Known(rep.cs)
  /\ cs.exists => cs.version > 0
  /\ rec.pc # "idle" => NotAfter(rec.cs, cs)
  /\ rec.pc \in Preparing => rec.cs.type \in Startup
  /\ cs.result <= cs.version

(* The runtime identity is bound once, at Gitea first, and only what is     *)
(* bound gets a volume or a Pod; a bound resource is ordered to be deleted  *)
(* only when Gitea gave it up.                                              *)
Bound ==
  /\ cs.bound => gbound /\ cs.exists
  /\ cs.vol # 0 => cs.bound
  /\ cs.bound /\ cs.recovery = "delete" => GivenUp
  /\ rec.pc \in Preparing => cs.bound
  /\ rec.pc = "remove" => cs.vol = 0 \/ GivenUp
  /\ coord.pc = "bind" => ~cs.bound /\ cs.recovery # "delete"
  /\ coord.pc = "cleanup_local" => gone
  /\ rep.pc # "idle" => gbound /\ (cs.exists => cs.bound)

Storage ==
  /\ volume # "none" => volumes > 0
  /\ names > 0 => gbound /\ (cs.exists => cs.vol # 0)
  /\ rec.pc = "record_volume" => volumes > 0
  /\ rec.pc \in {"name", "pod", "record_pod"} => cs.vol # 0

(* What is recorded as settled, or about to be, is final at Gitea.          *)
SettledFinal ==
  /\ cs.settled > 0 => final[cs.settled] # "none"
  /\ coord.pc = "clear_operation" /\ cs.exists => final[cs.version] # "none"
  /\ coord.pc = "rejected" =>
        final[coord.op.version] # "none" /\ (coord.op.type = "create" => gone)
  /\ rep.pc # "idle" => rep.cs.version > 0
  /\ rep.pc = "save" => final[rep.cs.version] = Status(rep.cs)

(* A start that succeeded was said to by its Agent; a delete never fails.   *)
Told(c) ==
  c.version > 0 /\ c.result = c.version =>
     /\ c.type \in Startup /\ c.ok => said[c.version] = "done"
     /\ c.type = "delete" => c.ok
ResultsTold ==
  /\ Told(cs) /\ Told(rep.cs)
  /\ rep.pc = "result" => rep.cs.type \notin Startup
  /\ rep.pc = "final" => rep.cs.result = rep.cs.version

(* The Pod that a report needs gone stays gone: a start that failed without *)
(* a Pod is not being prepared, and what is reported is the current state.  *)
StoppedStays ==
  /\ rec.pc \in Preparing /\ SameOperation(rec.cs) /\ cs.uid = 0 => ~FailedStartup(cs)
  /\ rep.pc \in {"result", "final"} /\ NeedsStop(rep.cs) /\ rep.cs.version = op.version /\ cs.exists
        => cs.version = op.version /\ cs.pod = 0 /\ NeedsStop(cs)

IInv == TypeOK /\ RecCurrent /\ Writers /\ GiteaOrder /\ CoordKnown /\ AllKnown /\ Bound /\ Storage
        /\ SettledFinal /\ ResultsTold /\ StoppedStays

(* The values of a thread at rest have their types.                         *)
LEMMA RestTypes ==
  /\ NoOp \in Ops /\ NoCS \in Resources
  /\ Idle \in [pc : RecPlaces, cs : Resources] /\ Idle \in [pc : RepPlaces, cs : Resources]
  /\ IdleCoord \in [pc : CoordPlaces, cs : Resources, op : Ops, new : BOOLEAN]
<1>1. NoOp \in Ops
  BY CodespaceConstants DEF NoOp, Ops, Types, Startup, Numbers
<1>2. NoCS \in Resources
  BY <1>1, CodespaceConstants DEF NoCS, Resources, Types, Startup, Numbers, PodNumbers
<1> QED
  BY Zenon, <1>1, <1>2 DEF Idle, IdleCoord, RecPlaces, RepPlaces, CoordPlaces

(* The numbers of versions a thread may hold.                               *)
LEMMA VersionTypes ==
  ASSUME TypeOK
  PROVE  /\ \A v \in {op.version, cs.version, coord.op.version, coord.cs.version, rec.cs.version,
                       rep.cs.version, cs.settled, cs.result, rep.cs.result} : v \in Nat /\ v \in Numbers
         /\ Versions = Numbers \ {0}
<1>1. Versions = Numbers \ {0}
  BY CodespaceConstants DEF Versions, Numbers
<1> QED
  BY <1>1, CodespaceConstants DEF TypeOK, GiteaType, ThreadType, Ops, Resources, Numbers

(* What is known stays known, what is final or given up stays so.           *)
Advances ==
  /\ \A v \in Versions : final[v] # "none" => final'[v] = final[v]
  /\ gone => gone'
  /\ GivenUp => GivenUp'
  /\ \A v \in Numbers, t \in Types : KnownAs(v, t) => KnownAs(v, t)'

(* What Gitea keeps while it has the same operation: what is final stays    *)
(* final, what is given up or bound stays so.                               *)
GiteaKeeps ==
  /\ op' = op /\ (gone => gone') /\ (gbound => gbound')
  /\ \A v \in Versions : final[v] # "none" => final'[v] = final[v]

SameGitea   == op' = op /\ final' = final /\ gbound' = gbound /\ gone' = gone
SameCluster == pods' = pods /\ names' = names /\ alive' = alive /\ volume' = volume /\ volumes' = volumes
SameOrder   == cs'.exists = cs.exists /\ cs'.version = cs.version /\ cs'.type = cs.type
SameResult  == cs'.result = cs.result /\ cs'.ok = cs.ok
SamePod     == cs'.pod = cs.pod /\ cs'.uid = cs.uid /\ cs'.vol = cs.vol
SameRuntime == SameOrder /\ SameResult /\ SamePod
RecRests    == rec' \in {rec, Idle}
RepRests    == rep' \in {rep, Idle}
CoordRests  == coord' \in {coord, IdleCoord}

(* The parts of the invariant a step leaves alone, each from what it is     *)
(* about: the operations at Gitea ...                                       *)
LEMMA GiteaKept ==
  ASSUME GiteaOrder, SameGitea
  PROVE  GiteaOrder' /\ GiteaKeeps /\ Advances
<1>1. GiteaOrder'
  BY DEF GiteaOrder, SameGitea
<1>2. GiteaKeeps
  BY DEF GiteaKeeps, SameGitea
<1>3. Advances
  BY DEF Advances, GivenUp, KnownAs, SameGitea
<1> QED
  BY Zenon, <1>1, <1>2, <1>3

(* ... the types of what is at Gitea and in the cluster ...                 *)
LEMMA TypesKept ==
  /\ GiteaType /\ SameGitea /\ said' = said => GiteaType'
  /\ ClusterType /\ SameCluster => ClusterType'
<1>1. GiteaType /\ SameGitea /\ said' = said => GiteaType'
  BY DEF GiteaType, SameGitea
<1>2. ClusterType /\ SameCluster => ClusterType'
  BY DEF ClusterType, SameCluster
<1> QED
  BY Zenon, <1>1, <1>2

(* ... what the reconciler knows of the runtime ...                         *)
LEMMA RecCurrentKept ==
  ASSUME RecCurrent, SameOrder, SamePod, RecRests
  PROVE  RecCurrent'
BY DEF RecCurrent, SameOrder, SamePod, RecRests, Idle

(* ... what holds of its Pods ...                                           *)
LEMMA WritersKept ==
  ASSUME Writers, SameCluster, SameOrder, SamePod, RecRests
  PROVE  Writers'
BY DEF Writers, SameCluster, SameOrder, SamePod, RecRests, Idle

(* ... and of its volume ...                                                *)
LEMMA StorageKept ==
  ASSUME Storage, SameCluster, GiteaKeeps, SameOrder, SamePod, RecRests
  PROVE  Storage'
BY DEF Storage, SameCluster, GiteaKeeps, SameOrder, SamePod, RecRests, Idle

(* ... what the threads know of the operations ...                          *)
LEMMA RestKnown ==
  ASSUME GiteaType, GiteaOrder
  PROVE  Known(NoOp) /\ Known(NoCS)
BY DEF Known, NotAfter, NoOp, NoCS, GiteaType, Ops, Numbers, GiteaOrder

(* ... runSite still knows what it knew ...                                 *)
LEMMA CoordKnownKept ==
  ASSUME GiteaType, GiteaOrder, CoordKnown, GiteaKeeps, SameOrder, CoordRests
  PROVE  CoordKnown'
<1>1. CASE coord' = coord
  <2>1. Known(coord.op)'
    BY <1>1 DEF CoordKnown, Known, NotAfter, GivenUp, GiteaKeeps
  <2>2. Known(coord.cs)'
    BY <1>1 DEF CoordKnown, Known, NotAfter, GivenUp, GiteaKeeps
  <2>3. coord.pc = "accept" => NotAfter(cs, coord.op)'
    BY <1>1 DEF CoordKnown, NotAfter, SameOrder
  <2> QED
    BY Zenon, <1>1, <2>1, <2>2, <2>3 DEF CoordKnown
<1>2. CASE coord' = IdleCoord
  <2>1. Known(NoOp) /\ Known(NoCS)
    BY RestKnown
  <2>2. Known(coord.op)' /\ Known(coord.cs)'
    BY <1>2, <2>1 DEF Known, NotAfter, GivenUp, GiteaKeeps, IdleCoord
  <2> QED
    BY Zenon, <1>2, <2>2 DEF CoordKnown, IdleCoord
<1> QED
  BY Zenon, <1>1, <1>2 DEF CoordRests

(* ... also after it read the resource again ...                            *)
LEMMA CoordValuesKnown ==
  ASSUME GiteaType, GiteaOrder, CoordKnown, GiteaKeeps, coord'.op \in {coord.op, NoOp},
         coord'.cs \in {coord.cs, NoCS} \/ (coord'.cs = cs' /\ Known(cs)')
  PROVE  Known(coord.op)' /\ Known(coord.cs)'
<1>1. Known(NoOp) /\ Known(NoCS)
  BY RestKnown
<1>2. Known(coord.op)'
  BY <1>1 DEF CoordKnown, Known, NotAfter, GivenUp, GiteaKeeps
<1>3. CASE coord'.cs \in {coord.cs, NoCS}
  BY <1>1, <1>3 DEF CoordKnown, Known, NotAfter, GivenUp, GiteaKeeps
<1>4. CASE coord'.cs = cs' /\ Known(cs)'
  BY Zenon, <1>2, <1>4 DEF Known, NotAfter
<1> QED
  BY Zenon, <1>2, <1>3, <1>4

(* ... an operation runSite holds stays known ...                           *)
LEMMA KnownKept ==
  ASSUME Known(coord.op), GiteaKeeps, coord'.op = coord.op
  PROVE  Known(coord.op)'
BY DEF Known, NotAfter, GivenUp, GiteaKeeps

(* ... so does the one the resource records ...                             *)
LEMMA CsKnownKept ==
  ASSUME Known(cs), GiteaKeeps, SameOrder
  PROVE  Known(cs)'
BY DEF Known, NotAfter, GivenUp, GiteaKeeps, SameOrder

(* ... the one the reconciler read ...                                      *)
LEMMA RecKnownKept ==
  ASSUME GiteaType, GiteaOrder, Known(rec.cs), GiteaKeeps, rec'.cs \in {rec.cs, NoCS}
  PROVE  Known(rec.cs)'
<1>1. Known(NoCS)
  BY RestKnown
<1>2. CASE rec'.cs = rec.cs
  BY <1>2 DEF Known, NotAfter, GivenUp, GiteaKeeps
<1>3. CASE rec'.cs = NoCS
  BY <1>1, <1>3 DEF Known, NotAfter, GivenUp, GiteaKeeps
<1> QED
  BY Zenon, <1>2, <1>3

(* ... and the one that is being reported ...                               *)
LEMMA RepKnownKept ==
  ASSUME GiteaType, GiteaOrder, Known(rep.cs), GiteaKeeps, rep'.cs \in {rep.cs, NoCS}
  PROVE  Known(rep.cs)'
<1>1. Known(NoCS)
  BY RestKnown
<1>2. CASE rep'.cs = rep.cs
  BY <1>2 DEF Known, NotAfter, GivenUp, GiteaKeeps
<1>3. CASE rep'.cs = NoCS
  BY <1>1, <1>3 DEF Known, NotAfter, GivenUp, GiteaKeeps
<1> QED
  BY Zenon, <1>2, <1>3

(* ... hence all of them, when only threads end their pass ...              *)
LEMMA AllKnownKept ==
  ASSUME GiteaType, GiteaOrder, AllKnown, GiteaKeeps, SameOrder, cs'.result <= cs'.version, RecRests, RepRests
  PROVE  AllKnown'
<1>1. Known(cs)'
  BY Zenon, CsKnownKept DEF AllKnown
<1>2. rec'.cs \in {rec.cs, NoCS} /\ rep'.cs \in {rep.cs, NoCS}
  BY DEF RecRests, RepRests, Idle
<1>3. Known(rec.cs)' /\ Known(rep.cs)'
  BY Zenon, <1>2, RecKnownKept, RepKnownKept DEF AllKnown
<1>4. (rec.pc # "idle" => NotAfter(rec.cs, cs))'
  BY DEF AllKnown, NotAfter, SameOrder, RecRests, Idle
<1>5. (rec.pc \in Preparing => rec.cs.type \in Startup)'
  BY DEF AllKnown, RecRests, Idle, Preparing
<1> QED
  BY Zenon, <1>1, <1>3, <1>4, <1>5 DEF AllKnown, SameOrder

(* ... what is bound ...                                                    *)
LEMMA BoundKept ==
  ASSUME Bound, GiteaKeeps, SameOrder, cs'.bound = cs.bound, cs'.vol = cs.vol,
         cs'.recovery = "delete" => cs.recovery = "delete", CoordRests, RecRests, RepRests
  PROVE  Bound'
BY DEF Bound, GiteaKeeps, SameOrder, GivenUp, Idle, IdleCoord, Preparing, CoordRests, RecRests, RepRests

(* ... what is settled ...                                                  *)
LEMMA SettledKept ==
  ASSUME TypeOK, AllKnown, CoordKnown, SettledFinal, GiteaKeeps, SameOrder, cs'.settled = cs.settled,
         CoordRests, RepRests
  PROVE  SettledFinal'
<1>1. cs.settled > 0 => final'[cs.settled] # "none"
  BY VersionTypes DEF SettledFinal, GiteaKeeps
<1>2. coord.pc = "clear_operation" /\ cs.exists => final'[cs.version] # "none"
  BY VersionTypes DEF SettledFinal, GiteaKeeps, AllKnown
<1>3. coord.pc = "rejected" => final'[coord.op.version] # "none" /\ (coord.op.type = "create" => gone')
  BY VersionTypes DEF SettledFinal, GiteaKeeps, CoordKnown
<1>4. /\ rep.pc # "idle" => rep.cs.version > 0
      /\ rep.pc = "save" => final'[rep.cs.version] = Status(rep.cs)
  BY VersionTypes DEF SettledFinal, GiteaKeeps, Status
<1> QED
  BY <1>1, <1>2, <1>3, <1>4 DEF SettledFinal, SameOrder, Idle, IdleCoord, Status, CoordRests, RepRests

(* ... also when runSite moves on ...                                       *)
LEMMA SettledKeeps ==
  ASSUME TypeOK, SettledFinal, GiteaKeeps, cs' = cs, rep' = rep, coord'.pc # "clear_operation",
         coord'.pc = "rejected" => final'[coord'.op.version] # "none" /\ (coord'.op.type = "create" => gone')
  PROVE  SettledFinal'
BY VersionTypes DEF SettledFinal, GiteaKeeps, Status

(* ... and what was told and stopped.                                       *)
LEMMA ToldKept ==
  ASSUME ResultsTold, SameOrder, SameResult, said' = said, RepRests
  PROVE  ResultsTold'
<1>1. Told(cs)'
  BY DEF ResultsTold, Told, SameOrder, SameResult
<1>2. Told(rep.cs)'
  BY DEF ResultsTold, Told, RepRests, Idle, NoCS
<1> QED
  BY <1>1, <1>2 DEF ResultsTold, RepRests, Idle

(* A stopped runtime stays stopped while nobody records anything of it.     *)
LEMMA StoppedKept ==
  ASSUME StoppedStays, op' = op, SameOrder, SameResult, SamePod, RecRests, RepRests
  PROVE  StoppedStays'
BY DEF StoppedStays, SameOrder, SameResult, SamePod, RecRests, RepRests, Idle, Preparing,
   SameOperation, FailedStartup, NeedsStop

(* A step that leaves operation, result and runtime of the resource alone.  *)
LEMMA SameRuntimeStep ==
  ASSUME IInv, GiteaKeeps, SameRuntime, SameCluster, said' = said, RecRests, RepRests
  PROVE  RecCurrent' /\ Writers' /\ AllKnown' /\ Storage' /\ ResultsTold' /\ StoppedStays'
<1>1. cs'.result <= cs'.version /\ op' = op
  BY DEF IInv, AllKnown, SameRuntime, SameOrder, SameResult, GiteaKeeps
<1> QED
  BY Zenon, <1>1, RecCurrentKept, WritersKept, AllKnownKept, StorageKept, ToldKept, StoppedKept DEF IInv, TypeOK, SameRuntime

(* As operations advance, what was known stays known and what was settled   *)
(* stays final.                                                             *)
LEMMA KnownAdvances ==
  ASSUME ThreadType, CoordKnown, AllKnown, Advances, cs' = cs, coord' = coord, rec' = rec, rep'.cs = rep.cs
  PROVE  Known(cs)' /\ Known(coord.op)' /\ Known(coord.cs)' /\ Known(rec.cs)' /\ Known(rep.cs)'
<1>1. ASSUME NEW o, o.version \in Numbers, o.type \in Types, Known(o)
      PROVE  /\ o.version <= op'.version
             /\ o.version = op'.version => o.type = op'.type \/ (o.type \in Startup /\ op'.type \in Aborts)
             /\ o.version > 0 => (o.type \in Creates <=> o.version = 1)
             /\ o.type = "delete" => GivenUp'
  BY <1>1 DEF Advances, Known, NotAfter, KnownAs
<1>2. \A o \in {cs, coord.op, coord.cs, rec.cs, rep.cs} : o.version \in Numbers /\ o.type \in Types /\ Known(o)
  BY Zenon DEF ThreadType, Resources, Ops, CoordKnown, AllKnown
<1> QED
  BY Zenon, <1>1, <1>2 DEF Known, NotAfter

(* What is settled stays final as operations advance.                       *)
LEMMA SettledAdvances ==
  ASSUME TypeOK, AllKnown, CoordKnown, SettledFinal, Advances, cs' = cs, coord' = coord, rep' = rep
  PROVE  SettledFinal'
BY VersionTypes DEF SettledFinal, Advances, Status, AllKnown, CoordKnown

(* A Pod that runs, ends, is deleted or vanishes; no other one changes.     *)
PodStep(n) == Schedule(n) \/ Terminate(n) \/ PodExits(n) \/ PodEvicted(n) \/ PodVanishes(n)
              \/ DeletePod(n)

Resting(pod) == pod.state = "none" \/ (pod.deleting /\ pod.state \in {"pending", "ended"})

(* Such a step revives no Pod, keeps a resting Pod at rest, and leaves      *)
(* processes only in scheduled Pods.                                        *)
LEMMA PodFacts ==
  ASSUME ClusterType, Writers, NEW n \in PodNames, PodStep(n)
  PROVE  /\ pods' \in [PodNames -> Pods] /\ alive' \subseteq PodNames
         /\ \A m \in PodNames : pods'[m].state # "none" => pods[m].state # "none"
         /\ \A m \in PodNames : Resting(pods[m]) => Resting(pods'[m])
         /\ \A m \in alive' : pods'[m].state = "scheduled"
<1> DEFINE p == pods'[n]
<1>1. /\ pods' = [pods EXCEPT ![n] = p]
      /\ p \in Pods
      /\ p.state # "none" => pods[n].state # "none"
      /\ Resting(pods[n]) => Resting(p)
  <2>1. CASE Schedule(n)
    BY Zenon, <2>1 DEF ClusterType, Schedule, Pods, Resting
  <2>2. CASE Terminate(n)
    BY Zenon, <2>2 DEF ClusterType, Terminate, Pods, Resting
  <2>3. CASE PodExits(n)
    BY Zenon, <2>3 DEF ClusterType, PodExits, Pods, Resting
  <2>4. CASE PodEvicted(n)
    BY Zenon, <2>4 DEF ClusterType, PodEvicted, Pods, Resting, Existing
  <2>5. CASE PodVanishes(n)
    BY Zenon, <2>5 DEF ClusterType, PodVanishes, Pods, Resting, NoPod
  <2>6. CASE DeletePod(n)
    BY Zenon, <2>6 DEF ClusterType, DeletePod, Pods, Resting, Existing
  <2> QED
    BY Zenon, <2>1, <2>2, <2>3, <2>4, <2>5, <2>6 DEF PodStep
<1>2. alive' \subseteq PodNames /\ (n \in alive' => p.state = "scheduled") /\ alive' \subseteq alive \cup {n}
  <2>1. CASE Schedule(n)
    BY Zenon, <2>1 DEF ClusterType, Schedule, Pods
  <2>2. CASE Terminate(n) \/ PodExits(n) \/ PodVanishes(n)
    BY Zenon, <2>2 DEF ClusterType, Terminate, PodExits, PodVanishes
  <2>3. CASE PodEvicted(n)
    BY <2>3 DEF ClusterType, PodEvicted, Writers, Pods
  <2>4. CASE DeletePod(n)
    BY <2>4 DEF ClusterType, DeletePod, Writers, Pods
  <2> QED
    BY Zenon, <2>1, <2>2, <2>3, <2>4 DEF PodStep
<1> HIDE DEF p
<1> QED
  BY Zenon, <1>1, <1>2 DEF ClusterType, Writers, Resting

(* A step of the kubelet, or of whoever disturbs Pods and volume.           *)
KubeLike ==
  \/ VolumeGone \/ ForeignPodEnds \/ VolumeLost \/ ForeignPod
  \/ \E n \in PodNames : Schedule(n) \/ Terminate(n) \/ PodExits(n) \/ PodEvicted(n) \/ PodVanishes(n)

(* Kubernetes keeps the invariant.                                          *)
LEMMA KubeLikeStep ==
  ASSUME IInv, KubeLike
  PROVE  IInv'
<1>1. UNCHANGED <<op, final, gbound, gone, cs, names, volumes, coord, rec, rep, said>>
  BY Zenon DEF KubeLike, VolumeGone, ForeignPodEnds, VolumeLost, ForeignPod, Schedule, Terminate,
     PodExits, PodEvicted, PodVanishes, gitea, kubelet, storage
<1>2. volume' \in {"none", "live", "deleting"} /\ (volume' # "none" => volume # "none")
  BY Zenon DEF KubeLike, VolumeGone, ForeignPodEnds, VolumeLost, ForeignPod, Schedule, Terminate,
     PodExits, PodEvicted, PodVanishes, storage, IInv, TypeOK, ClusterType
<1>3. /\ pods' \in [PodNames -> Pods] /\ alive' \subseteq PodNames
      /\ \A m \in PodNames : pods'[m].state # "none" => pods[m].state # "none"
      /\ \A m \in PodNames : Resting(pods[m]) => Resting(pods'[m])
      /\ \A m \in alive' : pods'[m].state = "scheduled"
  <2>1. CASE UNCHANGED <<pods, alive>>
    BY Zenon, <2>1 DEF IInv, TypeOK, ClusterType, Writers
  <2>2. ASSUME NEW n \in PodNames, PodStep(n) PROVE <1>3!:
    BY Zenon, <2>2, PodFacts DEF IInv, TypeOK
  <2> QED
    BY Zenon, <2>1, <2>2 DEF KubeLike, VolumeGone, ForeignPodEnds, VolumeLost, ForeignPod, kubelet, PodStep
<1>4. TypeOK'
  BY Zenon, <1>1, <1>2, <1>3 DEF IInv, TypeOK, GiteaType, ClusterType, ThreadType
<1>5. RecCurrent' /\ Writers'
  <2>1. cs.pod \in PodNumbers
    BY Zenon DEF IInv, TypeOK, ThreadType, Resources
  <2>2. RecCurrent'
    BY Zenon, <1>1 DEF IInv, RecCurrent
  <2>3. rec.pc = "release" => Resting(pods'[cs.pod])
    BY <2>1, <1>3, CodespaceConstants DEF IInv, RecCurrent, Writers, Resting, PodNames, PodNumbers
  <2>4. Writers'
    BY Zenon, <1>1, <1>3, <2>3 DEF IInv, Writers, Resting
  <2> QED
    BY Zenon, <2>2, <2>4
<1>6. GiteaOrder' /\ CoordKnown' /\ AllKnown' /\ Bound' /\ SettledFinal' /\ ResultsTold' /\ StoppedStays'
  <2>1. SameGitea /\ SameOrder /\ SameResult /\ SamePod /\ said' = said /\ CoordRests /\ RecRests /\ RepRests
    BY Zenon, <1>1 DEF SameGitea, SameOrder, SameResult, SamePod, CoordRests, RecRests, RepRests
  <2>2. GiteaOrder' /\ GiteaKeeps
    BY Zenon, <2>1, GiteaKept DEF IInv
  <2>3. cs' = cs /\ cs'.result <= cs'.version /\ op' = op
    BY Zenon, <1>1 DEF IInv, AllKnown
  <2> QED
    BY Zenon, <2>1, <2>2, <2>3, AllKnownKept, ToldKept, StoppedKept, CoordKnownKept, BoundKept, SettledKept DEF IInv, TypeOK
<1>7. Storage'
  BY Zenon, <1>1, <1>2 DEF IInv, Storage
<1> QED
  BY Zenon, <1>4, <1>5, <1>6, <1>7 DEF IInv

(* A call fails, a lease lapses or another Manager leads: threads end their *)
(* pass, nothing else changes.                                              *)
PassEnds ==
  \/ CoordFails \/ RecFails \/ RepFails \/ FinalFails \/ FlushRefused \/ NewLeader
  \/ WriterConflict \/ LeaseLapses

(* A pass that ends early keeps the invariant.                              *)
LEMMA PassEndsStep ==
  ASSUME IInv, PassEnds
  PROVE  IInv'
<1>1. /\ UNCHANGED <<gitea, cs, kubelet, storage, said>>
      /\ coord' \in {coord, IdleCoord} /\ rec' \in {rec, Idle} /\ rep' \in {rep, Idle}
  BY Zenon DEF PassEnds, CoordFails, RecFails, RepFails, FinalFails, FlushRefused, NewLeader,
     WriterConflict, LeaseLapses, GiveUp, storage, gitea, kubelet
<1>2. SameGitea /\ SameCluster /\ SameRuntime /\ said' = said /\ CoordRests /\ RecRests /\ RepRests
  BY Zenon, <1>1 DEF SameGitea, SameCluster, SameRuntime, SameOrder, SameResult, SamePod, gitea, kubelet, storage,
     CoordRests, RecRests, RepRests
<1>3. TypeOK'
  <2>1. ThreadType'
    BY Zenon, <1>1, RestTypes DEF IInv, TypeOK, ThreadType
  <2> QED
    BY Zenon, <1>2, <2>1, TypesKept DEF IInv, TypeOK
<1>4. GiteaOrder' /\ GiteaKeeps
  BY Zenon, <1>2, GiteaKept DEF IInv
<1>5. RecCurrent' /\ Writers' /\ AllKnown' /\ Storage' /\ ResultsTold' /\ StoppedStays'
  BY Zenon, <1>2, <1>4, SameRuntimeStep
<1>6. CoordKnown' /\ Bound' /\ SettledFinal'
  BY Zenon, <1>1, <1>2, <1>4, CoordKnownKept, BoundKept, SettledKept DEF IInv, TypeOK, SameRuntime
<1> QED
  BY Zenon, <1>3, <1>4, <1>5, <1>6 DEF IInv

(* FinalizeOperation, for the status of a version Gitea knows.              *)
LEMMA FinalizeFacts ==
  ASSUME GiteaType, GiteaOrder, NEW v \in Versions, NEW s \in {"done", "failed"}, v <= op.version,
         v = op.version /\ op.type = "delete" => s = "done", Finalize(v, s)
  PROVE  /\ op' = op /\ gbound' = gbound /\ final' \in [Versions -> {"none", "done", "failed"}]
         /\ GiteaOrder' /\ Advances /\ GiteaKeeps
         /\ final'[v] = s /\ (v = 1 /\ s = "failed" => gone')
<1>1. op' = op /\ gbound' = gbound /\ (gone => gone')
  BY Zenon DEF Finalize
<1>2. \A w \in Versions : w # v => final'[w] = final[w]
  BY Zenon DEF Finalize, GiteaType
<1>0. op.version \in Nat /\ v \in Nat /\ v > 0 /\ (final[v] = "none" => v = op.version)
  BY CodespaceConstants DEF GiteaType, GiteaOrder, Versions, Ops, Numbers
<1>3. final'[v] = s /\ (final[v] # "none" => final'[v] = final[v])
  BY Zenon, <1>0 DEF Finalize, Accepts, GiteaType
<1>4. final' \in [Versions -> {"none", "done", "failed"}]
  BY Zenon DEF Finalize, GiteaType
<1>5. v = 1 /\ s = "failed" => gone'
  BY Zenon, <1>0 DEF Finalize, Accepts, GiteaType, GiteaOrder, Creates
<1>6. op.type = "delete" /\ v = op.version => gone'
  BY Zenon, <1>0 DEF Finalize, Accepts, GiteaType, GiteaOrder
<1>7. GiteaOrder'
  <2>1. \A w \in Versions : final[w] # "none" => final'[w] = final[w]
    BY Zenon, <1>2, <1>3
  <2>2. \A w \in Versions : w < op.version => final'[w] # "none"
    BY Zenon, <2>1 DEF GiteaOrder
  <2>3. \A w \in Versions : final'[w] # "none" => w <= op.version
    BY Zenon, <1>2 DEF GiteaOrder
  <2>4. \A w \in Versions : w = 1 /\ final'[w] = "failed" => gone'
    BY Zenon, <1>1, <1>2, <1>3, <1>5 DEF GiteaOrder
  <2>5. op.version > 0 /\ op.type = "delete" /\ final'[op.version] # "none" => gone'
    <3>1. op.version > 0 => op.version \in Versions
      BY CodespaceConstants DEF GiteaType, Ops, Numbers, Versions
    <3> QED
      BY <1>1, <1>2, <1>6, <3>1 DEF GiteaOrder
  <2> QED
    BY Zenon, <1>1, <2>2, <2>3, <2>4, <2>5 DEF GiteaOrder
<1>8. Advances
  BY Zenon, <1>1, <1>2, <1>3 DEF Advances, GivenUp, KnownAs
<1>9. GiteaKeeps
  BY Zenon, <1>1, <1>2, <1>3 DEF GiteaKeeps
<1> QED
  BY Zenon, <1>1, <1>3, <1>4, <1>5, <1>7, <1>8, <1>9

(* Gitea issues or aborts an operation.                                     *)
LEMMA GiteaFacts ==
  ASSUME GiteaType, GiteaOrder, (\E t \in Types : Issue(t)) \/ Abort
  PROVE  /\ op' \in Ops /\ final' \in [Versions -> {"none", "done", "failed"}]
         /\ GiteaOrder' /\ Advances
         /\ op'.version = op.version \/ op'.version = op.version + 1
<1> USE CodespaceConstants
<1>1. CASE \E t \in Types : Issue(t)
  <2> PICK t \in Types : Issue(t)
    BY Zenon, <1>1
  <2>1. /\ op'.version = op.version + 1 /\ op'.type = t /\ op' \in Ops
        /\ UNCHANGED <<final, gone>> /\ op.version \in Nat
    BY DEF Issue, GiteaType, Ops, Numbers
  <2>2. t \in Creates <=> op'.version = 1
    BY <2>1 DEF Issue, Creates
  <2>3. ~gone /\ (op.version > 0 => final[op.version] # "none") /\ op.type # "delete"
    BY <2>1 DEF Issue, Final, GiteaOrder
  <2>4. GiteaOrder'
    <3>1. op'.version \in Versions /\ \A v \in Versions : v \in Nat /\ v > 0
      BY <2>1 DEF Ops, Numbers, Versions
    <3>2. \A v \in Versions : v < op'.version => final'[v] # "none"
      BY <2>1, <2>3, <3>1 DEF GiteaOrder
    <3>3. final'[op'.version] = "none"
      BY <2>1, <3>1 DEF GiteaOrder
    <3> QED
      BY <2>1, <2>2, <3>1, <3>2, <3>3 DEF GiteaOrder
  <2>5. Advances
    BY <2>1, <2>3 DEF Advances, GivenUp, KnownAs, Numbers
  <2> QED
    BY Zenon, <2>1, <2>4, <2>5 DEF GiteaType
<1>2. CASE Abort /\ gbound
  <2>1. /\ op'.version = op.version /\ op' \in Ops /\ UNCHANGED <<final, gone>>
        /\ op.type \in Startup /\ op'.type \in Aborts /\ op.version > 0 /\ op.version \in Nat
        /\ (op.type = "create" <=> op'.type = "abort_create")
    BY <1>2 DEF Abort, GiteaType, Ops, Numbers, Types, Aborts, Startup, Final
  <2>2. op'.type \in Creates <=> op.type \in Creates
    BY Zenon, <2>1 DEF Creates, Startup, Aborts
  <2>4. op'.type # "delete"
    BY Zenon, <2>1 DEF Aborts
  <2>5. GiteaOrder'
    BY <2>1, <2>2, <2>4 DEF GiteaOrder
  <2>3. Advances
    BY Zenon, <2>1 DEF Advances, GivenUp, KnownAs, Numbers, Startup, Aborts
  <2> QED
    BY Zenon, <2>1, <2>5, <2>3 DEF GiteaType
<1>3. CASE Abort /\ ~gbound
  <2>1. /\ op' = op /\ gone' /\ op.version \in Versions /\ final[op.version] = "none"
        /\ final' = [final EXCEPT ![op.version] = "failed"]
    BY <1>3 DEF Abort, Final, GiteaType, Ops, Numbers, Versions
  <2>2. GiteaOrder'
    <3>1. /\ \A w \in Versions : w # op.version => final'[w] = final[w]
          /\ final'[op.version] = "failed" /\ op.version \in Nat
      BY <2>1 DEF GiteaType, Ops, Numbers
    <3> QED
      BY <2>1, <3>1 DEF GiteaOrder
  <2>3. Advances
    BY Zenon, <2>1 DEF Advances, GivenUp, KnownAs, GiteaType
  <2> QED
    BY Zenon, <2>1, <2>2, <2>3 DEF GiteaType
<1> QED
  BY Zenon, <1>1, <1>2, <1>3

(* Gitea's own steps keep the invariant.                                    *)
LEMMA GiteaStep ==
  ASSUME IInv, (\E t \in Types : Issue(t)) \/ Abort
  PROVE  IInv'
<1>1. UNCHANGED <<gbound, cs, kubelet, storage, coord, rec, rep, said>>
  BY Zenon DEF Issue, Abort
<1>2. /\ op' \in Ops /\ final' \in [Versions -> {"none", "done", "failed"}]
      /\ GiteaOrder' /\ Advances
      /\ op'.version = op.version \/ op'.version = op.version + 1
  BY Zenon, GiteaFacts DEF IInv, TypeOK
<1>3. TypeOK'
  BY Zenon, <1>1, <1>2 DEF IInv, TypeOK, GiteaType, ClusterType, ThreadType, kubelet, storage
<1>4. RecCurrent' /\ Writers' /\ Storage' /\ ResultsTold'
  <2>1. SameCluster /\ SameRuntime /\ said' = said /\ RecRests /\ RepRests
    BY Zenon, <1>1 DEF SameCluster, SameRuntime, SameOrder, SameResult, SamePod, kubelet, storage, RecRests, RepRests
  <2>2. Storage'
    BY Zenon, <1>1 DEF IInv, Storage, kubelet, storage
  <2> QED
    BY Zenon, <2>1, <2>2, RecCurrentKept, WritersKept, ToldKept DEF IInv, SameRuntime
<1>5. Bound'
  BY Zenon, <1>1, <1>2 DEF IInv, Bound, Advances
<1>6. CoordKnown' /\ AllKnown'
  <2>1. Known(cs)' /\ Known(coord.op)' /\ Known(coord.cs)' /\ Known(rec.cs)' /\ Known(rep.cs)'
    BY Zenon, <1>1, <1>2, KnownAdvances DEF IInv, TypeOK
  <2> QED
    BY Zenon, <1>1, <2>1 DEF IInv, CoordKnown, AllKnown, NotAfter
<1>7. SettledFinal'
  BY Zenon, <1>1, <1>2, SettledAdvances DEF IInv
<1>8. StoppedStays'
  BY <1>1, <1>2, VersionTypes DEF IInv, StoppedStays, SameOperation, FailedStartup, NeedsStop, AllKnown, Known, NotAfter
<1> QED
  BY Zenon, <1>2, <1>3, <1>4, <1>5, <1>6, <1>7, <1>8 DEF IInv

(* runSite asks Gitea, or finishes with its answer.                         *)
LEMMA CoordLooksStep ==
  ASSUME IInv, FetchOperations \/ Reject \/ GrantLease \/ \E a \in Decisions : ReportInventory(a)
  PROVE  IInv'
<1>1. UNCHANGED <<gitea, cs, kubelet, storage, rec, rep, said>>
  BY Zenon DEF FetchOperations, Reject, GrantLease, ReportInventory
<1>0. SameGitea /\ SameCluster /\ SameRuntime /\ said' = said /\ RecRests /\ RepRests
  BY Zenon, <1>1 DEF SameGitea, SameCluster, SameRuntime, SameOrder, SameResult, SamePod, gitea, kubelet, storage,
     RecRests, RepRests
<1>2. /\ coord' \in [pc : CoordPlaces, cs : Resources, op : Ops, new : BOOLEAN]
      /\ Known(coord'.op) /\ Known(coord'.cs)
      /\ coord'.pc \in {"accept", "bind", "reject", "rejected"} => coord'.op.version > 0
      /\ coord'.pc = "accept" => NotAfter(cs, coord'.op)
      /\ coord'.pc \in {"bind", "rejected"} => coord' = coord
      /\ coord'.pc = "cleanup_local" => gone \/ coord' = coord
      /\ coord'.pc = "clear_operation" => final[cs.version] # "none" \/ coord' = coord
  <2>1. CASE coord' = coord
    BY Zenon, <2>1 DEF IInv, TypeOK, ThreadType, CoordKnown
  <2> Known(NoOp) /\ Known(NoCS)
    BY Zenon, RestKnown DEF IInv, TypeOK
  <2>2. CASE FetchOperations /\ coord' # coord
    <3>1. coord' = [pc |-> "accept", cs |-> NoCS, op |-> op, new |-> FALSE]
      BY Zenon, <2>2 DEF FetchOperations, IdleCoord
    <3>2. op.version > 0 /\ Known(op) /\ NotAfter(cs, op)
      BY <2>2 DEF FetchOperations, Final, IInv, AllKnown, Known, NotAfter, GivenUp, GiteaOrder, TypeOK, GiteaType, Ops, Numbers
    <3> QED
      BY Zenon, <3>1, <3>2, RestTypes DEF IInv, TypeOK, GiteaType, CoordPlaces
  <2>3. CASE Reject
    <3>1. coord' = [pc |-> "reject", cs |-> coord.cs, op |-> coord.op, new |-> coord.new] /\ coord.pc = "accept"
      BY Zenon, <2>3 DEF Reject, IInv, TypeOK, ThreadType
    <3> QED
      BY Zenon, <3>1 DEF IInv, TypeOK, ThreadType, CoordPlaces, CoordKnown
  <2>4. CASE GrantLease
    BY Zenon, <2>4, RestTypes DEF GrantLease, IdleCoord
  <2>5. ASSUME NEW a \in Decisions, ReportInventory(a) PROVE <1>2!:
    <3>1. coord' = [pc |-> a, cs |-> NoCS, op |-> NoOp, new |-> FALSE]
      BY Zenon, <2>5 DEF ReportInventory, IdleCoord
    <3>2. a = "cleanup_local" => gone
      BY Zenon, <2>5 DEF ReportInventory, Decides
    <3>3. a = "clear_operation" => final[cs.version] # "none"
      BY Zenon, <2>5 DEF ReportInventory, Decides, Final, IInv, AllKnown
    <3> QED
      BY Zenon, <3>1, <3>2, <3>3, RestTypes DEF CoordPlaces, Decisions
  <2> QED
    BY Zenon, <2>1, <2>2, <2>3, <2>4, <2>5
<1>3. TypeOK'
  BY Zenon, <1>1, <1>2 DEF IInv, TypeOK, GiteaType, ClusterType, ThreadType, gitea, kubelet, storage
<1>4. RecCurrent' /\ Writers' /\ AllKnown' /\ Storage' /\ ResultsTold' /\ StoppedStays'
  BY Zenon, <1>0, GiteaKept, SameRuntimeStep DEF IInv
<1>5. CoordKnown' /\ GiteaOrder'
  BY Zenon, <1>1, <1>2 DEF IInv, CoordKnown, Known, NotAfter, GivenUp, GiteaOrder, gitea
<1>6. Bound'
  BY Zenon, <1>1, <1>2 DEF IInv, Bound, GivenUp, gitea
<1>7. SettledFinal'
  BY Zenon, <1>1, <1>2 DEF IInv, SettledFinal, Status, gitea
<1> QED
  BY Zenon, <1>3, <1>4, <1>5, <1>6, <1>7 DEF IInv

(* The answer to a rejected start.                                          *)
LEMMA FinalizeRejectedStep ==
  ASSUME IInv, FinalizeRejected
  PROVE  IInv'
<1>1. UNCHANGED <<op, gbound, cs, kubelet, storage, rec, rep, said>> /\ coord.pc = "reject"
  BY Zenon DEF FinalizeRejected, Finalize, gitea
<1> DEFINE v == coord.op.version
<1>2. v \in Versions /\ v <= op.version /\ (v = op.version /\ op.type = "delete" => coord.op.type \notin Startup)
  BY <1>1, VersionTypes DEF IInv, CoordKnown, Known, NotAfter, Startup, Aborts
<1>3. /\ final' \in [Versions -> {"none", "done", "failed"}] /\ GiteaOrder' /\ GiteaKeeps
      /\ \/ coord' = IdleCoord
         \/ /\ coord' = [coord EXCEPT !.pc = "rejected"] /\ final'[v] # "none"
            /\ coord.op.type = "create" => gone'
  <2>1. CASE coord.op.type \in Startup /\ Accepts(v, "failed")
    <3>1. Finalize(v, "failed") /\ coord' \in {IdleCoord, [coord EXCEPT !.pc = "rejected"]}
      BY Zenon, <2>1 DEF FinalizeRejected
    <3>2. /\ final' \in [Versions -> {"none", "done", "failed"}] /\ GiteaOrder' /\ GiteaKeeps
          /\ final'[v] = "failed" /\ (v = 1 => gone')
      BY Zenon, <1>2, <2>1, <3>1, FinalizeFacts DEF IInv, TypeOK
    <3>3. coord.op.type = "create" => v = 1
      BY <1>2, VersionTypes DEF IInv, CoordKnown, Known, Creates
    <3> QED
      BY Zenon, <3>1, <3>2, <3>3
  <2>2. CASE ~(coord.op.type \in Startup /\ Accepts(v, "failed"))
    <3>1. UNCHANGED gitea /\ coord' = IdleCoord
      BY Zenon, <2>2 DEF FinalizeRejected
    <3> QED
      <4>1. SameGitea
        BY Zenon, <3>1 DEF SameGitea, gitea
      <4> QED
        BY Zenon, <3>1, <4>1, GiteaKept DEF IInv, TypeOK, GiteaType, SameGitea
  <2> QED
    BY Zenon, <2>1, <2>2
<1>4. coord' \in [pc : CoordPlaces, cs : Resources, op : Ops, new : BOOLEAN]
  BY Zenon, <1>3, RestTypes DEF IInv, TypeOK, ThreadType, CoordPlaces
<1>5. TypeOK'
  BY Zenon, <1>1, <1>3, <1>4 DEF IInv, TypeOK, GiteaType, ClusterType, ThreadType, kubelet, storage
<1>6. RecCurrent' /\ Writers' /\ AllKnown' /\ Storage' /\ ResultsTold' /\ StoppedStays'
  <2>1. SameCluster /\ SameRuntime /\ said' = said /\ RecRests /\ RepRests
    BY Zenon, <1>1 DEF SameCluster, SameRuntime, SameOrder, SameResult, SamePod, kubelet, storage, RecRests, RepRests
  <2> QED
    BY Zenon, <1>3, <2>1, SameRuntimeStep
<1>7. /\ coord'.pc \in {"idle", "rejected"}
      /\ (coord'.op = coord.op /\ coord'.cs = coord.cs) \/ (coord'.op = NoOp /\ coord'.cs = NoCS)
      /\ coord'.pc = "rejected" => /\ coord'.op = coord.op /\ final'[v] # "none"
                                   /\ coord.op.type = "create" => gone'
  BY <1>3 DEF IdleCoord, IInv, TypeOK, ThreadType
<1>8. CoordKnown'
  <2>3. Known(coord.op)' /\ Known(coord.cs)'
    BY Zenon, <1>3, <1>7, CoordValuesKnown DEF IInv, TypeOK
  <2> QED
    BY Zenon, <1>1, <1>7, <2>3 DEF IInv, CoordKnown
<1>9. Bound'
  BY Zenon, <1>1, <1>3, <1>7 DEF IInv, Bound, GiteaKeeps, GivenUp
<1>10. SettledFinal'
  <2>1. cs' = cs /\ rep' = rep
    BY Zenon, <1>1
  <2> QED
    BY Zenon, <1>3, <1>7, <2>1, SettledKeeps DEF IInv, SettledFinal
<1> QED
  BY Zenon, <1>3, <1>5, <1>6, <1>8, <1>9, <1>10 DEF IInv

(* runSite binds, clears a stop, and applies what Gitea decided.  All that  *)
(* changes of the resource is bound, settled and recovery.                  *)
LEMMA BindStep ==
  ASSUME IInv, Bind \/ BindRow
  PROVE  IInv'
<1>1. UNCHANGED <<op, final, gone, kubelet, storage, rec, rep, said>>
  BY Zenon DEF Bind, BindRow
<1>2. /\ cs' \in Resources /\ SameRuntime /\ cs'.settled = cs.settled
      /\ \/ cs' = cs
         \/ cs'.recovery = cs.recovery /\ cs.recovery # "delete" /\ cs'.bound /\ cs.exists /\ gbound'
         \/ ~cs.bound /\ ~cs'.bound
  <2>0. cs \in Resources
    BY Zenon DEF IInv, TypeOK, ThreadType
  <2>1. CASE cs' = cs
    BY Zenon, <2>1 DEF IInv, TypeOK, ThreadType, SameRuntime, SameOrder, SameResult, SamePod
  <2>2. ASSUME cs' = [cs EXCEPT !.bound = TRUE], cs.recovery # "delete", cs.exists, gbound' PROVE <1>2!:
    BY Zenon, <2>0, <2>2 DEF Resources, SameRuntime, SameOrder, SameResult, SamePod
  <2>3. ASSUME cs' = [cs EXCEPT !.recovery = "delete"], ~cs.bound PROVE <1>2!:
    BY Zenon, <2>0, <2>3 DEF Resources, SameRuntime, SameOrder, SameResult, SamePod
  <2>4. CASE Bind
    BY Zenon, <2>1, <2>2, <2>4 DEF Bind, IInv, SameOperation, Bound
  <2>5. CASE BindRow
    BY Zenon, <2>2, <2>3, <2>5 DEF BindRow
  <2> QED
    BY Zenon, <2>4, <2>5
<1>3. /\ coord' \in [pc : CoordPlaces, cs : Resources, op : Ops, new : BOOLEAN]
      /\ coord'.pc \in {"idle", "reject", "clear"}
      /\ coord'.op = coord.op \/ coord'.op = NoOp
      /\ coord'.cs = coord.cs \/ coord'.cs = NoCS \/ coord'.cs = cs'
      /\ coord'.pc = "reject" => coord.pc = "bind" /\ coord'.op = coord.op
      /\ gbound => gbound'
  <2>1. CASE Bind
    <3>1. coord.pc = "bind" /\ (gbound => gbound')
      BY Zenon, <2>1 DEF Bind
    <3>2. CASE coord' = [coord EXCEPT !.pc = "reject"]
      BY Zenon, <3>1, <3>2 DEF IInv, TypeOK, ThreadType, CoordPlaces
    <3>3. CASE coord' = [coord EXCEPT !.pc = "clear", !.cs = cs']
      BY Zenon, <1>2, <3>1, <3>3 DEF IInv, TypeOK, ThreadType, CoordPlaces
    <3>4. CASE coord' = IdleCoord
      BY Zenon, <3>1, <3>4, RestTypes DEF IdleCoord
    <3> QED
      BY Zenon, <2>1, <3>2, <3>3, <3>4 DEF Bind
  <2>2. CASE BindRow
    BY Zenon, <2>2 DEF BindRow, IInv, TypeOK, ThreadType
  <2> QED
    BY Zenon, <2>1, <2>2
<1>4. GiteaKeeps
  BY Zenon, <1>1, <1>3 DEF GiteaKeeps
<1>5. TypeOK'
  BY Zenon, <1>1, <1>2, <1>3 DEF IInv, TypeOK, GiteaType, ClusterType, ThreadType, kubelet, storage
<1>6. RecCurrent' /\ Writers' /\ AllKnown' /\ Storage' /\ ResultsTold' /\ StoppedStays'
  <2>1. SameCluster /\ said' = said /\ RecRests /\ RepRests
    BY Zenon, <1>1 DEF SameCluster, kubelet, storage, RecRests, RepRests
  <2> QED
    BY Zenon, <1>2, <1>4, <2>1, SameRuntimeStep
<1>7. GiteaOrder'
  BY Zenon, <1>1 DEF IInv, GiteaOrder
<1>8. CoordKnown'
  <2>1. Known(cs)'
    BY Zenon, <1>6 DEF AllKnown
  <2>2. Known(coord.op)' /\ Known(coord.cs)'
    BY Zenon, <1>3, <1>4, <2>1, CoordValuesKnown DEF IInv, TypeOK
  <2> QED
    BY Zenon, <1>3, <2>2 DEF IInv, CoordKnown
<1>9. Bound'
  BY Zenon, <1>1, <1>2, <1>3 DEF IInv, Bound, GivenUp, SameRuntime, SameOrder, SamePod
<1>10. SettledFinal'
  BY Zenon, <1>1, <1>2, <1>3 DEF IInv, SettledFinal, Status
<1> QED
  BY Zenon, <1>5, <1>6, <1>7, <1>8, <1>9, <1>10 DEF IInv

(* A recovery that is cleared, and what Gitea rejected or decided.          *)
LEMMA DecideStep ==
  ASSUME IInv, ClearRecovery \/ SaveRejected \/ ApplyInventory
  PROVE  IInv'
<1>1. UNCHANGED <<gitea, kubelet, storage, rec, rep, said>>
  BY Zenon DEF ClearRecovery, SaveRejected, ApplyInventory
<1>2. /\ cs' \in Resources /\ SameRuntime /\ cs'.bound = cs.bound
      /\ cs'.settled = cs.settled \/ (cs'.settled = cs.version /\ final[cs.version] # "none")
      /\ cs'.recovery = "delete" => cs.recovery = "delete" \/ gone
  <2>0. cs \in Resources
    BY Zenon DEF IInv, TypeOK, ThreadType
  <2>1. CASE cs' = cs
    BY Zenon, <2>1 DEF IInv, TypeOK, ThreadType, SameRuntime, SameOrder, SameResult, SamePod
  <2>2. ASSUME NEW a \in {"none", "stop", "delete"}, a = "delete" => cs.recovery = "delete" \/ gone,
               cs' = [cs EXCEPT !.recovery = a]
        PROVE  <1>2!:
    BY Zenon, <2>0, <2>2 DEF Resources, SameRuntime, SameOrder, SameResult, SamePod
  <2>3. ASSUME NEW a \in {"none", "stop", "delete"}, a = "delete" => gone, final[cs.version] # "none",
               cs' = [cs EXCEPT !.settled = cs.version, !.recovery = a]
        PROVE  <1>2!:
    BY Zenon, <2>0, <2>3 DEF Resources, SameRuntime, SameOrder, SameResult, SamePod
  <2>4. ASSUME final[cs.version] # "none", cs' = [cs EXCEPT !.settled = cs.version]
        PROVE  <1>2!:
    BY Zenon, <2>0, <2>4 DEF Resources, SameRuntime, SameOrder, SameResult, SamePod
  <2>5. CASE ClearRecovery
    <3> DEFINE a == IF cs.recovery = "stop" THEN "none" ELSE cs.recovery
    <3>1. a \in {"none", "stop", "delete"} /\ (a = "delete" => cs.recovery = "delete")
      BY Zenon DEF IInv, TypeOK, ThreadType, Resources
    <3>2. cs' = cs \/ cs' = [cs EXCEPT !.recovery = a]
      BY Zenon, <2>5 DEF ClearRecovery
    <3> QED
      BY Zenon, <2>1, <2>2, <3>1, <3>2
  <2>6. CASE SaveRejected
    <3> DEFINE a == IF coord.op.type = "create" THEN "delete" ELSE "stop"
    <3>1. cs' = cs \/ (cs' = [cs EXCEPT !.settled = cs.version, !.recovery = a] /\ cs.version = coord.op.version)
      BY Zenon, <2>6 DEF SaveRejected
    <3>2. a \in {"none", "stop", "delete"} /\ (a = "delete" => gone) /\ final[coord.op.version] # "none"
      BY Zenon, <2>6 DEF SaveRejected, IInv, SettledFinal
    <3> QED
      BY Zenon, <2>1, <2>3, <3>1, <3>2
  <2>7. CASE ApplyInventory
    BY Zenon, <2>1, <2>2, <2>4, <2>7 DEF ApplyInventory, Decisions, IInv, SettledFinal, Bound
  <2> QED
    BY Zenon, <2>5, <2>6, <2>7
<1>3. /\ coord' \in [pc : CoordPlaces, cs : Resources, op : Ops, new : BOOLEAN]
      /\ coord'.pc \in {"idle", "grant"}
      /\ coord'.op = coord.op \/ coord'.op = NoOp
      /\ coord'.cs = coord.cs \/ coord'.cs = NoCS \/ coord'.cs = cs'
  <2>1. CASE coord' = IdleCoord
    BY Zenon, <2>1, RestTypes DEF IdleCoord
  <2>2. CASE coord' = [coord EXCEPT !.pc = "grant"]
    BY Zenon, <2>2 DEF IInv, TypeOK, ThreadType, CoordPlaces
  <2>3. CASE coord' = [coord EXCEPT !.pc = "grant", !.cs = cs']
    BY Zenon, <1>2, <2>3 DEF IInv, TypeOK, ThreadType, CoordPlaces
  <2> QED
    BY Zenon, <2>1, <2>2, <2>3 DEF ClearRecovery, SaveRejected, ApplyInventory
<1>4. GiteaKeeps
  BY Zenon, <1>1 DEF GiteaKeeps, gitea
<1>5. TypeOK'
  BY Zenon, <1>1, <1>2, <1>3 DEF IInv, TypeOK, GiteaType, ClusterType, ThreadType, gitea, kubelet, storage
<1>6. RecCurrent' /\ Writers' /\ AllKnown' /\ Storage' /\ ResultsTold' /\ StoppedStays'
  <2>1. SameCluster /\ said' = said /\ RecRests /\ RepRests
    BY Zenon, <1>1 DEF SameCluster, kubelet, storage, RecRests, RepRests
  <2> QED
    BY Zenon, <1>2, <1>4, <2>1, SameRuntimeStep
<1>7. GiteaOrder'
  BY Zenon, <1>1 DEF IInv, GiteaOrder, gitea
<1>8. CoordKnown'
  <2>1. Known(cs)'
    BY Zenon, <1>6 DEF AllKnown
  <2>2. Known(coord.op)' /\ Known(coord.cs)'
    BY Zenon, <1>3, <1>4, <2>1, CoordValuesKnown DEF IInv, TypeOK
  <2> QED
    BY Zenon, <1>3, <2>2 DEF IInv, CoordKnown
<1>9. Bound'
  BY Zenon, <1>1, <1>2, <1>3 DEF IInv, Bound, GivenUp, SameRuntime, SameOrder, SamePod, gitea
<1>10. SettledFinal'
  BY Zenon, <1>1, <1>2, <1>3 DEF IInv, SettledFinal, Status, gitea
<1> QED
  BY Zenon, <1>5, <1>6, <1>7, <1>8, <1>9, <1>10 DEF IInv

(* A create makes the resource: nothing was there before it.                *)
LEMMA AcceptCreateStep ==
  ASSUME IInv, AcceptCreate
  PROVE  IInv'
<1>1. /\ UNCHANGED <<gitea, kubelet, storage, rec, rep, said>>
      /\ coord.pc = "accept" /\ ~cs.exists /\ coord.op.type = "create" /\ ~gbound
  BY Zenon DEF AcceptCreate
<1>2. /\ cs' \in Resources /\ cs'.exists /\ cs'.version = coord.op.version /\ cs'.type = coord.op.type
      /\ ~cs'.bound /\ cs'.recovery = "none" /\ cs'.pod = 0 /\ cs'.uid = 0 /\ cs'.vol = 0
      /\ cs'.settled = 0 /\ cs'.result = 0
  <2>1. coord.op.version \in Numbers /\ "create" \in Types
    BY Zenon DEF IInv, TypeOK, ThreadType, Ops, Types, Startup
  <2>2. cs' \in Resources
    BY ZenonT(60), <2>1, RestTypes DEF AcceptCreate, Resources
  <2> QED
    BY Zenon, <1>1, <2>2 DEF AcceptCreate, NoCS
<1>3. /\ coord' \in [pc : CoordPlaces, cs : Resources, op : Ops, new : BOOLEAN]
      /\ coord'.pc = "bind" /\ coord'.op = coord.op /\ coord'.cs = cs'
  BY Zenon, <1>2 DEF AcceptCreate, IInv, TypeOK, ThreadType, CoordPlaces
<1>4. /\ rec.pc = "idle" /\ rep.pc = "idle" /\ names = 0 /\ coord.op.version > 0
      /\ \A n \in PodNames : pods[n].state = "none"
  BY <1>1, CodespaceConstants
  DEF IInv, RecCurrent, Bound, Storage, CoordKnown, Writers, TypeOK, ClusterType, PodNumbers
<1>5. TypeOK'
  BY Zenon, <1>1, <1>2, <1>3 DEF IInv, TypeOK, GiteaType, ClusterType, ThreadType, gitea, kubelet, storage
<1>6. RecCurrent' /\ Writers' /\ Storage' /\ GiteaOrder'
  BY Zenon, <1>1, <1>2, <1>4 DEF IInv, RecCurrent, Writers, Storage, GiteaOrder, gitea, kubelet, storage
<1>7. CoordKnown' /\ AllKnown'
  <2>1. GiteaKeeps /\ coord'.op = coord.op
    BY Zenon, <1>1, <1>3 DEF GiteaKeeps, gitea
  <2>2. Known(coord.op)' /\ Known(rec.cs)' /\ Known(rep.cs)'
    BY Zenon, <1>1, <2>1, KnownKept, RecKnownKept, RepKnownKept DEF IInv, TypeOK, CoordKnown, AllKnown
  <2>3. Known(cs)'
    BY Zenon, <1>2, <1>3, <2>2 DEF Known, NotAfter
  <2>4. cs'.result <= cs'.version
    BY <1>2, VersionTypes DEF IInv
  <2> QED
    BY Zenon, <1>1, <1>2, <1>3, <1>4, <2>2, <2>3, <2>4 DEF CoordKnown, AllKnown, Known, NotAfter, Preparing
<1>8. Bound' /\ SettledFinal'
  BY <1>1, <1>2, <1>3, <1>4 DEF Bound, SettledFinal, Preparing
<1>9. ResultsTold' /\ StoppedStays'
  <2>1. Told(cs)'
    BY <1>2, <1>4 DEF Told
  <2>2. Told(rep.cs)'
    BY Zenon, <1>1 DEF IInv, ResultsTold, Told
  <2> QED
    BY Zenon, <1>1, <1>4, <2>1, <2>2 DEF ResultsTold, StoppedStays, Preparing
<1> QED
  BY Zenon, <1>5, <1>6, <1>7, <1>8, <1>9 DEF IInv

(* Accept replaces the operation by one that is not older.                  *)
LEMMA AcceptStep ==
  ASSUME IInv, Accept
  PROVE  IInv'
<1>1. /\ UNCHANGED <<gitea, kubelet, storage, rec, rep, said>>
      /\ coord.pc = "accept" /\ cs.exists /\ cs.recovery # "delete"
  BY Zenon DEF Accept, Conflicts
<1>2. /\ cs' \in Resources /\ cs'.version = coord.op.version /\ cs'.type = coord.op.type
      /\ cs'.exists = cs.exists /\ cs'.bound = cs.bound /\ cs'.recovery = cs.recovery
      /\ cs'.pod = cs.pod /\ cs'.uid = cs.uid /\ cs'.vol = cs.vol
      /\ cs'.settled = cs.settled /\ cs'.result = cs.result /\ cs'.ok = cs.ok
  BY Zenon DEF Accept, Resources, IInv, TypeOK, ThreadType, Ops
<1>3. /\ coord' \in [pc : CoordPlaces, cs : Resources, op : Ops, new : BOOLEAN]
      /\ coord'.pc \in {"bind", "clear"} /\ coord'.op = coord.op /\ coord'.cs = cs'
      /\ coord'.pc = "bind" => ~cs.bound
  <2> DEFINE place == IF cs.bound THEN "clear" ELSE "bind"
             isNew == coord.op.version > cs.version
  <2>1. coord' = [coord EXCEPT !.pc = place, !.cs = cs', !.new = isNew]
    BY Zenon DEF Accept
  <2>2. place \in {"bind", "clear"} /\ (place = "bind" => ~cs.bound) /\ isNew \in BOOLEAN
    OBVIOUS
  <2> HIDE DEF place, isNew
  <2> QED
    BY Zenon, <1>2, <2>1, <2>2 DEF IInv, TypeOK, ThreadType, CoordPlaces
<1>4. /\ coord.op.version > 0 /\ Known(coord.op)
      /\ cs.version < coord.op.version
         \/ (cs.version = coord.op.version /\ cs.type = coord.op.type)
         \/ (cs.version = coord.op.version /\ cs.type \in Startup /\ coord.op.type \in Aborts)
  BY <1>1, VersionTypes DEF IInv, CoordKnown, NotAfter
<1>5. TypeOK'
  BY Zenon, <1>1, <1>2, <1>3 DEF IInv, TypeOK, GiteaType, ClusterType, ThreadType, gitea, kubelet, storage
<1>6. RecCurrent' /\ Writers' /\ Storage' /\ GiteaOrder'
  <2>1. RecCurrent'
    BY Zenon, <1>1, <1>2 DEF IInv, RecCurrent
  <2>2. SameCluster
    BY Zenon, <1>1 DEF SameCluster, kubelet, storage
  <2>3. Writers'
    BY Zenon, <1>1, <1>2, <2>2 DEF IInv, Writers, SameCluster
  <2>4. Storage' /\ GiteaOrder'
    BY Zenon, <1>1, <1>2, <2>2 DEF IInv, Storage, GiteaOrder, gitea, SameCluster
  <2> QED
    BY Zenon, <2>1, <2>3, <2>4
<1>7. Known(cs)' /\ CoordKnown'
  <2>1. GiteaKeeps
    BY Zenon, <1>1 DEF GiteaKeeps, gitea
  <2>2. Known(coord.op)'
    BY Zenon, <1>3, <2>1, KnownKept DEF IInv, TypeOK, CoordKnown
  <2>3. Known(cs)'
    BY Zenon, <1>2, <1>3, <2>2 DEF Known, NotAfter
  <2> QED
    BY Zenon, <1>3, <1>4, <2>2, <2>3 DEF CoordKnown, Known, NotAfter
<1>8. AllKnown'
  <2>1. rec.pc # "idle" => NotAfter(rec.cs, cs')
    BY <1>2, <1>4, VersionTypes DEF IInv, AllKnown, NotAfter, Startup, Aborts
  <2>2. cs'.result <= cs'.version /\ cs'.version > 0
    BY <1>2, <1>4, VersionTypes DEF IInv, AllKnown
  <2> QED
    <3>1. GiteaKeeps
      BY Zenon, <1>1 DEF GiteaKeeps, gitea
    <3>2. Known(rec.cs)' /\ Known(rep.cs)'
      BY Zenon, <1>1, <3>1, RecKnownKept, RepKnownKept DEF IInv, TypeOK, AllKnown
    <3> QED
      BY Zenon, <1>1, <1>7, <2>1, <2>2, <3>2 DEF IInv, AllKnown, NotAfter
<1>9. Bound' /\ SettledFinal'
  BY Zenon, <1>1, <1>2, <1>3 DEF IInv, Bound, GivenUp, SettledFinal, Status, gitea
<1>10. ResultsTold'
  BY <1>1, <1>2, <1>4, VersionTypes DEF IInv, ResultsTold, Told, AllKnown, Startup, Aborts
<1>11. StoppedStays'
  <2>1. rec.pc \in Preparing /\ rec.cs.version = cs'.version /\ rec.cs.type = cs'.type
        => cs'.version = cs.version /\ cs'.type = cs.type
    BY <1>2, <1>4, VersionTypes DEF IInv, AllKnown, NotAfter, Preparing, Startup, Aborts
  <2>2. cs.version = op.version /\ NeedsStop(cs) => cs'.version = op.version /\ NeedsStop(cs')
    BY <1>2, <1>4, VersionTypes DEF Known, NotAfter, NeedsStop, FailedStartup, IInv, Startup, Aborts
  <2> QED
    BY Zenon, <1>1, <1>2, <2>1, <2>2 DEF IInv, StoppedStays, SameOperation, FailedStartup, NeedsStop, gitea
<1> QED
  BY Zenon, <1>5, <1>6, <1>7, <1>8, <1>9, <1>10, <1>11 DEF IInv

(* Reconcile reads the resource, and takes a pass.                          *)
LEMMA ReconcileStep ==
  ASSUME IInv, Reconcile
  PROVE  IInv'
<1>1. /\ UNCHANGED <<gitea, cs, kubelet, storage, coord, rep, said>>
      /\ cs.exists /\ rec' = [pc |-> Way(cs), cs |-> cs] /\ Way(cs) # "idle"
  BY Zenon DEF Reconcile
<1>2. /\ Way(cs) \in {"remove", "stop", "volume"}
      /\ Way(cs) = "remove" => RemoveAuthorized(cs)
      /\ Way(cs) = "volume" => cs.bound /\ ~RemoveAuthorized(cs) /\ ~StopRequested(cs)
  BY Zenon, <1>1 DEF Way, RemoveAuthorized
<1>3. Way(cs) = "volume" => cs.type \in Startup /\ ~FailedStartup(cs)
  <2>1. cs.type \in Types
    BY Zenon DEF IInv, TypeOK, ThreadType, Resources
  <2> QED
    BY Zenon, <1>2, <2>1 DEF RemoveAuthorized, StopRequested, FailedStartup, Types, Aborts
<1>4. Way(cs) = "remove" => cs.vol = 0 \/ GivenUp
  BY Zenon, <1>2 DEF RemoveAuthorized, IInv, AllKnown, Known, Bound
<1> HIDE DEF Way
<1>5. TypeOK'
  BY Zenon, <1>1, <1>2 DEF IInv, TypeOK, GiteaType, ClusterType, ThreadType, gitea, kubelet, storage, RecPlaces, Preparing
<1>6. RecCurrent' /\ Writers' /\ Storage' /\ GiteaOrder'
  BY Zenon, <1>1, <1>2 DEF IInv, RecCurrent, Writers, Storage, GiteaOrder, gitea, kubelet, storage
<1>7. CoordKnown' /\ AllKnown'
  <2>1. GiteaKeeps /\ SameOrder /\ CoordRests
    BY Zenon, <1>1 DEF GiteaKeeps, SameOrder, CoordRests, gitea
  <2>2. CoordKnown' /\ Known(cs)' /\ Known(rep.cs)'
    BY Zenon, <1>1, <2>1, CoordKnownKept, CsKnownKept, RepKnownKept DEF IInv, TypeOK, AllKnown
  <2>3. Known(rec.cs)' /\ NotAfter(rec.cs, cs)'
    BY <1>1, <2>2, VersionTypes DEF IInv, Known, NotAfter
  <2> QED
    BY Zenon, <1>1, <1>2, <1>3, <2>2, <2>3 DEF IInv, AllKnown, Preparing
<1>8. Bound' /\ SettledFinal'
  BY Zenon, <1>1, <1>2, <1>4 DEF IInv, Bound, GivenUp, SettledFinal, Status, gitea, Preparing
<1>9. ResultsTold' /\ StoppedStays'
  <2>1. SameOrder /\ SameResult /\ RepRests /\ said' = said
    BY Zenon, <1>1 DEF SameOrder, SameResult, RepRests
  <2>2. ResultsTold'
    BY Zenon, <2>1, ToldKept DEF IInv
  <2>3. rec'.pc \in Preparing => ~FailedStartup(cs)
    BY Zenon, <1>1, <1>2, <1>3 DEF Preparing
  <2> QED
    BY Zenon, <1>1, <2>2, <2>3 DEF IInv, StoppedStays, FailedStartup, NeedsStop, gitea
<1> QED
  BY Zenon, <1>5, <1>6, <1>7, <1>8, <1>9 DEF IInv

(* A step of the pass that leaves the resource alone.                       *)
RecWorks ==
  \/ EnsureVolume \/ CreatePod \/ FindPod \/ ReleasePod \/ DeleteVolume \/ NothingLeft
  \/ \E n \in PodNames : DeletePod(n) \/ ConfirmStopped(n)

(* Such a step keeps the invariant.                                         *)
LEMMA RecWorksStep ==
  ASSUME IInv, RecWorks
  PROVE  IInv'
<1>1. UNCHANGED <<gitea, cs, names, coord, rep, said>> /\ rec.pc # "idle"
  BY Zenon DEF RecWorks, EnsureVolume, CreatePod, FindPod, ReleasePod, DeleteVolume, NothingLeft,
     DeletePod, ConfirmStopped, kubelet, Stopping
<1>2. /\ \/ rec' = Idle
         \/ /\ rec' = [rec EXCEPT !.pc = rec'.pc] /\ rec'.pc \in RecPlaces
            /\ rec'.pc \in Preparing => rec.pc \in Preparing
            /\ rec'.pc \in {"release", "finish", "record_pod", "record_volume"}
      /\ rec'.pc = "record_volume" => volumes' > 0
      /\ rec'.pc = "record_pod" => rec.pc = "pod"
      /\ volume' \in {"none", "live", "deleting"} /\ volumes' \in Nat
      /\ volume' # "none" => volumes' > 0
  <2>1. CASE EnsureVolume
    BY <2>1 DEF EnsureVolume, IInv, TypeOK, ClusterType, ThreadType, RecPlaces, Preparing, Idle, Storage, storage
  <2>2. CASE CreatePod \/ FindPod \/ ReleasePod \/ NothingLeft
    BY <2>2 DEF CreatePod, FindPod, ReleasePod, NothingLeft, IInv, TypeOK, ClusterType, ThreadType,
       RecPlaces, Preparing, Idle, Storage, storage
  <2>3. CASE DeleteVolume
    BY Zenon, <2>3 DEF DeleteVolume, IInv, TypeOK, ClusterType, ThreadType, Idle, Storage, storage
  <2>4. CASE \E n \in PodNames : DeletePod(n) \/ ConfirmStopped(n)
    BY <2>4 DEF DeletePod, ConfirmStopped, IInv, TypeOK, ClusterType, ThreadType,
       RecPlaces, Preparing, Idle, Storage, storage
  <2> QED
    BY Zenon, <2>1, <2>2, <2>3, <2>4 DEF RecWorks
<1>3. cs.exists /\ rec.cs.pod = cs.pod /\ cs.pod \in PodNumbers /\ (cs.pod # 0 => cs.pod \in PodNames)
  BY <1>1, CodespaceConstants DEF IInv, RecCurrent, TypeOK, ThreadType, Resources, PodNumbers, PodNames
<1>4. /\ pods' \in [PodNames -> Pods] /\ alive' \subseteq PodNames
      /\ \A m \in PodNames : pods'[m].state # "none" => pods[m].state # "none" \/ m = cs.pod
      /\ \A m \in alive' : pods'[m].state = "scheduled"
      /\ rec'.pc = "release" => Resting(pods'[cs.pod])
      /\ rec'.pc = "finish" => \A m \in PodNames : pods'[m].state = "none"
  <2>1. CASE EnsureVolume \/ FindPod \/ DeleteVolume
    <3>1. UNCHANGED <<pods, alive>> /\ rec'.pc \notin {"release", "finish"}
      BY <2>1, <1>1 DEF EnsureVolume, FindPod, DeleteVolume, kubelet, Idle, IInv, TypeOK, ThreadType
    <3> QED
      BY Zenon, <3>1 DEF IInv, TypeOK, ClusterType, Writers
  <2>2. CASE CreatePod
    <3>1. /\ cs.pod \in PodNames /\ pods[cs.pod].state = "none" /\ alive' = alive
          /\ rec'.pc \notin {"release", "finish"}
          /\ pods' = [pods EXCEPT ![cs.pod] = [state |-> "pending", deleting |-> FALSE]]
      BY Zenon, <2>2, <1>3 DEF CreatePod, IInv, RecCurrent, TypeOK, ThreadType
    <3> QED
      BY Zenon, <3>1 DEF IInv, TypeOK, ClusterType, Writers, Pods
  <2>3. CASE ReleasePod
    <3>1. /\ cs.pod \in PodNames /\ Resting(pods[cs.pod]) /\ alive' = alive /\ rec'.pc = "idle"
          /\ pods' = [pods EXCEPT ![cs.pod] = NoPod]
      BY Zenon, <2>3, <1>3 DEF ReleasePod, IInv, RecCurrent, Writers, Resting, Idle
    <3> QED
      BY Zenon, <3>1 DEF IInv, TypeOK, ClusterType, Writers, Pods, NoPod, Resting
  <2>4. CASE NothingLeft
    <3>1. UNCHANGED <<pods, alive>> /\ rec'.pc = "finish" /\ \A m \in PodNames : pods[m].state = "none"
      BY Zenon, <2>4 DEF NothingLeft, kubelet, IInv, TypeOK, ThreadType, NoPodLeft, Existing
    <3> QED
      BY Zenon, <3>1 DEF IInv, TypeOK, ClusterType, Writers
  <2>5. ASSUME NEW n \in PodNames, DeletePod(n) PROVE <1>4!:
    <3>1. rec'.pc = "idle"
      BY Zenon, <2>5 DEF DeletePod, Idle
    <3> QED
      BY Zenon, <2>5, <3>1, PodFacts DEF PodStep, IInv, TypeOK
  <2>6. ASSUME NEW n \in PodNames, ConfirmStopped(n) PROVE <1>4!:
    <3>1. UNCHANGED <<pods, alive>> /\ n = cs.pod /\ rec'.pc # "finish"
      BY Zenon, <2>6, <1>3 DEF ConfirmStopped, kubelet, Own, Stopping, Idle, IInv, TypeOK, ThreadType
    <3>2. rec'.pc = "release" => Resting(pods[n])
      BY Zenon, <2>6, <3>1 DEF ConfirmStopped, WriterStopped, Resting, Idle, Stopping
    <3> QED
      BY Zenon, <3>1, <3>2 DEF IInv, TypeOK, ClusterType, Writers
  <2> QED
    BY Zenon, <2>1, <2>2, <2>3, <2>4, <2>5, <2>6 DEF RecWorks
<1>5. rec' \in [pc : RecPlaces, cs : Resources]
  BY Zenon, <1>2, RestTypes DEF IInv, TypeOK, ThreadType
<1>6. /\ rec'.pc \in {"idle", "release", "finish", "record_pod", "record_volume"}
      /\ rec'.cs = rec.cs \/ (rec'.cs = NoCS /\ rec'.pc = "idle")
      /\ rec'.pc \in Preparing => rec.pc \in Preparing
  BY <1>2 DEF Idle, IInv, TypeOK, ThreadType, Preparing
<1>7. rec'.pc = "release" => cs.pod # 0
  <2>1. ASSUME NEW n \in PodNames, ConfirmStopped(n) PROVE cs.pod # 0
    <3>1. n = cs.pod
      BY Zenon, <1>3, <2>1 DEF ConfirmStopped, Own
    <3> QED
      BY <3>1 DEF PodNames
  <2>2. CASE \/ EnsureVolume \/ CreatePod \/ FindPod \/ ReleasePod \/ DeleteVolume \/ NothingLeft
             \/ \E n \in PodNames : DeletePod(n)
    <3>1. \/ rec' = Idle \/ rec' = [rec EXCEPT !.pc = "record_volume"]
          \/ rec' = [rec EXCEPT !.pc = "record_pod"] \/ rec' = [rec EXCEPT !.pc = "finish"]
      <4>1. CASE EnsureVolume \/ FindPod
        BY Zenon, <4>1 DEF EnsureVolume, FindPod
      <4>2. CASE CreatePod \/ ReleasePod \/ DeleteVolume \/ NothingLeft \/ \E n \in PodNames : DeletePod(n)
        BY Zenon, <4>2 DEF CreatePod, ReleasePod, DeleteVolume, NothingLeft, DeletePod
      <4> QED
        BY Zenon, <2>2, <4>1, <4>2
    <3>2. rec'.pc # "release"
      <4>1. rec \in [pc : RecPlaces, cs : Resources]
        BY Zenon DEF IInv, TypeOK, ThreadType
      <4> QED
        BY <3>1, <4>1 DEF Idle
    <3> QED
      BY Zenon, <3>2
  <2> QED
    BY Zenon, <2>1, <2>2 DEF RecWorks
<1>8. TypeOK'
  BY Zenon, <1>1, <1>2, <1>4, <1>5 DEF IInv, TypeOK, GiteaType, ClusterType, ThreadType, gitea
<1>9. RecCurrent'
  BY Zenon, <1>1, <1>2, <1>6, <1>7 DEF IInv, RecCurrent
<1>10. Writers'
  BY Zenon, <1>1, <1>3, <1>4 DEF IInv, Writers, Resting
<1>11. Storage' /\ GiteaOrder'
  BY Zenon, <1>1, <1>2, <1>6 DEF IInv, Storage, GiteaOrder, gitea
<1>12. CoordKnown' /\ AllKnown'
  <2>0. GiteaKeeps /\ SameOrder /\ CoordRests
    BY Zenon, <1>1 DEF GiteaKeeps, SameOrder, CoordRests, gitea
  <2>1. Known(NoCS)
    BY Zenon, RestKnown DEF IInv, TypeOK
  <2>2. CoordKnown'
    BY Zenon, <2>0, CoordKnownKept DEF IInv, TypeOK
  <2>3. Known(cs)' /\ Known(rec.cs)' /\ Known(rep.cs)'
    <3>1. rec'.cs \in {rec.cs, NoCS} /\ rep'.cs = rep.cs
      BY Zenon, <1>1, <1>6
    <3> QED
      BY Zenon, <2>0, <3>1, CsKnownKept, RecKnownKept, RepKnownKept DEF IInv, TypeOK, AllKnown
  <2>4. rec'.pc # "idle" => rec'.cs = rec.cs
    BY Zenon, <1>6
  <2> QED
    BY Zenon, <1>1, <1>6, <2>2, <2>3, <2>4 DEF IInv, AllKnown, NotAfter, Preparing
<1>13. Bound' /\ SettledFinal' /\ ResultsTold'
  <2>1. Bound'
    BY Zenon, <1>1, <1>6 DEF IInv, Bound, GivenUp, gitea
  <2>2. GiteaKeeps /\ SameOrder /\ SameResult /\ CoordRests /\ RepRests /\ said' = said /\ cs'.settled = cs.settled
    BY Zenon, <1>1 DEF GiteaKeeps, SameOrder, SameResult, CoordRests, RepRests, gitea
  <2> QED
    BY Zenon, <2>1, <2>2, SettledKept, ToldKept DEF IInv
<1>14. StoppedStays'
  <2>1. rec'.pc \in Preparing => rec'.cs = rec.cs
    BY Zenon, <1>6 DEF Preparing
  <2> QED
    BY Zenon, <1>1, <1>6, <2>1 DEF IInv, StoppedStays, SameOperation, FailedStartup, NeedsStop, gitea
<1> QED
  BY Zenon, <1>8, <1>9, <1>10, <1>11, <1>12, <1>13, <1>14 DEF IInv

(* The pass records what it found or did: the Pod it names, its UID, its    *)
(* end, or that the runtime is stopped.  No process is left when the Pod is *)
(* forgotten, and a start is not failed under a Pod that must be gone.      *)
RecSaves == NamePod \/ PodLost \/ RecordPod \/ PreparationRefused \/ FinishStop

(* What these steps leave of the resource.                                  *)
LEMMA RecSavesFacts ==
  ASSUME IInv, RecSaves
  PROVE  /\ UNCHANGED <<gitea, pods, alive, storage, coord, rep, said>> /\ rec' = Idle
         /\ cs' \in Resources /\ names' \in PodNumbers
         /\ cs'.exists = cs.exists /\ cs'.version = cs.version /\ cs'.type = cs.type
         /\ cs'.bound = cs.bound /\ cs'.settled = cs.settled /\ cs'.vol = cs.vol
         /\ cs'.recovery = "delete" => cs.recovery = "delete"
         /\ cs'.uid \in {0, cs'.pod}
         /\ \A n \in PodNames : pods[n].state # "none" => cs'.pod = n
         /\ \/ cs'.result = cs.result /\ cs'.ok = cs.ok
            \/ cs'.result = cs.version /\ ~cs'.ok /\ cs.type \in Startup
            \/ cs'.result = cs.version /\ cs'.ok /\ cs.type \in {"stop", "delete"}
         /\ cs.pod = 0 /\ NeedsStop(cs) => cs'.pod = 0
         /\ names' = names \/ (cs.vol # 0 /\ cs.bound)
<1>1. UNCHANGED <<gitea, pods, alive, storage, coord, rep, said>> /\ rec' = Idle /\ rec.pc # "idle"
  BY Zenon DEF RecSaves, NamePod, PodLost, RecordPod, PreparationRefused, FinishStop, kubelet
<1>2. /\ cs \in Resources /\ names \in PodNumbers /\ cs.exists
      /\ rec.cs.pod = cs.pod /\ cs.uid \in {0, cs.pod}
      /\ \A n \in PodNames : pods[n].state # "none" => cs.pod = n
  BY Zenon, <1>1 DEF IInv, TypeOK, ThreadType, ClusterType, RecCurrent, Writers
<1>3. rec.pc \in Preparing /\ SameOperation(rec.cs) => cs.type \in Startup
  BY Zenon DEF IInv, AllKnown, SameOperation
<1>4. CASE cs' = cs /\ names' = names
  BY Zenon, <1>1, <1>2, <1>4
<1>5. CASE NamePod /\ SameOperation(rec.cs)
  <2>1. /\ names' = names + 1 /\ names' \in PodNumbers /\ cs.pod = 0 /\ cs.uid = 0 /\ cs.vol # 0 /\ cs.bound
        /\ cs' = [cs EXCEPT !.pod = names', !.stopped = NoOp] /\ rec.pc = "name"
    BY <1>2, <1>5, CodespaceConstants DEF NamePod, IInv, RecCurrent, Storage, Bound, PodNumbers, Preparing
  <2>2. ~NeedsStop(cs)
    BY Zenon, <1>3, <1>5, <2>1 DEF IInv, StoppedStays, NeedsStop, Preparing
  <2>3. \A n \in PodNames : pods[n].state = "none"
    BY <1>2, <2>1 DEF PodNames
  <2> QED
    BY Zenon, <1>1, <1>2, <2>1, <2>2, <2>3, RestTypes DEF Resources
<1>6. CASE PodLost /\ PodIsCurrent(rec.cs)
  <2>1. cs' = Ended(cs) /\ names' = names /\ cs.pod # 0 /\ cs.type \in Startup
    BY Zenon, <1>2, <1>3, <1>6 DEF PodLost, kubelet, PodIsCurrent, Preparing, IInv, RecCurrent
  <2>2. CASE cs.settled < cs.version
    BY Zenon, <1>1, <1>2, <2>1, <2>2 DEF Ended, Resources
  <2>3. CASE ~(cs.settled < cs.version)
    BY Zenon, <1>1, <1>2, <2>1, <2>3 DEF Ended, Resources
  <2> QED
    BY Zenon, <2>2, <2>3
<1>7. CASE RecordPod /\ PodIsCurrent(rec.cs)
  <2>1. cs' = [cs EXCEPT !.uid = cs.pod] /\ names' = names
    BY Zenon, <1>2, <1>7 DEF RecordPod, kubelet
  <2> QED
    BY Zenon, <1>1, <1>2, <2>1 DEF Resources
<1>8. CASE PreparationRefused /\ SameOperation(rec.cs)
  <2>1. names' = names /\ (cs' = cs \/ cs' = [cs EXCEPT !.result = cs.version, !.ok = FALSE]) /\ cs.type \in Startup
    BY Zenon, <1>3, <1>8 DEF PreparationRefused, kubelet, Preparing
  <2>2. CASE cs' = cs
    BY Zenon, <1>1, <1>2, <2>1, <2>2
  <2>3. CASE cs' = [cs EXCEPT !.result = cs.version, !.ok = FALSE]
    BY Zenon, <1>1, <1>2, <2>1, <2>3 DEF Resources
  <2> QED
    BY Zenon, <2>1, <2>2, <2>3
<1>9. CASE FinishStop /\ SameOperation(rec.cs) /\ rec.cs.uid \in {0, cs.uid}
  <2> DEFINE done == cs.type \in {"stop", "delete"} /\ cs.result # cs.version
             r == IF done THEN cs.version ELSE cs.result
             k == done \/ cs.ok
  <2>1. cs' = [Cleared(cs) EXCEPT !.result = IF done THEN cs.version ELSE @, !.ok = done \/ @] /\ names' = names
    BY Zenon, <1>9 DEF FinishStop, kubelet
  <2>2. \A n \in PodNames : pods[n].state = "none"
    BY Zenon, <1>9 DEF FinishStop, IInv, Writers
  <2>3. cs' = [Cleared(cs) EXCEPT !.result = r, !.ok = k]
    BY Zenon, <1>2, <2>1 DEF Cleared, Resources
  <2>4. /\ r \in Numbers /\ k \in BOOLEAN
        /\ \/ r = cs.result /\ k = cs.ok
           \/ r = cs.version /\ k /\ cs.type \in {"stop", "delete"}
    BY Zenon, <1>2 DEF Resources
  <2> HIDE DEF r, k, done
  <2>5. [version |-> cs.version, type |-> cs.type] \in Ops /\ 0 \in PodNumbers
    BY <1>2, CodespaceConstants DEF Resources, Ops, PodNumbers
  <2> DEFINE c == Cleared(cs)
  <2>6. /\ c \in Resources /\ c.pod = 0 /\ c.uid = 0
        /\ c.exists = cs.exists /\ c.version = cs.version /\ c.type = cs.type /\ c.bound = cs.bound
        /\ c.settled = cs.settled /\ c.vol = cs.vol /\ c.recovery = cs.recovery
    BY Zenon, <1>2, <2>5 DEF Cleared, Resources
  <2>7. cs' = [c EXCEPT !.result = r, !.ok = k]
    BY Zenon, <2>3
  <2> HIDE DEF c
  <2>8. /\ cs' \in Resources /\ cs'.pod = 0 /\ cs'.uid = 0 /\ cs'.result = r /\ cs'.ok = k
        /\ cs'.exists = cs.exists /\ cs'.version = cs.version /\ cs'.type = cs.type
        /\ cs'.bound = cs.bound /\ cs'.settled = cs.settled /\ cs'.vol = cs.vol
        /\ cs'.recovery = cs.recovery
    BY Zenon, <2>4, <2>6, <2>7 DEF Resources
  <2> QED
    BY Zenon, <1>1, <1>2, <2>1, <2>2, <2>4, <2>8
<1> QED
  BY Zenon, <1>4, <1>5, <1>6, <1>7, <1>8, <1>9
  DEF RecSaves, NamePod, PodLost, RecordPod, PreparationRefused, FinishStop, kubelet

(* They keep the invariant.                                                 *)
LEMMA RecSavesStep ==
  ASSUME IInv, RecSaves
  PROVE  IInv'
<1>1. /\ UNCHANGED <<gitea, pods, alive, storage, coord, rep, said>> /\ rec' = Idle
      /\ cs' \in Resources /\ names' \in PodNumbers
  BY Zenon, RecSavesFacts
<1>2. /\ SameOrder /\ cs'.bound = cs.bound /\ cs'.settled = cs.settled /\ cs'.vol = cs.vol
      /\ cs'.recovery = "delete" => cs.recovery = "delete"
  BY Zenon, RecSavesFacts DEF SameOrder
<1>3. SameGitea /\ GiteaKeeps /\ GiteaOrder' /\ said' = said /\ CoordRests /\ RecRests /\ RepRests
  <2>1. SameGitea /\ CoordRests /\ RecRests /\ RepRests
    BY Zenon, <1>1 DEF SameGitea, gitea, CoordRests, RecRests, RepRests
  <2> QED
    BY Zenon, <1>1, <2>1, GiteaKept DEF IInv
<1>4. TypeOK'
  BY Zenon, <1>1, RestTypes DEF IInv, TypeOK, GiteaType, ClusterType, ThreadType, gitea, storage
<1>5. RecCurrent' /\ Writers'
  <2>1. cs'.uid \in {0, cs'.pod} /\ \A n \in PodNames : pods[n].state # "none" => cs'.pod = n
    BY Zenon, RecSavesFacts
  <2> QED
    BY Zenon, <1>1, <1>2, <2>1 DEF IInv, RecCurrent, Writers, Idle, SameOrder
<1>6. Storage'
  <2>1. names' = names \/ (cs.vol # 0 /\ cs.bound)
    BY Zenon, RecSavesFacts
  <2> QED
    BY Zenon, <1>1, <1>2, <2>1 DEF IInv, Storage, Bound, gitea, storage, Idle, SameOrder
<1>7. CoordKnown' /\ Bound' /\ SettledFinal'
  BY Zenon, <1>2, <1>3, CoordKnownKept, BoundKept, SettledKept DEF IInv, TypeOK
<1>8. /\ \/ cs'.result = cs.result /\ cs'.ok = cs.ok
         \/ cs'.result = cs.version /\ ~cs'.ok /\ cs.type \in Startup
         \/ cs'.result = cs.version /\ cs'.ok /\ cs.type \in {"stop", "delete"}
      /\ cs.pod = 0 /\ NeedsStop(cs) => cs'.pod = 0
  BY Zenon, RecSavesFacts
<1>9. AllKnown'
  <2>1. cs'.result <= cs'.version
    BY <1>2, <1>8, VersionTypes DEF IInv, AllKnown, SameOrder
  <2> QED
    BY Zenon, <1>2, <1>3, <2>1, AllKnownKept DEF IInv, TypeOK
<1>10. ResultsTold'
  <2>1. Told(cs)'
    BY <1>2, <1>3, <1>8 DEF IInv, ResultsTold, Told, Startup, SameOrder
  <2> QED
    BY Zenon, <1>1, <2>1 DEF IInv, ResultsTold, Told
<1>11. StoppedStays'
  <2>1. NeedsStop(cs) => NeedsStop(cs')
    BY Zenon, <1>2, <1>8 DEF NeedsStop, FailedStartup, Startup, SameOrder
  <2>2. rec'.pc \notin Preparing
    BY Zenon, <1>1 DEF Idle, Preparing
  <2> QED
    BY Zenon, <1>1, <1>2, <1>8, <2>1, <2>2 DEF IInv, StoppedStays, gitea, NeedsStop, FailedStartup, SameOrder
<1> QED
  BY Zenon, <1>3, <1>4, <1>5, <1>6, <1>7, <1>9, <1>10, <1>11 DEF IInv

(* The volume is recorded.                                                  *)
LEMMA RecordVolumeStep ==
  ASSUME IInv, RecordVolume
  PROVE  IInv'
<1>1. UNCHANGED <<gitea, kubelet, storage, coord, rep, said>> /\ rec.pc = "record_volume"
  BY Zenon DEF RecordVolume
<1>2. CASE cs' = cs /\ rec' = Idle
  <2>1. TypeOK'
    BY Zenon, <1>1, <1>2, RestTypes DEF IInv, TypeOK, GiteaType, ClusterType, ThreadType, gitea, kubelet, storage
  <2>2. SameGitea /\ SameCluster /\ SameRuntime /\ said' = said /\ CoordRests /\ RecRests /\ RepRests
    BY Zenon, <1>1, <1>2 DEF SameGitea, SameCluster, SameRuntime, SameOrder, SameResult, SamePod, gitea, kubelet, storage,
       CoordRests, RecRests, RepRests
  <2>3. GiteaOrder' /\ GiteaKeeps
    BY Zenon, <2>2, GiteaKept DEF IInv
  <2>4. RecCurrent' /\ Writers' /\ AllKnown' /\ Storage' /\ ResultsTold' /\ StoppedStays'
    BY Zenon, <2>2, <2>3, SameRuntimeStep
  <2>5. CoordKnown' /\ Bound' /\ SettledFinal'
    BY Zenon, <1>2, <2>2, <2>3, CoordKnownKept, BoundKept, SettledKept DEF IInv, TypeOK, SameRuntime
  <2> QED
    BY Zenon, <2>1, <2>3, <2>4, <2>5 DEF IInv
<1>3. CASE SameOperation(rec.cs) /\ cs.vol \in {0, volumes}
  <2> DEFINE place == IF cs.pod = 0 THEN "name" ELSE "pod"
  <2>1. /\ cs' \in Resources /\ cs'.vol = volumes /\ volumes > 0 /\ cs.bound
        /\ cs'.exists = cs.exists /\ cs'.version = cs.version /\ cs'.type = cs.type
        /\ cs'.bound = cs.bound /\ cs'.settled = cs.settled /\ cs'.recovery = cs.recovery
        /\ cs'.result = cs.result /\ cs'.ok = cs.ok /\ cs'.pod = cs.pod /\ cs'.uid = cs.uid
    <3>1. cs \in Resources /\ volumes \in Nat /\ volumes > 0 /\ cs.bound
      BY Zenon, <1>1 DEF IInv, TypeOK, ThreadType, ClusterType, Storage, Bound, Preparing
    <3>2. cs' = [cs EXCEPT !.vol = volumes]
      BY Zenon, <1>3 DEF RecordVolume
    <3> QED
      BY Zenon, <3>1, <3>2 DEF Resources
  <2>2. rec' = [pc |-> place, cs |-> cs'] /\ place \in {"name", "pod"} /\ (place = "name" <=> cs.pod = 0)
    BY Zenon, <1>3 DEF RecordVolume
  <2> HIDE DEF place
  <2>0. SameGitea /\ GiteaKeeps /\ SameOrder /\ SameResult /\ said' = said /\ CoordRests /\ RepRests
    <3>1. SameGitea /\ SameOrder /\ SameResult /\ said' = said /\ CoordRests /\ RepRests
      BY Zenon, <1>1, <2>1 DEF SameGitea, gitea, SameOrder, SameResult, CoordRests, RepRests
    <3> QED
      BY Zenon, <3>1, GiteaKept DEF IInv
  <2>3. TypeOK'
    BY Zenon, <1>1, <2>1, <2>2 DEF IInv, TypeOK, GiteaType, ClusterType, ThreadType, gitea, kubelet, storage, RecPlaces, Preparing
  <2>4. RecCurrent' /\ Writers'
    BY Zenon, <1>1, <2>1, <2>2 DEF IInv, RecCurrent, Writers, kubelet
  <2>5. Storage' /\ GiteaOrder'
    <3>1. GiteaOrder'
      BY Zenon, <2>0, GiteaKept DEF IInv
    <3>2. volumes # 0
      BY <2>1
    <3>3. Storage'
      BY Zenon, <1>1, <2>1, <2>2, <3>2 DEF IInv, Storage, gitea, kubelet, storage
    <3> QED
      BY Zenon, <3>1, <3>3
  <2>6. CoordKnown' /\ AllKnown'
    <3>1. cs.type \in Startup
      BY Zenon, <1>1, <1>3 DEF IInv, AllKnown, SameOperation, Preparing
    <3>2. CoordKnown'
      BY Zenon, <2>0, CoordKnownKept DEF IInv, TypeOK
    <3>3. Known(cs)' /\ Known(rec.cs)' /\ Known(rep.cs)' /\ NotAfter(rec.cs, cs)'
      <4>1. Known(cs)' /\ Known(rep.cs)' /\ rec'.cs = cs'
        BY Zenon, <1>1, <2>0, <2>2, CsKnownKept, RepKnownKept DEF IInv, TypeOK, AllKnown
      <4>2. cs'.version \in Nat
        BY <2>1, CodespaceConstants DEF Resources, Numbers
      <4> QED
        BY <4>1, <4>2 DEF Known, NotAfter
    <3> QED
      BY Zenon, <2>1, <2>2, <3>1, <3>2, <3>3 DEF IInv, AllKnown
  <2>7. Bound' /\ SettledFinal' /\ ResultsTold'
    <3>1. Bound'
      BY Zenon, <1>1, <2>1, <2>2 DEF IInv, Bound, GivenUp, gitea, Preparing
    <3> QED
      BY Zenon, <2>0, <2>1, <3>1, SettledKept, ToldKept DEF IInv
  <2>8. StoppedStays'
    <3>1. cs.uid = 0 => ~FailedStartup(cs)
      BY Zenon, <1>1, <1>3 DEF IInv, StoppedStays, Preparing
    <3> QED
      BY Zenon, <1>1, <2>1, <2>2, <3>1 DEF IInv, StoppedStays, FailedStartup, NeedsStop, gitea
  <2> QED
    BY Zenon, <2>3, <2>4, <2>5, <2>6, <2>7, <2>8 DEF IInv
<1> QED
  BY Zenon, <1>2, <1>3 DEF RecordVolume

(* The resource goes once no Pod is left.                                   *)
LEMMA ResourceGoneStep ==
  ASSUME IInv, RemoveResource, cs' = NoCS
  PROVE  IInv'
<1>1. UNCHANGED <<gitea, kubelet, storage, coord, rep, said>> /\ rec' = Idle /\ rec.pc # "idle"
  BY Zenon DEF RemoveResource
<1>2. \A n \in PodNames : pods[n].state = "none"
  BY Zenon DEF RemoveResource, NoPodLeft, Existing
<1>3. /\ ~cs'.exists /\ cs'.version = 0 /\ ~cs'.bound /\ cs'.settled = 0 /\ cs'.result = 0
      /\ cs'.recovery = "none" /\ cs'.pod = 0 /\ cs'.uid = 0 /\ cs'.vol = 0 /\ rec'.pc = "idle" /\ rec'.cs = NoCS
  BY Zenon, <1>1 DEF NoCS, Idle
<1>4. TypeOK'
  BY Zenon, <1>1, RestTypes DEF IInv, TypeOK, GiteaType, ClusterType, ThreadType, gitea, kubelet, storage
<1>5. RecCurrent' /\ Writers' /\ Storage' /\ GiteaOrder'
  BY Zenon, <1>1, <1>2, <1>3 DEF IInv, RecCurrent, Writers, Storage, GiteaOrder, gitea, kubelet, storage
<1>6. Known(NoCS) /\ Told(NoCS)'
  <2>1. Told(NoCS)'
    BY DEF NoCS, Told
  <2> QED
    BY Zenon, <2>1, RestKnown DEF IInv, TypeOK
<1>7. CoordKnown' /\ AllKnown'
  <2>1. Known(cs)' /\ Known(rec.cs)' /\ Known(rep.cs)' /\ Known(coord.op)' /\ Known(coord.cs)'
    <3>1. GiteaKeeps
      BY Zenon, <1>1 DEF GiteaKeeps, gitea
    <3>2. Known(rec.cs)' /\ Known(rep.cs)' /\ Known(coord.op)' /\ Known(coord.cs)'
      BY Zenon, <1>1, <1>3, <3>1, RecKnownKept, RepKnownKept, CoordValuesKnown DEF IInv, TypeOK, AllKnown
    <3>3. Known(cs)'
      BY Zenon, <1>3, <3>2 DEF Known, NotAfter
    <3> QED
      BY Zenon, <3>2, <3>3
  <2>2. coord.pc = "accept" => NotAfter(cs', coord.op)
    BY SMTT(60), <1>3, VersionTypes DEF IInv, CoordKnown, NotAfter
  <2> QED
    <3>1. cs'.result <= cs'.version
      BY <1>3
    <3> QED
      BY Zenon, <1>1, <1>3, <2>1, <2>2, <3>1 DEF IInv, CoordKnown, AllKnown, NotAfter, Preparing
<1>8. Bound' /\ SettledFinal'
  BY <1>1, <1>3 DEF IInv, Bound, SettledFinal, Status, gitea, Preparing
<1>9. ResultsTold' /\ StoppedStays'
  BY Zenon, <1>1, <1>3, <1>6 DEF IInv, ResultsTold, Told, StoppedStays, Preparing
<1> QED
  BY Zenon, <1>4, <1>5, <1>7, <1>8, <1>9 DEF IInv

(* A deletion is requested of the API, by the pass or by someone else.      *)
LEMMA ResourceDeletedStep ==
  ASSUME IInv, ResourceDeleted \/ (RemoveResource /\ cs' # NoCS)
  PROVE  IInv'
<1>1. UNCHANGED <<gitea, kubelet, storage, coord, rep, said>> /\ rec' \in {rec, Idle}
  BY Zenon DEF ResourceDeleted, RemoveResource
<1>2. /\ cs' \in Resources /\ SameRuntime /\ cs'.bound = cs.bound
      /\ cs'.settled = cs.settled /\ cs'.recovery = cs.recovery
  <2>1. cs' = cs \/ cs' = [cs EXCEPT !.deleting = TRUE]
    BY Zenon DEF ResourceDeleted, RemoveResource
  <2>2. cs \in Resources
    BY Zenon DEF IInv, TypeOK, ThreadType
  <2>3. CASE cs' = cs
    BY Zenon, <2>2, <2>3 DEF SameRuntime, SameOrder, SameResult, SamePod
  <2>4. CASE cs' = [cs EXCEPT !.deleting = TRUE]
    BY Zenon, <2>2, <2>4 DEF Resources, SameRuntime, SameOrder, SameResult, SamePod
  <2> QED
    BY Zenon, <2>1, <2>3, <2>4
<1>3. SameGitea /\ SameCluster /\ said' = said /\ CoordRests /\ RecRests /\ RepRests
  BY Zenon, <1>1 DEF SameGitea, SameCluster, gitea, kubelet, storage, CoordRests, RecRests, RepRests
<1>4. TypeOK'
  <2>1. ThreadType'
    BY Zenon, <1>1, <1>2, RestTypes DEF IInv, TypeOK, ThreadType
  <2> QED
    BY Zenon, <1>3, <2>1, TypesKept DEF IInv, TypeOK
<1>5. GiteaOrder' /\ GiteaKeeps
  BY Zenon, <1>3, GiteaKept DEF IInv
<1>6. RecCurrent' /\ Writers' /\ AllKnown' /\ Storage' /\ ResultsTold' /\ StoppedStays'
  BY Zenon, <1>2, <1>3, <1>5, SameRuntimeStep
<1>7. CoordKnown' /\ Bound' /\ SettledFinal'
  BY Zenon, <1>2, <1>3, <1>5, CoordKnownKept, BoundKept, SettledKept DEF IInv, TypeOK, SameRuntime, SamePod
<1> QED
  BY Zenon, <1>4, <1>5, <1>6, <1>7 DEF IInv

(* The Agent executes: what it said before stays said.                      *)
LEMMA AgentExecutesStep ==
  ASSUME IInv, NEW s \in {"done", "failed"}, AgentExecutes(s)
  PROVE  IInv'
<1>1. UNCHANGED <<gitea, cs, kubelet, storage, coord, rec, rep>>
  BY Zenon DEF AgentExecutes
<1>2. /\ said' \in [Versions -> {"none", "done", "failed"}]
      /\ \A v \in Versions : said[v] = "done" => said'[v] = "done"
  BY Zenon DEF AgentExecutes, IInv, TypeOK, GiteaType
<1>3. TypeOK'
  BY Zenon, <1>1, <1>2 DEF IInv, TypeOK, GiteaType, ClusterType, ThreadType, gitea, kubelet, storage
<1>4. /\ SameGitea /\ SameCluster /\ SameOrder /\ SameResult /\ SamePod /\ CoordRests /\ RecRests /\ RepRests
      /\ cs' = cs /\ cs'.result <= cs'.version /\ op' = op
  BY Zenon, <1>1 DEF SameGitea, SameCluster, SameOrder, SameResult, SamePod, gitea, kubelet, storage,
     CoordRests, RecRests, RepRests, IInv, AllKnown
<1>5. GiteaOrder' /\ GiteaKeeps
  BY Zenon, <1>4, GiteaKept DEF IInv
<1>8. RecCurrent' /\ Writers' /\ Storage' /\ AllKnown' /\ StoppedStays' /\ CoordKnown' /\ Bound' /\ SettledFinal'
  BY Zenon, <1>4, <1>5, RecCurrentKept, WritersKept, StorageKept, AllKnownKept, StoppedKept, CoordKnownKept,
     BoundKept, SettledKept DEF IInv, TypeOK
<1>6. ResultsTold'
  BY <1>1, <1>2, VersionTypes DEF IInv, ResultsTold, Told
<1> QED
  BY Zenon, <1>3, <1>5, <1>6, <1>8 DEF IInv

(* The Agent's report is saved, or an administrator stops the runtime: both *)
(* need the recorded Pod.                                                   *)
LEMMA ReportStep ==
  ASSUME IInv, AgentReports \/ AdminStops
  PROVE  IInv'
<1>1. UNCHANGED <<gitea, kubelet, storage, coord, rec, rep, said>> /\ cs.exists /\ cs.uid # 0
  BY Zenon DEF AgentReports, AdminStops, AgentUp
<1>2. /\ cs' \in Resources
      /\ cs'.exists = cs.exists /\ cs'.version = cs.version /\ cs'.type = cs.type
      /\ cs'.bound = cs.bound /\ cs'.settled = cs.settled
      /\ cs'.pod = cs.pod /\ cs'.uid = cs.uid /\ cs'.vol = cs.vol
      /\ cs'.recovery = "delete" => cs.recovery = "delete"
      /\ \/ cs'.result = cs.result /\ cs'.ok = cs.ok
         \/ cs'.result = cs.version /\ cs.type \in Startup /\ (cs'.ok => said[cs.version] = "done")
  <2>0. cs \in Resources
    BY Zenon DEF IInv, TypeOK, ThreadType
  <2>1. CASE AgentReports
    <3> DEFINE k == said[cs.version] = "done"
               t == IF said[cs.version] = "done" THEN TRUE ELSE cs.target
    <3>1. cs' = [cs EXCEPT !.result = cs.version, !.ok = k, !.target = t] /\ cs.type \in Startup
      BY Zenon, <2>1 DEF AgentReports
    <3>2. k \in BOOLEAN /\ t \in BOOLEAN /\ (k => said[cs.version] = "done")
      BY Zenon DEF IInv, TypeOK, ThreadType, Resources
    <3> HIDE DEF k, t
    <3> QED
      BY Zenon, <2>0, <3>1, <3>2 DEF Resources
  <2>2. CASE AdminStops
    <3>1. \/ cs' = [cs EXCEPT !.target = FALSE, !.result = cs.version, !.ok = FALSE] /\ cs.type \in Startup
          \/ cs' = [cs EXCEPT !.target = FALSE, !.recovery = "stop"]
      BY Zenon, <2>2 DEF AdminStops
    <3>2. CASE cs' = [cs EXCEPT !.target = FALSE, !.result = cs.version, !.ok = FALSE] /\ cs.type \in Startup
      BY Zenon, <2>0, <3>2 DEF Resources
    <3>3. CASE cs' = [cs EXCEPT !.target = FALSE, !.recovery = "stop"]
      BY Zenon, <2>0, <3>3 DEF Resources
    <3> QED
      BY Zenon, <3>1, <3>2, <3>3
  <2> QED
    BY Zenon, <2>1, <2>2
<1>3. TypeOK'
  BY Zenon, <1>1, <1>2 DEF IInv, TypeOK, GiteaType, ClusterType, ThreadType, gitea, kubelet, storage
<1>4. /\ SameGitea /\ SameCluster /\ SameOrder /\ SamePod /\ CoordRests /\ RecRests /\ RepRests
      /\ cs'.result <= cs'.version
  <2>1. cs'.result <= cs'.version
    BY <1>2, VersionTypes DEF IInv, AllKnown
  <2> QED
    BY Zenon, <1>1, <1>2, <2>1 DEF SameGitea, SameCluster, SameOrder, SamePod, gitea, kubelet, storage,
       CoordRests, RecRests, RepRests
<1>5. GiteaOrder' /\ GiteaKeeps
  BY Zenon, <1>4, GiteaKept DEF IInv
<1>6. RecCurrent' /\ Writers' /\ Storage' /\ AllKnown' /\ CoordKnown' /\ Bound' /\ SettledFinal'
  BY Zenon, <1>2, <1>4, <1>5, RecCurrentKept, WritersKept, StorageKept, AllKnownKept, CoordKnownKept,
     BoundKept, SettledKept DEF IInv, TypeOK
<1>7. ResultsTold'
  BY Zenon, <1>1, <1>2 DEF IInv, ResultsTold, Told, Startup
<1>8. StoppedStays'
  <2>1. cs.pod # 0
    BY Zenon, <1>1 DEF IInv, RecCurrent
  <2> QED
    BY Zenon, <1>1, <1>2, <2>1 DEF IInv, StoppedStays, SameOperation, FailedStartup, NeedsStop, gitea
<1> QED
  BY Zenon, <1>3, <1>5, <1>6, <1>7, <1>8 DEF IInv

(* Flush reads the resource.                                                *)
LEMMA FlushReadStep ==
  ASSUME IInv, FlushRead
  PROVE  IInv'
<1>1. /\ UNCHANGED <<gitea, cs, kubelet, storage, coord, rec, said>>
      /\ cs.bound /\ (NeedsStop(cs) => IsStopped(cs))
  BY Zenon DEF FlushRead
<1>2. /\ rep' = [pc |-> rep'.pc, cs |-> cs] /\ rep'.pc \in {"result", "final"}
      /\ rep'.pc = "result" => cs.type \notin Startup
      /\ rep'.pc = "final" => cs.result = cs.version
  BY DEF FlushRead, NeedsStop, NeedsResult, FailedStartup
<1>3. cs.exists /\ gbound /\ cs.version > 0
  BY Zenon, <1>1 DEF IInv, Bound, AllKnown
<1>4. TypeOK'
  <2>1. cs \in Resources
    BY Zenon DEF IInv, TypeOK, ThreadType
  <2>2. rep' \in [pc : RepPlaces, cs : Resources]
    BY <1>2, <2>1 DEF RepPlaces
  <2> QED
    BY Zenon, <1>1, <2>2 DEF IInv, TypeOK, GiteaType, ClusterType, ThreadType, gitea, kubelet, storage
<1>5. /\ SameGitea /\ SameCluster /\ SameOrder /\ SameResult /\ SamePod /\ CoordRests /\ RecRests
      /\ cs' = cs /\ op' = op
  BY Zenon, <1>1 DEF SameGitea, SameCluster, SameOrder, SameResult, SamePod, gitea, kubelet, storage, CoordRests, RecRests
<1>6. GiteaOrder' /\ GiteaKeeps
  BY Zenon, <1>5, GiteaKept DEF IInv
<1>7. RecCurrent' /\ Writers' /\ Storage' /\ CoordKnown'
  BY Zenon, <1>5, <1>6, RecCurrentKept, WritersKept, StorageKept, CoordKnownKept DEF IInv, TypeOK
<1>8. rep'.cs = cs
  BY <1>2
<1>9. AllKnown'
  <2>1. Known(cs)' /\ Known(rec.cs)'
    BY Zenon, <1>1, <1>5, <1>6, CsKnownKept, RecKnownKept DEF IInv, TypeOK, AllKnown
  <2>2. Known(rep.cs)'
    BY Zenon, <1>5, <1>8, <2>1 DEF Known, NotAfter
  <2> QED
    BY Zenon, <1>1, <2>1, <2>2 DEF IInv, AllKnown, NotAfter
<1>10. Bound' /\ SettledFinal'
  BY Zenon, <1>1, <1>2, <1>3, <1>8 DEF IInv, Bound, GivenUp, SettledFinal, gitea
<1>11. ResultsTold'
  BY Zenon, <1>1, <1>2, <1>8 DEF IInv, ResultsTold, Told
<1>12. StoppedStays'
  BY Zenon, <1>1, <1>2, <1>8 DEF IInv, StoppedStays, SameOperation, FailedStartup, NeedsStop, IsStopped, gitea
<1> QED
  BY Zenon, <1>4, <1>6, <1>7, <1>9, <1>10, <1>11, <1>12 DEF IInv

(* Flush saves the result of a runtime that is stopped.                     *)
LEMMA FlushResultStep ==
  ASSUME IInv, FlushResult
  PROVE  IInv'
<1>1. UNCHANGED <<gitea, kubelet, storage, coord, rec, said>> /\ rep.pc = "result" /\ rep.cs.type \notin Startup
  BY Zenon DEF FlushResult, IInv, ResultsTold
<1>2. CASE ~SameOperation(rep.cs)
  <2>1. cs' = cs /\ rep' = Idle
    BY Zenon, <1>2 DEF FlushResult
  <2>2. TypeOK'
    BY Zenon, <1>1, <2>1, RestTypes DEF IInv, TypeOK, GiteaType, ClusterType, ThreadType, gitea, kubelet, storage
  <2>3. SameGitea /\ SameCluster /\ SameRuntime /\ said' = said /\ CoordRests /\ RecRests /\ RepRests
    BY Zenon, <1>1, <2>1 DEF SameGitea, SameCluster, SameRuntime, SameOrder, SameResult, SamePod, gitea, kubelet, storage,
       CoordRests, RecRests, RepRests
  <2>4. GiteaOrder' /\ GiteaKeeps
    BY Zenon, <2>3, GiteaKept DEF IInv
  <2>5. RecCurrent' /\ Writers' /\ AllKnown' /\ Storage' /\ ResultsTold' /\ StoppedStays'
    BY Zenon, <2>3, <2>4, SameRuntimeStep
  <2>6. CoordKnown' /\ Bound' /\ SettledFinal'
    BY Zenon, <2>1, <2>3, <2>4, CoordKnownKept, BoundKept, SettledKept DEF IInv, TypeOK, SameRuntime
  <2> QED
    BY Zenon, <2>2, <2>4, <2>5, <2>6 DEF IInv
<1>3. CASE SameOperation(rep.cs)
  <2> DEFINE k == cs.type \in {"stop", "delete"}
  <2>1. cs.exists /\ cs.version = rep.cs.version /\ cs.type = rep.cs.type /\ cs.version > 0
    BY Zenon, <1>3 DEF SameOperation, IInv, AllKnown
  <2>2. \/ cs' = cs /\ ~NeedsResult(cs)
        \/ cs' = [cs EXCEPT !.result = cs.version, !.ok = k]
    BY Zenon, <1>3 DEF FlushResult
  <2>3. k \in BOOLEAN /\ (cs.type = "delete" => k)
    OBVIOUS
  <2> HIDE DEF k
  <2>4. /\ cs' \in Resources
        /\ cs'.exists = cs.exists /\ cs'.version = cs.version /\ cs'.type = cs.type
        /\ cs'.bound = cs.bound /\ cs'.settled = cs.settled /\ cs'.recovery = cs.recovery
        /\ cs'.pod = cs.pod /\ cs'.uid = cs.uid /\ cs'.vol = cs.vol
        /\ cs'.result = cs.version
        /\ (cs'.ok = cs.ok /\ cs.result = cs.version) \/ cs'.ok = k
    <3>1. CASE cs' = cs /\ ~NeedsResult(cs)
      BY Zenon, <3>1 DEF NeedsResult, IInv, TypeOK, ThreadType
    <3>2. CASE cs' = [cs EXCEPT !.result = cs.version, !.ok = k]
      <4>1. cs \in Resources
        BY Zenon DEF IInv, TypeOK, ThreadType
      <4> QED
        BY Zenon, <2>3, <3>2, <4>1 DEF Resources
    <3> QED
      BY Zenon, <2>2, <3>1, <3>2
  <2>5. rep' = [pc |-> "final", cs |-> cs'] \/ rep' = Idle
    BY Zenon, <1>3 DEF FlushResult
  <2>6. /\ rep' \in [pc : RepPlaces, cs : Resources] /\ rep'.pc \in {"final", "idle"}
        /\ rep'.cs = cs' \/ (rep'.cs = NoCS /\ rep'.pc = "idle")
    BY <2>4, <2>5, RestTypes DEF Idle, RepPlaces
  <2>0. SameCluster /\ SameOrder /\ SamePod /\ CoordRests /\ RecRests /\ GiteaKeeps /\ GiteaOrder'
    <3>1. SameGitea /\ SameCluster /\ SameOrder /\ SamePod /\ CoordRests /\ RecRests
      BY Zenon, <1>1, <2>4 DEF SameGitea, SameCluster, SameOrder, SamePod, gitea, kubelet, storage, CoordRests, RecRests
    <3> QED
      BY Zenon, <3>1, GiteaKept DEF IInv
  <2>7. TypeOK'
    BY Zenon, <1>1, <2>4, <2>6 DEF IInv, TypeOK, GiteaType, ClusterType, ThreadType, gitea, kubelet, storage
  <2>8. RecCurrent' /\ Writers' /\ Storage' /\ GiteaOrder'
    BY Zenon, <2>0, RecCurrentKept, WritersKept, StorageKept DEF IInv
  <2>9. Known(NoCS) /\ Told(NoCS)'
    <3>1. Told(NoCS)'
      BY DEF NoCS, Told
    <3> QED
      BY Zenon, <3>1, RestKnown DEF IInv, TypeOK
  <2>10. CoordKnown' /\ AllKnown'
    <3>1. CoordKnown'
      BY Zenon, <2>0, CoordKnownKept DEF IInv, TypeOK
    <3>2. Known(cs)' /\ Known(rec.cs)' /\ Known(rep.cs)'
      <4>1. Known(cs)' /\ Known(rec.cs)'
        BY Zenon, <1>1, <2>0, CsKnownKept, RecKnownKept DEF IInv, TypeOK, AllKnown
      <4>2. CASE rep'.cs = cs'
        BY Zenon, <4>1, <4>2 DEF Known, NotAfter
      <4>3. CASE rep'.cs = NoCS
        <5>1. rep'.cs \in {rep.cs, NoCS}
          BY Zenon, <4>3
        <5> QED
          BY Zenon, <2>0, <4>1, <5>1, RepKnownKept DEF IInv, TypeOK, AllKnown
      <4> QED
        BY Zenon, <2>6, <4>1, <4>2, <4>3
    <3> QED
      <4>1. cs'.result <= cs'.version
        BY <2>4, VersionTypes DEF IInv
      <4> QED
        BY Zenon, <1>1, <2>4, <3>1, <3>2, <4>1 DEF IInv, AllKnown, NotAfter
  <2>11. Bound' /\ SettledFinal'
    BY Zenon, <1>1, <2>1, <2>4, <2>6 DEF IInv, Bound, GivenUp, SettledFinal, gitea
  <2>12. Told(cs)'
    BY Zenon, <1>1, <2>1, <2>3, <2>4 DEF Told, IInv, ResultsTold
  <2>13. ResultsTold'
    BY Zenon, <2>4, <2>6, <2>9, <2>12 DEF ResultsTold, Told
  <2>14. StoppedStays'
    BY Zenon, <1>1, <2>1, <2>4, <2>6 DEF IInv, StoppedStays, SameOperation, FailedStartup, NeedsStop, gitea
  <2> QED
    BY Zenon, <2>7, <2>8, <2>10, <2>11, <2>13, <2>14 DEF IInv
<1> QED
  BY Zenon, <1>2, <1>3

(* FinalizeOperation is answered: what is reported is true of the version.  *)
LEMMA FlushFinalStep ==
  ASSUME IInv, FlushFinal
  PROVE  IInv'
<1> DEFINE v == rep.cs.version
           s == Status(rep.cs)
<1>1. UNCHANGED <<op, gbound, cs, kubelet, storage, coord, rec, said>> /\ rep.pc = "final" /\ Finalize(v, s)
  BY Zenon DEF FlushFinal, Finalize
<1>2. rep' \in [pc : RepPlaces, cs : Resources] /\ rep'.pc = "save" /\ rep'.cs = rep.cs
  BY Zenon DEF FlushFinal, IInv, TypeOK, ThreadType, RepPlaces
<1>3. v \in Versions /\ s \in {"done", "failed"} /\ v <= op.version
  BY <1>1, VersionTypes DEF IInv, SettledFinal, AllKnown, Known, NotAfter, Status
<1>4. v = op.version /\ op.type = "delete" => s = "done"
  BY Zenon, <1>1 DEF IInv, SettledFinal, AllKnown, Known, NotAfter, Status, ResultsTold, Told, Aborts
<1>5. /\ final' \in [Versions -> {"none", "done", "failed"}] /\ GiteaOrder' /\ Advances /\ final'[v] = s
  BY Zenon, <1>1, <1>3, <1>4, FinalizeFacts DEF IInv, TypeOK
<1>6. TypeOK'
  BY Zenon, <1>1, <1>2, <1>5 DEF IInv, TypeOK, GiteaType, ClusterType, ThreadType, kubelet, storage
<1>7. RecCurrent' /\ Writers' /\ Storage'
  BY Zenon, <1>1 DEF IInv, RecCurrent, Writers, Storage, kubelet, storage
<1>8. CoordKnown' /\ AllKnown'
  <2>1. Known(cs)' /\ Known(coord.op)' /\ Known(coord.cs)' /\ Known(rec.cs)' /\ Known(rep.cs)'
    BY Zenon, <1>1, <1>2, <1>5, KnownAdvances DEF IInv, TypeOK
  <2> QED
    BY Zenon, <1>1, <2>1 DEF IInv, CoordKnown, AllKnown, NotAfter
<1>9. Bound'
  BY Zenon, <1>1, <1>2, <1>5 DEF IInv, Bound, Advances
<1>10. SettledFinal'
  <2>1. /\ cs.settled > 0 => final'[cs.settled] # "none"
        /\ coord.pc = "clear_operation" /\ cs.exists => final'[cs.version] # "none"
        /\ coord.pc = "rejected" => final'[coord.op.version] # "none" /\ (coord.op.type = "create" => gone')
    BY <1>5, VersionTypes DEF IInv, SettledFinal, Advances, AllKnown, CoordKnown
  <2>2. rep.cs.version > 0
    BY Zenon, <1>1 DEF IInv, SettledFinal
  <2> QED
    BY ZenonT(60), <1>1, <1>2, <1>5, <2>1, <2>2 DEF SettledFinal, Status
<1>11. ResultsTold' /\ StoppedStays'
  BY Zenon, <1>1, <1>2 DEF IInv, ResultsTold, Told, StoppedStays, SameOperation, FailedStartup, NeedsStop
<1> QED
  BY Zenon, <1>5, <1>6, <1>7, <1>8, <1>9, <1>10, <1>11 DEF IInv

(* The acknowledgement is saved.                                            *)
LEMMA FlushSaveStep ==
  ASSUME IInv, FlushSave
  PROVE  IInv'
<1>1. UNCHANGED <<gitea, kubelet, storage, coord, rec, said>> /\ rep.pc = "save" /\ rep' = Idle
  BY Zenon DEF FlushSave
<1>2. /\ cs' \in Resources /\ SameRuntime /\ cs'.bound = cs.bound
      /\ cs'.settled = cs.settled \/ (cs'.settled = rep.cs.version /\ final[rep.cs.version] # "none")
      /\ cs'.recovery = "delete" => cs.recovery = "delete" \/ GivenUp
      /\ cs' = cs \/ cs.bound
  <2>1. CASE ~SavesWhatWasTold(rep.cs)
    BY Zenon, <2>1 DEF FlushSave, IInv, TypeOK, ThreadType, SameRuntime, SameOrder, SameResult, SamePod
  <2>2. CASE SavesWhatWasTold(rep.cs)
    <3>0. cs \in Resources
      BY Zenon DEF IInv, TypeOK, ThreadType
    <3>1. PICK absent : cs' = Settled(cs, absent)
      BY Zenon, <2>2 DEF FlushSave
    <3>2. /\ cs.exists /\ cs.version = rep.cs.version /\ cs.type = rep.cs.type /\ cs.ok = rep.cs.ok
          /\ rep.cs.version \in Numbers /\ cs.bound /\ cs.version > 0
          /\ final[rep.cs.version] = Status(rep.cs) /\ final[rep.cs.version] # "none"
      BY Zenon, <1>1, <2>2 DEF SavesWhatWasTold, SameOperation, IInv, Bound, SettledFinal, TypeOK, ThreadType, Resources, Status
    <3>3. ~cs.ok /\ cs.type \in {"create", "abort_create"} => gone
      BY <3>2, VersionTypes DEF IInv, GiteaOrder, AllKnown, Known, Creates, Status
    <3>4. cs.type = "delete" => GivenUp
      BY Zenon DEF IInv, AllKnown, Known
    <3> DEFINE a == IF cs.ok THEN cs.recovery ELSE "stop"
    <3>5. a \in {"none", "stop", "delete"} /\ (a = "delete" => cs.recovery = "delete")
      BY Zenon DEF IInv, TypeOK, ThreadType, Resources
    <3>6. \/ cs' = [cs EXCEPT !.settled = rep.cs.version, !.recovery = "stop", !.target = FALSE]
          \/ /\ cs' = [cs EXCEPT !.settled = rep.cs.version, !.recovery = "delete"]
             /\ cs.type = "delete" \/ (~cs.ok /\ cs.type \in {"create", "abort_create"})
          \/ cs' = [cs EXCEPT !.settled = rep.cs.version, !.recovery = a]
      BY Zenon, <3>1 DEF Settled
    <3> HIDE DEF a
    <3>7. CASE cs' = [cs EXCEPT !.settled = rep.cs.version, !.recovery = "stop", !.target = FALSE]
      BY Zenon, <3>0, <3>2, <3>7 DEF Resources, SameRuntime, SameOrder, SameResult, SamePod
    <3>8. CASE cs' = [cs EXCEPT !.settled = rep.cs.version, !.recovery = "delete"] /\ GivenUp
      BY Zenon, <3>0, <3>2, <3>8 DEF Resources, SameRuntime, SameOrder, SameResult, SamePod
    <3>9. CASE cs' = [cs EXCEPT !.settled = rep.cs.version, !.recovery = a]
      BY Zenon, <3>0, <3>2, <3>5, <3>9 DEF Resources, SameRuntime, SameOrder, SameResult, SamePod
    <3> QED
      BY Zenon, <3>3, <3>4, <3>6, <3>7, <3>8, <3>9 DEF GivenUp
  <2> QED
    BY Zenon, <2>1, <2>2
<1>3. TypeOK'
  BY Zenon, <1>1, <1>2, RestTypes DEF IInv, TypeOK, GiteaType, ClusterType, ThreadType, gitea, kubelet, storage
<1>4. SameGitea /\ SameCluster /\ said' = said /\ CoordRests /\ RecRests /\ RepRests
  BY Zenon, <1>1 DEF SameGitea, SameCluster, gitea, kubelet, storage, CoordRests, RecRests, RepRests
<1>5. GiteaOrder' /\ GiteaKeeps
  BY Zenon, <1>4, GiteaKept DEF IInv
<1>6. RecCurrent' /\ Writers' /\ AllKnown' /\ Storage' /\ ResultsTold' /\ StoppedStays'
  BY Zenon, <1>2, <1>4, <1>5, SameRuntimeStep
<1>7. CoordKnown'
  BY Zenon, <1>2, <1>4, <1>5, CoordKnownKept DEF IInv, TypeOK, SameRuntime
<1>8. Bound'
  BY Zenon, <1>1, <1>2 DEF IInv, Bound, GivenUp, gitea, Idle, SameRuntime, SameOrder, SamePod
<1>9. SettledFinal'
  BY Zenon, <1>1, <1>2 DEF IInv, SettledFinal, gitea, Idle, SameRuntime, SameOrder
<1> QED
  BY Zenon, <1>3, <1>5, <1>6, <1>7, <1>8, <1>9 DEF IInv

(* Before the first operation there is nothing.                             *)
LEMMA InitIInv == Init => IInv
<1> SUFFICES ASSUME Init PROVE IInv
  OBVIOUS
<1> USE CodespaceConstants DEF Init
<1>1. TypeOK
  BY RestTypes DEF TypeOK, GiteaType, ClusterType, ThreadType, NoPod, Pods, PodNumbers
<1>2. op.version = 0 /\ op.type = "create" /\ cs.version = 0 /\ cs.type = "create" /\ ~cs.exists /\ ~cs.bound
      /\ cs.uid = 0 /\ cs.pod = 0 /\ cs.vol = 0 /\ cs.settled = 0 /\ cs.result = 0
      /\ coord.pc = "idle" /\ coord.op = op /\ coord.cs = cs
      /\ rec.pc = "idle" /\ rec.cs = cs /\ rep.pc = "idle" /\ rep.cs = cs
  BY Zenon DEF NoOp, NoCS, Idle, IdleCoord
<1>3. RecCurrent /\ Writers /\ Storage
  BY <1>2 DEF RecCurrent, Writers, Storage, NoPod
<1>4. GiteaOrder
  BY SMTT(60), <1>2 DEF GiteaOrder, Versions
<1>5. CoordKnown /\ AllKnown
  BY SMTT(60), <1>2 DEF CoordKnown, AllKnown, Known, NotAfter, Preparing
<1>6. Bound /\ SettledFinal /\ ResultsTold /\ StoppedStays
  BY <1>2 DEF Bound, SettledFinal, ResultsTold, Told, StoppedStays, Preparing
<1> QED
  BY Zenon, <1>1, <1>3, <1>4, <1>5, <1>6 DEF IInv

(* Every step keeps the invariant.                                          *)
LEMMA NextIInv == IInv /\ [Next]_vars => IInv'
<1> SUFFICES ASSUME IInv, [Next]_vars PROVE IInv'
  OBVIOUS
<1>1. CASE UNCHANGED vars
  <2>1. SameGitea /\ SameCluster /\ SameRuntime /\ said' = said /\ CoordRests /\ RecRests /\ RepRests /\ cs' = cs
    BY Zenon, <1>1 DEF vars, SameGitea, SameCluster, SameRuntime, SameOrder, SameResult, SamePod, gitea, kubelet, storage,
       CoordRests, RecRests, RepRests
  <2>2. ThreadType'
    BY Zenon, <1>1 DEF vars, IInv, TypeOK, ThreadType
  <2>3. TypeOK' /\ GiteaOrder' /\ GiteaKeeps
    BY Zenon, <2>1, <2>2, TypesKept, GiteaKept DEF IInv, TypeOK
  <2>4. RecCurrent' /\ Writers' /\ AllKnown' /\ Storage' /\ ResultsTold' /\ StoppedStays'
    BY Zenon, <2>1, <2>3, SameRuntimeStep
  <2>5. CoordKnown' /\ Bound' /\ SettledFinal'
    BY Zenon, <2>1, <2>3, CoordKnownKept, BoundKept, SettledKept DEF IInv, TypeOK, SameRuntime
  <2> QED
    BY Zenon, <2>3, <2>4, <2>5 DEF IInv
<1>2. CASE (\E t \in Types : Issue(t)) \/ Abort
  BY Zenon, <1>2, GiteaStep
<1>3. CASE CoordStep
  BY Zenon, <1>3, CoordLooksStep, AcceptCreateStep, AcceptStep, BindStep, DecideStep, FinalizeRejectedStep DEF CoordStep
<1>4. CASE RecStep
  BY Zenon, <1>4, ReconcileStep, RecWorksStep, RecSavesStep, RecordVolumeStep, ResourceGoneStep,
     ResourceDeletedStep, PassEndsStep DEF RecStep, RecWorks, RecSaves, PassEnds
<1>5. CASE RepStep
  BY Zenon, <1>5, FlushReadStep, FlushResultStep, FlushFinalStep, FlushSaveStep, PassEndsStep DEF RepStep, PassEnds
<1>6. CASE AgentStep
  BY Zenon, <1>6, ReportStep, AgentExecutesStep DEF AgentStep
<1>7. CASE KubeStep
  BY Zenon, <1>7, KubeLikeStep DEF KubeStep, KubeLike
<1>8. CASE Disturbance
  BY Zenon, <1>8, KubeLikeStep, PassEndsStep, RecSavesStep, ResourceDeletedStep, ReportStep
  DEF Disturbance, KubeLike, PassEnds, RecSaves
<1> QED
  BY Zenon, <1>1, <1>2, <1>3, <1>4, <1>5, <1>6, <1>7, <1>8 DEF Next

(* The invariant holds throughout.                                          *)
THEOREM Invariance == Spec => []IInv
BY InitIInv, NextIInv, PTL DEF Spec

(* Whatever is read when, whatever fails and whoever leads, at no time do   *)
(* two Pods exist or write to the volume (stopOrDelete, Reconcile).         *)
THEOREM OnlyOneWriter == Spec => []OneWriter
<1>1. IInv => OneWriter
  <2> SUFFICES ASSUME IInv PROVE OneWriter
    OBVIOUS
  <2>1. \A n \in Existing \cup alive : cs.exists /\ cs.pod = n
    BY Zenon DEF IInv, Writers, Existing, TypeOK, ClusterType
  <2> QED
    BY Zenon, <2>1 DEF OneWriter
<1> QED
  BY <1>1, Invariance, PTL

(* No empty volume replaces one a Pod was prepared to use, and a volume is  *)
(* deleted only with no writer left and with Gitea having given it up       *)
(* (ensureVolume, stopOrDelete).                                            *)
THEOREM VolumeIsKept == Spec => DataKept
<1> DEFINE Kept == /\ volumes' # volumes => names = 0
                   /\ volume = "live" /\ volume' = "deleting" =>
                        /\ alive = {} /\ Existing = {} /\ ~foreign
                        /\ gone \/ op.type = "delete"
<1>1. IInv /\ [Next]_vars => [Kept]_vars
  <2> SUFFICES ASSUME IInv, Next PROVE Kept
    OBVIOUS
  <2>1. volumes' # volumes => EnsureVolume
    BY Zenon DEF Next, CoordStep, RecStep, RepStep, AgentStep, KubeStep, Disturbance, Issue, Abort, storage,
       FetchOperations, AcceptCreate, Accept, Reject, Bind, BindRow, ClearRecovery, GrantLease,
       FinalizeRejected, SaveRejected, ReportInventory, ApplyInventory,
       Reconcile, RecordVolume, NamePod, CreatePod, PodLost, FindPod, RecordPod, WriterConflict,
       DeletePod, ConfirmStopped, ReleasePod, DeleteVolume, RemoveResource, NothingLeft, FinishStop,
       FlushRead, FlushResult, FlushFinal, FlushRefused, FlushSave, AgentReports, AgentExecutes,
       VolumeGone, ForeignPodEnds, Schedule, Terminate, PreparationRefused, CoordFails, RecFails,
       RepFails, FinalFails, NewLeader, LeaseLapses, VolumeLost, ForeignPod, ResourceDeleted,
       AdminStops, PodExits, PodEvicted, PodVanishes
  <2>2. volume' # volume => EnsureVolume \/ DeleteVolume \/ VolumeGone \/ VolumeLost
    BY Zenon DEF Next, CoordStep, RecStep, RepStep, AgentStep, KubeStep, Disturbance, Issue, Abort, storage,
       FetchOperations, AcceptCreate, Accept, Reject, Bind, BindRow, ClearRecovery, GrantLease,
       FinalizeRejected, SaveRejected, ReportInventory, ApplyInventory,
       Reconcile, RecordVolume, NamePod, CreatePod, PodLost, FindPod, RecordPod, WriterConflict,
       DeletePod, ConfirmStopped, ReleasePod, RemoveResource, NothingLeft, FinishStop,
       FlushRead, FlushResult, FlushFinal, FlushRefused, FlushSave, AgentReports, AgentExecutes,
       ForeignPodEnds, Schedule, Terminate, PreparationRefused, CoordFails, RecFails,
       RepFails, FinalFails, NewLeader, LeaseLapses, ForeignPod, ResourceDeleted,
       AdminStops, PodExits, PodEvicted, PodVanishes
  <2>3. EnsureVolume /\ volumes' # volumes => names = 0
    <3> SUFFICES ASSUME EnsureVolume, volumes' # volumes PROVE names = 0
      OBVIOUS
    <3>1. rec.pc = "volume" /\ rec.cs.vol = 0
      BY Zenon DEF EnsureVolume, MayCreateVolume, storage
    <3> QED
      BY <3>1, CodespaceConstants DEF IInv, RecCurrent, Storage, TypeOK, ClusterType, PodNumbers
  <2>4. DeleteVolume => /\ alive = {} /\ Existing = {} /\ ~foreign
                        /\ gone \/ op.type = "delete"
    <3> SUFFICES ASSUME DeleteVolume PROVE <2>4!2
      OBVIOUS
    <3>1. rec.pc = "remove" /\ Existing = {} /\ ~foreign /\ rec.cs.vol # 0
      BY Zenon DEF DeleteVolume, NoPodLeft, SecondWriter
    <3>2. alive = {}
      BY Zenon, <3>1 DEF IInv, Writers, Existing, TypeOK, ClusterType
    <3>3. GivenUp
      BY Zenon, <3>1 DEF IInv, RecCurrent, Bound
    <3> QED
      BY Zenon, <3>1, <3>2, <3>3 DEF GivenUp
  <2>5. volume = "live" /\ volume' = "deleting" => DeleteVolume
    <3>1. EnsureVolume => volume' \in {volume, "live"}
      BY Zenon DEF EnsureVolume, storage
    <3>2. VolumeGone \/ VolumeLost => volume' = "none"
      BY Zenon DEF VolumeGone, VolumeLost
    <3> QED
      BY Zenon, <2>2, <3>1, <3>2
  <2> QED
    BY Zenon, <2>1, <2>3, <2>4, <2>5
<1> QED
  BY <1>1, Invariance, PTL DEF Spec, DataKept

(* What counts as settled is final at Gitea, and Gitea is told only what is *)
(* true of the runtime (Flush, finalizeRejectedOperation, inventory).       *)
THEOREM ToldTruly == Spec => FinalIsTrue
<1> DEFINE True == /\ cs'.settled > 0 => final'[cs'.settled] # "none"
                   /\ final' # final /\ rep.pc = "final" /\ rep'.pc = "save" =>
                        IF rep.cs.type \in Startup /\ rep.cs.ok
                        THEN said[rep.cs.version] = "done" ELSE alive = {}
<1>1. IInv /\ IInv' /\ [Next]_vars => [True]_vars
  <2> SUFFICES ASSUME IInv, IInv', Next PROVE True
    OBVIOUS
  <2>1. cs'.settled > 0 => final'[cs'.settled] # "none"
    BY Zenon DEF IInv, SettledFinal
  <2>2. rep.pc = "final" /\ rep'.pc = "save" => FlushFinal
    <3>1. rep' # rep /\ rep' # Idle /\ rep.pc = "final" => FlushFinal
      BY Zenon DEF Next, CoordStep, RecStep, RepStep, AgentStep, KubeStep, Disturbance, Issue, Abort,
         FetchOperations, AcceptCreate, Accept, Reject, Bind, BindRow, ClearRecovery, GrantLease,
         FinalizeRejected, SaveRejected, ReportInventory, ApplyInventory,
         Reconcile, EnsureVolume, RecordVolume, NamePod, CreatePod, PodLost, FindPod, RecordPod, WriterConflict,
         DeletePod, ConfirmStopped, ReleasePod, DeleteVolume, RemoveResource, NothingLeft, FinishStop,
         FlushRead, FlushResult, FlushRefused, FlushSave, GiveUp, AgentReports, AgentExecutes,
         VolumeGone, ForeignPodEnds, Schedule, Terminate, PreparationRefused, CoordFails, RecFails,
         RepFails, FinalFails, NewLeader, LeaseLapses, VolumeLost, ForeignPod, ResourceDeleted,
         AdminStops, PodExits, PodEvicted, PodVanishes
    <3> QED
      BY <3>1 DEF Idle
  <2>3. ASSUME FlushFinal, final' # final PROVE IF rep.cs.type \in Startup /\ rep.cs.ok
                                                THEN said[rep.cs.version] = "done" ELSE alive = {}
    <3>1. rep.pc = "final" /\ rep.cs.version = op.version /\ rep.cs.version > 0 /\ rep.cs.result = rep.cs.version
      BY Zenon, <2>3 DEF FlushFinal, Finalize, IInv, SettledFinal, ResultsTold
    <3>2. CASE rep.cs.type \in Startup /\ rep.cs.ok
      BY Zenon, <3>1, <3>2 DEF IInv, ResultsTold, Told
    <3>3. CASE ~(rep.cs.type \in Startup /\ rep.cs.ok)
      <4>1. cs.exists => cs.pod = 0
        BY Zenon, <3>1, <3>3 DEF IInv, StoppedStays, NeedsStop, FailedStartup
      <4>2. ASSUME NEW n \in alive PROVE FALSE
        <5>1. n \in PodNames /\ pods[n].state = "scheduled"
          BY Zenon DEF IInv, Writers, TypeOK, ClusterType
        <5>2. cs.exists /\ cs.pod = n
          BY Zenon, <5>1 DEF IInv, Writers
        <5> QED
          BY <4>1, <5>1, <5>2, CodespaceConstants DEF PodNames
      <4> QED
        BY Zenon, <3>3, <4>2
    <3> QED
      BY Zenon, <3>2, <3>3
  <2> QED
    BY Zenon, <2>1, <2>2, <2>3
<1> QED
  BY <1>1, Invariance, PTL DEF Spec, FinalIsTrue
=============================================================================
