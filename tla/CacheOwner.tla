----------------------------- MODULE CacheOwner -----------------------------
(***************************************************************************)
(* Ownership of one registry cache: the cache processes (internal/cache    *)
(* service.go over internal/component cache_component.go), the Manager's    *)
(* control stream and its two Leases (internal/cluster component_cache.go), *)
(* and the administrator who disables and deletes the component.            *)
(*                                                                          *)
(* Several processes of one component can be alive at once: a Deployment    *)
(* replaces a Pod whose node is unreachable while the old process still     *)
(* runs.  Time is counted in ticks; Leases, permits and timers count down.  *)
(***************************************************************************)
EXTENDS Integers, FiniteSets

CONSTANTS
  Procs,           \* processes of the cache component
  OwnerTTL,        \* cacheOwnerTTL: the owner Lease and the permit it grants
  PermitMargin,    \* the second a process takes off its permit
  RequestTimeout,  \* componentRequestTimeout
  GCTTL,           \* cacheGCTTL: the cleanup grant
  GCMargin,        \* a cleanup stops this long before its grant expires
  Disturbances     \* bound: configuration changes, crashes, broken streams
                   \* and delayed exchanges

ASSUME CacheOwnerConstants ==
  /\ {OwnerTTL, RequestTimeout, GCTTL} \subseteq Nat \ {0}
  /\ PermitMargin \in 1 .. OwnerTTL - 1
  /\ GCMargin \in 0 .. GCTTL - 1

VARIABLES
  cache,   \* the component: revision, enabled, exists
  deletion,\* the revision the administrator validated for deletion
  owner,   \* the owner Lease: holder, left, revision
  grant,   \* the cleanup Lease: holder, left
  conn,    \* per process, its control stream and the exchange on it
  late,    \* per process, a request it gave up that Manager may still handle
  permit,  \* per process, permitUntil
  inst,    \* per process, the running instance
  disturbed  \* disturbances so far

cacheVars == <<cache, deletion, owner, grant, conn, late, permit, inst, disturbed>>

(* Sessions have fresh ids.  Of those of one process it is enough to tell   *)
(* the current one, the one before and all others apart.                    *)
NoOne == <<"nobody", "new">>
Current(p) == <<p, "new">>
Older(age) == IF age = "new" THEN "old" ELSE "gone"
Aged(h, p) == IF h[1] = p THEN <<p, Older(h[2])>> ELSE h

NoStream == [state |-> "none", revision |-> 0, enabled |-> FALSE, ask |-> "none", age |-> 0]
FailedStream == [NoStream EXCEPT !.state = "failed"]
NoInstance == [state |-> "off", timer |-> 0, revision |-> 0, gc |-> "due"]
NoLate == [kind |-> "none", session |-> "new"]

CacheInit ==
  /\ cache = [revision |-> 0, enabled |-> FALSE, exists |-> FALSE]
  /\ deletion = -1
  /\ owner = [holder |-> NoOne, left |-> 0, revision |-> 0]
  /\ grant = [holder |-> NoOne, left |-> 0]
  /\ conn = [p \in Procs |-> NoStream]
  /\ late = [p \in Procs |-> NoLate]
  /\ permit = [p \in Procs |-> 0]
  /\ inst = [p \in Procs |-> NoInstance]
  /\ disturbed = 0

Asked == {"claim", "beat", "begin", "complete"}
Running(p) == inst[p].state = "running"
Open(p) == conn[p].state = "open"
Permitted(p) == permit[p] > 0
Idle(p) == conn[p].ask = "none"

(***************************************************************************)
(* The process's control client.                                           *)
(***************************************************************************)

(* A request that has left the process is handled by Manager later, or      *)
(* never, whatever the process has concluded meanwhile.  Of the requests a  *)
(* process gave up, the last is kept.                                       *)
Abandoned(p) ==
  IF conn[p].ask \in Asked THEN [kind |-> conn[p].ask, session |-> "new"] ELSE late[p]

failLocked(p) ==
  /\ conn' = [conn EXCEPT ![p] = FailedStream]
  /\ late' = [late EXCEPT ![p] = Abandoned(p)]

(* start: GetCache opens a stream with a fresh session when there is none;  *)
(* after a failed one the callers wait a second or two (CacheTick).         *)
(* permitUntil survives from the old session.  Pods exist from the          *)
(* component's creation on.                                                 *)
StartStream(p) ==
  /\ cache.revision > 0
  /\ conn[p].state = "none"
  /\ inst[p].state # "stopping"
  /\ conn' = [conn EXCEPT ![p] = [NoStream EXCEPT !.state = "claiming", !.ask = "claim"]]
  /\ owner' = [owner EXCEPT !.holder = Aged(@, p)]
  /\ grant' = [grant EXCEPT !.holder = Aged(@, p)]
  /\ late' = [late EXCEPT ![p] = IF @.kind = "none" \/ @.session = "old" THEN NoLate
                                   ELSE [@ EXCEPT !.session = "old"]]
  /\ UNCHANGED <<cache, deletion, permit, inst, disturbed>>

PermitFromReceipt(age) == OwnerTTL - PermitMargin

(* The permit runs from the moment the request was sent, less the margin.   *)
PermitFrom(age) == OwnerTTL - PermitMargin - age

Longer(a, b) == IF a > b THEN a ELSE b

Accepted(p) ==
  LET until == Longer(permit[p], PermitFrom(conn[p].age)) IN
  /\ permit' = [permit EXCEPT ![p] = until]
  /\ conn' = [conn EXCEPT ![p] = [@ EXCEPT !.state = "open", !.ask = "none", !.age = 0]]
  /\ inst' = [inst EXCEPT ![p] =
       CASE conn[p].ask = "renewed" /\ Running(p) -> [@ EXCEPT !.timer = until]
         [] conn[p].ask = "granted" /\ Running(p) ->
              [@ EXCEPT !.gc = IF grant.left - GCMargin <= 1 THEN "finish" ELSE "drain"]
         [] conn[p].ask = "completed" -> [@ EXCEPT !.gc = "rest"]
         [] OTHER -> @]
  /\ UNCHANGED late

(* receive: an acknowledgment older than its permit fails the stream.       *)
Receive(p) ==
  /\ conn[p].ask \in {"claimed", "renewed", "granted", "completed"}
  /\ IF PermitFrom(conn[p].age) > 0
     THEN Accepted(p)
     ELSE failLocked(p) /\ UNCHANGED <<permit, inst>>
  /\ UNCHANGED <<cache, deletion, owner, grant, disturbed>>

(* send / GetCache: the wait ends at the request timeout or the permit's    *)
(* end.  A maintenance request that times out leaves the stream open.       *)
AskTimeout(p) ==
  /\ ~Idle(p)
  /\ conn[p].age >= RequestTimeout \/ (conn[p].state = "open" /\ ~Permitted(p))
  /\ IF conn[p].ask \in {"begin", "complete", "granted", "completed"}
     THEN /\ conn' = [conn EXCEPT ![p] = [@ EXCEPT !.ask = "none", !.age = 0]]
          /\ late' = [late EXCEPT ![p] = Abandoned(p)]
          /\ inst' = [inst EXCEPT ![p].gc = IF conn[p].ask \in {"begin", "granted"} THEN "due" ELSE "rest"]
     ELSE failLocked(p) /\ UNCHANGED inst
  /\ UNCHANGED <<cache, deletion, owner, grant, permit, disturbed>>

(* GetCache finds the permit over: the stream is given up.                  *)
PermitOver(p) ==
  /\ Open(p) /\ Idle(p) /\ ~Permitted(p)
  /\ failLocked(p)
  /\ UNCHANGED <<cache, deletion, owner, grant, permit, inst, disturbed>>

Ask(p, kind) ==
  /\ Open(p) /\ Permitted(p) /\ Idle(p)
  /\ conn' = [conn EXCEPT ![p] = [@ EXCEPT !.ask = kind, !.age = 0]]
  /\ UNCHANGED <<cache, deletion, owner, grant, late, permit, disturbed>>

(***************************************************************************)
(* The cache process: Run, runCacheInstance and maintain.                  *)
(***************************************************************************)

Runnable(p) == inst[p].state = "off" /\ Open(p) /\ Permitted(p) /\ conn[p].enabled

RunInstance(p) ==
  /\ Runnable(p)
  /\ inst' = [inst EXCEPT ![p] = [NoInstance EXCEPT !.state = "running", !.timer = permit[p],
                                                   !.revision = conn[p].revision]]
  /\ UNCHANGED <<cache, deletion, owner, grant, conn, late, permit, disturbed>>

HeartbeatCache(p) ==
  /\ Running(p)
  /\ Ask(p, "beat")
  /\ UNCHANGED inst

Stopped(i) == [i EXCEPT !.state = "stopping", !.gc = "due"]

(* The heartbeat failed, or Run saw another revision or a disabled cache.   *)
StopInstance(p) ==
  /\ Running(p)
  /\ \/ ~Open(p)
     \/ ~Permitted(p)
     \/ conn[p].revision # inst[p].revision
     \/ ~conn[p].enabled
  /\ inst' = [inst EXCEPT ![p] = Stopped(@)]
  /\ UNCHANGED <<cache, deletion, owner, grant, conn, late, permit, disturbed>>

(* ReleaseCache runs last, after the storage is closed, and closes whatever *)
(* stream is open by then.                                                  *)
ReleaseCache(p) ==
  /\ inst[p].state = "stopping"
  /\ inst' = [inst EXCEPT ![p] = NoInstance]
  /\ conn' = [conn EXCEPT ![p] = NoStream]
  /\ late' = [late EXCEPT ![p] = Abandoned(p)]
  /\ UNCHANGED <<cache, deletion, owner, grant, permit, disturbed>>

BeginCacheGC(p) ==
  /\ Running(p) /\ inst[p].gc = "due" /\ conn[p].revision = inst[p].revision
  /\ Ask(p, "begin")
  /\ UNCHANGED inst

Prune(p) ==
  /\ Running(p) /\ inst[p].gc = "drained"
  /\ inst' = [inst EXCEPT ![p].gc = "prune"]
  /\ UNCHANGED <<cache, deletion, owner, grant, conn, late, permit, disturbed>>

Pruned(p) ==
  /\ Running(p) /\ inst[p].gc = "prune"
  /\ inst' = [inst EXCEPT ![p].gc = "finish"]
  /\ UNCHANGED <<cache, deletion, owner, grant, conn, late, permit, disturbed>>

CompleteCacheGC(p) ==
  /\ Running(p) /\ inst[p].gc = "finish"
  /\ Ask(p, "complete")
  /\ UNCHANGED inst

(* gcInterval has passed since the last cleanup.                            *)
CleanupDue(p) ==
  /\ Running(p) /\ inst[p].gc = "rest"
  /\ inst' = [inst EXCEPT ![p].gc = "due"]
  /\ UNCHANGED <<cache, deletion, owner, grant, conn, late, permit, disturbed>>

(***************************************************************************)
(* The Manager's side of the stream.  Each operation gives the two Leases   *)
(* and the answer; "broken" ends the stream.                                *)
(***************************************************************************)

Serves == cache.exists /\ cache.enabled
Held(session) == [holder |-> session, left |-> OwnerTTL, revision |-> cache.revision]
Result(o, g, a) == [owner |-> o, grant |-> g, answer |-> a]

ClaimableOnce == Serves /\ owner.holder = NoOne

(* An unexpired Lease refuses every claim, even of its holder's process:    *)
(* a closed stream does not prove that the old instance stopped writing.    *)
Claimable == Serves /\ owner.left = 0

claimCache(session) ==
  IF Claimable THEN Result(Held(session), grant, "claimed") ELSE Result(owner, grant, "broken")

renewCache(session) == Serves /\ owner.holder = session

beginCacheGC(session) ==
  IF grant.left = 0
  THEN Result(Held(session), [holder |-> session, left |-> GCTTL], "granted")
  ELSE Result(Held(session), grant, "broken")

completeCacheGC(session) ==
  IF grant.holder = session
  THEN Result(Held(session), [holder |-> NoOne, left |-> 0], "completed")
  ELSE Result(Held(session), grant, "broken")

(* Every request after the first renews the Lease before anything else: a   *)
(* cleanup refused ends the stream of a session that was just renewed.      *)
Handled(kind, session) ==
  CASE kind = "claim" -> claimCache(session)
    [] kind # "claim" /\ ~renewCache(session) -> Result(owner, grant, "broken")
    [] kind = "beat" /\ renewCache(session) -> Result(Held(session), grant, "renewed")
    [] kind = "begin" /\ renewCache(session) -> beginCacheGC(session)
    [] kind = "complete" /\ renewCache(session) -> completeCacheGC(session)

Answered(c, a) ==
  CASE a = "broken" -> FailedStream
    [] a = "claimed" -> [c EXCEPT !.ask = a, !.revision = cache.revision, !.enabled = cache.enabled]
    [] OTHER -> [c EXCEPT !.ask = a]

(* CacheControl handles the requests of one stream in order.                *)
CacheControl(p) ==
  /\ conn[p].ask \in Asked
  /\ late[p].kind = "none" \/ late[p].session = "old"
  /\ LET r == Handled(conn[p].ask, Current(p)) IN
     /\ owner' = r.owner
     /\ grant' = r.grant
     /\ conn' = [conn EXCEPT ![p] = Answered(@, r.answer)]
  /\ UNCHANGED <<cache, deletion, late, permit, inst, disturbed>>

(* A request whose sender gave up: nobody waits for its answer, and it is   *)
(* lost if its stream is gone.                                              *)
LateRequest(p) ==
  /\ late[p].kind # "none"
  /\ late' = [late EXCEPT ![p] = NoLate]
  /\ LET here == late[p].session = "new" /\ Open(p)
         r == Handled(late[p].kind, <<p, late[p].session>>)
     IN \/ /\ owner' = r.owner
           /\ grant' = r.grant
           /\ conn' = [conn EXCEPT ![p] = IF here /\ r.answer = "broken" THEN FailedStream ELSE @]
        \/ ~here /\ UNCHANGED <<owner, grant, conn>>
  /\ UNCHANGED <<cache, deletion, permit, inst, disturbed>>

(* A change is pushed on open streams; a deleted component ends them.       *)
SendConfig(p) ==
  /\ Open(p) /\ conn[p].revision # cache.revision
  /\ conn' = [conn EXCEPT ![p] =
       IF cache.exists THEN [@ EXCEPT !.revision = cache.revision, !.enabled = cache.enabled]
       ELSE FailedStream]
  /\ late' = IF cache.exists THEN late ELSE [late EXCEPT ![p] = Abandoned(p)]
  /\ UNCHANGED <<cache, deletion, owner, grant, permit, inst, disturbed>>

(* What the Manager offers to Runtimes.                                     *)
cacheAvailable == Serves /\ owner.left > 0 /\ owner.revision = cache.revision

(***************************************************************************)
(* The administrator.  saveComponent and the deletion both carry the        *)
(* resource version they read.                                              *)
(***************************************************************************)

Disturb == disturbed < Disturbances /\ disturbed' = disturbed + 1

CreateCache ==
  /\ cache.revision = 0
  /\ cache' = [revision |-> 1, enabled |-> TRUE, exists |-> TRUE]
  /\ UNCHANGED <<deletion, owner, grant, conn, late, permit, inst, disturbed>>

Configure ==
  /\ Disturb
  /\ cache.exists
  /\ \E on \in BOOLEAN :
       cache' = [cache EXCEPT !.revision = @ + 1, !.enabled = on]
  /\ UNCHANGED <<deletion, owner, grant, conn, late, permit, inst>>

Deletable == cache.exists /\ ~cache.enabled /\ owner.left = 0

validateResourceDeletion ==
  /\ Deletable
  /\ deletion # cache.revision
  /\ deletion' = cache.revision
  /\ UNCHANGED <<cache, owner, grant, conn, late, permit, inst, disturbed>>

DeleteComponent ==
  /\ cache.exists /\ deletion = cache.revision
  /\ cache' = [cache EXCEPT !.exists = FALSE, !.revision = @ + 1]
  /\ UNCHANGED <<deletion, owner, grant, conn, late, permit, inst, disturbed>>

(***************************************************************************)
(* Faults and time.                                                        *)
(***************************************************************************)

Crash(p) ==
  /\ Disturb
  /\ conn[p] # NoStream \/ inst[p] # NoInstance
  /\ conn' = [conn EXCEPT ![p] = NoStream]
  /\ late' = [late EXCEPT ![p] = Abandoned(p)]
  /\ permit' = [permit EXCEPT ![p] = 0]
  /\ inst' = [inst EXCEPT ![p] = NoInstance]
  /\ UNCHANGED <<cache, deletion, owner, grant>>

Disconnect(p) ==
  /\ Disturb
  /\ conn[p].state \in {"claiming", "open"}
  /\ failLocked(p)
  /\ UNCHANGED <<cache, deletion, owner, grant, permit, inst>>

Less(n) == IF n > 0 THEN n - 1 ELSE 0

(* The permit timer cancels the instance, the grant's deadline a cleanup;   *)
(* a cleanup waits out the cached authentications (authenticationTTL).      *)
Elapsed(i) ==
  CASE i.state = "running" /\ i.timer <= 1 -> Stopped([i EXCEPT !.timer = 0])
    [] i.state = "running" /\ i.timer > 1 ->
         [i EXCEPT !.timer = @ - 1,
                   !.gc = IF @ \in {"drain", "drained", "prune"} /\ grant.left <= GCMargin + 1
                          THEN "finish" ELSE IF @ = "drain" THEN "drained" ELSE @]
    [] OTHER -> i

(* An exchange takes less than a tick unless it is delayed, which counts as *)
(* a disturbance; a process starts its instance, and times out, in time.    *)
CacheTick ==
  /\ cache.revision > 0
  /\ \A p \in Procs : ~Runnable(p) /\ (~Idle(p) => conn[p].age < RequestTimeout)
  /\ IF \E p \in Procs : ~Idle(p) /\ conn[p].age = 0 THEN Disturb ELSE UNCHANGED disturbed
  /\ owner' = [owner EXCEPT !.left = Less(@)]
  /\ grant' = [grant EXCEPT !.left = Less(@)]
  /\ conn' = [p \in Procs |->
       CASE ~Idle(p) -> [conn[p] EXCEPT !.age = @ + 1]
         [] Idle(p) /\ conn[p].state = "failed" -> NoStream
         [] OTHER -> conn[p]]
  /\ permit' = [p \in Procs |-> Less(permit[p])]
  /\ inst' = [p \in Procs |-> Elapsed(inst[p])]
  /\ UNCHANGED <<cache, deletion, late>>

CacheStep(p) ==
  \/ StartStream(p) \/ Receive(p) \/ AskTimeout(p) \/ PermitOver(p)
  \/ RunInstance(p) \/ HeartbeatCache(p) \/ StopInstance(p) \/ ReleaseCache(p)
  \/ BeginCacheGC(p) \/ Prune(p) \/ Pruned(p) \/ CompleteCacheGC(p) \/ CleanupDue(p)
  \/ CacheControl(p) \/ LateRequest(p) \/ SendConfig(p)
  \/ Crash(p) \/ Disconnect(p)

CacheNext ==
  \/ \E p \in Procs : CacheStep(p)
  \/ CreateCache \/ Configure \/ validateResourceDeletion \/ DeleteComponent \/ CacheTick

CacheFairness ==
  /\ WF_cacheVars(CacheTick)
  /\ \A p \in Procs :
       WF_cacheVars(\/ StartStream(p) \/ Receive(p) \/ AskTimeout(p) \/ PermitOver(p)
                   \/ RunInstance(p) \/ StopInstance(p) \/ ReleaseCache(p)
                   \/ CacheControl(p) \/ LateRequest(p) \/ SendConfig(p))

CacheSpec == CacheInit /\ [][CacheNext]_cacheVars /\ CacheFairness

(***************************************************************************)
(* Properties.                                                             *)
(***************************************************************************)

(* At most one process serves and writes the cache's storage, whatever      *)
(* streams break, answers come late and processes restart: a process stops  *)
(* when its permit ends (runCacheInstance), and the Lease that keeps        *)
(* claimCache from admitting another outlives every permit it gave.  None   *)
(* does once the component is deleted: it must be disabled, which ends      *)
(* renewals, and its Lease run out, before validateResourceDeletion lets it *)
(* go.                                                                      *)
OneCacheWriter ==
  \A p \in Procs : Running(p) => cache.exists /\ \A q \in Procs : Running(q) => p = q

(* An enabled cache is served again and again, whatever crashed, broke or   *)
(* was left behind: the refused claims of a restarted process do not keep   *)
(* the old Lease alive, and a cleanup grant nobody completed runs out.      *)
ServedAgain ==
  <>[]Serves => []<>(cacheAvailable /\ \E p \in Procs : Running(p))
=============================================================================
