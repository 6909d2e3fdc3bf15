-------------------------- MODULE GatewayActivity --------------------------
(***************************************************************************)
(* Idle stop.  A Gateway reports the live sessions of a Runtime over its   *)
(* control stream and serves under a permit that the Manager renews; the   *)
(* leader's RuntimeActivityTracker joins the reports with Gitea's policy   *)
(* and asks Gitea to stop a Runtime that nobody uses.                      *)
(*                                                                         *)
(* One Runtime, one Gateway process with its streams, and one more process *)
(* of the same component, the peer, which stays connected and has no       *)
(* session.  A tick is half of the two TTLs of the code, so that at least  *)
(* one heartbeat falls in each; every instant of the code becomes an age   *)
(* or the time that is left, and no clock has to be bounded.               *)
(***************************************************************************)
EXTENDS Integers

CONSTANTS
    TTL,           \* gatewayActivityTTL = gatewayPermitTTL, in ticks
    IdleTimeout,   \* of Gitea's policy, in ticks
    Slack,         \* how long a session may last without being noticed
    MaxChanges,    \* bound on interactions, policy changes, stops and resumes
    MaxFaults      \* bound on broken streams, deaths and new leaders

\* At least two ticks, for a heartbeat in between; Gitea's timeout is minutes.
ASSUME ActivityAssumption ==
    /\ TTL \in Nat \ {0, 1}
    /\ {IdleTimeout, Slack, MaxChanges, MaxFaults} \subseteq Nat
    /\ IdleTimeout > TTL /\ Slack > TTL

VARIABLES
    gw,        \* the Gateway: process, listeners, permit, session and stream
    uplink,    \* the report under way on its stream
    downlink,  \* the response under way on it
    control,   \* the GatewayControl handler of its stream
    old,       \* the handler of its previous stream, with its last report
    report,    \* RuntimeActivityTracker.gateways: the Gateway's entry
    peer,      \* the peer has reported after the last observed activity
    act,       \* RuntimeActivityTracker.runtimes, for the Runtime
    call,      \* requestIdleStops: the call under way
    gitea,     \* the policy and the generation of interactions
    unseen,    \* generations in authorizations the Manager has not observed
    rt,        \* the Runtime: "running", "stopped", or "gone" for the Gateway
    changes, faults

streams == <<uplink, downlink, control, old>>
tracker == <<report, peer, act, call>>
world   == <<gitea, unseen, rt>>
vars    == <<gw, streams, tracker, world, changes, faults>>

None == [none |-> TRUE]
Down == [alive |-> TRUE, serving |-> FALSE, permit |-> 0, live |-> 0,
         route |-> FALSE, conn |-> FALSE]
NoAct == [policy |-> FALSE, on |-> FALSE, gen |-> 0, idle |-> -1, retry |-> 0]

Init ==
    /\ gw = Down
    /\ uplink = None /\ downlink = None /\ control = "none" /\ old = None
    /\ report = None /\ peer = FALSE /\ act = NoAct /\ call = None
    /\ gitea = [on |-> TRUE, gen |-> 0] /\ unseen = {} /\ rt = "running"
    /\ changes = 0 /\ faults = 0

Change == changes < MaxChanges /\ changes' = changes + 1
Fault  == faults < MaxFaults /\ faults' = faults + 1
Dec(n) == IF n > 0 THEN n - 1 ELSE 0
Inc(n, max) == IF n < max THEN n + 1 ELSE max

(***************************************************************************)
(* RuntimeActivityTracker, each method under its mutex.                    *)
(***************************************************************************)
Reset(a) == [a EXCEPT !.idle = -1, !.retry = 0]

\* activityAfter: from now on only reports count that are newer, or that came
\* after the instant the caller took ("since").
ActivityAfter(since) ==
    /\ report' = IF report = None \/ "gateway" \in since THEN report
                 ELSE [report EXCEPT !.newer = FALSE]
    /\ peer' = (peer /\ "peer" \in since)

RestartsAlways(s) == s.gen >= act.gen
Restarts(s) == s.gen >= act.gen
               /\ (~act.policy \/ s.on # act.on \/ s.gen # act.gen \/ ~s.on)
Settled(s) ==
    LET a == [act EXCEPT !.policy = TRUE, !.on = s.on, !.gen = s.gen]
    IN  IF s.gen < act.gen THEN act ELSE IF Restarts(s) THEN Reset(a) ELSE a

applySettings(s, since) ==
    IF Restarts(s) THEN ActivityAfter(since) ELSE UNCHANGED <<report, peer>>

ObserveInteraction(gen) ==
    IF gen <= act.gen THEN UNCHANGED <<report, peer, act>>
    ELSE act' = Reset([act EXCEPT !.gen = gen]) /\ ActivityAfter({})

Noted(who) ==
    call' = IF call = None THEN None ELSE [call EXCEPT !.since = @ \cup {who}]

ReplaceGateway(live) ==
    /\ report' = [live |-> live, age |-> 0, permit |-> TTL, connected |-> TRUE,
                  newer |-> TRUE]
    /\ Noted("gateway")

Release == report' = IF report = None THEN None
                     ELSE [report EXCEPT !.connected = FALSE]

RenewGatewayPermit ==
    report' = IF report = None THEN None ELSE [report EXCEPT !.permit = TTL]

\* IdleRequest: what the Gateway's entry says.  One that is out of date or
\* disconnected counts as long as its permit may last, and is then dropped.
Current   == report # None /\ report.connected /\ report.age <= TTL
NeverUncertain == FALSE
Uncertain == report # None /\ ~Current /\ report.permit > 0
Dropped   == report # None /\ ~Current /\ report.permit = 0
Fresh     == peer \/ (Current /\ report.newer)
InUse     == Current /\ report.newer /\ report.live
Eligible  == rt = "running"

\* requestIdleStops for the Runtime, up to the call.
IdleRequest ==
    /\ call = None
    /\ IF ~act.policy \/ ~act.on \/ ~Eligible
       THEN act' = Reset(act) /\ UNCHANGED <<report, call>>
       ELSE /\ report' = IF Dropped THEN None ELSE report
            /\ IF Uncertain \/ ~Fresh \/ InUse
               THEN act' = Reset(act) /\ UNCHANGED call
               ELSE IF act.idle < 0
               THEN act' = [act EXCEPT !.idle = 0] /\ UNCHANGED call
               ELSE IF act.idle < IdleTimeout \/ act.retry > 0
               THEN UNCHANGED <<act, call>>
               ELSE /\ act' = [act EXCEPT !.retry = 1]
                    /\ call' = [phase |-> "sent", on |-> act.on, gen |-> act.gen,
                                since |-> {}]
    /\ UNCHANGED <<gw, streams, peer, world, changes, faults>>

IdleStopFailed ==
    /\ call # None /\ Fault /\ call' = None
    /\ act' = IF act = NoAct THEN act ELSE [act EXCEPT !.retry = 1]
    /\ UNCHANGED <<gw, streams, report, peer, world, changes>>

\* Gitea (external) compares the observation with its own.
RequestIdleStop ==
    /\ call # None /\ call.phase = "sent"
    /\ LET same == call.on = gitea.on /\ call.gen = gitea.gen
       IN  /\ call' = [phase |-> IF rt # "running" THEN "not_applicable"
                                 ELSE IF same THEN "pending" ELSE "changed",
                       on |-> gitea.on, gen |-> gitea.gen, since |-> call.since]
           /\ rt' = IF rt = "running" /\ same THEN "stopped" ELSE rt
    /\ UNCHANGED <<gw, streams, report, peer, act, gitea, unseen, changes, faults>>

IdleStopResult ==
    /\ call # None /\ call.phase # "sent" /\ call' = None
    /\ CASE act = NoAct -> UNCHANGED <<report, peer, act>>
         [] act # NoAct /\ call.phase = "pending" ->
              act' = [act EXCEPT !.retry = 1] /\ UNCHANGED <<report, peer>>
         [] act # NoAct /\ call.phase = "changed" ->
              /\ act' = [Settled(call) EXCEPT !.retry = 0]
              /\ applySettings(call, call.since)
         [] act # NoAct /\ call.phase = "not_applicable" ->
              /\ act' = [act EXCEPT !.idle = -1, !.retry = 1]
              /\ UNCHANGED <<report, peer>>
    /\ UNCHANGED <<gw, streams, world, changes, faults>>

\* The inventory, and what it says of a running Runtime: Gitea's settings, or
\* those of before the last interaction if the answer took its time.
ObserveSettings ==
    /\ call = None /\ rt = "running"
    /\ \E gen \in {Dec(gitea.gen), gitea.gen} :
         LET s == [on |-> gitea.on, gen |-> gen]
         IN  act' = Settled(s) /\ applySettings(s, {})
    /\ UNCHANGED <<gw, streams, call, world, changes, faults>>

RetainSite ==
    /\ call = None /\ rt = "gone" /\ act # NoAct /\ act' = NoAct
    /\ UNCHANGED <<gw, streams, report, peer, call, world, changes, faults>>

(***************************************************************************)
(* Gitea and the user.                                                     *)
(***************************************************************************)
\* An open code is redeemed or an SSH key verified.
Interact ==
    /\ Change /\ rt = "running"
    /\ gitea' = [gitea EXCEPT !.gen = @ + 1] /\ unseen' = unseen \cup {gitea.gen + 1}
    /\ UNCHANGED <<gw, streams, tracker, rt, faults>>

AuthorizeGateway(gen) ==
    /\ unseen' = unseen \ {gen} /\ ObserveInteraction(gen)
    /\ UNCHANGED <<gw, streams, call, gitea, rt, changes, faults>>

SetPolicy ==
    /\ Change /\ gitea' = [gitea EXCEPT !.on = ~@]
    /\ UNCHANGED <<gw, streams, tracker, unseen, rt, faults>>

\* Stopped or resumed by an operation; deleted, or its site disabled.
Operate(to) ==
    /\ Change /\ rt # "gone" /\ rt # to /\ rt' = to
    /\ UNCHANGED <<gw, streams, tracker, gitea, unseen, faults>>

(***************************************************************************)
(* Run of the Gateway.                                                     *)
(***************************************************************************)
Begin ==
    /\ gw.serving /\ gw.route /\ gw.live = 0 /\ gw' = [gw EXCEPT !.live = 1]
    /\ UNCHANGED <<streams, tracker, world, changes, faults>>

End ==
    /\ gw.live > 0 /\ gw' = [gw EXCEPT !.live = 0]
    /\ UNCHANGED <<streams, tracker, world, changes, faults>>

\* A new stream, and the first report on it.  The handler of the last stream
\* may not have noticed that it is over.
Connect ==
    /\ gw.alive /\ ~gw.conn /\ (gw.serving => gw.permit > 0)
    /\ control = "none" \/ old = None
    /\ old' = IF control = "none" THEN old
              ELSE [report |-> uplink, first |-> control = "first"]
    /\ control' = "first" /\ uplink' = [live |-> gw.live > 0] /\ downlink' = None
    /\ gw' = [gw EXCEPT !.conn = TRUE, !.permit = IF gw.serving THEN @ ELSE TTL]
    /\ UNCHANGED <<tracker, world, changes, faults>>

\* The heartbeat, once per tick, or a change of the live sessions.
SendActivity ==
    /\ gw.conn /\ control # "none"
    /\ report # None => report.age > 0 \/ report.live # (gw.live > 0)
    /\ uplink = None /\ uplink' = [live |-> gw.live > 0]
    /\ UNCHANGED <<gw, downlink, control, old, tracker, world, changes, faults>>

\* A response renews the permit; a snapshot starts the listeners or replaces
\* the routes, and ends the sessions of a route that is gone.
ReceiveResponse ==
    /\ gw.conn /\ downlink # None /\ downlink' = None
    /\ gw' = [gw EXCEPT !.permit = TTL,
                !.serving = @ \/ downlink.snapshot,
                !.route = IF downlink.snapshot THEN downlink.route ELSE @,
                !.live = IF downlink.snapshot /\ ~downlink.route THEN 0 ELSE @]
    /\ UNCHANGED <<uplink, control, old, tracker, world, changes, faults>>

\* The permit timer: without a response the listeners and the stream end.
Lapsed == gw.permit = 0 /\ (gw.serving \/ gw.conn)

StopServing == [gw EXCEPT !.serving = FALSE, !.live = 0, !.route = FALSE,
                          !.conn = FALSE]

PermitLapses ==
    /\ Lapsed /\ gw' = StopServing
    /\ UNCHANGED <<streams, tracker, world, changes, faults>>

\* The stream fails on the side of the Gateway, at once or after the handler.
ControlStreamFails ==
    /\ gw.conn /\ ((control = "none" /\ UNCHANGED faults) \/ Fault)
    /\ gw' = [gw EXCEPT !.conn = FALSE]
    /\ UNCHANGED <<streams, tracker, world, changes>>

Dies ==
    /\ gw.alive /\ Fault /\ gw' = [Down EXCEPT !.alive = FALSE]
    /\ UNCHANGED <<streams, tracker, world, changes>>

(***************************************************************************)
(* GatewayControl.                                                         *)
(***************************************************************************)
\* replaceGatewayActivity refuses the sessions of a Runtime that this Gateway
\* no longer serves; the handler then ends.
Refused(r) == r.live /\ rt = "gone"

Snapshot == [snapshot |-> TRUE, route |-> rt = "running"]

\* The first response is a snapshot.
HandleReport ==
    /\ control # "none" /\ uplink # None /\ uplink' = None
    /\ IF Refused(uplink)
       THEN /\ control' = "none" /\ UNCHANGED <<downlink, call>>
            /\ IF control = "first" THEN UNCHANGED report ELSE Release
       ELSE /\ control' = "open" /\ ReplaceGateway(uplink.live)
            /\ downlink' = IF control = "first" THEN Snapshot ELSE downlink
    /\ UNCHANGED <<gw, old, peer, act, world, changes, faults>>

\* A change of Kubernetes objects wakes the handler, which sends a snapshot if
\* it differs; otherwise the ticker sends a permit, once per tick.  The permit is
\* renewed in the tracker when Send returns.
SendResponse ==
    /\ control = "open" /\ downlink = None
    /\ gw.permit < TTL \/ gw.route # (rt = "running")
    /\ downlink' = IF gw.route # (rt = "running") THEN Snapshot
                   ELSE [snapshot |-> FALSE, route |-> FALSE]
    /\ RenewGatewayPermit
    /\ UNCHANGED <<gw, uplink, control, old, peer, act, call, world, changes, faults>>

\* The handler ends: its peer is gone, an API call fails, its 45 minutes are over.
HandlerEnds ==
    /\ control # "none" /\ ((~gw.conn /\ UNCHANGED faults) \/ Fault)
    /\ control' = "none" /\ uplink' = None
    /\ IF control = "first" THEN UNCHANGED report ELSE Release
    /\ UNCHANGED <<gw, downlink, old, peer, act, call, world, changes>>

\* The handler of an earlier stream handles the report it has, or ends: it has
\* the same session id, so it writes to the same entry.
OldReport ==
    /\ old # None /\ old.report # None
    /\ IF Refused(old.report)
       THEN /\ old' = None /\ UNCHANGED call
            /\ IF old.first THEN UNCHANGED report ELSE Release
       ELSE old' = [report |-> None, first |-> FALSE] /\ ReplaceGateway(old.report.live)
    /\ UNCHANGED <<gw, uplink, downlink, control, peer, act, world, changes, faults>>

OldEnds ==
    /\ old # None /\ old' = None
    /\ IF old.first THEN UNCHANGED report ELSE Release
    /\ UNCHANGED <<gw, uplink, downlink, control, peer, act, call, world, changes, faults>>

PeerReports ==
    /\ ~peer /\ peer' = TRUE /\ Noted("peer")
    /\ UNCHANGED <<gw, streams, report, act, world, changes, faults>>

\* Another Manager becomes the leader and knows nothing.
NewLeader ==
    /\ Fault /\ control' = "none" /\ old' = None /\ uplink' = None
    /\ report' = None /\ peer' = FALSE /\ act' = NoAct /\ call' = None
    /\ unseen' = {}
    /\ UNCHANGED <<gw, downlink, gitea, rt, changes>>

(***************************************************************************)
(* Time.  Timers fire when they are due, heartbeats are sent, reports      *)
(* arrive within the tick and responses within the next.                   *)
(***************************************************************************)
Tick ==
    /\ ~Lapsed /\ uplink = None /\ (gw.conn => downlink = None)
    /\ gw.conn /\ control = "open" => report # None /\ report.age = 0 /\ gw.permit > 1
    /\ old # None => old.report = None
    /\ gw' = [gw EXCEPT !.permit = Dec(@),
                        !.live = IF @ = 0 THEN 0 ELSE Inc(@, Slack + 1)]
    /\ report' = IF report = None THEN None
                 ELSE [report EXCEPT !.age = Inc(@, TTL + 1), !.permit = Dec(@)]
    /\ act' = [act EXCEPT !.idle = IF @ < 0 THEN @ ELSE Inc(@, IdleTimeout),
                          !.retry = Dec(@)]
    /\ UNCHANGED <<streams, peer, call, world, changes, faults>>

Next ==
    \/ IdleRequest \/ IdleStopFailed \/ RequestIdleStop \/ IdleStopResult
    \/ ObserveSettings \/ RetainSite
    \/ Interact \/ (\E gen \in unseen : AuthorizeGateway(gen)) \/ SetPolicy
    \/ (\E to \in {"running", "stopped", "gone"} : Operate(to))
    \/ Begin \/ End \/ Connect \/ SendActivity \/ ReceiveResponse
    \/ PermitLapses \/ ControlStreamFails \/ Dies
    \/ HandleReport \/ SendResponse \/ HandlerEnds
    \/ OldReport \/ OldEnds \/ PeerReports \/ NewLeader \/ Tick

Spec == Init /\ [][Next]_vars

\* Time passes, the loop of the site comes round to both of its steps, calls
\* return, and the loops of the Gateway and of its handler go on.
FairSpec ==
    /\ Spec /\ SF_vars(Tick)
    /\ WF_vars(ObserveSettings) /\ WF_vars(IdleRequest)
    /\ WF_vars(RequestIdleStop \/ IdleStopResult)
    /\ WF_vars(\E gen \in unseen : AuthorizeGateway(gen))
    /\ WF_vars(Connect \/ SendActivity \/ PermitLapses
                 \/ (control = "none" /\ ControlStreamFails)) /\ WF_vars(ReceiveResponse)
    /\ WF_vars(HandleReport \/ (~gw.conn /\ HandlerEnds)) /\ WF_vars(SendResponse)
    /\ WF_vars(OldReport \/ OldEnds) /\ WF_vars(PeerReports)

-----------------------------------------------------------------------------
\* requestIdleStops: the Manager never asks for the stop of a Runtime while a
\* Gateway has been serving a session of it for longer than Slack, unless that
\* Gateway is itself about to stop because its permit runs out.
UsedIsNotStopped ==
    [][call = None /\ call' # None /\ gw.live > Slack => gw.permit = 0]_vars

\* requestIdleStops: a Runtime that nobody uses any more is stopped as long as
\* the policy asks for it, whatever happened to the streams before.
IdleIsStopped == ~<>[](rt = "running" /\ gitea.on /\ gw.live = 0)
=============================================================================
