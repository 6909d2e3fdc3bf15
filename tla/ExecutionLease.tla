--------------------------- MODULE ExecutionLease ---------------------------
(***************************************************************************)
(* Authority to execute one Codespace's operation, as it is handed down:   *)
(*                                                                         *)
(*   Gitea    grants a lease on an operation version for a duration        *)
(*            (external: the FetchOperations reply);                       *)
(*   Manager  turns it into a deadline counted from the time it SENT the   *)
(*            request (ExecutionAuthority, SiteCoordinator.runSite);       *)
(*   Agent    turns the time that remains of it into a deadline counted    *)
(*            from the time IT sent its control request (Permit), and a    *)
(*            timer cancels the execution at that deadline.                *)
(*                                                                         *)
(* Replies may be late or lost, sessions break, the Manager leader is      *)
(* replaced, operations are superseded and closed, the Agent restarts.     *)
(* Clocks advance at the same rate; a due timer runs before time advances. *)
(***************************************************************************)
EXTENDS Integers

CONSTANTS
    LastVersion,  \* bound: operation versions are 1 .. LastVersion
    Leases,       \* durations Gitea may grant
    MaxTime       \* bound on the clock

ASSUME LeaseConstants ==
    /\ LastVersion \in Nat /\ MaxTime \in Nat
    /\ \A l \in Leases : l \in Nat /\ l > 0

Versions == 1 .. LastVersion

VARIABLES
    now,
    current,      \* Gitea: version of the current operation, 0 before the first
    until,        \* Gitea: until when each version's lease was promised
    fetch,        \* Manager: the outstanding FetchOperations call
    spec,         \* Codespace.Spec.Operation.Version
    status,       \* "open"; "result": has a result; "closed": settled,
                  \* aborting or in recovery
    authority,    \* ExecutionAuthority of the leader: version and deadline
    session,      \* Agent's control stream: "none", "live", or "stale" when
                  \* the leader that serves it has been replaced
    request,      \* Agent: the outstanding request's version and send time
    handling,     \* Manager: the version Control read for that request, or 0
    reply,        \* the reply on its way to the Agent
    permit,       \* Agent: Permit.version, Permit.sent, Permit.deadline
    report,       \* Agent: report.OperationRversion
    accepted,     \* Agent: acceptedOperation.OperationRversion
    lastStarted,  \* Agent: the version this process started last
    run,          \* Agent: version being executed, 0 if none
    cancelled,    \* Agent: its context is cancelled
    timer,        \* Agent: when executionTimer fires, 0 if it is not set
    granted       \* Agent: deadline accepted but not yet put into the timer

gitea   == <<current, until>>
manager == <<fetch, spec, status, authority>>
control == <<session, request, handling, reply>>
intent  == <<report, accepted, lastStarted>>
agent   == <<permit, intent, run, cancelled, timer, granted>>
vars    == <<now, gitea, manager, control, agent>>

NoFetch   == [phase |-> "none", sent |-> 0, open |-> 0, version |-> 0, lease |-> 0]
NoLease   == [version |-> 0, deadline |-> 0]
NoRequest == [sent |-> -1, version |-> 0]
NoReply   == [kind |-> "none", version |-> 0, valid |-> 0]
NoPermit  == [version |-> 0, sent |-> -1, deadline |-> 0]

Zero       == 0 .. LastVersion   \* a version, or 0 for none
Times      == 0 .. MaxTime
Fetches    == [phase : {"none", "asked", "answered"}, sent : Times,
               open : Zero, version : Zero, lease : Leases \cup {0}]
LeasesHeld == [version : Zero, deadline : Nat]
Requests   == [sent : Times \cup {-1}, version : Zero]
Replies    == {r \in [kind : {"none", "cancel", "offer", "permit"},
                      version : Zero, valid : Nat] :
                 r.kind = "permit" => r.version > 0 /\ r.valid > 0}
PermitsHeld == [version : Zero, sent : Times \cup {-1}, deadline : Nat]

\* Every variable has its type; above all, Control never sends a permission
\* that is already spent (Replies).
TypeOK ==
    /\ now \in Times
    /\ current \in Zero /\ spec \in Zero
    /\ until \in [Versions -> Nat]
    /\ fetch \in Fetches
    /\ status \in {"open", "result", "closed"} /\ cancelled \in BOOLEAN
    /\ session \in {"none", "live", "stale"}
    /\ authority \in LeasesHeld
    /\ request \in Requests
    /\ handling \in Zero
    /\ reply \in Replies
    /\ permit \in PermitsHeld
    /\ report \in Zero /\ accepted \in Zero
    /\ lastStarted \in Zero /\ run \in Zero
    /\ timer \in Nat /\ granted \in Nat

Init ==
    /\ now = 0 /\ current = 0 /\ until = [v \in Versions |-> 0]
    /\ fetch = NoFetch /\ spec = 0 /\ status = "open" /\ authority = NoLease
    /\ session = "none" /\ request = NoRequest /\ handling = 0
    /\ reply = NoReply /\ permit = NoPermit
    /\ report = 0 /\ accepted = 0 /\ lastStarted = 0
    /\ run = 0 /\ cancelled = FALSE /\ timer = 0 /\ granted = 0

(***************************************************************************)
(* Time.  No step of the Agent's loop between Accept and Reset takes time, *)
(* and executionTimer runs when it is due.                                 *)
(***************************************************************************)
TimerDue == run > 0 /\ timer > 0 /\ now >= timer

Tick ==
    /\ now < MaxTime /\ granted = 0 /\ ~TimerDue
    /\ now' = now + 1
    /\ UNCHANGED <<gitea, manager, control, agent>>

(***************************************************************************)
(* Gitea (external).                                                       *)
(***************************************************************************)
IssueOperation ==
    /\ current < LastVersion
    /\ current' = current + 1
    /\ UNCHANGED <<now, until, manager, control, agent>>

Later(a, b) == IF a > b THEN a ELSE b

AnswerFetch(l) ==
    /\ fetch.phase = "asked" /\ current > 0
    /\ until' = [until EXCEPT ![current] = Later(@, now + l)]
    /\ fetch' = [phase |-> "answered", sent |-> fetch.sent, open |-> fetch.open,
                 version |-> current, lease |-> l]
    /\ UNCHANGED <<now, current, spec, status, authority, control, agent>>

(***************************************************************************)
(* ExecutionAuthority.                                                     *)
(***************************************************************************)
Grant(v, deadline) ==
    authority' = IF authority.version > v THEN authority
                 ELSE [version |-> v, deadline |-> deadline]

Remaining(v) ==
    IF authority.version = v /\ now < authority.deadline
    THEN authority.deadline - now ELSE 0

(***************************************************************************)
(* SiteCoordinator.runSite: one FetchOperations call at a time.  `open` is *)
(* the version that the row listed before the call shows as bound,         *)
(* unsettled and not in recovery: renewals are matched against that row.   *)
(***************************************************************************)
SendFetch ==
    /\ fetch.phase = "none"
    /\ fetch' = [phase |-> "asked", sent |-> now, version |-> 0, lease |-> 0,
                 open |-> IF status = "closed" THEN 0 ELSE spec]
    /\ UNCHANGED <<now, gitea, spec, status, authority, control, agent>>

FetchFails ==
    /\ fetch.phase # "none" /\ fetch' = NoFetch
    /\ UNCHANGED <<now, gitea, spec, status, authority, control, agent>>

LeaseDeadline == fetch.sent + fetch.lease

\* A renewed lease: granted on the strength of the row read before the call.
Renew ==
    /\ fetch.phase = "answered" /\ fetch.version = fetch.open
    /\ Grant(fetch.version, LeaseDeadline)
    /\ fetch' = NoFetch
    /\ UNCHANGED <<now, gitea, spec, status, control, agent>>

\* Operations.Accept of a newer version: revoke, persist, bind, then grant.
\* It may fail before the operation is persisted, or after it.
AcceptNew ==
    /\ fetch.phase = "answered" /\ fetch.version > spec
    /\ \/ authority' = NoLease /\ UNCHANGED <<spec, status>>
       \/ /\ spec' = fetch.version /\ status' = "open"
          /\ \/ authority' = NoLease
             \/ authority' = [version |-> spec', deadline |-> LeaseDeadline]
    /\ fetch' = NoFetch
    /\ UNCHANGED <<now, gitea, control, agent>>

\* Operations.Accept of the persisted version, or of an older one (rejected).
AcceptSame ==
    /\ fetch.phase = "answered" /\ fetch.version <= spec
    /\ \/ status = "closed" /\ authority' \in {authority, NoLease}
       \/ status # "closed" /\ fetch.version = spec /\ Grant(spec, LeaseDeadline)
       \/ fetch.version < spec /\ authority' = authority
    /\ fetch' = NoFetch
    /\ UNCHANGED <<now, gitea, spec, status, control, agent>>

\* The operation gets a result, is settled, aborted or put into recovery; the
\* authority is revoked by a separate step (Flush, inventory, the reconciler).
Close ==
    /\ spec > 0
    /\ \/ status = "open" /\ status' = "result"
       \/ status # "closed" /\ status' = "closed"
    /\ UNCHANGED <<now, gitea, fetch, spec, authority, control, agent>>

Revoke ==
    /\ status # "open" /\ authority # NoLease /\ authority' = NoLease
    /\ UNCHANGED <<now, gitea, fetch, spec, status, control, agent>>

Hangup == /\ session' = "none" /\ request' = NoRequest
          /\ handling' = 0 /\ reply' = NoReply

\* The leader is replaced: authority is rebuilt from Gitea's replies only.
\* A reply that the old leader already sent may still arrive.
NewLeader ==
    /\ authority # NoLease \/ fetch # NoFetch \/ session = "live"
    /\ authority' = NoLease /\ fetch' = NoFetch
    /\ IF reply = NoReply THEN Hangup
       ELSE session' = "stale" /\ UNCHANGED <<request, handling, reply>>
    /\ UNCHANGED <<now, gitea, spec, status, agent>>

(***************************************************************************)
(* AgentControlServer.Control: the Codespace is read first, and what       *)
(* remains of the lease is taken again when the reply is sent, after a     *)
(* call to Gitea for the access bundle.                                    *)
(***************************************************************************)
Answer(kind, v, valid) == reply' = [kind |-> kind, version |-> v, valid |-> valid]

ControlRead ==
    /\ request # NoRequest /\ handling = 0 /\ reply = NoReply
    /\ spec > 0 /\ request.version <= spec
    /\ \/ /\ status # "open" \/ Remaining(spec) = 0
          /\ Answer("cancel", spec, 0) /\ UNCHANGED handling
       \/ /\ status = "open" /\ Remaining(spec) > 0
          /\ handling' = spec /\ UNCHANGED reply
    /\ UNCHANGED <<now, gitea, manager, session, request, agent>>

Permits(v) == Remaining(v) > 0

\* "offer": the operation and its options but no permission, because the Agent
\* has not reported its key or the lease ran out since the read.
ControlSend ==
    /\ handling > 0
    /\ \/ Answer("offer", handling, 0)
       \/ Permits(handling) /\ Answer("permit", handling, Remaining(handling))
    /\ handling' = 0
    /\ UNCHANGED <<now, gitea, manager, session, request, agent>>

(***************************************************************************)
(* Permit and ControlClient.Run.                                           *)
(***************************************************************************)
Break ==
    /\ session # "none" /\ granted = 0 /\ Hangup
    /\ UNCHANGED <<now, gitea, manager, agent>>

Reconnect ==
    /\ session = "none" /\ session' = "live" /\ permit' = NoPermit
    /\ UNCHANGED <<now, gitea, manager, request, handling, reply, intent, run,
                   cancelled, timer, granted>>

Request ==
    /\ session = "live" /\ request = NoRequest /\ granted = 0
    /\ request' = [sent |-> now, version |-> report]
    /\ permit' = [version |-> report, sent |-> now,
                  deadline |-> IF permit.version = report
                               THEN permit.deadline ELSE 0]
    /\ UNCHANGED <<now, gitea, manager, session, handling, reply, intent, run,
                   cancelled, timer, granted>>

\* acceptedOperation once the reply is in: a reply that cancels carries none.
Operation == IF reply.kind = "cancel" THEN accepted ELSE reply.version
Cancel    == cancelled' = (run > 0 \/ cancelled)

MayAdopt == run = 0

\* The operation is of another version than the report: cancel what runs, or
\* adopt it; then reconnect.
AdoptVersion ==
    /\ reply # NoReply /\ Operation \notin {0, report}
    /\ accepted' = Operation
    /\ Hangup
    /\ IF MayAdopt THEN report' = Operation /\ UNCHANGED cancelled
                   ELSE Cancel /\ UNCHANGED report
    /\ UNCHANGED <<now, gitea, manager, permit, lastStarted, run, timer, granted>>

DeadlineFromReply == now + reply.valid
PermitDeadline == permit.sent + reply.valid

\* Permit.Accept fails: no permission, or one that ran out on the way.
AcceptRefused ==
    /\ reply # NoReply /\ Operation \in {0, report}
    /\ accepted' = Operation
    /\ \/ reply.kind # "permit" /\ permit' = [permit EXCEPT !.deadline = 0]
       \/ reply.kind = "permit" /\ now >= PermitDeadline /\ permit' = permit
    /\ Cancel
    /\ request' = NoRequest /\ reply' = NoReply
    /\ UNCHANGED <<now, gitea, manager, session, handling, report, lastStarted,
                   run, timer, granted>>

\* Permit.Accept succeeds; an operation this process has not started may be
\* started (it is not when its result is known or its access is missing).
Accept ==
    /\ reply.kind = "permit" /\ Operation = report /\ now < PermitDeadline
    /\ accepted' = Operation
    /\ permit' = [version |-> reply.version, sent |-> permit.sent,
                  deadline |-> PermitDeadline]
    /\ \/ UNCHANGED <<run, lastStarted>>
       \/ /\ run = 0 /\ report # lastStarted
          /\ run' = report /\ lastStarted' = report
    /\ granted' = IF run' > 0 THEN PermitDeadline ELSE 0
    /\ request' = NoRequest /\ reply' = NoReply
    /\ UNCHANGED <<now, gitea, manager, session, handling, report, cancelled,
                   timer>>

\* The end of the same iteration: executionTimer is created or reset.
Reset == granted

SetTimer ==
    /\ granted > 0 /\ timer' = Reset /\ granted' = 0
    /\ UNCHANGED <<now, gitea, manager, control, permit, intent, run, cancelled>>

Valid(v) == v > 0 /\ v = permit.version /\ now < permit.deadline

TimerFires ==
    /\ TimerDue
    /\ timer' = 0
    /\ cancelled' = (cancelled \/ ~Valid(run))
    /\ UNCHANGED <<now, gitea, manager, control, permit, intent, run, granted>>

\* The execution returns, even if cancelled, with something else than the
\* cancellation error: the process goes on.
Finish ==
    /\ run > 0 /\ granted = 0
    /\ run' = 0 /\ timer' = 0 /\ cancelled' = FALSE
    /\ UNCHANGED <<now, gitea, manager, control, permit, intent, granted>>

\* The process ends, as it does when an execution reports its cancellation;
\* the next one starts from the report on the volume.
Restart ==
    /\ session # "none" \/ run > 0
    /\ Hangup
    /\ permit' = NoPermit /\ run' = 0 /\ cancelled' = FALSE
    /\ timer' = 0 /\ granted' = 0 /\ accepted' = 0 /\ lastStarted' = 0
    /\ report' \in {0, report}
    /\ UNCHANGED <<now, gitea, manager>>

Next ==
    \/ Tick
    \/ IssueOperation \/ \E l \in Leases : AnswerFetch(l)
    \/ SendFetch \/ FetchFails \/ Renew \/ AcceptNew \/ AcceptSame
    \/ Close \/ Revoke \/ NewLeader
    \/ ControlRead \/ ControlSend
    \/ Break \/ Reconnect \/ Request
    \/ AdoptVersion \/ AcceptRefused \/ Accept \/ SetTimer
    \/ TimerFires \/ Finish \/ Restart

Spec == Init /\ [][Next]_vars

-----------------------------------------------------------------------------
(***************************************************************************)
(* Properties                                                              *)
(***************************************************************************)

\* Executing is true while the code of an operation may still have effects.
Executing == run > 0 /\ ~cancelled

\* Permit, ExecutionAuthority: an operation is never executed beyond the lease
\* Gitea promised for its version, whatever was late, lost or replaced.
RunsUnderLease == Executing => now <= until[run]

\* FetchOperations reply, ExecutionAuthority, ControlResponse, Permit: the
\* deadline each holder counts on is covered by Gitea's promise for the version
\* it holds it for.
ChainCovered ==
    /\ fetch.phase = "answered" =>
         fetch.version > 0 /\ fetch.sent + fetch.lease <= until[fetch.version]
    /\ authority.version > 0 => authority.deadline <= until[authority.version]
    /\ reply.kind = "permit" =>
         /\ reply.version > 0
         /\ request # NoRequest
         /\ request.sent + reply.valid <= until[reply.version]
    /\ permit.version > 0 => permit.deadline <= until[permit.version]
    /\ permit.version = 0 => permit.deadline = 0

\* ControlClient.Run: an execution always has a timer set (or is about to get
\* one) at or before the end of the lease.
TimerCovers ==
    Executing => \/ granted > 0 /\ granted <= until[run]
                 \/ timer > 0 /\ timer <= until[run] /\ now <= timer

\* Operations.Accept, Control: the Agent never gets ahead of the persisted
\* operation, nor the Manager ahead of Gitea (Control refuses such a report).
NeverAhead == report <= spec /\ spec <= current /\ run \in {0, report}
=============================================================================
