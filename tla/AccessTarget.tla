---------------------------- MODULE AccessTarget ----------------------------
(***************************************************************************)
(* The access target of one Runtime: the versioned list of endpoints the   *)
(* Agent serves, its way through the control reports into the Manager's    *)
(* record, and the tickets the Manager signs for it.  A target is the      *)
(* record [version, endpoints] where endpoints maps the identity of an     *)
(* endpoint to the container it is bridged to; version 0 is "no target".   *)
(*                                                                         *)
(* Operations are numbered as Gitea numbers them: the create is 1, a stop  *)
(* is even and a resume odd.  Every startup has a Pod of its own, so the   *)
(* number of the startup also names the Pod.                               *)
(***************************************************************************)
EXTENDS Naturals, FiniteSets

CONSTANTS
    Ids,              \* the identities of the endpoints a user may declare
    ForwardPorts,     \* devcontainer.json: records [id, service, ignored]
    MaxEndpointCount, \* runtimeendpoint.MaxEndpointCount
    Replicas,         \* the Manager processes
    Early,            \* endpoints may change while the startup publishes its target
    MaxChanges,       \* bound: calls of the endpoint service
    MaxLost,          \* bound: control exchanges the Agent gives up on
    LastOperation     \* bound: the last operation Gitea issues

VARIABLES
    operation,        \* cs.Spec.Operation.Version, 0 before the create
    recorded,         \* cs.Status.Target
    progress,         \* how far the startup of the Agent has come
    built,            \* what accessTarget returned to the startup
    target,           \* Runtime.target
    declared,         \* Runtime.endpoints, as saved in state/endpoints.pb
    reported,         \* ControlClient.report.Target
    noticed,          \* a token is in Runtime.targetChanged
    sent,             \* the reports under way; live: the Agent waits for the response
    seed,             \* the signing Secret: the replica that made its seed
    signer,           \* what each replica loaded from it
    verifier,         \* Runtime.verificationKey
    tickets,          \* the tickets that have not expired
    changes, lost     \* what is used up of the bounds

targetVars == <<operation, recorded, progress, built, target, declared, reported, noticed,
                sent, seed, signer, verifier, tickets, changes, lost>>

NoTarget == [version |-> 0, endpoints |-> [id \in {} |-> "primary"]]
Nobody == "nobody"
Startup(v) == v % 2 = 1

ASSUME ReplicaNames == Nobody \notin Replicas /\ "creating" \notin Replicas

TargetInit ==
    /\ operation = 0 /\ recorded = NoTarget
    /\ progress = "down" /\ built = NoTarget /\ target = NoTarget
    /\ declared = {} /\ reported = NoTarget /\ noticed = FALSE
    /\ sent = {}
    /\ seed = Nobody /\ signer = [m \in Replicas |-> Nobody] /\ verifier = Nobody
    /\ tickets = {} /\ changes = 0 /\ lost = 0

---------------------------------------------------------------------------
(* The signing key. *)

\* The Secret was not found: a seed of its own, unless another replica's is there by now.
LoadedSeed(m) == IF seed = Nobody THEN m ELSE seed

LookForKey(m) ==
    /\ signer[m] = Nobody
    /\ signer' = [signer EXCEPT ![m] = IF seed = Nobody THEN "creating" ELSE seed]
    /\ UNCHANGED <<operation, recorded, progress, built, target, declared, reported, noticed,
                   sent, seed, verifier, tickets, changes, lost>>

CreateSigningKey(m) ==
    /\ signer[m] = "creating"
    /\ signer' = [signer EXCEPT ![m] = LoadedSeed(m)]
    /\ seed' = IF seed = Nobody THEN m ELSE seed
    /\ UNCHANGED <<operation, recorded, progress, built, target, declared, reported, noticed,
                   sent, verifier, tickets, changes, lost>>

Signing == {m \in Replicas : signer[m] \in Replicas}

---------------------------------------------------------------------------
(* The endpoints and the target, in the Agent. *)

\* The defaults of the repository, without the ports it wants ignored.
ConfiguredEndpoints == {p.id : p \in {q \in ForwardPorts : ~q.ignored}}

\* The containers of the defaults; the ports of another service are bridged to its container.
ConfiguredContainers ==
    [id \in ConfiguredEndpoints |->
        IF \E p \in ForwardPorts : p.id = id /\ p.service THEN "service" ELSE "primary"]

\* The Web IDE of the workspace comes first, then what is declared; an endpoint whose
\* container is not known is bridged to the primary one.
accessTargetForContainer(version, ids, containers) ==
    [version |-> version,
     endpoints |-> [id \in ids \cup {"workspace"} |->
                       IF id \in DOMAIN containers THEN containers[id] ELSE "primary"]]

\* A Pod whose Agent has the operation begins it, with the key the Manager sent along.
Execute ==
    /\ progress = "down" /\ Startup(operation) /\ Signing # {}
    /\ progress' = "apply"
    /\ \E m \in Signing : verifier' = signer[m]
    /\ UNCHANGED <<operation, recorded, built, target, declared, reported, noticed,
                   sent, seed, signer, tickets, changes, lost>>

\* The environment is up.  A create replaces what is declared by the defaults; a resume
\* keeps what the volume has.
replaceConfiguredEndpoints ==
    /\ progress = "apply"
    /\ progress' = "configured"
    /\ declared' = IF operation = 1 THEN ConfiguredEndpoints ELSE declared
    /\ UNCHANGED <<operation, recorded, built, target, reported, noticed,
                   sent, seed, signer, verifier, tickets, changes, lost>>

accessTarget ==
    /\ progress = "configured"
    /\ progress' = "built"
    /\ built' = accessTargetForContainer(operation, declared, ConfiguredContainers)
    /\ UNCHANGED <<operation, recorded, target, declared, reported, noticed,
                   sent, seed, signer, verifier, tickets, changes, lost>>

\* The startup puts its target into the report, at PUBLISH_READY and again at READY.
Publish ==
    /\ \/ progress = "built" /\ progress' = "published"
       \/ progress = "set" /\ progress' = "ready"
    /\ reported' = built
    /\ UNCHANGED <<operation, recorded, built, target, declared, noticed,
                   sent, seed, signer, verifier, tickets, changes, lost>>

setAccessState ==
    /\ progress = "published"
    /\ progress' = "set"
    /\ target' = built
    /\ UNCHANGED <<operation, recorded, built, declared, reported, noticed,
                   sent, seed, signer, verifier, tickets, changes, lost>>

\* Up to MaxDeclaredEndpointCount, one less than the Manager accepts: the workspace is not
\* declared.
OneTooMany(ids) == Cardinality(ids) <= MaxEndpointCount

Declarable(ids) == Cardinality(ids) <= MaxEndpointCount - 1

\* Every change of a published target makes a new version, with the containers of the last
\* one, and leaves a token for the control client.
updateTargetEndpoints(ids) ==
    IF target = NoTarget
    THEN UNCHANGED <<target, noticed>>
    ELSE /\ target' = accessTargetForContainer(target.version + 1, ids, target.endpoints)
         /\ noticed' = TRUE

\* The endpoint service answers as long as the process is up.
ServesEndpoints ==
    /\ progress # "down" /\ changes < MaxChanges
    /\ Early \/ progress \in {"apply", "ready"}
    /\ changes' = changes + 1
    /\ UNCHANGED <<operation, recorded, progress, built, reported,
                   sent, seed, signer, verifier, tickets, lost>>

setEndpoint(id) ==
    /\ ServesEndpoints
    /\ Declarable(declared \cup {id})
    /\ declared' = declared \cup {id}
    /\ updateTargetEndpoints(declared \cup {id})

deleteEndpoint(id) ==
    /\ ServesEndpoints
    /\ id \in declared
    /\ declared' = declared \ {id}
    /\ updateTargetEndpoints(declared \ {id})

---------------------------------------------------------------------------
(* The control reports. *)

\* The control client takes the target there is now, if it is newer than the reported one.
TakesTarget == target # NoTarget /\ reported # NoTarget /\ target.version > reported.version

TargetChanged ==
    /\ noticed
    /\ noticed' = FALSE
    /\ reported' = IF TakesTarget THEN target ELSE reported
    /\ UNCHANGED <<operation, recorded, progress, built, target, declared,
                   sent, seed, signer, verifier, tickets, changes, lost>>

Awaited == {r \in sent : r.live}

GivenUp == {[operation |-> r.operation, target |-> r.target, live |-> FALSE] : r \in sent}

SendReport ==
    /\ progress # "down" /\ Startup(operation) /\ Awaited = {}
    /\ sent' = sent \cup {[operation |-> operation, target |-> reported, live |-> TRUE]}
    /\ UNCHANGED <<operation, recorded, progress, built, target, declared, reported, noticed,
                   seed, signer, verifier, tickets, changes, lost>>

\* After ten seconds the Agent gives up the stream; the Manager may still read the report.
GiveUpReport ==
    /\ Awaited # {} /\ lost < MaxLost
    /\ sent' = GivenUp /\ lost' = lost + 1
    /\ UNCHANGED <<operation, recorded, progress, built, target, declared, reported, noticed,
                   seed, signer, verifier, tickets, changes>>

\* What applyAgentReport refuses: the report of another operation, more endpoints than a
\* target may have, a version older than the recorded one or one with other content.
OfAnyOperation(r) == Startup(operation)

OfThisOperation(r) == r.operation = operation

Acceptable(r) ==
    /\ OfThisOperation(r) /\ Startup(operation)
    /\ Cardinality(DOMAIN r.target.endpoints) <= MaxEndpointCount
    /\ r.target.version >= recorded.version
    /\ r.target.version = recorded.version => r.target = recorded

\* The Manager reads a report, saves its target, and answers; a refusal ends the stream,
\* and the next one sends the report anew.
applyAgentReport(r) ==
    /\ r \in sent
    /\ sent' = sent \ {r}
    /\ recorded' = IF r.target # NoTarget /\ Acceptable(r) THEN r.target ELSE recorded
    /\ UNCHANGED <<operation, progress, built, target, declared, reported, noticed,
                   seed, signer, verifier, tickets, changes, lost>>

---------------------------------------------------------------------------
(* The operations of Gitea and the Pods, as far as the target sees them. *)

\* Gitea issues the create, a stop of what is ready, or the resume of what is stopped.
GiteaOperates ==
    /\ operation < LastOperation
    /\ Startup(operation) => progress = "ready"
    /\ (operation > 0 /\ ~Startup(operation)) => (progress = "down" /\ recorded = NoTarget)
    /\ operation' = operation + 1
    /\ UNCHANGED <<recorded, progress, built, target, declared, reported, noticed,
                   sent, seed, signer, verifier, tickets, changes, lost>>

\* The Pod of a stopped Runtime ends, and the Agent with it; its volume stays.
PodEnds ==
    /\ progress # "down" /\ ~Startup(operation)
    /\ progress' = "down" /\ built' = NoTarget /\ target' = NoTarget
    /\ reported' = NoTarget /\ noticed' = FALSE /\ verifier' = Nobody
    /\ sent' = GivenUp
    /\ UNCHANGED <<operation, recorded, declared, seed, signer, tickets, changes, lost>>

\* The reconciler confirms the stop: no Pod and no target are recorded any more.
StopConfirmed ==
    /\ ~Startup(operation) /\ progress = "down" /\ recorded # NoTarget
    /\ recorded' = NoTarget
    /\ UNCHANGED <<operation, progress, built, target, declared, reported, noticed,
                   sent, seed, signer, verifier, tickets, changes, lost>>

---------------------------------------------------------------------------
(* The tickets. *)

\* The Manager reads the record and the Pod live, and has no route to a Runtime that stops.
Routed == Startup(operation) /\ recorded # NoTarget /\ progress # "down"

\* A ticket for an endpoint of the record; "named" is where the record says it leads.
IssueAgentAccess(m, id) ==
    /\ m \in Signing /\ Routed
    /\ id \in DOMAIN recorded.endpoints
    /\ tickets = {}
    /\ tickets' = {[pod |-> operation, version |-> recorded.version, endpoint |-> id,
                    key |-> signer[m], named |-> recorded.endpoints[id]]}
    /\ UNCHANGED <<operation, recorded, progress, built, target, declared, reported, noticed,
                   sent, seed, signer, verifier, changes, lost>>

TicketExpires ==
    /\ tickets # {}
    /\ tickets' = {}
    /\ UNCHANGED <<operation, recorded, progress, built, target, declared, reported, noticed,
                   sent, seed, signer, verifier, changes, lost>>

\* The Agent's own reading of a ticket.
ThisPod(t) == t.pod = operation

Verified(t) == t.key = verifier

authorize(t) ==
    /\ target # NoTarget
    /\ Verified(t)
    /\ ThisPod(t) /\ t.version = target.version
    /\ t.endpoint \in DOMAIN target.endpoints

---------------------------------------------------------------------------
TargetNext ==
    \/ \E m \in Replicas : LookForKey(m) \/ CreateSigningKey(m)
    \/ Execute \/ replaceConfiguredEndpoints \/ accessTarget \/ Publish \/ setAccessState
    \/ \E id \in Ids : setEndpoint(id) \/ deleteEndpoint(id)
    \/ TargetChanged \/ SendReport \/ GiveUpReport
    \/ \E r \in sent : applyAgentReport(r)
    \/ GiteaOperates \/ PodEnds \/ StopConfirmed
    \/ \E m \in Replicas, id \in Ids \cup {"workspace"} : IssueAgentAccess(m, id)
    \/ TicketExpires

\* The startup, the control loop and the handlers of the Manager run on.
TargetFairness ==
    /\ WF_targetVars(replaceConfiguredEndpoints \/ accessTarget \/ Publish \/ setAccessState)
    /\ WF_targetVars(TargetChanged)
    /\ WF_targetVars(SendReport)
    /\ WF_targetVars(\E r \in Awaited : applyAgentReport(r))

TargetSpec == TargetInit /\ [][TargetNext]_targetVars /\ TargetFairness

---------------------------------------------------------------------------
(* Properties. *)

\* A ticket that any replica of the Manager signed is verified by the key the Agent got
\* from one of them (LoadAccessTickets), and a ticket the Agent accepts leads to the
\* container the Manager's record named when it was signed, though endpoints were changed,
\* reports delayed or the Pod replaced in between (IssueAgentAccess, authorize).
TicketLeadsWhereNamed ==
    \A t \in tickets :
        /\ verifier # Nobody => Verified(t)
        /\ authorize(t) => target.endpoints[t.endpoint] = t.named

\* As long as the Runtime is ready, the Manager lists again and again exactly the endpoints
\* that are declared, in the version the Agent serves: what is declared with
\* gitea-codespace-endpoint appears (setEndpoint, TargetChanges, applyAgentReport).
EndpointsAppear ==
    []<>((Startup(operation) /\ progress = "ready") =>
             /\ DOMAIN recorded.endpoints = declared \cup {"workspace"}
             /\ recorded = target)

\* What README.md says of an endpoint that is exposed from inside the Dev Container: it
\* appears under the ports of the Runtime once that is ready (setEndpoint, Runtime.create).
ExposedAppears ==
    \A id \in Ids :
        []<>((Startup(operation) /\ progress = "ready" /\ id \in declared)
                => id \in DOMAIN recorded.endpoints)
=============================================================================
