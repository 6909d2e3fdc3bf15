---------------------------- MODULE GatewayProxy ----------------------------
(***************************************************************************)
(* Requests to one endpoint: how the Gateway reserves a place for them,    *)
(* has Gitea decide about them, leases the route, asks again while they    *)
(* are being proxied, and ends them.  Decisions are cached for a moment    *)
(* and concurrent questions with the same key share one call, whose leader *)
(* may leave; snapshots of the Manager replace the route meanwhile.        *)
(*                                                                         *)
(* A request without a state is a client that may still come.  Work that   *)
(* waits for nobody is done before the next tick.                          *)
(***************************************************************************)
EXTENDS Naturals, FiniteSets

CONSTANTS
    Requests, Ip,        \* clients, and the address each comes from
    MaxInflightTotal, ValidationMaxInflight,
    Limit,               \* per session, public endpoint and address
    AllowedTTL,          \* of the cache, in ticks
    RevalidateInterval,  \* StreamRevalidateInterval
    CallTime,            \* a call to the Manager returns within this time
    ProxyChanges         \* bound on the changes of the route and of Gitea's mind

VARIABLES
    reqs,       \* the handlers
    inflight,   \* accessController: totalInflight and the three maps
    calls,      \* validationCalls, by key
    cache,      \* gatewayAccessCache: the time a key is still allowed
    gitea,      \* whether Gitea allows a key, and for how long it has not
    route,      \* the entry of the endpoint in the route store
    dropped,    \* leases taken from an old entry, not cancelled yet
    changed

proxyVars == <<reqs, inflight, calls, cache, gitea, route, dropped, changed>>

\* A session of the browser, or anybody on a public endpoint.
Keys == {"session", "public"}
Slots(r, key) == IF key = "session" THEN {"session"} ELSE {"endpoint", Ip[r]}
AllSlots == {"session", "endpoint"} \cup {Ip[r] : r \in Requests}

ASSUME ProxyAssumption ==
    /\ IsFiniteSet(Requests) /\ Limit \in [AllSlots -> Nat]
    /\ {MaxInflightTotal, ValidationMaxInflight, AllowedTTL, RevalidateInterval, CallTime} \subseteq Nat

NoCall   == [none |-> TRUE]
NoRoute  == [id |-> 0, public |-> FALSE]
Handler(phase, key) == [phase |-> phase, key |-> key, lease |-> 0, cancelled |-> FALSE,
                        timer |-> 0, again |-> "no"]
Off      == Handler("off", "session")
Never    == RevalidateInterval + AllowedTTL + 2 * CallTime + 1

ProxyInit ==
    /\ reqs = [r \in Requests |-> Off]
    /\ inflight = [total |-> 0, by |-> [s \in AllSlots |-> 0], validations |-> 0]
    /\ calls = [k \in Keys |-> NoCall] /\ cache = [k \in Keys |-> 0]
    /\ gitea = [k \in Keys |-> [allowed |-> TRUE, denied |-> 0]]
    /\ route = [id |-> 1, public |-> TRUE] /\ dropped = {} /\ changed = 0

(***************************************************************************)
(* The access controller.                                                  *)
(***************************************************************************)
HasRoom(r, key) ==
    /\ inflight.total < MaxInflightTotal
    /\ \A s \in Slots(r, key) : inflight.by[s] < Limit[s]
Reserved(f, r, key) ==
    [f EXCEPT !.total = @ + 1,
              !.by = [s \in AllSlots |-> IF s \in Slots(r, key) THEN @[s] + 1 ELSE @[s]]]
Leaked(f, r, key) == [f EXCEPT !.total = @ - 1]
Release(f, r, key) ==
    [f EXCEPT !.total = @ - 1,
              !.by = [s \in AllSlots |-> IF s \in Slots(r, key) THEN @[s] - 1 ELSE @[s]]]

Call(cached) == [cached |-> cached, age |-> 0, answer |-> "none"]
Full == inflight.validations >= ValidationMaxInflight

\* Up to the answer: handleGatewayWorkspace, handleGatewayPublicEndpoint.  One
\* that is refused leaves nothing behind.
Arrive(r, key) ==
    /\ reqs[r].phase = "off" /\ route # NoRoute /\ (key = "public" => route.public)
    /\ HasRoom(r, key)
    /\ LET Enter(phase) == reqs' = [reqs EXCEPT ![r] = Handler(phase, key)]
       IN  \/ /\ cache[key] > 0 /\ Enter("allowed")
              /\ inflight' = Reserved(inflight, r, key) /\ UNCHANGED calls
           \/ /\ cache[key] = 0 /\ calls[key] # NoCall /\ Enter("follow")
              /\ inflight' = Reserved(inflight, r, key) /\ UNCHANGED calls
           \/ /\ cache[key] = 0 /\ calls[key] = NoCall /\ ~Full /\ Enter("lead")
              /\ inflight' = [Reserved(inflight, r, key) EXCEPT !.validations = @ + 1]
              /\ calls' = [calls EXCEPT ![key] = Call(TRUE)]
    /\ UNCHANGED <<cache, gitea, route, dropped, changed>>

\* Gitea, through the Manager (external).
Decide(key) ==
    /\ calls[key] # NoCall /\ calls[key].answer = "none"
    /\ calls' = [calls EXCEPT ![key].answer = IF gitea[key].allowed THEN "yes" ELSE "no"]
    /\ UNCHANGED <<reqs, inflight, cache, gitea, route, dropped, changed>>

\* finishValidation wakes the leader and all followers with one answer.
Answered(q, key, yes) ==
    IF q.key # key THEN q
    ELSE IF q.phase \in {"lead", "follow"}
         THEN [q EXCEPT !.phase = IF yes THEN "allowed" ELSE "over"]
    ELSE IF q.phase = "proxy" /\ q.again # "no"
         THEN [q EXCEPT !.again = "no", !.cancelled = @ \/ ~yes]
    ELSE q

Finish(key, yes) ==
    /\ reqs' = [r \in Requests |-> Answered(reqs[r], key, yes)]
    /\ calls' = [calls EXCEPT ![key] = NoCall]
    /\ inflight' = [inflight EXCEPT !.validations = @ - 1]

\* The leader of a request remembers a yes, that of a revalidation does not.
ReturnAnswer(key) ==
    /\ calls[key] # NoCall /\ calls[key].answer # "none"
    /\ Finish(key, calls[key].answer = "yes")
    /\ cache' = IF calls[key].cached /\ calls[key].answer = "yes"
                THEN [cache EXCEPT ![key] = AllowedTTL] ELSE cache
    /\ UNCHANGED <<gitea, route, dropped, changed>>

\* The call fails, with the Manager or because its leader has left.
Fail(key) ==
    /\ calls[key] # NoCall /\ Finish(key, FALSE)
    /\ UNCHANGED <<cache, gitea, route, dropped, changed>>

(***************************************************************************)
(* The route is leased and the request proxied, until it ends.             *)
(***************************************************************************)
BeginProxy(r) ==
    /\ reqs[r].phase = "allowed"
    /\ reqs' = [reqs EXCEPT ![r] =
                  IF route = NoRoute \/ (@.key = "public" /\ ~route.public)
                  THEN [@ EXCEPT !.phase = "over"]
                  ELSE [@ EXCEPT !.phase = "proxy", !.lease = route.id,
                                 !.timer = RevalidateInterval]]
    /\ UNCHANGED <<inflight, calls, cache, gitea, route, dropped, changed>>

NeverDue(r) == FALSE
Due(r) == reqs[r].phase = "proxy" /\ reqs[r].timer = 0

\* withGatewayProxyRevalidation: never from the cache.
Revalidate(r) ==
    LET key == reqs[r].key
        Set(again) == reqs' = [reqs EXCEPT ![r].again = again, ![r].timer = RevalidateInterval]
    IN  /\ Due(r)
        /\ \/ /\ reqs[r].again # "no" /\ Set(reqs[r].again) /\ UNCHANGED <<calls, inflight>>
           \/ /\ reqs[r].again = "no" /\ calls[key] # NoCall /\ Set("follow")
              /\ UNCHANGED <<calls, inflight>>
           \/ /\ reqs[r].again = "no" /\ calls[key] = NoCall /\ ~Full /\ Set("lead")
              /\ calls' = [calls EXCEPT ![key] = Call(FALSE)]
              /\ inflight' = [inflight EXCEPT !.validations = @ + 1]
           \/ /\ reqs[r].again = "no" /\ calls[key] = NoCall /\ Full
              /\ reqs' = [reqs EXCEPT ![r].cancelled = TRUE, ![r].timer = RevalidateInterval]
              /\ UNCHANGED <<calls, inflight>>
        /\ UNCHANGED <<cache, gitea, route, dropped, changed>>

\* The client leaves.
Leave(r) ==
    /\ reqs[r].phase \in {"follow", "allowed", "proxy"} /\ ~reqs[r].cancelled
    /\ reqs' = [reqs EXCEPT ![r] = IF @.phase = "proxy" THEN [@ EXCEPT !.cancelled = TRUE]
                                   ELSE [@ EXCEPT !.phase = "over"]]
    /\ UNCHANGED <<inflight, calls, cache, gitea, route, dropped, changed>>

\* The handler returns: an error, the end of the stream, or a context that is
\* over.  Its deferred calls release all it holds.  Its revalidation, if it
\* leads one, goes on without it until the call has returned.
End(r) ==
    /\ reqs[r].phase \in {"over", "proxy"}
    /\ reqs' = [reqs EXCEPT ![r] = Off]
    /\ inflight' = Release(inflight, r, reqs[r].key)
    /\ dropped' = dropped \ {r}
    /\ UNCHANGED <<calls, cache, gitea, route, changed>>

(***************************************************************************)
(* ReplaceSharedGatewayRuntimes, Put, Delete: the entry changes with the   *)
(* mutex held, the leases of the old one are cancelled after that.         *)
(***************************************************************************)
Change == changed < ProxyChanges /\ changed' = changed + 1

LeasesTaken == {r \in Requests : reqs[r].phase = "proxy" /\ reqs[r].lease = route.id}

Replace(public) ==
    /\ Change /\ route' = [id |-> changed + 2, public |-> public]
    /\ dropped' = dropped \cup LeasesTaken
    /\ UNCHANGED <<reqs, inflight, calls, cache, gitea>>

Delete ==
    /\ route # NoRoute /\ Change /\ route' = NoRoute
    /\ dropped' = dropped \cup LeasesTaken
    /\ UNCHANGED <<reqs, inflight, calls, cache, gitea>>

cancelGatewayRouteLeases ==
    /\ dropped # {} /\ dropped' = {}
    /\ reqs' = [r \in Requests |-> IF r \in dropped THEN [reqs[r] EXCEPT !.cancelled = TRUE]
                                   ELSE reqs[r]]
    /\ UNCHANGED <<inflight, calls, cache, gitea, route, changed>>

Decides(key) ==
    /\ Change /\ gitea' = [gitea EXCEPT ![key] = [allowed |-> ~@.allowed, denied |-> 0]]
    /\ UNCHANGED <<reqs, inflight, calls, cache, route, dropped>>

ProxyTick ==
    /\ dropped = {} /\ \A k \in Keys : calls[k] # NoCall => calls[k].age < CallTime
    /\ \A r \in Requests : /\ reqs[r].phase \notin {"allowed", "over"}
                           /\ ~reqs[r].cancelled /\ ~Due(r)
    /\ reqs' = [r \in Requests |-> [reqs[r] EXCEPT !.timer = IF @ = 0 THEN 0 ELSE @ - 1]]
    /\ calls' = [k \in Keys |-> IF calls[k] = NoCall THEN NoCall
                                ELSE [calls[k] EXCEPT !.age = @ + 1]]
    /\ cache' = [k \in Keys |-> IF cache[k] = 0 THEN 0 ELSE cache[k] - 1]
    /\ gitea' = [k \in Keys |-> IF gitea[k].allowed \/ gitea[k].denied = Never THEN gitea[k]
                                ELSE [gitea[k] EXCEPT !.denied = @ + 1]]
    /\ UNCHANGED <<inflight, route, dropped, changed>>

ProxyNext ==
    \/ \E r \in Requests : \/ \E k \in Keys : Arrive(r, k)
                           \/ BeginProxy(r) \/ Revalidate(r) \/ Leave(r) \/ End(r)
    \/ \E k \in Keys : Decide(k) \/ ReturnAnswer(k) \/ Fail(k) \/ Decides(k)
    \/ (\E public \in BOOLEAN : Replace(public)) \/ Delete \/ cancelGatewayRouteLeases
    \/ ProxyTick

ProxySpec == ProxyInit /\ [][ProxyNext]_proxyVars

-----------------------------------------------------------------------------
\* reservePublic, reserveSessionRequest, beginValidation and their releases:
\* however requests end, every count is what is really under way, and no limit
\* is exceeded.
ReservationsExact ==
    LET Busy(s) == {r \in Requests : reqs[r].phase # "off" /\ s \in Slots(r, reqs[r].key)}
    IN  /\ inflight.total = Cardinality({r \in Requests : reqs[r].phase # "off"})
        /\ inflight.total <= MaxInflightTotal
        /\ \A s \in AllSlots :
             inflight.by[s] = Cardinality(Busy(s)) /\ inflight.by[s] <= Limit[s]
        /\ inflight.validations = Cardinality({k \in Keys : calls[k] # NoCall})
        /\ inflight.validations <= ValidationMaxInflight

\* BeginProxy, takeCancels: a request goes on only while the entry it leased is
\* the route of its endpoint, otherwise it is cancelled or about to be; and
\* validateAccess, withGatewayProxyRevalidation: once Gitea denies a key, no
\* request with it is served after one validity of the cache, one interval and
\* two calls, whoever asked, shared or remembered the answers before.
RevokedIsCut ==
    \A r \in Requests : reqs[r].phase = "proxy" /\ ~reqs[r].cancelled =>
        /\ r \notin dropped =>
             reqs[r].lease = route.id /\ (reqs[r].key = "public" => route.public)
        /\ gitea[reqs[r].key].denied # Never
=============================================================================
