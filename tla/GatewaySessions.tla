--------------------------- MODULE GatewaySessions ---------------------------
(***************************************************************************)
(* The session registry of the Gateway.  A browser session is known by     *)
(* tickets the browser carries; each replica of the Gateway keeps the      *)
(* sessions it has seen, counts them and SSH connections against limits,   *)
(* and counts live connections for the activity report.  Requests are      *)
(* authenticated first and begin as connections later; sessions end by     *)
(* time, by replacement and with their endpoint, at any moment in between. *)
(*                                                                         *)
(* Each operation holds the registry's mutex, so it is one step.  Of all   *)
(* tickets of a session only the one that is valid longest matters: they   *)
(* differ in nothing but their idle deadline.                              *)
(***************************************************************************)
EXTENDS Naturals, FiniteSets, Functions

CONSTANTS
    Replicas,          \* Gateway processes with the same session key
    Bindings,          \* users (with their site), codespaces and endpoints
    TTL, Idle,         \* config.Sessions
    Connect,           \* gatewaySessionConnectTimeout
    MaxPerCodespace, MaxPerUser,
    MaxIds,            \* bound on the sessions opened
    MaxLive,           \* bound on the connections begun by a process
    MaxTime,           \* bound on the clock
    MaxRestarts        \* bound on restarts

ASSUME GatewaySessionConstants ==
    /\ \A n \in {TTL, Idle, Connect, MaxPerCodespace, MaxPerUser} : n \in Nat \ {0}
    /\ \A n \in {MaxIds, MaxLive, MaxTime, MaxRestarts} : n \in Nat
    /\ \A b \in Bindings : DOMAIN b = {"user", "cs", "ep"}

Users      == {b.user : b \in Bindings}
Codespaces == {b.cs : b \in Bindings}
Ids        == 1 .. MaxIds

VARIABLES
    now,
    reg,       \* the sessionRegistry of each replica
    tickets,   \* the tickets issued so far, by session
    pending,   \* requests between AuthenticateAny and BeginSessionCancelable
    born,      \* history: when a session was opened
    used,      \* history: when it was last used; 0 if it was not
    restarts

vars == <<now, reg, tickets, pending, born, used, restarts>>

\* A process that starts.  conns are the connections whose handlers have not
\* returned; cancelled those of them whose context has been cancelled.
NewRegistry ==
    [sessions |-> << >>, entries |-> << >>, live |-> [c \in Codespaces |-> 0],
     byCs |-> [c \in Codespaces |-> 0], byUser |-> [u \in Users |-> 0],
     nextLive |-> 0, conns |-> {}, cancelled |-> {}]

Init ==
    /\ now = 1 /\ reg = [r \in Replicas |-> NewRegistry]
    /\ tickets = << >> /\ born = << >> /\ used = << >>
    /\ pending = [r \in Replicas |-> {}] /\ restarts = 0

(***************************************************************************)
(* The helpers that run with the mutex held, on a registry g.              *)
(***************************************************************************)
With(f, x, v) == [y \in DOMAIN f \cup {x} |-> IF y = x THEN v ELSE f[y]]
Least(a, b)   == IF a <= b THEN a ELSE b

CanAdd(g, user, cs) ==
    g.byCs[cs] < MaxPerCodespace /\ g.byUser[user] < MaxPerUser

IncrementCount(g, user, cs) ==
    [g EXCEPT !.byCs[cs] = @ + 1, !.byUser[user] = @ + 1]

Less(n, k) == IF n <= k THEN 0 ELSE n - k
DecrementCount(g, user, cs) ==
    [g EXCEPT !.byCs[cs] = Less(@, 1), !.byUser[user] = Less(@, 1)]

\* deleteGatewaySessionLocked for each of ids that is a session of g.
DeleteSessions(g, ids) ==
    LET gone == ids \cap DOMAIN g.sessions IN
    [g EXCEPT !.sessions = Restrict(@, DOMAIN @ \ gone),
              !.byCs = [c \in Codespaces |->
                          Less(@[c], Cardinality({id \in gone : g.sessions[id].b.cs = c}))],
              !.byUser = [u \in Users |->
                            Less(@[u], Cardinality({id \in gone : g.sessions[id].b.user = u}))]]

\* The connections of those sessions; SSH connections have none.
LiveOf(g, ids) ==
    {l \in DOMAIN g.entries :
       /\ g.entries[l].session \in ids \cap DOMAIN g.sessions
       /\ g.entries[l].cs = g.sessions[g.entries[l].session].b.cs}

\* The entries ls are removed and cancelled.
DeleteLive(g, ls) ==
    [g EXCEPT !.entries = Restrict(@, DOMAIN @ \ ls),
              !.live = [c \in Codespaces |->
                          Less(@[c], Cardinality({l \in ls : g.entries[l].cs = c}))],
              !.cancelled = @ \cup ls]

DeleteSessionsAndLive(g, ids) ==
    IF ids \cap DOMAIN g.sessions = {} THEN g
    ELSE DeleteLive(DeleteSessions(g, ids), LiveOf(g, ids))

Expired(s) ==
    \/ ~s.established /\ now > s.created + Connect
    \/ now > s.expires
    \/ s.established /\ now > s.lastActive + Idle

DropExpired(g) ==
    DeleteSessionsAndLive(g, {id \in DOMAIN g.sessions : Expired(g.sessions[id])})

\* A session is stored under its id.
SetSession(g, id, s) == [g EXCEPT !.sessions = With(@, id, s)]

(***************************************************************************)
(* Tickets.                                                                *)
(***************************************************************************)
\* issueTicket for session s, now.
UntilExpiry(s) ==
    [b |-> s.b, issued |-> s.created, expires |-> s.expires, idle |-> s.expires]
IssueTicket(s) ==
    [b |-> s.b, issued |-> s.created, expires |-> s.expires,
     idle |-> LET end == Least(s.expires, now + Idle)
              IN  IF s.established THEN end ELSE Least(end, now + Connect)]

Opens(id) ==
    /\ tickets[id].expires > tickets[id].issued /\ tickets[id].idle > tickets[id].issued
    /\ now <= tickets[id].expires /\ now <= tickets[id].idle

(***************************************************************************)
(* Opening a codespace: handleGatewayOpen with the tickets ids of the      *)
(* request that fit the binding.                                           *)
(***************************************************************************)
Candidates(b) == {id \in DOMAIN tickets : tickets[id].b = b /\ Opens(id)}

CreateReplacingAny(r, b, ids) ==
    LET dropped == DropExpired(reg[r])
        g  == DeleteSessionsAndLive(dropped, ids)   \* has to have room
        s  == [b |-> b, created |-> now, lastActive |-> now, established |-> FALSE,
               expires |-> now + TTL]
        id == Cardinality(DOMAIN tickets) + 1
    IN  /\ \/ /\ Cardinality(ids) > 1   \* ambiguous
              /\ reg' = [reg EXCEPT ![r] = dropped]
              /\ UNCHANGED <<tickets, born, used>>
           \/ /\ Cardinality(ids) <= 1 /\ ~CanAdd(g, b.user, b.cs)
              /\ reg' = [reg EXCEPT ![r] = g]
              /\ UNCHANGED <<tickets, born, used>>
           \/ /\ Cardinality(ids) <= 1 /\ CanAdd(g, b.user, b.cs) /\ id \in Ids
              /\ reg' = [reg EXCEPT ![r] =
                           SetSession(IncrementCount(g, b.user, b.cs), id, s)]
              /\ tickets' = With(tickets, id, IssueTicket(s))
              /\ born' = With(born, id, now) /\ used' = With(used, id, 0)
        /\ UNCHANGED <<now, pending, restarts>>

(***************************************************************************)
(* A request with a ticket of session id: handleGatewayWorkspace up to its *)
(* validation.  A session this process does not know is taken from the     *)
(* ticket.  Requests whose tickets are of two sessions change nothing.     *)
(***************************************************************************)
AuthenticateAny(r, id) ==
    LET g == DropExpired(reg[r])
        t == tickets[id]
        known == id \in DOMAIN g.sessions
        s == [IF known THEN g.sessions[id]
              ELSE [b |-> t.b, created |-> t.issued, expires |-> t.expires,
                    established |-> TRUE, lastActive |-> now]
              EXCEPT !.established = TRUE, !.lastActive = now]
    IN  /\ Opens(id)
        /\ \/ /\ ~known /\ ~CanAdd(g, t.b.user, t.b.cs)
              /\ reg' = [reg EXCEPT ![r] = g]
              /\ UNCHANGED <<tickets, pending, used>>
           \/ /\ known \/ CanAdd(g, t.b.user, t.b.cs)
              /\ reg' = [reg EXCEPT ![r] =
                           SetSession(IF known THEN g ELSE IncrementCount(g, t.b.user, t.b.cs),
                                      id, s)]
              /\ tickets' = [tickets EXCEPT ![id] = IssueTicket(s)]
              /\ pending' = [pending EXCEPT ![r] = @ \cup {[session |-> id, cs |-> t.b.cs]}]
              /\ used' = [used EXCEPT ![id] = now]
        /\ UNCHANGED <<now, born, restarts>>

\* The route is gone, a limit is reached or Gitea says no.
Refused(r, p) ==
    /\ pending' = [pending EXCEPT ![r] = @ \ {p}]
    /\ UNCHANGED <<now, reg, tickets, born, used, restarts>>

(***************************************************************************)
(* Connections: beginLive, and the function it returns.                    *)
(***************************************************************************)
Begin(g, entry) ==
    LET l == g.nextLive + 1 IN
    [g EXCEPT !.nextLive = l, !.live[entry.cs] = @ + 1,
              !.entries = With(@, l, entry), !.conns = @ \cup {l}]

BeginSession(r, p) ==
    /\ reg[r].nextLive < MaxLive
    /\ reg' = [reg EXCEPT ![r] =
                 Begin(@, [session |-> p.session, cs |-> p.cs, user |-> 0])]
    /\ pending' = [pending EXCEPT ![r] = @ \ {p}]
    /\ UNCHANGED <<now, tickets, born, used, restarts>>

BeginSSHSession(r, user, cs) ==
    LET g == DropExpired(reg[r]) IN
    /\ reg[r].nextLive < MaxLive
    /\ reg' = [reg EXCEPT ![r] =
                 IF CanAdd(g, user, cs)
                 THEN Begin(IncrementCount(g, user, cs),
                            [session |-> 0, cs |-> cs, user |-> user])
                 ELSE g]
    /\ UNCHANGED <<now, tickets, pending, born, used, restarts>>

\* The release of a connection whose entry is still there.
ReleaseSession(g, l) ==
    LET e == g.entries[l] IN
    [g EXCEPT !.entries = Restrict(@, DOMAIN @ \ {l}), !.live[e.cs] = Less(@, 1)]
Release(g, l) ==
    LET e == g.entries[l]
        h == IF e.session = 0 THEN DecrementCount(g, e.user, e.cs) ELSE g
    IN  [h EXCEPT !.entries = Restrict(@, DOMAIN @ \ {l}), !.live[e.cs] = Less(@, 1)]

End(r, l) ==
    LET g == IF l \in DOMAIN reg[r].entries THEN Release(reg[r], l) ELSE reg[r] IN
    /\ reg' = [reg EXCEPT ![r] =
                 [g EXCEPT !.conns = @ \ {l}, !.cancelled = @ \ {l}]]
    /\ UNCHANGED <<now, tickets, pending, born, used, restarts>>

(***************************************************************************)
(* The route of an endpoint changes or is gone; the activity report; time  *)
(* and restarts.                                                           *)
(***************************************************************************)
SessionsOf(g, cs, ep) ==
    {id \in DOMAIN g.sessions : g.sessions[id].b.cs = cs /\ g.sessions[id].b.ep = ep}

DeleteSessionsOnly(r, cs, ep) ==
    /\ reg' = [reg EXCEPT ![r] =
                 DeleteSessions(@, SessionsOf(@, cs, ep))]
    /\ UNCHANGED <<now, tickets, pending, born, used, restarts>>
DeleteEndpoint(r, cs, ep) ==
    /\ reg' = [reg EXCEPT ![r] =
                 DeleteSessionsAndLive(@, SessionsOf(@, cs, ep))]
    /\ UNCHANGED <<now, tickets, pending, born, used, restarts>>

Activity(r) ==
    /\ reg' = [reg EXCEPT ![r] = DropExpired(@)]
    /\ UNCHANGED <<now, tickets, pending, born, used, restarts>>

Tick ==
    /\ now <= MaxTime /\ now' = now + 1
    /\ UNCHANGED <<reg, tickets, pending, born, used, restarts>>

\* A process is replaced: its connections end with it, its sessions' tickets
\* are with the browsers.
Restart(r) ==
    /\ restarts < MaxRestarts /\ restarts' = restarts + 1
    /\ reg' = [reg EXCEPT ![r] = NewRegistry]
    /\ pending' = [pending EXCEPT ![r] = {}]
    /\ UNCHANGED <<now, tickets, born, used>>

Next ==
    \/ \E r \in Replicas :
         \/ \E b \in Bindings : \E ids \in SUBSET Candidates(b) : CreateReplacingAny(r, b, ids)
         \/ \E id \in DOMAIN tickets : AuthenticateAny(r, id)
         \/ \E p \in pending[r] : Refused(r, p) \/ BeginSession(r, p)
         \/ \E b \in Bindings : BeginSSHSession(r, b.user, b.cs)
         \/ \E l \in reg[r].conns : End(r, l)
         \/ \E b \in Bindings : DeleteEndpoint(r, b.cs, b.ep)
         \/ Activity(r) \/ Restart(r)
    \/ Tick

Spec == Init /\ [][Next]_vars

-----------------------------------------------------------------------------
\* incrementSessionCountLocked, decrementSessionCountLocked, Activity: a
\* codespace's and a user's count are the sessions and SSH connections they
\* have, within the limits, and what is reported for a codespace is the number
\* of its connections that have not been told to end; none is lost or counted
\* twice, however sessions and connections end.
CountsExact ==
    \A r \in Replicas :
      LET g == reg[r]
          Ssh == {l \in DOMAIN g.entries : g.entries[l].session = 0}
      IN  /\ \A c \in Codespaces :
               /\ g.byCs[c] <= MaxPerCodespace
               /\ g.byCs[c] =
                    Cardinality({id \in DOMAIN g.sessions : g.sessions[id].b.cs = c})
                      + Cardinality({l \in Ssh : g.entries[l].cs = c})
               /\ g.live[c] = Cardinality({l \in DOMAIN g.entries : g.entries[l].cs = c})
          /\ \A u \in Users :
               /\ g.byUser[u] <= MaxPerUser
               /\ g.byUser[u] =
                    Cardinality({id \in DOMAIN g.sessions : g.sessions[id].b.user = u})
                      + Cardinality({l \in Ssh : g.entries[l].user = u})
          /\ DOMAIN g.entries = g.conns \ g.cancelled

\* DeleteEndpoint, dropExpiredSessionsLocked, CreateReplacingAny: when a session
\* leaves a registry, its connections there are told to end in the same step.
RemovedIsCut ==
    [][\A r \in Replicas : \A id \in DOMAIN reg[r].sessions \ DOMAIN reg'[r].sessions :
         \A l \in DOMAIN reg[r].entries :
           reg[r].entries[l].session = id => l \notin DOMAIN reg'[r].entries]_vars

\* issueTicket, AuthenticateAny: no ticket, replica or restart brings a session
\* back that was not used for the idle time, that was never used within the
\* connect time, or that is older than its time to live.
IdleStaysOut ==
    [][\A id \in DOMAIN used : used'[id] # used[id] =>
         /\ now <= born[id] + TTL
         /\ now <= IF used[id] = 0 THEN born[id] + Connect ELSE used[id] + Idle]_vars
=============================================================================
