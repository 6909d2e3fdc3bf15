------------------------ MODULE GatewaySessionsProofs -----------------------
(***************************************************************************)
(* The registry of sessions and connections is exact, a session that is    *)
(* removed takes its connections with it, and an idle session is not used  *)
(* again, for any number of replicas, users, codespaces, limits and        *)
(* durations.                                                              *)
(*                                                                         *)
(* The invariant SessionsIInv has two parts. RegOK says of each replica's  *)
(* registry that each count is the cardinality of what it counts and       *)
(* within its limit, that entries are the connections that were not        *)
(* cancelled, and that sessions and entries agree with the tickets that    *)
(* were issued; the operators of the registry keep it (DeletedAll,         *)
(* AddedOK, BeginOK, EndOK). TicketsOK says that no ticket is good for     *)
(* longer than the last use of its session allows; it holds over all       *)
(* replicas, though each keeps its sessions for itself, since a session is *)
(* restored from its ticket.                                               *)
(***************************************************************************)
EXTENDS GatewaySessions, FiniteSetTheorems, TLAPS

\* The fields of a registry.
Fields == {"sessions", "entries", "live", "byCs", "byUser", "nextLive", "conns", "cancelled"}

\* What the counts of a registry are about: the sessions of a codespace and of a
\* user, the SSH connections of either, and all connections of a codespace.
InCs(g, c)   == {id \in DOMAIN g.sessions : g.sessions[id].b.cs = c}
OfUser(g, u) == {id \in DOMAIN g.sessions : g.sessions[id].b.user = u}
Ssh(g)       == {l \in DOMAIN g.entries : g.entries[l].session = 0}
SshIn(g, c)  == {l \in Ssh(g) : g.entries[l].cs = c}
SshBy(g, u)  == {l \in Ssh(g) : g.entries[l].user = u}
LiveIn(g, c) == {l \in DOMAIN g.entries : g.entries[l].cs = c}

\* The types, and that an entry is a connection that was not cancelled.
Shape(g) ==
    /\ DOMAIN g = Fields
    /\ IsFiniteSet(DOMAIN g.sessions) /\ IsFiniteSet(DOMAIN g.entries)
    /\ g.live \in [Codespaces -> Nat] /\ g.byCs \in [Codespaces -> Nat]
    /\ g.byUser \in [Users -> Nat] /\ g.nextLive \in Nat
    /\ \A l \in g.conns \cup g.cancelled : l \in Nat /\ l <= g.nextLive
    /\ DOMAIN g.entries = g.conns \ g.cancelled

\* Every count is what it counts, and within its limit.
Exact(g) ==
    /\ \A c \in Codespaces :
         /\ g.byCs[c] <= MaxPerCodespace
         /\ g.byCs[c] = Cardinality(InCs(g, c)) + Cardinality(SshIn(g, c))
         /\ g.live[c] = Cardinality(LiveIn(g, c))
    /\ \A u \in Users :
         /\ g.byUser[u] <= MaxPerUser
         /\ g.byUser[u] = Cardinality(OfUser(g, u)) + Cardinality(SshBy(g, u))

\* What is stored for a session the tickets of which are T.
SessionOf(s, id, T) ==
    /\ DOMAIN s = {"b", "created", "lastActive", "established", "expires"}
    /\ s.b = T[id].b /\ s.expires = T[id].expires

\* An entry that a registry may get.
EntryOf(e, T) ==
    /\ e.cs \in Codespaces
    /\ e.session = 0 => e.user \in Users
    /\ e.session # 0 => e.session \in DOMAIN T /\ e.cs = T[e.session].b.cs

\* Sessions and entries agree with the tickets T that were issued.
Known(g, T) ==
    /\ \A id \in DOMAIN g.sessions : id \in DOMAIN T /\ SessionOf(g.sessions[id], id, T)
    /\ \A l \in DOMAIN g.entries : EntryOf(g.entries[l], T)

RegOK(g, T) == Shape(g) /\ Exact(g) /\ Known(g, T)

\* Registry h is g without the sessions gone and the entries ls.
Deleted(g, gone, ls, h) ==
    /\ DOMAIN h = Fields
    /\ h.sessions = [id \in DOMAIN g.sessions \ gone |-> g.sessions[id]]
    /\ h.entries = [l \in DOMAIN g.entries \ ls |-> g.entries[l]]
    /\ h.live = [c \in Codespaces |->
                   Less(g.live[c], Cardinality({l \in ls : g.entries[l].cs = c}))]
    /\ h.byCs = [c \in Codespaces |->
                   Less(g.byCs[c], Cardinality({id \in gone : g.sessions[id].b.cs = c}))]
    /\ h.byUser = [u \in Users |->
                     Less(g.byUser[u], Cardinality({id \in gone : g.sessions[id].b.user = u}))]
    /\ h.nextLive = g.nextLive /\ h.conns = g.conns
    /\ h.cancelled = g.cancelled \cup ls

\* DeleteSessions and DeleteLive: every field after them.
LEMMA DeletedFields ==
    ASSUME NEW g, DOMAIN g = Fields, NEW ids
    PROVE  Deleted(g, ids \cap DOMAIN g.sessions, LiveOf(g, ids),
                   DeleteLive(DeleteSessions(g, ids), LiveOf(g, ids)))
<1> DEFINE k == DeleteSessions(g, ids)
           gone == ids \cap DOMAIN g.sessions
           bc == [c \in Codespaces |->
                     Less(g.byCs[c], Cardinality({id \in gone : g.sessions[id].b.cs = c}))]
           bu == [u \in Users |->
                     Less(g.byUser[u], Cardinality({id \in gone : g.sessions[id].b.user = u}))]
           ss == Restrict(g.sessions, DOMAIN g.sessions \ gone)
<1>1. k = [[[g EXCEPT !.sessions = ss] EXCEPT !.byCs = bc] EXCEPT !.byUser = bu]
  BY Zenon DEF DeleteSessions, Fields
<1> HIDE DEF bc, bu, ss, k
<1>2. /\ DOMAIN k = Fields /\ k.sessions = ss /\ k.byCs = bc /\ k.byUser = bu
      /\ k.entries = g.entries /\ k.live = g.live /\ k.nextLive = g.nextLive
      /\ k.conns = g.conns /\ k.cancelled = g.cancelled
  BY Zenon, <1>1 DEF Fields
<1> DEFINE ls == LiveOf(g, ids)
           h == DeleteLive(k, ls)
           es == Restrict(k.entries, DOMAIN k.entries \ ls)
           lv == [c \in Codespaces |-> Less(k.live[c], Cardinality({l \in ls : k.entries[l].cs = c}))]
<1>3. h = [[[k EXCEPT !.entries = es] EXCEPT !.live = lv] EXCEPT !.cancelled = k.cancelled \cup ls]
  BY Zenon, <1>2 DEF DeleteLive, Fields
<1> HIDE DEF es, lv, h, ls
<1>4. /\ DOMAIN h = Fields /\ h.entries = es /\ h.live = lv /\ h.cancelled = k.cancelled \cup ls
      /\ h.sessions = k.sessions /\ h.byCs = k.byCs /\ h.byUser = k.byUser
      /\ h.nextLive = k.nextLive /\ h.conns = k.conns
  BY Zenon, <1>2, <1>3 DEF Fields
<1>5. ss = [id \in DOMAIN g.sessions \ gone |-> g.sessions[id]]
  BY Zenon DEF ss, Restrict
<1>6. es = [l \in DOMAIN g.entries \ ls |-> g.entries[l]]
  BY Zenon, <1>2 DEF es, Restrict
<1>7. lv = [c \in Codespaces |-> Less(g.live[c], Cardinality({l \in ls : g.entries[l].cs = c}))]
  BY Zenon, <1>2 DEF lv
<1> QED
  BY <1>2, <1>4, <1>5, <1>6, <1>7, Zenon DEF Deleted, h, k, ls, bc, bu

\* What is left of a finite set is what it had less what was taken.
LEMMA Taken ==
    ASSUME NEW S, IsFiniteSet(S), NEW G \in SUBSET S
    PROVE  /\ Cardinality(S) \in Nat /\ Cardinality(G) \in Nat
           /\ Cardinality(G) <= Cardinality(S)
           /\ Cardinality(S \ G) = Cardinality(S) - Cardinality(G)
<1>1. S \cap G = G
  OBVIOUS
<1>2. IsFiniteSet(G) /\ Cardinality(G) <= Cardinality(S)
  BY Zenon, FS_Subset
<1>3. Cardinality(S) \in Nat /\ Cardinality(G) \in Nat
  BY Zenon, <1>2, FS_CardinalityType
<1>4. Cardinality(S \ G) = Cardinality(S) - Cardinality(S \cap G)
  BY Zenon, FS_Difference
<1> QED
  BY Zenon, <1>1, <1>2, <1>3, <1>4

\* The sets the counts are about are finite.
LEMMA Finite ==
    ASSUME NEW g, Shape(g)
    PROVE  /\ \A c : /\ IsFiniteSet(InCs(g, c)) /\ Cardinality(InCs(g, c)) \in Nat
                     /\ IsFiniteSet(SshIn(g, c)) /\ Cardinality(SshIn(g, c)) \in Nat
                     /\ IsFiniteSet(LiveIn(g, c)) /\ Cardinality(LiveIn(g, c)) \in Nat
           /\ \A u : /\ IsFiniteSet(OfUser(g, u)) /\ Cardinality(OfUser(g, u)) \in Nat
                     /\ IsFiniteSet(SshBy(g, u)) /\ Cardinality(SshBy(g, u)) \in Nat
<1>1. IsFiniteSet(DOMAIN g.sessions) /\ IsFiniteSet(DOMAIN g.entries)
  BY Zenon DEF Shape
<1>2. ASSUME NEW c
      PROVE  /\ InCs(g, c) \subseteq DOMAIN g.sessions /\ OfUser(g, c) \subseteq DOMAIN g.sessions
             /\ SshIn(g, c) \subseteq DOMAIN g.entries /\ SshBy(g, c) \subseteq DOMAIN g.entries
             /\ LiveIn(g, c) \subseteq DOMAIN g.entries
  BY Zenon DEF InCs, OfUser, SshIn, SshBy, LiveIn, Ssh
<1>3. ASSUME NEW c
      PROVE  /\ IsFiniteSet(InCs(g, c)) /\ IsFiniteSet(OfUser(g, c))
             /\ IsFiniteSet(SshIn(g, c)) /\ IsFiniteSet(SshBy(g, c)) /\ IsFiniteSet(LiveIn(g, c))
  BY <1>1, <1>2, FS_Subset, Zenon
<1> QED
  BY <1>3, FS_CardinalityType, Zenon

\* DeleteSessions and DeleteLive: what is left, and that the entries of a
\* session that is gone are gone.
LEMMA DeletedSets ==
    ASSUME NEW g, NEW T, RegOK(g, T), NEW ids, 0 \notin DOMAIN T,
           NEW h, NEW gone, gone = ids \cap DOMAIN g.sessions,
           NEW ls, ls = LiveOf(g, ids), Deleted(g, gone, ls, h)
    PROVE  /\ \A c : /\ InCs(h, c) = InCs(g, c) \ {id \in gone : g.sessions[id].b.cs = c}
                     /\ LiveIn(h, c) = LiveIn(g, c) \ {l \in ls : g.entries[l].cs = c}
                     /\ SshIn(h, c) = SshIn(g, c)
           /\ \A u : /\ OfUser(h, u) = OfUser(g, u) \ {id \in gone : g.sessions[id].b.user = u}
                     /\ SshBy(h, u) = SshBy(g, u)
           /\ ls \subseteq DOMAIN g.entries
           /\ \A l \in DOMAIN g.entries : g.entries[l].session \in gone => l \in ls
<1>1. /\ h.sessions = [id \in DOMAIN g.sessions \ gone |-> g.sessions[id]]
      /\ h.entries = [l \in DOMAIN g.entries \ ls |-> g.entries[l]]
  BY Zenon DEF Deleted
<1>2. \A l \in ls : l \in DOMAIN g.entries /\ g.entries[l].session \in gone
  BY Zenon DEF LiveOf
<1>3. \A id \in gone : id \in DOMAIN T /\ id # 0 /\ g.sessions[id].b = T[id].b
  BY Zenon DEF RegOK, Known, SessionOf, EntryOf
<1>4. ASSUME NEW l \in DOMAIN g.entries, g.entries[l].session \in gone PROVE l \in ls
  <2>1. g.entries[l].cs = g.sessions[g.entries[l].session].b.cs
    BY <1>3, <1>4, Zenon DEF RegOK, Known, SessionOf, EntryOf
  <2> QED
    BY <1>4, <2>1, Zenon DEF LiveOf
<1>5. ASSUME NEW c
      PROVE  /\ InCs(h, c) = InCs(g, c) \ {id \in gone : g.sessions[id].b.cs = c}
             /\ OfUser(h, c) = OfUser(g, c) \ {id \in gone : g.sessions[id].b.user = c}
             /\ LiveIn(h, c) = LiveIn(g, c) \ {l \in ls : g.entries[l].cs = c}
  <2>1. InCs(h, c) = InCs(g, c) \ {id \in gone : g.sessions[id].b.cs = c}
    BY Zenon, <1>1 DEF InCs
  <2>2. OfUser(h, c) = OfUser(g, c) \ {id \in gone : g.sessions[id].b.user = c}
    BY Zenon, <1>1 DEF OfUser
  <2>3. LiveIn(h, c) = LiveIn(g, c) \ {l \in ls : g.entries[l].cs = c}
    BY Zenon, <1>1 DEF LiveIn
  <2> QED
    BY <2>1, <2>2, <2>3, Zenon
<1>6. \A l : l \in Ssh(h) <=> l \in Ssh(g)
  <2>1. \A l \in Ssh(g) : l \in DOMAIN g.entries /\ l \notin ls
    BY <1>2, <1>3, Zenon DEF Ssh
  <2>2. DOMAIN h.entries = DOMAIN g.entries \ ls
    BY <1>1, Zenon
  <2>3. \A l \in DOMAIN h.entries : h.entries[l] = g.entries[l]
    BY <1>1, Zenon
  <2> QED
    BY <2>1, <2>2, <2>3, Zenon DEF Ssh
<1>7. \A l \in Ssh(g) : h.entries[l] = g.entries[l]
  BY <1>1, <1>2, <1>3, Zenon DEF Ssh
<1>8. ASSUME NEW c PROVE SshIn(h, c) = SshIn(g, c) /\ SshBy(h, c) = SshBy(g, c)
  BY Zenon, <1>6, <1>7 DEF SshIn, SshBy
<1>9. ls \subseteq DOMAIN g.entries
  BY <1>2, Zenon
<1> QED
  BY <1>4, <1>5, <1>8, <1>9, Zenon

\* A registry stays right when sessions are deleted with their entries.
LEMMA DeletedOK ==
    ASSUME NEW g, NEW T, RegOK(g, T), NEW ids, 0 \notin DOMAIN T,
           NEW h, NEW gone, gone = ids \cap DOMAIN g.sessions,
           NEW ls, ls = LiveOf(g, ids), Deleted(g, gone, ls, h)
    PROVE  RegOK(h, T)
<1>1. /\ \A c : /\ InCs(h, c) = InCs(g, c) \ {id \in gone : g.sessions[id].b.cs = c}
                /\ LiveIn(h, c) = LiveIn(g, c) \ {l \in ls : g.entries[l].cs = c}
                /\ SshIn(h, c) = SshIn(g, c)
      /\ \A u : /\ OfUser(h, u) = OfUser(g, u) \ {id \in gone : g.sessions[id].b.user = u}
                /\ SshBy(h, u) = SshBy(g, u)
      /\ ls \subseteq DOMAIN g.entries
  BY DeletedSets
<1>2. /\ DOMAIN h.sessions = DOMAIN g.sessions \ gone
      /\ \A id \in DOMAIN h.sessions : h.sessions[id] = g.sessions[id]
      /\ DOMAIN h.entries = DOMAIN g.entries \ ls
      /\ \A l \in DOMAIN h.entries : h.entries[l] = g.entries[l]
  BY Zenon DEF Deleted
<1>3. Known(h, T)
  <2>1. Known(g, T)
    BY Zenon DEF RegOK
  <2> QED
    BY <2>1, <1>2, Zenon DEF Known
<1>4. Shape(g) /\ Exact(g)
  BY Zenon DEF RegOK
<1>5. ASSUME NEW c \in Codespaces
      PROVE  /\ h.byCs[c] \in Nat /\ h.byCs[c] <= MaxPerCodespace
             /\ h.byCs[c] = Cardinality(InCs(h, c)) + Cardinality(SshIn(h, c))
             /\ h.live[c] \in Nat /\ h.live[c] = Cardinality(LiveIn(h, c))
  <2> DEFINE G == {id \in gone : g.sessions[id].b.cs = c}
             L == {l \in ls : g.entries[l].cs = c}
  <2>1. G \in SUBSET InCs(g, c) /\ L \in SUBSET LiveIn(g, c)
    BY <1>1, Zenon DEF InCs, LiveIn
  <2>2. /\ IsFiniteSet(InCs(g, c)) /\ Cardinality(InCs(g, c)) \in Nat
        /\ IsFiniteSet(LiveIn(g, c)) /\ Cardinality(LiveIn(g, c)) \in Nat
        /\ Cardinality(SshIn(g, c)) \in Nat
    BY <1>4, Finite, Zenon
  <2>3. h.byCs[c] = Less(g.byCs[c], Cardinality(G)) /\ h.live[c] = Less(g.live[c], Cardinality(L))
    BY Zenon DEF Deleted
  <2> HIDE DEF G, L
  <2>4. /\ Cardinality(G) \in Nat /\ Cardinality(G) <= Cardinality(InCs(g, c))
        /\ Cardinality(InCs(g, c) \ G) = Cardinality(InCs(g, c)) - Cardinality(G)
    BY Zenon, <2>1, <2>2, Taken
  <2>5. /\ Cardinality(L) \in Nat /\ Cardinality(L) <= Cardinality(LiveIn(g, c))
        /\ Cardinality(LiveIn(g, c) \ L) = Cardinality(LiveIn(g, c)) - Cardinality(L)
    BY Zenon, <2>1, <2>2, Taken
  <2>6. /\ g.byCs[c] <= MaxPerCodespace
        /\ g.byCs[c] = Cardinality(InCs(g, c)) + Cardinality(SshIn(g, c))
        /\ g.live[c] = Cardinality(LiveIn(g, c))
    BY <1>4, Zenon DEF Exact
  <2>7. InCs(h, c) = InCs(g, c) \ G /\ LiveIn(h, c) = LiveIn(g, c) \ L /\ SshIn(h, c) = SshIn(g, c)
    BY <1>1, Zenon DEF G, L
  <2>8. MaxPerCodespace \in Nat
    BY Zenon, GatewaySessionConstants
  <2>9. /\ h.byCs[c] \in Nat /\ h.byCs[c] <= MaxPerCodespace
        /\ h.byCs[c] = Cardinality(InCs(h, c)) + Cardinality(SshIn(h, c))
    BY <2>2, <2>3, <2>4, <2>6, <2>7, <2>8 DEF Less
  <2>10. h.live[c] \in Nat /\ h.live[c] = Cardinality(LiveIn(h, c))
    BY <2>2, <2>3, <2>5, <2>6, <2>7 DEF Less
  <2> QED
    BY <2>9, <2>10, Zenon
<1>6. ASSUME NEW u \in Users
      PROVE  /\ h.byUser[u] \in Nat /\ h.byUser[u] <= MaxPerUser
             /\ h.byUser[u] = Cardinality(OfUser(h, u)) + Cardinality(SshBy(h, u))
  <2> DEFINE G == {id \in gone : g.sessions[id].b.user = u}
  <2>1. G \in SUBSET OfUser(g, u)
    BY Zenon DEF OfUser
  <2>2. /\ IsFiniteSet(OfUser(g, u)) /\ Cardinality(OfUser(g, u)) \in Nat
        /\ Cardinality(SshBy(g, u)) \in Nat
    BY <1>4, Finite, Zenon
  <2>3. h.byUser[u] = Less(g.byUser[u], Cardinality(G))
    BY Zenon DEF Deleted
  <2> HIDE DEF G
  <2>4. /\ Cardinality(G) \in Nat /\ Cardinality(G) <= Cardinality(OfUser(g, u))
        /\ Cardinality(OfUser(g, u) \ G) = Cardinality(OfUser(g, u)) - Cardinality(G)
    BY Zenon, <2>1, <2>2, Taken
  <2>6. /\ g.byUser[u] <= MaxPerUser
        /\ g.byUser[u] = Cardinality(OfUser(g, u)) + Cardinality(SshBy(g, u))
    BY <1>4, Zenon DEF Exact
  <2>7. OfUser(h, u) = OfUser(g, u) \ G /\ SshBy(h, u) = SshBy(g, u)
    BY <1>1, Zenon DEF G
  <2>8. MaxPerUser \in Nat
    BY Zenon, GatewaySessionConstants
  <2> QED
    BY <2>2, <2>3, <2>4, <2>6, <2>7, <2>8 DEF Less
<1>7. Exact(h)
  BY <1>5, <1>6, Zenon DEF Exact
<1>8. Shape(h)
  <2>1. /\ h.live \in [Codespaces -> Nat] /\ h.byCs \in [Codespaces -> Nat]
        /\ h.byUser \in [Users -> Nat]
    <3>1. /\ h.live = [c \in Codespaces |-> h.live[c]] /\ h.byCs = [c \in Codespaces |-> h.byCs[c]]
          /\ h.byUser = [u \in Users |-> h.byUser[u]]
      BY Zenon DEF Deleted
    <3> QED
      BY Zenon, <3>1, <1>5, <1>6
  <2>2. IsFiniteSet(DOMAIN h.sessions) /\ IsFiniteSet(DOMAIN h.entries)
    <3>1. IsFiniteSet(DOMAIN g.sessions) /\ IsFiniteSet(DOMAIN g.entries)
      BY <1>4, Zenon DEF Shape
    <3> QED
      BY Zenon, <3>1, <1>2, FS_Subset
  <2>3. h.nextLive = g.nextLive /\ h.conns = g.conns /\ h.cancelled = g.cancelled \cup ls
    BY Zenon DEF Deleted
  <2>4. /\ g.nextLive \in Nat /\ DOMAIN g.entries = g.conns \ g.cancelled
        /\ \A l \in g.conns \cup g.cancelled : l \in Nat /\ l <= g.nextLive
    BY <1>4, Zenon DEF Shape
  <2>5. DOMAIN h.entries = h.conns \ h.cancelled
    BY Zenon, <1>1, <1>2, <2>3, <2>4
  <2>6. \A l \in h.conns \cup h.cancelled : l \in Nat /\ l <= h.nextLive
    BY Zenon, <1>1, <2>3, <2>4
  <2>7. DOMAIN h = Fields /\ h.nextLive \in Nat
    BY <2>3, <2>4, Zenon DEF Deleted
  <2> QED
    BY <2>1, <2>2, <2>5, <2>6, <2>7, Zenon DEF Shape
<1> QED
  BY <1>3, <1>7, <1>8, Zenon DEF RegOK

\* Registry h is g without some sessions and with none of their entries.
Fewer(g, h) ==
    /\ DOMAIN h.sessions \subseteq DOMAIN g.sessions
    /\ \A id \in DOMAIN h.sessions : h.sessions[id] = g.sessions[id]
    /\ DOMAIN h.entries \subseteq DOMAIN g.entries
    /\ \A l \in DOMAIN h.entries : h.entries[l] = g.entries[l]
    /\ \A l \in DOMAIN g.entries :
         g.entries[l].session \in DOMAIN g.sessions \ DOMAIN h.sessions => l \notin DOMAIN h.entries
    /\ h.nextLive = g.nextLive

\* deleteGatewaySessionAndLiveLocked: the registry stays right.
LEMMA DeletedAll ==
    ASSUME NEW g, NEW T, RegOK(g, T), NEW ids, 0 \notin DOMAIN T
    PROVE  RegOK(DeleteSessionsAndLive(g, ids), T) /\ Fewer(g, DeleteSessionsAndLive(g, ids))
<1>1. CASE ids \cap DOMAIN g.sessions = {}
  <2>1. DeleteSessionsAndLive(g, ids) = g
    BY <1>1, Zenon DEF DeleteSessionsAndLive
  <2>2. Fewer(g, g)
    BY Zenon DEF Fewer
  <2> QED
    BY <2>1, <2>2, Zenon
<1>2. CASE ids \cap DOMAIN g.sessions # {}
  <2> DEFINE h == DeleteLive(DeleteSessions(g, ids), LiveOf(g, ids))
             gone == ids \cap DOMAIN g.sessions
             ls == LiveOf(g, ids)
  <2>1. DeleteSessionsAndLive(g, ids) = h
    BY <1>2, Zenon DEF DeleteSessionsAndLive
  <2>2. DOMAIN g = Fields
    BY Zenon DEF RegOK, Shape
  <2>3. Deleted(g, gone, ls, h)
    BY <2>2, DeletedFields, Zenon
  <2> HIDE DEF h
  <2>4. RegOK(h, T)
    BY <2>3, DeletedOK, Zenon
  <2>5. \A l \in DOMAIN g.entries : g.entries[l].session \in gone => l \in ls
    BY <2>3, DeletedSets
  <2>6. /\ DOMAIN h.sessions = DOMAIN g.sessions \ gone
        /\ \A id \in DOMAIN h.sessions : h.sessions[id] = g.sessions[id]
        /\ DOMAIN h.entries = DOMAIN g.entries \ ls
        /\ \A l \in DOMAIN h.entries : h.entries[l] = g.entries[l]
        /\ h.nextLive = g.nextLive
    BY <2>3, Zenon DEF Deleted
  <2>7. Fewer(g, h)
    BY <2>5, <2>6, Zenon DEF Fewer
  <2> QED
    BY <2>1, <2>4, <2>7, Zenon
<1> QED
  BY <1>1, <1>2, Zenon

\* One more element is one more.
LEMMA OneMore ==
    ASSUME NEW S, IsFiniteSet(S), NEW x, x \notin S
    PROVE  Cardinality(S \cup {x}) = Cardinality(S) + 1 /\ IsFiniteSet(S \cup {x})
BY Zenon, FS_AddElement

\* incrementSessionCountLocked: every field after it.
LEMMA IncrementedFields ==
    ASSUME NEW g, DOMAIN g = Fields, NEW u \in Users, NEW c \in Codespaces,
           g.byCs \in [Codespaces -> Nat], g.byUser \in [Users -> Nat]
    PROVE  LET h == IncrementCount(g, u, c)
           IN  /\ DOMAIN h = Fields
               /\ h.byCs = [g.byCs EXCEPT ![c] = g.byCs[c] + 1]
               /\ h.byUser = [g.byUser EXCEPT ![u] = g.byUser[u] + 1]
               /\ h.sessions = g.sessions /\ h.entries = g.entries /\ h.live = g.live
               /\ h.nextLive = g.nextLive /\ h.conns = g.conns /\ h.cancelled = g.cancelled
<1> DEFINE bc == [g.byCs EXCEPT ![c] = g.byCs[c] + 1]
           bu == [g.byUser EXCEPT ![u] = g.byUser[u] + 1]
           h == IncrementCount(g, u, c)
<1>1. h = [[g EXCEPT !.byCs = bc] EXCEPT !.byUser = bu]
  BY Zenon DEF IncrementCount, Fields
<1> HIDE DEF bc, bu, h
<1>2. /\ DOMAIN h = Fields /\ h.byCs = bc /\ h.byUser = bu
      /\ h.sessions = g.sessions /\ h.entries = g.entries /\ h.live = g.live
      /\ h.nextLive = g.nextLive /\ h.conns = g.conns /\ h.cancelled = g.cancelled
  BY Zenon, <1>1 DEF Fields
<1> QED
  BY <1>2, Zenon DEF h, bc, bu

\* SetSession: every field after it.
LEMMA SetFields ==
    ASSUME NEW g, DOMAIN g = Fields, NEW id, NEW s
    PROVE  LET h == SetSession(g, id, s)
           IN  /\ DOMAIN h = Fields
               /\ DOMAIN h.sessions = DOMAIN g.sessions \cup {id}
               /\ \A i \in DOMAIN h.sessions : h.sessions[i] = IF i = id THEN s ELSE g.sessions[i]
               /\ h.byCs = g.byCs /\ h.byUser = g.byUser /\ h.entries = g.entries /\ h.live = g.live
               /\ h.nextLive = g.nextLive /\ h.conns = g.conns /\ h.cancelled = g.cancelled
<1> DEFINE ss == With(g.sessions, id, s)
           h == SetSession(g, id, s)
<1>1. h = [g EXCEPT !.sessions = ss]
  BY Zenon DEF SetSession, Fields
<1>2. /\ DOMAIN ss = DOMAIN g.sessions \cup {id}
      /\ \A i \in DOMAIN ss : ss[i] = IF i = id THEN s ELSE g.sessions[i]
  BY Zenon DEF With
<1> HIDE DEF ss, h
<1>3. /\ DOMAIN h = Fields /\ h.sessions = ss
      /\ h.byCs = g.byCs /\ h.byUser = g.byUser /\ h.entries = g.entries /\ h.live = g.live
      /\ h.nextLive = g.nextLive /\ h.conns = g.conns /\ h.cancelled = g.cancelled
  BY Zenon, <1>1 DEF Fields
<1> QED
  BY <1>2, <1>3, Zenon DEF h

\* A session that is known is stored anew.
LEMMA SetKnown ==
    ASSUME NEW g, NEW T, RegOK(g, T), NEW id \in DOMAIN g.sessions, NEW s, SessionOf(s, id, T)
    PROVE  RegOK(SetSession(g, id, s), T)
<1> DEFINE h == SetSession(g, id, s)
<1>1. Shape(g) /\ Exact(g) /\ Known(g, T)
  BY Zenon DEF RegOK
<1>2. /\ DOMAIN h = Fields
      /\ DOMAIN h.sessions = DOMAIN g.sessions \cup {id}
      /\ \A i \in DOMAIN h.sessions : h.sessions[i] = IF i = id THEN s ELSE g.sessions[i]
      /\ h.byCs = g.byCs /\ h.byUser = g.byUser /\ h.entries = g.entries /\ h.live = g.live
      /\ h.nextLive = g.nextLive /\ h.conns = g.conns /\ h.cancelled = g.cancelled
  BY <1>1, SetFields DEF Shape
<1> HIDE DEF h
<1>3. /\ DOMAIN h.sessions = DOMAIN g.sessions
      /\ \A i \in DOMAIN h.sessions : h.sessions[i].b = g.sessions[i].b
  BY <1>1, <1>2, Zenon DEF Known, SessionOf, EntryOf
<1>4. ASSUME NEW c
      PROVE  InCs(h, c) = InCs(g, c) /\ OfUser(h, c) = OfUser(g, c) /\ SshIn(h, c) = SshIn(g, c)
             /\ SshBy(h, c) = SshBy(g, c) /\ LiveIn(h, c) = LiveIn(g, c)
  BY <1>2, <1>3, Zenon DEF InCs, OfUser, SshIn, SshBy, LiveIn, Ssh
<1>5. Exact(h)
  BY <1>1, <1>2, <1>4, Zenon DEF Exact
<1>6. Shape(h)
  BY <1>1, <1>2, <1>3, Zenon DEF Shape
<1>7. Known(h, T)
  BY <1>1, <1>2, <1>3, Zenon DEF Known
<1> QED
  BY <1>5, <1>6, <1>7, Zenon DEF RegOK, h

\* A session is added and counted.
LEMMA AddedOK ==
    ASSUME NEW g, NEW T, RegOK(g, T), NEW id \in DOMAIN T, id \notin DOMAIN g.sessions,
           NEW s, SessionOf(s, id, T), NEW b \in Bindings, T[id].b = b, CanAdd(g, b.user, b.cs)
    PROVE  RegOK(SetSession(IncrementCount(g, b.user, b.cs), id, s), T)
<1> DEFINE k == IncrementCount(g, b.user, b.cs)
           h == SetSession(k, id, s)
<1>0. b.user \in Users /\ b.cs \in Codespaces
  BY Zenon DEF Users, Codespaces
<1>1. Shape(g) /\ Exact(g) /\ Known(g, T)
  BY Zenon DEF RegOK
<1>2. /\ DOMAIN g = Fields /\ g.byCs \in [Codespaces -> Nat] /\ g.byUser \in [Users -> Nat]
  BY <1>1, Zenon DEF Shape
<1>3. /\ DOMAIN k = Fields
      /\ k.byCs = [g.byCs EXCEPT ![b.cs] = g.byCs[b.cs] + 1]
      /\ k.byUser = [g.byUser EXCEPT ![b.user] = g.byUser[b.user] + 1]
      /\ k.sessions = g.sessions /\ k.entries = g.entries /\ k.live = g.live
      /\ k.nextLive = g.nextLive /\ k.conns = g.conns /\ k.cancelled = g.cancelled
  BY <1>0, <1>2, IncrementedFields
<1> HIDE DEF k
<1>4. /\ DOMAIN h = Fields
      /\ DOMAIN h.sessions = DOMAIN g.sessions \cup {id}
      /\ \A i \in DOMAIN h.sessions : h.sessions[i] = IF i = id THEN s ELSE g.sessions[i]
      /\ h.byCs = k.byCs /\ h.byUser = k.byUser /\ h.entries = g.entries /\ h.live = g.live
      /\ h.nextLive = g.nextLive /\ h.conns = g.conns /\ h.cancelled = g.cancelled
  BY <1>3, SetFields
<1> HIDE DEF h
<1>5. s.b = b
  BY Zenon DEF SessionOf
<1>6. ASSUME NEW c
      PROVE  SshIn(h, c) = SshIn(g, c) /\ SshBy(h, c) = SshBy(g, c) /\ LiveIn(h, c) = LiveIn(g, c)
  BY <1>4, Zenon DEF SshIn, SshBy, LiveIn, Ssh
<1>7. ASSUME NEW c
      PROVE  /\ InCs(h, c) = IF c = b.cs THEN InCs(g, c) \cup {id} ELSE InCs(g, c)
             /\ OfUser(h, c) = IF c = b.user THEN OfUser(g, c) \cup {id} ELSE OfUser(g, c)
             /\ id \notin InCs(g, c) /\ id \notin OfUser(g, c)
  <2>1. InCs(h, c) = IF c = b.cs THEN InCs(g, c) \cup {id} ELSE InCs(g, c)
    BY <1>4, <1>5 DEF InCs
  <2>2. OfUser(h, c) = IF c = b.user THEN OfUser(g, c) \cup {id} ELSE OfUser(g, c)
    BY <1>4, <1>5 DEF OfUser
  <2> QED
    BY <2>1, <2>2, Zenon DEF InCs, OfUser
<1>8. \A c : /\ IsFiniteSet(InCs(g, c)) /\ Cardinality(InCs(g, c)) \in Nat
             /\ Cardinality(SshIn(g, c)) \in Nat
  BY <1>1, Finite, Zenon
<1>9. \A c : /\ IsFiniteSet(OfUser(g, c)) /\ Cardinality(OfUser(g, c)) \in Nat
             /\ Cardinality(SshBy(g, c)) \in Nat
  BY <1>1, Finite, Zenon
<1>10. MaxPerCodespace \in Nat /\ MaxPerUser \in Nat
  BY Zenon, GatewaySessionConstants
<1>11. g.byCs[b.cs] < MaxPerCodespace /\ g.byUser[b.user] < MaxPerUser
  BY Zenon DEF CanAdd
<1>12. ASSUME NEW c \in Codespaces
       PROVE  /\ h.byCs[c] <= MaxPerCodespace
              /\ h.byCs[c] = Cardinality(InCs(h, c)) + Cardinality(SshIn(h, c))
              /\ h.live[c] = Cardinality(LiveIn(h, c))
  <2>1. /\ g.byCs[c] \in Nat /\ g.byCs[c] <= MaxPerCodespace
        /\ g.byCs[c] = Cardinality(InCs(g, c)) + Cardinality(SshIn(g, c))
        /\ g.live[c] = Cardinality(LiveIn(g, c))
    BY <1>1, <1>2, Zenon DEF Exact
  <2>2. h.byCs[c] = IF c = b.cs THEN g.byCs[c] + 1 ELSE g.byCs[c]
    BY <1>0, <1>2, <1>3, <1>4
  <2>3. CASE c = b.cs
    <3>1. Cardinality(InCs(h, c)) = Cardinality(InCs(g, c)) + 1
      BY Zenon, <2>3, <1>7, <1>8, OneMore
    <3> QED
      BY <2>1, <2>2, <2>3, <3>1, <1>4, <1>6, <1>8, <1>10, <1>11
  <2>4. CASE c # b.cs
    BY Zenon, <2>1, <2>2, <2>4, <1>4, <1>6, <1>7
  <2> QED
    BY <2>3, <2>4, Zenon
<1>13. ASSUME NEW u \in Users
       PROVE  /\ h.byUser[u] <= MaxPerUser
              /\ h.byUser[u] = Cardinality(OfUser(h, u)) + Cardinality(SshBy(h, u))
  <2>1. /\ g.byUser[u] \in Nat /\ g.byUser[u] <= MaxPerUser
        /\ g.byUser[u] = Cardinality(OfUser(g, u)) + Cardinality(SshBy(g, u))
    BY <1>1, <1>2, Zenon DEF Exact
  <2>2. h.byUser[u] = IF u = b.user THEN g.byUser[u] + 1 ELSE g.byUser[u]
    BY <1>0, <1>2, <1>3, <1>4
  <2>3. CASE u = b.user
    <3>1. Cardinality(OfUser(h, u)) = Cardinality(OfUser(g, u)) + 1
      BY Zenon, <2>3, <1>7, <1>9, OneMore
    <3> QED
      BY <2>1, <2>2, <2>3, <3>1, <1>4, <1>6, <1>9, <1>10, <1>11
  <2>4. CASE u # b.user
    BY Zenon, <2>1, <2>2, <2>4, <1>4, <1>6, <1>7
  <2> QED
    BY <2>3, <2>4, Zenon
<1>14. Exact(h)
  BY <1>12, <1>13, Zenon DEF Exact
<1>15. Shape(h)
  <2>1. IsFiniteSet(DOMAIN h.sessions)
    BY <1>1, <1>4, OneMore DEF Shape
  <2>2. h.byCs \in [Codespaces -> Nat] /\ h.byUser \in [Users -> Nat]
    <3>1. g.byCs[b.cs] + 1 \in Nat /\ g.byUser[b.user] + 1 \in Nat
      BY <1>0, <1>2
    <3>2. k.byCs \in [Codespaces -> Nat]
      BY <3>1, <1>0, <1>2, <1>3
    <3>3. k.byUser \in [Users -> Nat]
      BY <3>1, <1>0, <1>2, <1>3
    <3> QED
      BY <3>2, <3>3, <1>4, Zenon
  <2> QED
    BY <1>1, <1>4, <2>1, <2>2, Zenon DEF Shape
<1>16. Known(h, T)
  BY <1>1, <1>4, Zenon DEF Known
<1> QED
  BY <1>14, <1>15, <1>16, Zenon DEF RegOK, h, k

\* Registry h is g with the entry e for its next connection; the counts of
\* sessions are left to the caller.
Begun(g, e, h) ==
    /\ DOMAIN h = Fields
    /\ DOMAIN h.entries = DOMAIN g.entries \cup {g.nextLive + 1}
    /\ \A i \in DOMAIN h.entries : h.entries[i] = IF i = g.nextLive + 1 THEN e ELSE g.entries[i]
    /\ h.live = [g.live EXCEPT ![e.cs] = g.live[e.cs] + 1]
    /\ h.nextLive = g.nextLive + 1 /\ h.conns = g.conns \cup {g.nextLive + 1}
    /\ h.sessions = g.sessions /\ h.cancelled = g.cancelled

\* beginLive: every field after it.
LEMMA BegunFields ==
    ASSUME NEW g, DOMAIN g = Fields, NEW e, e.cs \in Codespaces, g.live \in [Codespaces -> Nat]
    PROVE  /\ Begun(g, e, Begin(g, e))
           /\ Begin(g, e).byCs = g.byCs /\ Begin(g, e).byUser = g.byUser
<1> DEFINE l == g.nextLive + 1
           es == With(g.entries, l, e)
           lv == [g.live EXCEPT ![e.cs] = g.live[e.cs] + 1]
           h == Begin(g, e)
<1>1. h = [[[[g EXCEPT !.nextLive = l] EXCEPT !.live = lv] EXCEPT !.entries = es]
             EXCEPT !.conns = g.conns \cup {l}]
  BY Zenon DEF Begin, Fields
<1>2. /\ DOMAIN es = DOMAIN g.entries \cup {l}
      /\ \A i \in DOMAIN es : es[i] = IF i = l THEN e ELSE g.entries[i]
  BY Zenon DEF With
<1> HIDE DEF es, lv, h, l
<1>3. /\ DOMAIN h = Fields /\ h.entries = es /\ h.live = lv /\ h.nextLive = l
      /\ h.conns = g.conns \cup {l} /\ h.cancelled = g.cancelled
      /\ h.sessions = g.sessions /\ h.byCs = g.byCs /\ h.byUser = g.byUser
  BY Zenon, <1>1 DEF Fields
<1> QED
  BY <1>2, <1>3, Zenon DEF Begun, h, lv, l

\* The sets that are counted, after a connection began.
LEMMA BegunSets ==
    ASSUME NEW g, Shape(g), NEW e, NEW h, Begun(g, e, h)
    PROVE  /\ g.nextLive + 1 \notin DOMAIN g.entries
           /\ \A c : /\ InCs(h, c) = InCs(g, c) /\ OfUser(h, c) = OfUser(g, c)
                     /\ LiveIn(h, c) = IF c = e.cs THEN LiveIn(g, c) \cup {g.nextLive + 1}
                                       ELSE LiveIn(g, c)
                     /\ e.session # 0 => SshIn(h, c) = SshIn(g, c) /\ SshBy(h, c) = SshBy(g, c)
                     /\ e.session = 0 =>
                          /\ SshIn(h, c) = IF c = e.cs THEN SshIn(g, c) \cup {g.nextLive + 1}
                                           ELSE SshIn(g, c)
                          /\ SshBy(h, c) = IF c = e.user THEN SshBy(g, c) \cup {g.nextLive + 1}
                                           ELSE SshBy(g, c)
                     /\ g.nextLive + 1 \notin LiveIn(g, c)
                     /\ g.nextLive + 1 \notin SshIn(g, c) /\ g.nextLive + 1 \notin SshBy(g, c)
<1> DEFINE l == g.nextLive + 1
<1>1. l \notin g.conns /\ l \notin DOMAIN g.entries
  BY DEF Shape
<1>2. /\ DOMAIN h.entries = DOMAIN g.entries \cup {l}
      /\ \A i \in DOMAIN h.entries : h.entries[i] = IF i = l THEN e ELSE g.entries[i]
      /\ h.sessions = g.sessions
  BY Zenon DEF Begun
<1> HIDE DEF l
<1>3. ASSUME NEW c
      PROVE  /\ InCs(h, c) = InCs(g, c) /\ OfUser(h, c) = OfUser(g, c)
             /\ LiveIn(h, c) = IF c = e.cs THEN LiveIn(g, c) \cup {l} ELSE LiveIn(g, c)
             /\ l \notin LiveIn(g, c) /\ l \notin SshIn(g, c) /\ l \notin SshBy(g, c)
  <2>1. InCs(h, c) = InCs(g, c) /\ OfUser(h, c) = OfUser(g, c)
    BY <1>2, Zenon DEF InCs, OfUser
  <2>2. LiveIn(h, c) = IF c = e.cs THEN LiveIn(g, c) \cup {l} ELSE LiveIn(g, c)
    BY Zenon, <1>1, <1>2 DEF LiveIn
  <2> QED
    BY <1>1, <2>1, <2>2, Zenon DEF LiveIn, SshIn, SshBy, Ssh
<1>4. ASSUME e.session # 0, NEW c PROVE SshIn(h, c) = SshIn(g, c) /\ SshBy(h, c) = SshBy(g, c)
  BY Zenon, <1>1, <1>2, <1>4 DEF SshIn, SshBy, Ssh
<1>5. ASSUME e.session = 0, NEW c
      PROVE  /\ SshIn(h, c) = IF c = e.cs THEN SshIn(g, c) \cup {l} ELSE SshIn(g, c)
             /\ SshBy(h, c) = IF c = e.user THEN SshBy(g, c) \cup {l} ELSE SshBy(g, c)
  <2>1. SshIn(h, c) = IF c = e.cs THEN SshIn(g, c) \cup {l} ELSE SshIn(g, c)
    BY Zenon, <1>1, <1>2, <1>5 DEF SshIn, Ssh
  <2>2. SshBy(h, c) = IF c = e.user THEN SshBy(g, c) \cup {l} ELSE SshBy(g, c)
    BY Zenon, <1>1, <1>2, <1>5 DEF SshBy, Ssh
  <2> QED
    BY <2>1, <2>2, Zenon
<1> QED
  BY <1>1, <1>3, <1>4, <1>5, Zenon DEF l

\* What does not depend on the counts of sessions, after a connection began.
LEMMA BegunRest ==
    ASSUME NEW g, NEW T, RegOK(g, T), NEW e, EntryOf(e, T), NEW h, Begun(g, e, h),
           h.byCs \in [Codespaces -> Nat], h.byUser \in [Users -> Nat]
    PROVE  /\ Shape(h) /\ Known(h, T)
           /\ \A c \in Codespaces : h.live[c] = Cardinality(LiveIn(h, c))
<1> DEFINE l == g.nextLive + 1
<1>1. Shape(g) /\ Exact(g) /\ Known(g, T) /\ e.cs \in Codespaces
  BY Zenon DEF RegOK, EntryOf
<1>2. /\ DOMAIN h = Fields
      /\ DOMAIN h.entries = DOMAIN g.entries \cup {l}
      /\ \A i \in DOMAIN h.entries : h.entries[i] = IF i = l THEN e ELSE g.entries[i]
      /\ h.live = [g.live EXCEPT ![e.cs] = g.live[e.cs] + 1]
      /\ h.nextLive = l /\ h.conns = g.conns \cup {l}
      /\ h.sessions = g.sessions /\ h.cancelled = g.cancelled
  BY Zenon DEF Begun
<1>3. /\ l \notin DOMAIN g.entries
      /\ \A c : LiveIn(h, c) = IF c = e.cs THEN LiveIn(g, c) \cup {l} ELSE LiveIn(g, c)
      /\ \A c : l \notin LiveIn(g, c)
  BY <1>1, BegunSets
<1>4. /\ g.nextLive \in Nat /\ g.live \in [Codespaces -> Nat]
      /\ \A i \in g.conns \cup g.cancelled : i \in Nat /\ i <= g.nextLive
      /\ DOMAIN g.entries = g.conns \ g.cancelled
      /\ IsFiniteSet(DOMAIN g.entries) /\ IsFiniteSet(DOMAIN g.sessions)
  BY <1>1, Zenon DEF Shape
<1>5. Known(h, T)
  BY <1>1, <1>2, Zenon DEF Known
<1>6. /\ l \in Nat /\ l \notin g.cancelled
      /\ \A i \in h.conns \cup h.cancelled : i \in Nat /\ i <= h.nextLive
  BY <1>2, <1>4
<1>7. DOMAIN h.entries = h.conns \ h.cancelled
  BY <1>2, <1>4, <1>6, Zenon
<1>8. h.live \in [Codespaces -> Nat]
  <2>1. g.live[e.cs] + 1 \in Nat
    BY <1>1, <1>4
  <2> QED
    BY <1>1, <1>2, <1>4, <2>1
<1> HIDE DEF l
<1>9. IsFiniteSet(DOMAIN h.entries)
  <2>1. l \notin DOMAIN g.entries /\ IsFiniteSet(DOMAIN g.entries)
    BY <1>3, <1>4, Zenon
  <2>2. IsFiniteSet(DOMAIN g.entries \cup {l})
    BY <2>1, OneMore, Zenon
  <2> QED
    BY <1>2, <2>2, Zenon
<1>10. Shape(h)
  BY <1>2, <1>4, <1>6, <1>7, <1>8, <1>9, Zenon DEF Shape
<1>11. ASSUME NEW c \in Codespaces PROVE h.live[c] = Cardinality(LiveIn(h, c))
  <2>1. g.live[c] = Cardinality(LiveIn(g, c)) /\ IsFiniteSet(LiveIn(g, c))
    BY <1>1, Finite, Zenon DEF Exact
  <2>2. h.live[c] = IF c = e.cs THEN g.live[c] + 1 ELSE g.live[c]
    BY <1>1, <1>2, <1>4
  <2>3. CASE c = e.cs
    BY <2>1, <2>2, <2>3, <1>3, OneMore
  <2>4. CASE c # e.cs
    BY Zenon, <2>1, <2>2, <2>4, <1>3
  <2> QED
    BY <2>3, <2>4, Zenon
<1> QED
  BY <1>5, <1>10, <1>11, Zenon

\* A connection of a session begins.
LEMMA BeginOK ==
    ASSUME NEW g, NEW T, RegOK(g, T), NEW e, EntryOf(e, T), e.session # 0
    PROVE  RegOK(Begin(g, e), T)
<1> DEFINE h == Begin(g, e)
<1>1. Shape(g) /\ Exact(g) /\ e.cs \in Codespaces
  BY Zenon DEF RegOK, EntryOf
<1>2. /\ DOMAIN g = Fields /\ g.live \in [Codespaces -> Nat]
      /\ g.byCs \in [Codespaces -> Nat] /\ g.byUser \in [Users -> Nat]
  BY <1>1, Zenon DEF Shape
<1>3. Begun(g, e, h) /\ h.byCs = g.byCs /\ h.byUser = g.byUser
  BY <1>1, <1>2, BegunFields, Zenon
<1> HIDE DEF h
<1>4. Shape(h) /\ Known(h, T) /\ \A c \in Codespaces : h.live[c] = Cardinality(LiveIn(h, c))
  BY <1>2, <1>3, BegunRest, Zenon
<1>5. \A c : /\ InCs(h, c) = InCs(g, c) /\ OfUser(h, c) = OfUser(g, c)
             /\ SshIn(h, c) = SshIn(g, c) /\ SshBy(h, c) = SshBy(g, c)
  BY <1>1, <1>3, BegunSets
<1>6. Exact(h)
  BY <1>1, <1>3, <1>4, <1>5, ZenonT(60) DEF Exact
<1> QED
  BY <1>4, <1>6, Zenon DEF RegOK, h

\* An SSH connection begins and is counted.
LEMMA BeginSshOK ==
    ASSUME NEW g, NEW T, RegOK(g, T), NEW u \in Users, NEW c \in Codespaces, CanAdd(g, u, c)
    PROVE  RegOK(Begin(IncrementCount(g, u, c), [session |-> 0, cs |-> c, user |-> u]), T)
<1> DEFINE k == IncrementCount(g, u, c)
           e == [session |-> 0, cs |-> c, user |-> u]
           h == Begin(k, e)
           l == g.nextLive + 1
<1>0. e.session = 0 /\ e.cs = c /\ e.user = u
  OBVIOUS
<1> HIDE DEF e
<1>1. Shape(g) /\ Exact(g) /\ EntryOf(e, T)
  BY <1>0, Zenon DEF RegOK, EntryOf
<1>2. /\ DOMAIN g = Fields /\ g.live \in [Codespaces -> Nat]
      /\ g.byCs \in [Codespaces -> Nat] /\ g.byUser \in [Users -> Nat]
  BY <1>1, Zenon DEF Shape
<1>3. /\ DOMAIN k = Fields
      /\ k.byCs = [g.byCs EXCEPT ![c] = g.byCs[c] + 1]
      /\ k.byUser = [g.byUser EXCEPT ![u] = g.byUser[u] + 1]
      /\ k.sessions = g.sessions /\ k.entries = g.entries /\ k.live = g.live
      /\ k.nextLive = g.nextLive /\ k.conns = g.conns /\ k.cancelled = g.cancelled
  BY <1>2, IncrementedFields
<1> HIDE DEF k
<1>4. Begun(k, e, h) /\ h.byCs = k.byCs /\ h.byUser = k.byUser
  BY <1>0, <1>2, <1>3, BegunFields, ZenonT(60)
<1> HIDE DEF h
<1>5. Begun(g, e, h)
  BY <1>3, <1>4, Zenon DEF Begun
<1>6. h.byCs \in [Codespaces -> Nat] /\ h.byUser \in [Users -> Nat]
  <2>1. g.byCs[c] + 1 \in Nat /\ g.byUser[u] + 1 \in Nat
    BY <1>2
  <2>2. k.byCs \in [Codespaces -> Nat]
    BY Zenon, <2>1, <1>2, <1>3
  <2>3. k.byUser \in [Users -> Nat]
    BY Zenon, <2>1, <1>2, <1>3
  <2> QED
    BY <2>2, <2>3, <1>4, Zenon
<1>7. Shape(h) /\ Known(h, T) /\ \A d \in Codespaces : h.live[d] = Cardinality(LiveIn(h, d))
  BY <1>1, <1>5, <1>6, BegunRest, Zenon
<1>8. \A d : /\ InCs(h, d) = InCs(g, d) /\ OfUser(h, d) = OfUser(g, d)
             /\ SshIn(h, d) = IF d = c THEN SshIn(g, d) \cup {l} ELSE SshIn(g, d)
             /\ SshBy(h, d) = IF d = u THEN SshBy(g, d) \cup {l} ELSE SshBy(g, d)
             /\ l \notin SshIn(g, d) /\ l \notin SshBy(g, d)
  BY <1>0, <1>1, <1>5, BegunSets
<1> HIDE DEF l
<1>9. \A d : /\ IsFiniteSet(SshIn(g, d)) /\ Cardinality(SshIn(g, d)) \in Nat
             /\ Cardinality(InCs(g, d)) \in Nat
             /\ IsFiniteSet(SshBy(g, d)) /\ Cardinality(SshBy(g, d)) \in Nat
             /\ Cardinality(OfUser(g, d)) \in Nat
  BY <1>1, Finite, Zenon
<1>10. /\ MaxPerCodespace \in Nat /\ MaxPerUser \in Nat
       /\ g.byCs[c] < MaxPerCodespace /\ g.byUser[u] < MaxPerUser
  BY Zenon, GatewaySessionConstants DEF CanAdd
<1>11. ASSUME NEW d \in Codespaces
       PROVE  /\ h.byCs[d] <= MaxPerCodespace
              /\ h.byCs[d] = Cardinality(InCs(h, d)) + Cardinality(SshIn(h, d))
  <2>1. /\ g.byCs[d] \in Nat /\ g.byCs[d] <= MaxPerCodespace
        /\ g.byCs[d] = Cardinality(InCs(g, d)) + Cardinality(SshIn(g, d))
    BY <1>1, <1>2, Zenon DEF Exact
  <2>2. h.byCs[d] = IF d = c THEN g.byCs[d] + 1 ELSE g.byCs[d]
    BY <1>2, <1>3, <1>4
  <2>3. CASE d = c
    <3>1. Cardinality(SshIn(h, d)) = Cardinality(SshIn(g, d)) + 1
      BY Zenon, <2>3, <1>8, <1>9, OneMore
    <3> QED
      BY SMTT(60), <2>1, <2>2, <2>3, <3>1, <1>8, <1>9, <1>10
  <2>4. CASE d # c
    BY Zenon, <2>1, <2>2, <2>4, <1>8
  <2> QED
    BY <2>3, <2>4, Zenon
<1>12. ASSUME NEW d \in Users
       PROVE  /\ h.byUser[d] <= MaxPerUser
              /\ h.byUser[d] = Cardinality(OfUser(h, d)) + Cardinality(SshBy(h, d))
  <2>1. /\ g.byUser[d] \in Nat /\ g.byUser[d] <= MaxPerUser
        /\ g.byUser[d] = Cardinality(OfUser(g, d)) + Cardinality(SshBy(g, d))
    BY <1>1, <1>2, Zenon DEF Exact
  <2>2. h.byUser[d] = IF d = u THEN g.byUser[d] + 1 ELSE g.byUser[d]
    BY <1>2, <1>3, <1>4
  <2>3. CASE d = u
    <3>1. Cardinality(SshBy(h, d)) = Cardinality(SshBy(g, d)) + 1
      BY Zenon, <2>3, <1>8, <1>9, OneMore
    <3> QED
      BY <2>1, <2>2, <2>3, <3>1, <1>8, <1>9, <1>10
  <2>4. CASE d # u
    BY Zenon, <2>1, <2>2, <2>4, <1>8
  <2> QED
    BY <2>3, <2>4, Zenon
<1>13. Exact(h)
  BY <1>7, <1>11, <1>12, Zenon DEF Exact
<1> QED
  BY <1>7, <1>13, Zenon DEF RegOK, h, k, e

\* The registry when the handler of connection l has returned.
Ended(g, l) ==
    LET k == IF l \in DOMAIN g.entries THEN Release(g, l) ELSE g
    IN  [k EXCEPT !.conns = @ \ {l}, !.cancelled = @ \ {l}]

\* Registry h is g without the entry l; its counts are bc, bu and lv.
Left(g, l, h, bc, bu, lv) ==
    /\ DOMAIN h = Fields
    /\ h.entries = [i \in DOMAIN g.entries \ {l} |-> g.entries[i]]
    /\ h.live = lv /\ h.byCs = bc /\ h.byUser = bu
    /\ h.conns = g.conns \ {l} /\ h.cancelled = g.cancelled \ {l}
    /\ h.sessions = g.sessions /\ h.nextLive = g.nextLive

\* The end of a connection that is counted with its session: every field.
LEMMA EndedFields ==
    ASSUME NEW g, Shape(g), NEW l \in DOMAIN g.entries, NEW e, e = g.entries[l],
           e.cs \in Codespaces, e.session # 0
    PROVE  Left(g, l, Ended(g, l), g.byCs, g.byUser, [g.live EXCEPT ![e.cs] = Less(g.live[e.cs], 1)])
<1> DEFINE k == Release(g, l)
           es == Restrict(g.entries, DOMAIN g.entries \ {l})
           lv == [g.live EXCEPT ![e.cs] = Less(g.live[e.cs], 1)]
           h == [k EXCEPT !.conns = @ \ {l}, !.cancelled = @ \ {l}]
<1>0. DOMAIN g = Fields /\ Ended(g, l) = h
  BY Zenon DEF Shape, Ended
<1>1. k = [[g EXCEPT !.entries = es] EXCEPT !.live = lv]
  BY Zenon, <1>0 DEF Release, Fields
<1>2. es = [i \in DOMAIN g.entries \ {l} |-> g.entries[i]]
  BY Zenon DEF Restrict
<1> HIDE DEF es, lv, k
<1>3. /\ DOMAIN k = Fields /\ k.entries = es /\ k.live = lv /\ k.byCs = g.byCs /\ k.byUser = g.byUser
      /\ k.conns = g.conns /\ k.cancelled = g.cancelled
      /\ k.sessions = g.sessions /\ k.nextLive = g.nextLive
  BY Zenon, <1>0, <1>1 DEF Fields
<1>4. /\ DOMAIN h = Fields /\ h.entries = es /\ h.live = lv /\ h.byCs = g.byCs /\ h.byUser = g.byUser
      /\ h.conns = g.conns \ {l} /\ h.cancelled = g.cancelled \ {l}
      /\ h.sessions = g.sessions /\ h.nextLive = g.nextLive
  BY Zenon, <1>3 DEF Fields
<1> QED
  BY <1>0, <1>2, <1>4, Zenon DEF Left, lv

\* The end of an SSH connection, which is counted by itself: every field.
LEMMA EndedSshFields ==
    ASSUME NEW g, Shape(g), NEW l \in DOMAIN g.entries, NEW e, e = g.entries[l],
           e.cs \in Codespaces, e.user \in Users, e.session = 0
    PROVE  Left(g, l, Ended(g, l), [g.byCs EXCEPT ![e.cs] = Less(g.byCs[e.cs], 1)],
                [g.byUser EXCEPT ![e.user] = Less(g.byUser[e.user], 1)],
                [g.live EXCEPT ![e.cs] = Less(g.live[e.cs], 1)])
<1> DEFINE d == DecrementCount(g, e.user, e.cs)
           k == Release(g, l)
           bc == [g.byCs EXCEPT ![e.cs] = Less(g.byCs[e.cs], 1)]
           bu == [g.byUser EXCEPT ![e.user] = Less(g.byUser[e.user], 1)]
           h == [k EXCEPT !.conns = @ \ {l}, !.cancelled = @ \ {l}]
<1>0. DOMAIN g = Fields /\ Ended(g, l) = h
  BY Zenon DEF Shape, Ended
<1>1. d = [[g EXCEPT !.byCs = bc] EXCEPT !.byUser = bu]
  BY Zenon, <1>0 DEF DecrementCount, Fields
<1>2. k = [d EXCEPT !.entries = Restrict(@, DOMAIN @ \ {l}), !.live[e.cs] = Less(@, 1)]
  BY Zenon DEF Release
<1> HIDE DEF bc, bu, d, k
<1>3. /\ DOMAIN d = Fields /\ d.entries = g.entries /\ d.live = g.live /\ d.byCs = bc /\ d.byUser = bu
      /\ d.conns = g.conns /\ d.cancelled = g.cancelled
      /\ d.sessions = g.sessions /\ d.nextLive = g.nextLive
  BY Zenon, <1>0, <1>1 DEF Fields
<1> DEFINE es == Restrict(g.entries, DOMAIN g.entries \ {l})
           lv == [g.live EXCEPT ![e.cs] = Less(g.live[e.cs], 1)]
<1>4. k = [[d EXCEPT !.entries = es] EXCEPT !.live = lv]
  BY Zenon, <1>2, <1>3 DEF Fields
<1>5. es = [i \in DOMAIN g.entries \ {l} |-> g.entries[i]]
  BY Zenon DEF Restrict
<1> HIDE DEF es, lv
<1>6. /\ DOMAIN k = Fields /\ k.entries = es /\ k.live = lv /\ k.byCs = bc /\ k.byUser = bu
      /\ k.conns = g.conns /\ k.cancelled = g.cancelled
      /\ k.sessions = g.sessions /\ k.nextLive = g.nextLive
  BY Zenon, <1>3, <1>4 DEF Fields
<1>7. /\ DOMAIN h = Fields /\ h.entries = es /\ h.live = lv /\ h.byCs = bc /\ h.byUser = bu
      /\ h.conns = g.conns \ {l} /\ h.cancelled = g.cancelled \ {l}
      /\ h.sessions = g.sessions /\ h.nextLive = g.nextLive
  BY Zenon, <1>6 DEF Fields
<1> QED
  BY <1>0, <1>5, <1>7, Zenon DEF Left, lv, bc, bu

\* The sets that are counted, after a connection that had an entry.
LEMMA LeftSets ==
    ASSUME NEW g, NEW l \in DOMAIN g.entries, NEW h, NEW bc, NEW bu, NEW lv,
           Left(g, l, h, bc, bu, lv), NEW e, e = g.entries[l], NEW c
    PROVE  /\ InCs(h, c) = InCs(g, c) /\ OfUser(h, c) = OfUser(g, c)
           /\ LiveIn(h, c) = LiveIn(g, c) \ {l} /\ (c = e.cs <=> l \in LiveIn(g, c))
           /\ SshIn(h, c) = SshIn(g, c) \ {l} /\ (e.session = 0 /\ c = e.cs <=> l \in SshIn(g, c))
           /\ SshBy(h, c) = SshBy(g, c) \ {l} /\ (e.session = 0 /\ c = e.user <=> l \in SshBy(g, c))
<1>1. h.entries = [i \in DOMAIN g.entries \ {l} |-> g.entries[i]] /\ h.sessions = g.sessions
  BY Zenon DEF Left
<1>2. InCs(h, c) = InCs(g, c) /\ OfUser(h, c) = OfUser(g, c)
  BY <1>1, Zenon DEF InCs, OfUser
<1>3. LiveIn(h, c) = LiveIn(g, c) \ {l} /\ (c = e.cs <=> l \in LiveIn(g, c))
  BY Zenon, <1>1 DEF LiveIn
<1>4. SshIn(h, c) = SshIn(g, c) \ {l} /\ (e.session = 0 /\ c = e.cs <=> l \in SshIn(g, c))
  BY Zenon, <1>1 DEF SshIn, Ssh
<1>5. SshBy(h, c) = SshBy(g, c) \ {l} /\ (e.session = 0 /\ c = e.user <=> l \in SshBy(g, c))
  BY Zenon, <1>1 DEF SshBy, Ssh
<1> QED
  BY <1>2, <1>3, <1>4, <1>5, Zenon

\* One element less is one less; an element that is not there changes nothing.
LEMMA OneLess ==
    ASSUME NEW S, IsFiniteSet(S), NEW x
    PROVE  /\ x \in S => Cardinality(S \ {x}) = Cardinality(S) - 1 /\ Cardinality(S) >= 1
           /\ x \notin S => S \ {x} = S
           /\ Cardinality(S) \in Nat /\ Cardinality(S \ {x}) \in Nat /\ IsFiniteSet(S \ {x})
<1>1. Cardinality(S) \in Nat /\ IsFiniteSet(S \ {x})
  BY Zenon, FS_CardinalityType, FS_RemoveElement
<1>2. Cardinality(S \ {x}) \in Nat
  BY Zenon, <1>1, FS_CardinalityType
<1>3. ASSUME x \in S PROVE Cardinality(S \ {x}) = Cardinality(S) - 1 /\ Cardinality(S) >= 1
  BY <1>1, <1>2, <1>3, FS_RemoveElement
<1> QED
  BY Zenon, <1>1, <1>2, <1>3

\* Less of one, pointwise.
LEMMA OneDown ==
    ASSUME NEW S, NEW f \in [S -> Nat], NEW x \in S
    PROVE  /\ [f EXCEPT ![x] = Less(f[x], 1)] \in [S -> Nat]
           /\ \A y \in S : [f EXCEPT ![x] = Less(f[x], 1)][y] = IF y = x THEN Less(f[x], 1) ELSE f[y]
<1>1. Less(f[x], 1) \in Nat
  BY DEF Less
<1> QED
  BY Zenon, <1>1

\* The handler of a connection returns: the registry stays right.
LEMMA EndOK ==
    ASSUME NEW g, NEW T, RegOK(g, T), NEW l \in g.conns
    PROVE  RegOK(Ended(g, l), T)
<1> DEFINE h == Ended(g, l)
<1>1. Shape(g) /\ Exact(g) /\ Known(g, T)
  BY Zenon DEF RegOK
<1>2. /\ DOMAIN g = Fields /\ g.live \in [Codespaces -> Nat]
      /\ g.byCs \in [Codespaces -> Nat] /\ g.byUser \in [Users -> Nat]
      /\ g.nextLive \in Nat /\ DOMAIN g.entries = g.conns \ g.cancelled
      /\ \A i \in g.conns \cup g.cancelled : i \in Nat /\ i <= g.nextLive
      /\ IsFiniteSet(DOMAIN g.entries) /\ IsFiniteSet(DOMAIN g.sessions)
  BY <1>1, Zenon DEF Shape
<1>3. CASE l \notin DOMAIN g.entries
  <2>1. h = [g EXCEPT !.conns = @ \ {l}, !.cancelled = @ \ {l}]
    BY <1>3, Zenon DEF Ended
  <2> HIDE DEF h
  <2>2. /\ DOMAIN h = Fields /\ h.entries = g.entries /\ h.live = g.live
        /\ h.byCs = g.byCs /\ h.byUser = g.byUser
        /\ h.conns = g.conns \ {l} /\ h.cancelled = g.cancelled \ {l}
        /\ h.sessions = g.sessions /\ h.nextLive = g.nextLive
    BY Zenon, <1>2, <2>1 DEF Fields
  <2>3. DOMAIN h.entries = h.conns \ h.cancelled
    BY Zenon, <1>2, <1>3, <2>2
  <2>4. Shape(h)
    BY <1>2, <2>2, <2>3, Zenon DEF Shape
  <2>5. Known(h, T)
    BY <1>1, <2>2, Zenon DEF Known
  <2>6. Exact(h)
    <3>1. ASSUME NEW c
          PROVE  InCs(h, c) = InCs(g, c) /\ OfUser(h, c) = OfUser(g, c) /\ SshIn(h, c) = SshIn(g, c)
                 /\ SshBy(h, c) = SshBy(g, c) /\ LiveIn(h, c) = LiveIn(g, c)
      BY <2>2, Zenon DEF InCs, OfUser, SshIn, SshBy, LiveIn, Ssh
    <3> QED
      BY <1>1, <2>2, <3>1, Zenon DEF Exact
  <2> QED
    BY <2>4, <2>5, <2>6, Zenon DEF RegOK, h
<1>4. CASE l \in DOMAIN g.entries
  <2> DEFINE e == g.entries[l]
             ssh == e.session = 0
             bc == IF ssh THEN [g.byCs EXCEPT ![e.cs] = Less(g.byCs[e.cs], 1)] ELSE g.byCs
             bu == IF ssh THEN [g.byUser EXCEPT ![e.user] = Less(g.byUser[e.user], 1)] ELSE g.byUser
             lv == [g.live EXCEPT ![e.cs] = Less(g.live[e.cs], 1)]
  <2>1. e.cs \in Codespaces /\ (ssh => e.user \in Users)
    BY <1>1, <1>4, Zenon DEF Known, SessionOf, EntryOf
  <2>2. Left(g, l, h, bc, bu, lv)
    <3>1. CASE ssh
      BY <1>1, <1>4, <2>1, <3>1, EndedSshFields, Zenon
    <3>2. CASE ~ssh
      BY <1>1, <1>4, <2>1, <3>2, EndedFields, Zenon
    <3> QED
      BY <3>1, <3>2, Zenon
  <2>3. /\ lv \in [Codespaces -> Nat]
        /\ \A c \in Codespaces : lv[c] = IF c = e.cs THEN Less(g.live[c], 1) ELSE g.live[c]
    BY <1>2, <2>1, OneDown
  <2>4. /\ bc \in [Codespaces -> Nat]
        /\ \A c \in Codespaces : bc[c] = IF ssh /\ c = e.cs THEN Less(g.byCs[c], 1) ELSE g.byCs[c]
    BY Zenon, <1>2, <2>1, OneDown
  <2>5. /\ bu \in [Users -> Nat]
        /\ \A u \in Users : bu[u] = IF ssh /\ u = e.user THEN Less(g.byUser[u], 1) ELSE g.byUser[u]
    BY Zenon, <1>2, <2>1, OneDown
  <2> HIDE DEF bc, bu, lv, h, e
  <2>6. /\ DOMAIN h = Fields
        /\ h.entries = [i \in DOMAIN g.entries \ {l} |-> g.entries[i]]
        /\ h.live = lv /\ h.byCs = bc /\ h.byUser = bu
        /\ h.conns = g.conns \ {l} /\ h.cancelled = g.cancelled \ {l}
        /\ h.sessions = g.sessions /\ h.nextLive = g.nextLive
    BY <2>2, Zenon DEF Left
  <2>7. /\ DOMAIN h.entries = DOMAIN g.entries \ {l}
        /\ \A i \in DOMAIN h.entries : h.entries[i] = g.entries[i]
    BY <2>6, Zenon
  <2>8. Known(h, T)
    BY <1>1, <2>6, <2>7, Zenon DEF Known
  <2>9. Shape(h)
    <3>1. DOMAIN h.entries = h.conns \ h.cancelled
      BY <1>2, <1>4, <2>6, <2>7, Zenon
    <3>2. IsFiniteSet(DOMAIN h.entries)
      <4>1. IsFiniteSet(DOMAIN g.entries)
        BY <1>2, Zenon
      <4>2. IsFiniteSet(DOMAIN g.entries \ {l})
        BY <4>1, OneLess, Zenon
      <4> QED
        BY <4>2, <2>7, Zenon
    <3> QED
      BY <1>2, <2>3, <2>4, <2>5, <2>6, <3>1, <3>2, Zenon DEF Shape
  <2>10. \A c : /\ InCs(h, c) = InCs(g, c) /\ OfUser(h, c) = OfUser(g, c)
                /\ LiveIn(h, c) = LiveIn(g, c) \ {l} /\ (c = e.cs <=> l \in LiveIn(g, c))
                /\ SshIn(h, c) = SshIn(g, c) \ {l} /\ (ssh /\ c = e.cs <=> l \in SshIn(g, c))
                /\ SshBy(h, c) = SshBy(g, c) \ {l} /\ (ssh /\ c = e.user <=> l \in SshBy(g, c))
    BY <1>4, <2>2, LeftSets DEF e
  <2> HIDE DEF ssh
  <2>11. ASSUME NEW c \in Codespaces
         PROVE  /\ h.byCs[c] <= MaxPerCodespace
                /\ h.byCs[c] = Cardinality(InCs(h, c)) + Cardinality(SshIn(h, c))
                /\ h.live[c] = Cardinality(LiveIn(h, c))
    <3>1. /\ g.byCs[c] <= MaxPerCodespace
          /\ g.byCs[c] = Cardinality(InCs(g, c)) + Cardinality(SshIn(g, c))
          /\ g.live[c] = Cardinality(LiveIn(g, c))
      BY <1>1, Zenon DEF Exact
    <3>2. /\ IsFiniteSet(SshIn(g, c)) /\ IsFiniteSet(LiveIn(g, c)) /\ Cardinality(InCs(g, c)) \in Nat
          /\ MaxPerCodespace \in Nat
      BY Zenon, <1>1, Finite, GatewaySessionConstants
    <3>3. h.live[c] = Cardinality(LiveIn(h, c))
      <4>1. h.live[c] = IF l \in LiveIn(g, c) THEN Less(g.live[c], 1) ELSE g.live[c]
        BY <2>3, <2>6, <2>10, Zenon
      <4>2. /\ l \in LiveIn(g, c) =>
                 Cardinality(LiveIn(h, c)) = Cardinality(LiveIn(g, c)) - 1 /\ Cardinality(LiveIn(g, c)) >= 1
            /\ l \notin LiveIn(g, c) => LiveIn(h, c) = LiveIn(g, c)
            /\ Cardinality(LiveIn(g, c)) \in Nat
        BY <3>2, <2>10, OneLess, Zenon
      <4> QED
        BY <3>1, <4>1, <4>2 DEF Less
    <3>4. h.byCs[c] = IF l \in SshIn(g, c) THEN Less(g.byCs[c], 1) ELSE g.byCs[c]
      BY <2>4, <2>6, <2>10, Zenon
    <3>5. /\ l \in SshIn(g, c) =>
               Cardinality(SshIn(h, c)) = Cardinality(SshIn(g, c)) - 1 /\ Cardinality(SshIn(g, c)) >= 1
          /\ l \notin SshIn(g, c) => SshIn(h, c) = SshIn(g, c)
          /\ Cardinality(SshIn(g, c)) \in Nat
      BY <3>2, <2>10, OneLess, Zenon
    <3>6. InCs(h, c) = InCs(g, c)
      BY <2>10, Zenon
    <3> QED
      BY <3>1, <3>2, <3>3, <3>4, <3>5, <3>6 DEF Less
  <2>12. ASSUME NEW u \in Users
         PROVE  /\ h.byUser[u] <= MaxPerUser
                /\ h.byUser[u] = Cardinality(OfUser(h, u)) + Cardinality(SshBy(h, u))
    <3>1. /\ g.byUser[u] <= MaxPerUser
          /\ g.byUser[u] = Cardinality(OfUser(g, u)) + Cardinality(SshBy(g, u))
      BY <1>1, Zenon DEF Exact
    <3>2. IsFiniteSet(SshBy(g, u)) /\ Cardinality(OfUser(g, u)) \in Nat /\ MaxPerUser \in Nat
      BY Zenon, <1>1, Finite, GatewaySessionConstants
    <3>4. h.byUser[u] = IF l \in SshBy(g, u) THEN Less(g.byUser[u], 1) ELSE g.byUser[u]
      BY <2>5, <2>6, <2>10, Zenon
    <3>5. /\ l \in SshBy(g, u) =>
               Cardinality(SshBy(h, u)) = Cardinality(SshBy(g, u)) - 1 /\ Cardinality(SshBy(g, u)) >= 1
          /\ l \notin SshBy(g, u) => SshBy(h, u) = SshBy(g, u)
          /\ Cardinality(SshBy(g, u)) \in Nat
      BY <3>2, <2>10, OneLess, Zenon
    <3>6. OfUser(h, u) = OfUser(g, u)
      BY <2>10, Zenon
    <3> QED
      BY <3>1, <3>2, <3>4, <3>5, <3>6 DEF Less
  <2>13. Exact(h)
    BY <2>11, <2>12, Zenon DEF Exact
  <2> QED
    BY <2>8, <2>9, <2>13, Zenon DEF RegOK, h
<1> QED
  BY <1>3, <1>4, Zenon

-----------------------------------------------------------------------------
\* No session's tickets outlive what its use allows.
TicketsOK ==
    /\ now \in Nat \ {0}
    /\ \E n \in Nat : DOMAIN tickets = 1 .. n
    /\ DOMAIN born = DOMAIN tickets /\ DOMAIN used = DOMAIN tickets
    /\ \A id \in DOMAIN tickets :
         /\ tickets[id].b \in Bindings /\ born[id] \in Nat /\ used[id] \in Nat
         /\ tickets[id].expires = born[id] + TTL /\ tickets[id].idle \in Nat
         /\ tickets[id].idle <= IF used[id] = 0 THEN born[id] + Connect ELSE used[id] + Idle

\* A request that was authenticated is of a session that had a ticket.
PendingOK ==
    /\ DOMAIN pending = Replicas
    /\ \A r \in Replicas : \A p \in pending[r] :
         p.session \in DOMAIN tickets /\ p.cs = tickets[p.session].b.cs

RegsOK == DOMAIN reg = Replicas /\ \A r \in Replicas : RegOK(reg[r], tickets)

SessionsIInv == TicketsOK /\ PendingOK /\ RegsOK

\* The connections of the sessions that h has no more are not in h.
Cut(g, h) ==
    \A id \in DOMAIN g.sessions \ DOMAIN h.sessions :
      \A l \in DOMAIN g.entries : g.entries[l].session = id => l \notin DOMAIN h.entries

Cuts == \A r \in Replicas : Cut(reg[r], reg'[r])

\* A session is used while neither its lifetime nor its idle timeout is over.
InTime(id) ==
    /\ now <= born[id] + TTL
    /\ now <= IF used[id] = 0 THEN born[id] + Connect ELSE used[id] + Idle

UsedInTime == \A id \in DOMAIN used : used'[id] # used[id] => InTime(id)

\* Tickets U know of every session what T knew.
Grown(T, U) ==
    \A id \in DOMAIN T : id \in DOMAIN U /\ U[id].b = T[id].b /\ U[id].expires = T[id].expires

\* A registry that is right for T is right for more tickets.
LEMMA RegGrown ==
    ASSUME NEW g, NEW T, NEW U, RegOK(g, T), Grown(T, U)
    PROVE  RegOK(g, U)
<1>1. Known(g, T)
  BY Zenon DEF RegOK
<1>2. Known(g, U)
  BY <1>1, Zenon DEF Known, Grown, SessionOf, EntryOf
<1> QED
  BY <1>2, Zenon DEF RegOK

\* Sessions that go in two steps go with their entries.
LEMMA FewerStill ==
    ASSUME NEW g, NEW h, NEW k, Fewer(g, h), Fewer(h, k)
    PROVE  Fewer(g, k)
BY Zenon DEF Fewer

\* What follows a deletion keeps the sessions that are left and brings no
\* entry back.
LEMMA CutAfter ==
    ASSUME NEW g, NEW h, NEW k, Fewer(g, h), DOMAIN h.sessions \subseteq DOMAIN k.sessions,
           \A l \in DOMAIN g.entries : l \in DOMAIN k.entries => l \in DOMAIN h.entries
    PROVE  Cut(g, k)
BY Zenon DEF Fewer, Cut

\* A registry is fewer than itself.
LEMMA FewerSame == ASSUME NEW g PROVE Fewer(g, g)
BY Zenon DEF Fewer

\* A step that changes the registry of one replica.
LEMMA OneReplica ==
    ASSUME RegsOK, NEW r \in Replicas, NEW h, reg' = [reg EXCEPT ![r] = h],
           RegOK(h, tickets'), Grown(tickets, tickets'), Cut(reg[r], h)
    PROVE  RegsOK' /\ Cuts
<1>1. DOMAIN reg = Replicas /\ \A q \in Replicas : RegOK(reg[q], tickets)
  BY Zenon DEF RegsOK
<1>2. DOMAIN reg' = Replicas /\ \A q \in Replicas : reg'[q] = IF q = r THEN h ELSE reg[q]
  BY Zenon, <1>1
<1>3. \A q \in Replicas : RegOK(reg'[q], tickets')
  BY <1>1, <1>2, RegGrown, Zenon
<1>4. \A q \in Replicas : Cut(reg[q], reg[q])
  BY Zenon DEF Cut
<1> QED
  BY <1>2, <1>3, <1>4, Zenon DEF RegsOK, Cuts

\* A step that changes registries and requests at most.
LEMMA NoTicket ==
    ASSUME SessionsIInv, RegsOK', PendingOK', Cuts, UNCHANGED <<now, tickets, born, used>>
    PROVE  SessionsIInv' /\ Cuts /\ UsedInTime
<1>1. TicketsOK'
  BY Zenon DEF SessionsIInv, TicketsOK
<1>2. UsedInTime
  BY Zenon DEF UsedInTime
<1> QED
  BY <1>1, <1>2, Zenon DEF SessionsIInv

\* The same when requests do not change either.
LEMMA RegistryOnly ==
    ASSUME SessionsIInv, NEW r \in Replicas, NEW h, reg' = [reg EXCEPT ![r] = h],
           RegOK(h, tickets), Cut(reg[r], h), UNCHANGED <<now, tickets, born, used, pending>>
    PROVE  SessionsIInv' /\ Cuts /\ UsedInTime
<1>1. Grown(tickets, tickets')
  BY Zenon DEF Grown
<1>2. RegsOK' /\ Cuts
  BY <1>1, OneReplica, Zenon DEF SessionsIInv
<1>3. PendingOK'
  BY Zenon DEF SessionsIInv, PendingOK
<1> QED
  BY <1>2, <1>3, NoTicket, Zenon

\* Session ids are not 0.
LEMMA IdsPositive == ASSUME TicketsOK PROVE 0 \notin DOMAIN tickets /\ IsFiniteSet(DOMAIN tickets)
<1>1. PICK n \in Nat : DOMAIN tickets = 1 .. n
  BY Zenon DEF TicketsOK
<1>2. IsFiniteSet(1 .. n)
  BY <1>1, FS_Interval
<1> QED
  BY <1>1, <1>2

\* dropExpiredSessionsLocked.
LEMMA Dropped ==
    ASSUME SessionsIInv, NEW r \in Replicas
    PROVE  RegOK(DropExpired(reg[r]), tickets) /\ Fewer(reg[r], DropExpired(reg[r]))
<1>1. RegOK(reg[r], tickets) /\ 0 \notin DOMAIN tickets
  BY IdsPositive, Zenon DEF SessionsIInv, RegsOK
<1> QED
  BY <1>1, DeletedAll, Zenon DEF DropExpired

\* Activity: the report drops what has expired.
LEMMA ActivityStep ==
    ASSUME SessionsIInv, NEW r \in Replicas, Activity(r)
    PROVE  SessionsIInv' /\ Cuts /\ UsedInTime
<1> DEFINE h == DropExpired(reg[r])
<1>1. RegOK(h, tickets) /\ Fewer(reg[r], h)
  BY Dropped, Zenon
<1>2. Cut(reg[r], h)
  BY <1>1, CutAfter, Zenon
<1>3. reg' = [reg EXCEPT ![r] = h] /\ UNCHANGED <<now, tickets, born, used, pending>>
  BY Zenon DEF Activity
<1> QED
  BY <1>1, <1>2, <1>3, RegistryOnly, Zenon

\* DeleteEndpoint: the sessions of the endpoint go with their connections.
LEMMA DeleteEndpointStep ==
    ASSUME SessionsIInv, NEW r \in Replicas, NEW cs, NEW ep, DeleteEndpoint(r, cs, ep)
    PROVE  SessionsIInv' /\ Cuts /\ UsedInTime
<1> DEFINE h == DeleteSessionsAndLive(reg[r], SessionsOf(reg[r], cs, ep))
<1>0. RegOK(reg[r], tickets) /\ 0 \notin DOMAIN tickets
  BY IdsPositive, Zenon DEF SessionsIInv, RegsOK
<1>1. RegOK(h, tickets) /\ Fewer(reg[r], h)
  BY <1>0, DeletedAll, Zenon
<1>2. Cut(reg[r], h)
  BY <1>1, CutAfter, Zenon
<1>3. reg' = [reg EXCEPT ![r] = h] /\ UNCHANGED <<now, tickets, born, used, pending>>
  BY Zenon DEF DeleteEndpoint
<1> QED
  BY <1>1, <1>2, <1>3, RegistryOnly, Zenon

\* End: the release removes the entry that its beginning added.
LEMMA EndStep ==
    ASSUME SessionsIInv, NEW r \in Replicas, NEW l \in reg[r].conns, End(r, l)
    PROVE  SessionsIInv' /\ Cuts /\ UsedInTime
<1> DEFINE g == reg[r]
           h == Ended(g, l)
<1>1. RegOK(g, tickets)
  BY Zenon DEF SessionsIInv, RegsOK
<1>2. RegOK(h, tickets)
  BY <1>1, EndOK, Zenon
<1>3. reg' = [reg EXCEPT ![r] = h] /\ UNCHANGED <<now, tickets, born, used, pending>>
  BY Zenon DEF End, Ended
<1>4. DOMAIN h.sessions = DOMAIN g.sessions
  <2>1. DOMAIN g = Fields
    BY <1>1, Zenon DEF RegOK, Shape
  <2>2. \A k : DOMAIN k = Fields =>
          [k EXCEPT !.conns = @ \ {l}, !.cancelled = @ \ {l}].sessions = k.sessions
    BY Zenon DEF Fields
  <2>3. DOMAIN Release(g, l) = Fields /\ Release(g, l).sessions = g.sessions
    BY Zenon, <2>1 DEF Release, DecrementCount, Fields
  <2> QED
    BY <2>1, <2>2, <2>3, Zenon DEF Ended
<1>5. Cut(g, h)
  BY <1>4, Zenon DEF Cut
<1> QED
  BY <1>2, <1>3, <1>5, RegistryOnly, Zenon

\* BeginSSHSession: an SSH connection is counted where there is room.
LEMMA BeginSSHStep ==
    ASSUME SessionsIInv, NEW r \in Replicas, NEW b \in Bindings, BeginSSHSession(r, b.user, b.cs)
    PROVE  SessionsIInv' /\ Cuts /\ UsedInTime
<1> DEFINE g == DropExpired(reg[r])
           k == IncrementCount(g, b.user, b.cs)
           e == [session |-> 0, cs |-> b.cs, user |-> b.user]
           h == IF CanAdd(g, b.user, b.cs) THEN Begin(k, e) ELSE g
<1>0. b.user \in Users /\ b.cs \in Codespaces
  BY Zenon DEF Users, Codespaces
<1>1. RegOK(g, tickets) /\ Fewer(reg[r], g)
  BY Dropped, Zenon
<1>2. reg' = [reg EXCEPT ![r] = h] /\ UNCHANGED <<now, tickets, born, used, pending>>
  BY Zenon DEF BeginSSHSession
<1> HIDE DEF g
<1>3. CASE CanAdd(g, b.user, b.cs)
  <2>1. RegOK(Begin(k, e), tickets)
    BY <1>0, <1>1, <1>3, BeginSshOK, Zenon
  <2>2. /\ DOMAIN g = Fields /\ g.live \in [Codespaces -> Nat]
        /\ g.byCs \in [Codespaces -> Nat] /\ g.byUser \in [Users -> Nat]
    BY <1>1, Zenon DEF RegOK, Shape
  <2>3. /\ DOMAIN k = Fields
        /\ k.byCs = [g.byCs EXCEPT ![b.cs] = g.byCs[b.cs] + 1]
        /\ k.byUser = [g.byUser EXCEPT ![b.user] = g.byUser[b.user] + 1]
        /\ k.sessions = g.sessions /\ k.entries = g.entries /\ k.live = g.live
        /\ k.nextLive = g.nextLive /\ k.conns = g.conns /\ k.cancelled = g.cancelled
    BY <1>0, <2>2, IncrementedFields
  <2> DEFINE f == Begin(k, e)
  <2>4. e.cs \in Codespaces
    BY Zenon, <1>0
  <2> HIDE DEF k, e
  <2>5. f.sessions = k.sessions /\ DOMAIN f.entries = DOMAIN k.entries \cup {k.nextLive + 1}
    <3>1. k.live \in [Codespaces -> Nat]
      BY <2>2, <2>3, Zenon
    <3>2. Begun(k, e, f)
      BY <2>3, <2>4, <3>1, BegunFields, Zenon
    <3> QED
      BY <3>2, Zenon DEF Begun
  <2> HIDE DEF f
  <2>6. g.nextLive = reg[r].nextLive /\ g.nextLive + 1 \notin DOMAIN reg[r].entries
    <3>1. /\ reg[r].nextLive \in Nat /\ DOMAIN reg[r].entries = reg[r].conns \ reg[r].cancelled
          /\ \A i \in reg[r].conns \cup reg[r].cancelled : i \in Nat /\ i <= reg[r].nextLive
      BY Zenon DEF SessionsIInv, RegsOK, RegOK, Shape
    <3>2. g.nextLive = reg[r].nextLive
      BY <1>1, Zenon DEF Fewer
    <3> QED
      BY <3>1, <3>2
  <2>7. Cut(reg[r], f)
    <3>1. DOMAIN g.sessions \subseteq DOMAIN f.sessions
      BY <2>3, <2>5, Zenon
    <3>2. \A l \in DOMAIN reg[r].entries : l \in DOMAIN f.entries => l \in DOMAIN g.entries
      BY <2>3, <2>5, <2>6, Zenon
    <3> QED
      BY <1>1, <3>1, <3>2, CutAfter, Zenon
  <2>8. h = f
    BY <1>3, Zenon DEF f
  <2> HIDE DEF h
  <2> QED
    BY <1>2, <2>1, <2>7, <2>8, RegistryOnly, Zenon DEF f
<1>4. CASE ~CanAdd(g, b.user, b.cs)
  <2>1. h = g
    BY <1>4, Zenon
  <2> HIDE DEF h
  <2>2. Cut(reg[r], g)
    BY <1>1, CutAfter, Zenon
  <2> QED
    BY <1>1, <1>2, <2>1, <2>2, RegistryOnly, Zenon
<1> QED
  BY <1>3, <1>4, Zenon

\* BeginSession: the connection is added for a session that is still there.
LEMMA BeginSessionStep ==
    ASSUME SessionsIInv, NEW r \in Replicas, NEW p \in pending[r], BeginSession(r, p)
    PROVE  SessionsIInv' /\ Cuts /\ UsedInTime
<1> DEFINE g == reg[r]
           e == [session |-> p.session, cs |-> p.cs, user |-> 0]
           h == Begin(g, e)
<1>0. e.session = p.session /\ e.cs = p.cs
  OBVIOUS
<1>1. /\ p.session \in DOMAIN tickets /\ p.cs = tickets[p.session].b.cs
      /\ tickets[p.session].b \in Bindings
  BY Zenon DEF SessionsIInv, PendingOK, TicketsOK
<1>2. p.session # 0 /\ p.cs \in Codespaces
  BY <1>1, IdsPositive, Zenon DEF SessionsIInv, Codespaces
<1>3. reg' = [reg EXCEPT ![r] = h] /\ pending' = [pending EXCEPT ![r] = @ \ {p}]
      /\ UNCHANGED <<now, tickets, born, used>>
  BY Zenon DEF BeginSession
<1>4. RegOK(g, tickets)
  BY Zenon DEF SessionsIInv, RegsOK
<1> HIDE DEF e
<1>5. EntryOf(e, tickets) /\ e.session # 0
  BY <1>0, <1>1, <1>2, Zenon DEF EntryOf
<1>6. RegOK(h, tickets)
  BY <1>4, <1>5, BeginOK, Zenon
<1>7. h.sessions = g.sessions
  <2>1. DOMAIN g = Fields /\ g.live \in [Codespaces -> Nat] /\ e.cs \in Codespaces
    BY <1>0, <1>2, <1>4, Zenon DEF RegOK, Shape
  <2>2. Begun(g, e, h)
    BY <2>1, BegunFields, Zenon
  <2> QED
    BY <2>2, Zenon DEF Begun
<1>8. Cut(g, h) /\ Grown(tickets, tickets')
  BY <1>3, <1>7, Zenon DEF Cut, Grown
<1>9. RegsOK' /\ Cuts
  BY <1>3, <1>6, <1>8, OneReplica, Zenon DEF SessionsIInv
<1>10. PendingOK'
  <2>1. DOMAIN pending' = Replicas /\ \A q \in Replicas : pending'[q] \subseteq pending[q]
    BY Zenon, <1>3 DEF SessionsIInv, PendingOK
  <2> QED
    BY <1>3, <2>1, Zenon DEF SessionsIInv, PendingOK
<1> QED
  BY <1>3, <1>9, <1>10, NoTicket, Zenon

\* A request whose session is gone is refused.
LEMMA RefusedStep ==
    ASSUME SessionsIInv, NEW r \in Replicas, NEW p \in pending[r], Refused(r, p)
    PROVE  SessionsIInv' /\ Cuts /\ UsedInTime
<1>1. pending' = [pending EXCEPT ![r] = @ \ {p}] /\ UNCHANGED <<now, tickets, born, used, reg>>
  BY Zenon DEF Refused
<1>2. PendingOK'
  <2>1. DOMAIN pending' = Replicas /\ \A q \in Replicas : pending'[q] \subseteq pending[q]
    BY Zenon, <1>1 DEF SessionsIInv, PendingOK
  <2> QED
    BY <1>1, <2>1, Zenon DEF SessionsIInv, PendingOK
<1>3. RegsOK' /\ Cuts
  BY <1>1, Zenon DEF SessionsIInv, RegsOK, Cuts, Cut
<1> QED
  BY <1>1, <1>2, <1>3, NoTicket, Zenon

\* A process that starts has counted nothing.
LEMMA NewOK == ASSUME NEW T PROVE RegOK(NewRegistry, T)
<1> DEFINE g == NewRegistry
<1>1. /\ DOMAIN g = Fields /\ DOMAIN g.sessions = {} /\ DOMAIN g.entries = {}
      /\ g.live = [c \in Codespaces |-> 0] /\ g.byCs = [c \in Codespaces |-> 0]
      /\ g.byUser = [u \in Users |-> 0] /\ g.nextLive = 0 /\ g.conns = {} /\ g.cancelled = {}
  BY DEF NewRegistry, Fields
<1> HIDE DEF g
<1>2. IsFiniteSet({}) /\ Cardinality({}) = 0
  BY Zenon, FS_EmptySet
<1>3. ASSUME NEW c
      PROVE  InCs(g, c) = {} /\ OfUser(g, c) = {} /\ SshIn(g, c) = {}
             /\ SshBy(g, c) = {} /\ LiveIn(g, c) = {}
  BY Zenon, <1>1 DEF InCs, OfUser, SshIn, SshBy, LiveIn, Ssh
<1>4. Exact(g)
  <2>1. 0 <= MaxPerCodespace /\ 0 <= MaxPerUser /\ 0 = 0 + 0
    BY GatewaySessionConstants
  <2>2. \A c \in Codespaces : g.byCs[c] = 0 /\ g.live[c] = 0
    BY Zenon, <1>1
  <2>3. \A u \in Users : g.byUser[u] = 0
    BY Zenon, <1>1
  <2> QED
    BY <1>2, <1>3, <2>1, <2>2, <2>3, Zenon DEF Exact
<1>5. Shape(g)
  <2>1. /\ g.live \in [Codespaces -> Nat] /\ g.byCs \in [Codespaces -> Nat]
        /\ g.byUser \in [Users -> Nat] /\ g.nextLive \in Nat
    BY <1>1
  <2> QED
    BY Zenon, <1>1, <1>2, <2>1 DEF Shape
<1>6. Known(g, T)
  BY <1>1, Zenon DEF Known, SessionOf, EntryOf
<1> QED
  BY <1>4, <1>5, <1>6, Zenon DEF RegOK, g

\* A process that restarts loses its registry and its connections together.
LEMMA RestartStep ==
    ASSUME SessionsIInv, NEW r \in Replicas, Restart(r)
    PROVE  SessionsIInv' /\ Cuts /\ UsedInTime
<1>1. /\ reg' = [reg EXCEPT ![r] = NewRegistry] /\ pending' = [pending EXCEPT ![r] = {}]
      /\ UNCHANGED <<now, tickets, born, used>>
  BY Zenon DEF Restart
<1>2. RegOK(NewRegistry, tickets')
  BY NewOK, Zenon
<1>3. DOMAIN NewRegistry.entries = {}
  BY DEF NewRegistry
<1>4. Cut(reg[r], NewRegistry) /\ Grown(tickets, tickets')
  BY <1>1, <1>3, Zenon DEF Cut, Grown
<1>5. RegsOK' /\ Cuts
  BY <1>1, <1>2, <1>4, OneReplica, Zenon DEF SessionsIInv
<1>6. PendingOK'
  <2>1. DOMAIN pending' = Replicas /\ \A q \in Replicas : pending'[q] \subseteq pending[q]
    BY Zenon, <1>1 DEF SessionsIInv, PendingOK
  <2> QED
    BY <1>1, <2>1, Zenon DEF SessionsIInv, PendingOK
<1> QED
  BY <1>1, <1>5, <1>6, NoTicket, Zenon

\* A tick changes no ticket.
LEMMA TimeStep ==
    ASSUME SessionsIInv, Tick
    PROVE  SessionsIInv' /\ Cuts /\ UsedInTime
<1>1. now' = now + 1 /\ UNCHANGED <<reg, tickets, pending, born, used>>
  BY Zenon DEF Tick
<1>2. now' \in Nat \ {0}
  BY <1>1 DEF SessionsIInv, TicketsOK
<1>3. TicketsOK'
  BY <1>1, <1>2, Zenon DEF SessionsIInv, TicketsOK
<1>4. PendingOK' /\ RegsOK' /\ Cuts
  BY <1>1, Zenon DEF SessionsIInv, PendingOK, RegsOK, Cuts, Cut
<1>5. UsedInTime
  BY <1>1, Zenon DEF UsedInTime
<1> QED
  BY <1>3, <1>4, <1>5, Zenon DEF SessionsIInv

\* issueTicket: until when the ticket of an established session is good.
LEMMA TicketOfUse ==
    ASSUME NEW s, s.established = TRUE, s.expires \in Nat, now \in Nat
    PROVE  LET t == IssueTicket(s)
           IN  /\ t.b = s.b /\ t.expires = s.expires /\ t.idle \in Nat /\ t.idle <= now + Idle
BY GatewaySessionConstants DEF IssueTicket, Least

\* issueTicket: until when the first ticket of a session is good.
LEMMA TicketOfOpening ==
    ASSUME NEW s, s.established = FALSE, s.expires \in Nat, now \in Nat
    PROVE  LET t == IssueTicket(s)
           IN  /\ t.b = s.b /\ t.expires = s.expires /\ t.idle \in Nat /\ t.idle <= now + Connect
BY GatewaySessionConstants DEF IssueTicket, Least

\* A new session's id is not an old one's.
LEMMA NewId ==
    ASSUME TicketsOK
    PROVE  LET id == Cardinality(DOMAIN tickets) + 1
           IN  /\ id \notin DOMAIN tickets
               /\ \E n \in Nat : DOMAIN tickets \cup {id} = 1 .. n
<1>1. PICK n \in Nat : DOMAIN tickets = 1 .. n
  BY Zenon DEF TicketsOK
<1>2. Cardinality(1 .. n) = n
  BY FS_Interval
<1>3. (1 .. n) \cup {n + 1} = 1 .. (n + 1) /\ n + 1 \in Nat /\ n + 1 \notin 1 .. n
  OBVIOUS
<1> QED
  BY Zenon, <1>1, <1>2, <1>3

\* CreateReplacingAny: the replaced sessions go, then the new one is counted where
\* there is room.
LEMMA CreateStep ==
    ASSUME SessionsIInv, NEW r \in Replicas, NEW b \in Bindings, NEW ids \in SUBSET Candidates(b),
           CreateReplacingAny(r, b, ids)
    PROVE  SessionsIInv' /\ Cuts /\ UsedInTime
<1> DEFINE d == DropExpired(reg[r])
           g == DeleteSessionsAndLive(d, ids)
           s == [b |-> b, created |-> now, lastActive |-> now, established |-> FALSE,
                 expires |-> now + TTL]
           id == Cardinality(DOMAIN tickets) + 1
           k == IncrementCount(g, b.user, b.cs)
           h == SetSession(k, id, s)
<1>0. TicketsOK /\ PendingOK /\ RegsOK
  BY Zenon DEF SessionsIInv
<1>1. RegOK(d, tickets) /\ Fewer(reg[r], d)
  BY Dropped, Zenon
<1>2. RegOK(g, tickets) /\ Fewer(d, g)
  BY <1>0, <1>1, IdsPositive, DeletedAll, Zenon
<1>3. Fewer(reg[r], g)
  BY <1>1, <1>2, FewerStill, Zenon
<1>4. Cut(reg[r], d) /\ Cut(reg[r], g)
  BY <1>1, <1>3, CutAfter, Zenon
<1>5. \/ reg' = [reg EXCEPT ![r] = d] /\ UNCHANGED <<now, tickets, born, used, pending>>
      \/ reg' = [reg EXCEPT ![r] = g] /\ UNCHANGED <<now, tickets, born, used, pending>>
      \/ /\ CanAdd(g, b.user, b.cs) /\ reg' = [reg EXCEPT ![r] = h]
         /\ tickets' = With(tickets, id, IssueTicket(s))
         /\ born' = With(born, id, now) /\ used' = With(used, id, 0)
         /\ UNCHANGED <<now, pending>>
  BY Zenon DEF CreateReplacingAny
<1>6. s.b = b /\ s.expires = now + TTL /\ s.established = FALSE
      /\ DOMAIN s = {"b", "created", "lastActive", "established", "expires"}
  OBVIOUS
<1> HIDE DEF d, g, s, id, k, h
<1>7. CASE reg' = [reg EXCEPT ![r] = d] /\ UNCHANGED <<now, tickets, born, used, pending>>
  BY <1>1, <1>4, <1>7, RegistryOnly, Zenon
<1>8. CASE reg' = [reg EXCEPT ![r] = g] /\ UNCHANGED <<now, tickets, born, used, pending>>
  BY <1>2, <1>4, <1>8, RegistryOnly, Zenon
<1>9. CASE /\ CanAdd(g, b.user, b.cs) /\ reg' = [reg EXCEPT ![r] = h]
           /\ tickets' = With(tickets, id, IssueTicket(s))
           /\ born' = With(born, id, now) /\ used' = With(used, id, 0)
           /\ UNCHANGED <<now, pending>>
  <2> DEFINE t == IssueTicket(s)
  <2>1. now \in Nat \ {0} /\ TTL \in Nat /\ Connect \in Nat /\ s.expires \in Nat
    BY SMTT(60), <1>0, <1>6, GatewaySessionConstants DEF TicketsOK
  <2>2. t.b = b /\ t.expires = now + TTL /\ t.idle \in Nat /\ t.idle <= now + Connect
    BY Zenon, <1>6, <2>1, TicketOfOpening
  <2> HIDE DEF t
  <2>3. id \notin DOMAIN tickets /\ \E n \in Nat : DOMAIN tickets \cup {id} = 1 .. n
    BY Zenon, <1>0, NewId DEF id
  <2>4. /\ DOMAIN tickets' = DOMAIN tickets \cup {id} /\ tickets'[id] = t
        /\ \A i \in DOMAIN tickets : tickets'[i] = tickets[i]
    BY Zenon, <1>9, <2>3 DEF With, t
  <2>5. /\ DOMAIN born' = DOMAIN tickets' /\ born'[id] = now
        /\ \A i \in DOMAIN tickets : born'[i] = born[i]
    BY Zenon, <1>0, <1>9, <2>3, <2>4 DEF With, TicketsOK
  <2>6. /\ DOMAIN used' = DOMAIN tickets' /\ used'[id] = 0
        /\ \A i \in DOMAIN tickets : used'[i] = used[i]
    BY Zenon, <1>0, <1>9, <2>3, <2>4 DEF With, TicketsOK
  <2>7. ASSUME NEW i \in DOMAIN tickets'
        PROVE  /\ tickets'[i].b \in Bindings /\ born'[i] \in Nat /\ used'[i] \in Nat
               /\ tickets'[i].expires = born'[i] + TTL /\ tickets'[i].idle \in Nat
               /\ tickets'[i].idle <= IF used'[i] = 0 THEN born'[i] + Connect ELSE used'[i] + Idle
    <3>1. CASE i = id
      BY SMTT(60), <2>1, <2>2, <2>4, <2>5, <2>6, <3>1
    <3>2. CASE i \in DOMAIN tickets
      BY <1>0, <2>4, <2>5, <2>6, <3>2, Zenon DEF TicketsOK
    <3> QED
      BY <2>4, <3>1, <3>2, Zenon
  <2>8. TicketsOK'
    BY <1>9, <2>1, <2>3, <2>4, <2>5, <2>6, <2>7, Zenon DEF TicketsOK
  <2>9. Grown(tickets, tickets')
    BY <2>4, Zenon DEF Grown
  <2>10. RegOK(g, tickets')
    BY <1>2, <2>9, RegGrown, Zenon
  <2>11. id \notin DOMAIN g.sessions
    BY <1>2, <2>3, Zenon DEF RegOK, Known, SessionOf, EntryOf
  <2>12. SessionOf(s, id, tickets') /\ tickets'[id].b = b /\ id \in DOMAIN tickets'
    BY <1>6, <2>2, <2>4, Zenon DEF SessionOf
  <2>13. RegOK(h, tickets')
    BY <1>9, <2>10, <2>11, <2>12, AddedOK, Zenon DEF h, k
  <2>14. Cut(reg[r], h)
    <3>0. b.user \in Users /\ b.cs \in Codespaces
      BY Zenon DEF Users, Codespaces
    <3>1. /\ DOMAIN g = Fields /\ g.byCs \in [Codespaces -> Nat] /\ g.byUser \in [Users -> Nat]
      BY <1>2, Zenon DEF RegOK, Shape
    <3>2. /\ DOMAIN k = Fields
          /\ k.byCs = [g.byCs EXCEPT ![b.cs] = g.byCs[b.cs] + 1]
          /\ k.byUser = [g.byUser EXCEPT ![b.user] = g.byUser[b.user] + 1]
          /\ k.sessions = g.sessions /\ k.entries = g.entries /\ k.live = g.live
          /\ k.nextLive = g.nextLive /\ k.conns = g.conns /\ k.cancelled = g.cancelled
      BY SMTT(60), <3>0, <3>1, IncrementedFields DEF k
    <3>3. DOMAIN h.sessions = DOMAIN k.sessions \cup {id} /\ h.entries = k.entries
      BY <3>2, SetFields DEF h
    <3>4. /\ DOMAIN g.sessions \subseteq DOMAIN h.sessions
          /\ \A l \in DOMAIN reg[r].entries : l \in DOMAIN h.entries => l \in DOMAIN g.entries
      BY <3>2, <3>3, Zenon
    <3> QED
      BY <1>3, <3>4, CutAfter, Zenon
  <2>15. RegsOK' /\ Cuts
    BY <1>0, <1>9, <2>9, <2>13, <2>14, OneReplica, Zenon
  <2>16. PendingOK'
    BY <1>0, <1>9, <2>4, Zenon DEF PendingOK
  <2>17. UsedInTime
    BY <1>0, <2>6, Zenon DEF UsedInTime, TicketsOK
  <2> QED
    BY <2>8, <2>15, <2>16, <2>17, Zenon DEF SessionsIInv
<1> QED
  BY <1>5, <1>7, <1>8, <1>9, Zenon

\* AuthenticateAny: a session is used, or restored from its ticket, within its
\* idle timeout; its next ticket is good for one more.
LEMMA AuthenticateStep ==
    ASSUME SessionsIInv, NEW r \in Replicas, NEW id \in DOMAIN tickets, AuthenticateAny(r, id)
    PROVE  SessionsIInv' /\ Cuts /\ UsedInTime
<1> DEFINE g == DropExpired(reg[r])
           t == tickets[id]
           known == id \in DOMAIN g.sessions
           s == [IF known THEN g.sessions[id]
                 ELSE [b |-> t.b, created |-> t.issued, expires |-> t.expires,
                       established |-> TRUE, lastActive |-> now]
                 EXCEPT !.established = TRUE, !.lastActive = now]
           k == IF known THEN g ELSE IncrementCount(g, t.b.user, t.b.cs)
           h == SetSession(k, id, s)
<1>0. TicketsOK /\ PendingOK /\ RegsOK
  BY Zenon DEF SessionsIInv
<1>1. RegOK(g, tickets) /\ Fewer(reg[r], g)
  BY Dropped, Zenon
<1>2. Cut(reg[r], g)
  BY <1>1, CutAfter, Zenon
<1>3. /\ Opens(id)
      /\ \/ reg' = [reg EXCEPT ![r] = g] /\ UNCHANGED <<now, tickets, born, used, pending>>
         \/ /\ known \/ CanAdd(g, t.b.user, t.b.cs)
            /\ reg' = [reg EXCEPT ![r] = h]
            /\ tickets' = [tickets EXCEPT ![id] = IssueTicket(s)]
            /\ pending' = [pending EXCEPT ![r] = @ \cup {[session |-> id, cs |-> t.b.cs]}]
            /\ used' = [used EXCEPT ![id] = now]
            /\ UNCHANGED <<now, born>>
  BY Zenon DEF AuthenticateAny
<1>4. /\ s.b = t.b /\ s.expires = t.expires /\ s.established = TRUE
      /\ DOMAIN s = {"b", "created", "lastActive", "established", "expires"}
  <2>1. CASE known
    <3>1. /\ DOMAIN g.sessions[id] = {"b", "created", "lastActive", "established", "expires"}
          /\ g.sessions[id].b = t.b /\ g.sessions[id].expires = t.expires
      BY <1>1, <2>1, Zenon DEF RegOK, Known, SessionOf, EntryOf
    <3>2. s = [[g.sessions[id] EXCEPT !.established = TRUE] EXCEPT !.lastActive = now]
      BY Zenon, <2>1, <3>1
    <3> HIDE DEF s
    <3> QED
      BY Zenon, <3>1, <3>2
  <2>2. CASE ~known
    BY Zenon, <2>2
  <2> QED
    BY <2>1, <2>2, Zenon
<1>5. InTime(id)
  <2>1. now <= tickets[id].expires /\ now <= tickets[id].idle
    BY <1>3, Zenon DEF Opens
  <2>2. /\ now \in Nat /\ born[id] \in Nat /\ used[id] \in Nat /\ tickets[id].idle \in Nat
        /\ tickets[id].expires = born[id] + TTL
        /\ tickets[id].idle <= IF used[id] = 0 THEN born[id] + Connect ELSE used[id] + Idle
    BY <1>0, Zenon DEF TicketsOK
  <2>3. Connect \in Nat /\ Idle \in Nat
    BY Zenon, GatewaySessionConstants
  <2> QED
    BY <2>1, <2>2, <2>3 DEF InTime
<1> HIDE DEF g, s, h
<1>6. CASE reg' = [reg EXCEPT ![r] = g] /\ UNCHANGED <<now, tickets, born, used, pending>>
  BY <1>1, <1>2, <1>6, RegistryOnly, Zenon
<1>7. CASE /\ known \/ CanAdd(g, t.b.user, t.b.cs)
           /\ reg' = [reg EXCEPT ![r] = h]
           /\ tickets' = [tickets EXCEPT ![id] = IssueTicket(s)]
           /\ pending' = [pending EXCEPT ![r] = @ \cup {[session |-> id, cs |-> t.b.cs]}]
           /\ used' = [used EXCEPT ![id] = now]
           /\ UNCHANGED <<now, born>>
  <2> DEFINE u == IssueTicket(s)
  <2>1. /\ now \in Nat \ {0} /\ TTL \in Nat /\ Idle \in Nat /\ t.expires \in Nat
        /\ t.b \in Bindings /\ t.expires = born[id] + TTL /\ born[id] \in Nat
    BY SMTT(60), <1>0, GatewaySessionConstants DEF TicketsOK
  <2>2. u.b = t.b /\ u.expires = t.expires /\ u.idle \in Nat /\ u.idle <= now + Idle
    BY Zenon, <1>4, <2>1, TicketOfUse
  <2> HIDE DEF u
  <2>3. /\ DOMAIN tickets' = DOMAIN tickets /\ tickets'[id] = u
        /\ \A i \in DOMAIN tickets : i # id => tickets'[i] = tickets[i]
    BY Zenon, <1>7 DEF u
  <2>4. /\ DOMAIN used' = DOMAIN tickets /\ used'[id] = now
        /\ \A i \in DOMAIN tickets : i # id => used'[i] = used[i]
    BY Zenon, <1>0, <1>7 DEF TicketsOK
  <2>5. ASSUME NEW i \in DOMAIN tickets'
        PROVE  /\ tickets'[i].b \in Bindings /\ born'[i] \in Nat /\ used'[i] \in Nat
               /\ tickets'[i].expires = born'[i] + TTL /\ tickets'[i].idle \in Nat
               /\ tickets'[i].idle <= IF used'[i] = 0 THEN born'[i] + Connect ELSE used'[i] + Idle
    <3>1. CASE i = id
      BY Zenon, <1>7, <2>1, <2>2, <2>3, <2>4, <3>1
    <3>2. CASE i # id
      BY <1>0, <1>7, <2>3, <2>4, <3>2, Zenon DEF TicketsOK
    <3> QED
      BY <3>1, <3>2, Zenon
  <2>6. TicketsOK'
    BY <1>0, <1>7, <2>1, <2>3, <2>4, <2>5, Zenon DEF TicketsOK
  <2>7. Grown(tickets, tickets')
    BY <2>2, <2>3, Zenon DEF Grown
  <2>8. RegOK(g, tickets')
    BY <1>1, <2>7, RegGrown, Zenon
  <2>9. SessionOf(s, id, tickets') /\ tickets'[id].b = t.b /\ id \in DOMAIN tickets'
    BY <1>4, <2>2, <2>3, Zenon DEF SessionOf
  <2>10. RegOK(h, tickets')
    <3>1. CASE known
      BY <2>8, <2>9, <3>1, SetKnown, Zenon DEF h
    <3>2. CASE ~known
      BY <1>7, <2>1, <2>8, <2>9, <3>2, AddedOK, Zenon DEF h
    <3> QED
      BY <3>1, <3>2, Zenon
  <2>11. Cut(reg[r], h)
    <3>1. DOMAIN k = Fields /\ k.sessions = g.sessions /\ k.entries = g.entries
      <4>0. t.b.user \in Users /\ t.b.cs \in Codespaces
        BY <2>1, Zenon DEF Users, Codespaces
      <4>1. /\ DOMAIN g = Fields /\ g.byCs \in [Codespaces -> Nat] /\ g.byUser \in [Users -> Nat]
        BY <1>1, ZenonT(60) DEF RegOK, Shape
      <4> DEFINE c == IncrementCount(g, t.b.user, t.b.cs)
      <4>2. /\ DOMAIN c = Fields
            /\ c.byCs = [g.byCs EXCEPT ![t.b.cs] = g.byCs[t.b.cs] + 1]
            /\ c.byUser = [g.byUser EXCEPT ![t.b.user] = g.byUser[t.b.user] + 1]
            /\ c.sessions = g.sessions /\ c.entries = g.entries /\ c.live = g.live
            /\ c.nextLive = g.nextLive /\ c.conns = g.conns /\ c.cancelled = g.cancelled
        BY SMTT(60), <4>0, <4>1, IncrementedFields
      <4> QED
        BY <4>1, <4>2, Zenon
    <3> HIDE DEF k
    <3>3. DOMAIN h.sessions = DOMAIN k.sessions \cup {id} /\ h.entries = k.entries
      BY <3>1, SetFields DEF h
    <3>4. /\ DOMAIN g.sessions \subseteq DOMAIN h.sessions
          /\ \A l \in DOMAIN reg[r].entries : l \in DOMAIN h.entries => l \in DOMAIN g.entries
      BY <3>1, <3>3, Zenon
    <3> QED
      BY <1>1, <3>4, CutAfter, Zenon
  <2>12. RegsOK' /\ Cuts
    BY <1>0, <1>7, <2>7, <2>10, <2>11, OneReplica, Zenon
  <2>13. PendingOK'
    <3> DEFINE q == [session |-> id, cs |-> t.b.cs]
    <3>1. q.session = id /\ q.cs = t.b.cs
      OBVIOUS
    <3> HIDE DEF q
    <3>2. DOMAIN pending' = Replicas /\ \A i \in Replicas : pending'[i] \subseteq pending[i] \cup {q}
      BY Zenon, <1>0, <1>7 DEF PendingOK, q
    <3>3. \A i \in DOMAIN tickets : i \in DOMAIN tickets' /\ tickets'[i].b = tickets[i].b
      BY <2>7, Zenon DEF Grown
    <3> QED
      BY <1>0, <3>1, <3>2, <3>3, Zenon DEF PendingOK
  <2>14. UsedInTime
    BY <1>0, <1>5, <2>4, Zenon DEF UsedInTime, TicketsOK
  <2> QED
    BY <2>6, <2>12, <2>13, <2>14, Zenon DEF SessionsIInv
<1> QED
  BY <1>3, <1>6, <1>7, Zenon

\* Every step keeps the invariant, cuts what it removes and uses no session late.
LEMMA SessionsStep ==
    ASSUME SessionsIInv, [Next]_vars
    PROVE  SessionsIInv' /\ Cuts /\ UsedInTime
<1>1. ASSUME NEW r \in Replicas, NEW b \in Bindings, NEW ids \in SUBSET Candidates(b),
             CreateReplacingAny(r, b, ids)
      PROVE  SessionsIInv' /\ Cuts /\ UsedInTime
  BY <1>1, CreateStep, Zenon
<1>2. ASSUME NEW r \in Replicas, NEW id \in DOMAIN tickets, AuthenticateAny(r, id)
      PROVE  SessionsIInv' /\ Cuts /\ UsedInTime
  BY <1>2, AuthenticateStep, Zenon
<1>3. ASSUME NEW r \in Replicas, NEW p \in pending[r], Refused(r, p) \/ BeginSession(r, p)
      PROVE  SessionsIInv' /\ Cuts /\ UsedInTime
  BY <1>3, RefusedStep, BeginSessionStep, Zenon
<1>4. ASSUME NEW r \in Replicas, NEW b \in Bindings,
             BeginSSHSession(r, b.user, b.cs) \/ DeleteEndpoint(r, b.cs, b.ep)
      PROVE  SessionsIInv' /\ Cuts /\ UsedInTime
  BY <1>4, BeginSSHStep, DeleteEndpointStep, Zenon
<1>5. ASSUME NEW r \in Replicas, NEW l \in reg[r].conns, End(r, l)
      PROVE  SessionsIInv' /\ Cuts /\ UsedInTime
  BY <1>5, EndStep, Zenon
<1>6. ASSUME NEW r \in Replicas, Activity(r) \/ Restart(r)
      PROVE  SessionsIInv' /\ Cuts /\ UsedInTime
  BY <1>6, ActivityStep, RestartStep, Zenon
<1>7. CASE Tick
  BY <1>7, TimeStep, Zenon
<1>8. CASE UNCHANGED vars
  <2>1. UNCHANGED <<now, reg, tickets, pending, born, used>>
    BY Zenon, <1>8 DEF vars
  <2>2. TicketsOK' /\ PendingOK' /\ RegsOK'
    BY <2>1, Zenon DEF SessionsIInv, TicketsOK, PendingOK, RegsOK
  <2>3. Cuts /\ UsedInTime
    BY <2>1, Zenon DEF Cuts, Cut, UsedInTime
  <2> QED
    BY <2>2, <2>3, Zenon DEF SessionsIInv
<1> QED
  BY <1>1, <1>2, <1>3, <1>4, <1>5, <1>6, <1>7, <1>8, Zenon DEF Next

\* The invariant holds when the processes start.
LEMMA SessionsInit == ASSUME Init PROVE SessionsIInv
<1>1. /\ now = 1 /\ reg = [r \in Replicas |-> NewRegistry] /\ pending = [r \in Replicas |-> {}]
      /\ DOMAIN tickets = {} /\ DOMAIN born = {} /\ DOMAIN used = {}
  BY DEF Init
<1>2. 1 .. 0 = {} /\ 0 \in Nat /\ 1 \in Nat \ {0}
  OBVIOUS
<1>3. TicketsOK
  BY <1>1, <1>2, Zenon DEF TicketsOK
<1>4. PendingOK
  BY Zenon, <1>1 DEF PendingOK
<1>5. RegsOK
  BY <1>1, NewOK, Zenon DEF RegsOK
<1> QED
  BY <1>3, <1>4, <1>5, Zenon DEF SessionsIInv

\* The invariant says of every registry what CountsExact does.
LEMMA SessionsExact == SessionsIInv => CountsExact
<1> SUFFICES ASSUME SessionsIInv, NEW r \in Replicas
             PROVE  LET g == reg[r]
                        S == {l \in DOMAIN g.entries : g.entries[l].session = 0}
                    IN  /\ \A c \in Codespaces :
                             /\ g.byCs[c] <= MaxPerCodespace
                             /\ g.byCs[c] =
                                  Cardinality({id \in DOMAIN g.sessions : g.sessions[id].b.cs = c})
                                    + Cardinality({l \in S : g.entries[l].cs = c})
                             /\ g.live[c] = Cardinality({l \in DOMAIN g.entries : g.entries[l].cs = c})
                        /\ \A u \in Users :
                             /\ g.byUser[u] <= MaxPerUser
                             /\ g.byUser[u] =
                                  Cardinality({id \in DOMAIN g.sessions : g.sessions[id].b.user = u})
                                    + Cardinality({l \in S : g.entries[l].user = u})
                        /\ DOMAIN g.entries = g.conns \ g.cancelled
  BY Zenon DEF CountsExact
<1>1. Exact(reg[r]) /\ Shape(reg[r])
  BY Zenon DEF SessionsIInv, RegsOK, RegOK
<1> QED
  BY <1>1, Zenon DEF Exact, Shape, InCs, OfUser, SshIn, SshBy, Ssh, LiveIn

\* The invariant always holds.
LEMMA SessionsInvariance == Spec => []SessionsIInv
<1>1. Init => SessionsIInv
  BY SessionsInit, Zenon
<1>2. SessionsIInv /\ [Next]_vars => SessionsIInv'
  BY SessionsStep, Zenon
<1> QED
  BY <1>1, <1>2, PTL DEF Spec

\* incrementSessionCountLocked, decrementSessionCountLocked: for any number of
\* replicas, users and codespaces, and however sessions and connections end, the
\* counts are those of what is there and within the limits.
THEOREM SessionsCounted == Spec => []CountsExact
BY SessionsInvariance, SessionsExact, PTL

\* DeleteEndpoint, dropExpiredSessionsLocked, CreateReplacingAny: every step that
\* removes a session removes the entries of its connections with it, which
\* cancels them.
THEOREM SessionsAreCut == Spec => RemovedIsCut
<1>1. SessionsIInv /\ [Next]_vars =>
        [\A r \in Replicas : \A id \in DOMAIN reg[r].sessions \ DOMAIN reg'[r].sessions :
           \A l \in DOMAIN reg[r].entries :
             reg[r].entries[l].session = id => l \notin DOMAIN reg'[r].entries]_vars
  BY SessionsStep, Zenon DEF Cuts, Cut
<1> QED
  BY <1>1, SessionsInvariance, PTL DEF Spec, RemovedIsCut

\* issueTicket, AuthenticateAny: a session that was not used for its idle timeout,
\* or not opened in time, is not used again, at the replica that has it or at one
\* that restores it from its ticket.
THEOREM IdleAreOut == Spec => IdleStaysOut
<1>1. SessionsIInv /\ [Next]_vars =>
        [\A id \in DOMAIN used : used'[id] # used[id] =>
           /\ now <= born[id] + TTL
           /\ now <= IF used[id] = 0 THEN born[id] + Connect ELSE used[id] + Idle]_vars
  BY SessionsStep, Zenon DEF UsedInTime, InTime
<1> QED
  BY <1>1, SessionsInvariance, PTL DEF Spec, IdleStaysOut
=============================================================================
