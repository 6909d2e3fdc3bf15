------------------------- MODULE GatewayProxyProofs -------------------------
(***************************************************************************)
(* The reservations of the Gateway's proxy are exact, and a request that   *)
(* lost its route or its permission is cut, for any requests, keys, limits *)
(* and durations.                                                          *)
(*                                                                         *)
(* Counts: each is the cardinality of a set of requests or of keys with a  *)
(* call, and every handler that leaves the set gives back what it took     *)
(* when it entered, though answers, cancellations and replaced routes end  *)
(* it in many places.                                                      *)
(*                                                                         *)
(* Permission: RevokedIsCut bounds how long a request goes on after Gitea  *)
(* denied its key. The invariant follows the yes it lives on: a yes under  *)
(* way is no older than its call, one that is remembered ends with its     *)
(* validity, and a request has been allowed by one of these; its timer,    *)
(* and then the call it joined, count the rest (AnswerFresh, CacheFresh,   *)
(* RequestFresh).                                                          *)
(*                                                                         *)
(* Routes: a request has the lease of the route, or its cancellation is on *)
(* its way (AllLeased).                                                    *)
(***************************************************************************)
EXTENDS GatewayProxy, FiniteSetTheorems, TLAPS

Req == [phase : {"off", "lead", "follow", "allowed", "proxy", "over"}, key : Keys, lease : Nat,
        cancelled : BOOLEAN, timer : 0 .. RevalidateInterval, again : {"no", "lead", "follow"}]
Calls == [cached : BOOLEAN, age : 0 .. CallTime, answer : {"none", "yes", "no"}]

ProxyType ==
  /\ reqs \in [Requests -> Req] /\ \A r \in Requests : reqs[r].phase # "proxy" => reqs[r].again = "no"
  /\ calls \in [Keys -> Calls \cup {NoCall}]
  /\ cache \in [Keys -> 0 .. AllowedTTL]
  /\ gitea \in [Keys -> [allowed : BOOLEAN, denied : Nat]]
  /\ \A k \in Keys : gitea[k].allowed => gitea[k].denied = 0
  /\ route \in [id : Nat, public : BOOLEAN] /\ changed \in Nat

(* The places that are taken, and the counts of them.                        *)
UnderWay == {r \in Requests : reqs[r].phase # "off"}
Taking(s) == {r \in Requests : reqs[r].phase # "off" /\ s \in Slots(r, reqs[r].key)}
Asking == {k \in Keys : calls[k] # NoCall}

Places ==
  /\ inflight.total = Cardinality(UnderWay) /\ inflight.total <= MaxInflightTotal
  /\ \A s \in AllSlots : inflight.by[s] = Cardinality(Taking(s)) /\ inflight.by[s] <= Limit[s]
Questions ==
  inflight.validations = Cardinality(Asking) /\ inflight.validations <= ValidationMaxInflight
Counted == DOMAIN inflight = {"total", "by", "validations"} /\ Places /\ Questions

(* How long a key can have been denied: while a yes is on its way, while it  *)
(* is remembered, and while a request that was allowed goes on.              *)
AnswerFresh(c, d) == c # NoCall /\ c.answer = "yes" => d <= c.age
CacheFresh(n, d) == n > 0 => d + n <= CallTime + AllowedTTL
RequestFresh(q, c, d) ==
  /\ q.phase = "allowed" => d <= CallTime + AllowedTTL
  /\ q.phase = "proxy" /\ ~q.cancelled =>
       IF q.again = "no" THEN d + q.timer <= CallTime + AllowedTTL + RevalidateInterval
       ELSE c # NoCall /\ d <= CallTime + AllowedTTL + RevalidateInterval + c.age
Fresh ==
  /\ \A k \in Keys : AnswerFresh(calls[k], gitea[k].denied) /\ CacheFresh(cache[k], gitea[k].denied)
  /\ \A r \in Requests : RequestFresh(reqs[r], calls[reqs[r].key], gitea[reqs[r].key].denied)

(* A request that is proxied has the lease of the route, or is cancelled or  *)
(* about to be.                                                              *)
Leased(q, rt) ==
  q.phase = "proxy" /\ ~q.cancelled => q.lease = rt.id /\ (q.key = "public" => rt.public)
AllLeased == \A r \in Requests : r \notin dropped => Leased(reqs[r], route)

ProxyIInv == ProxyType /\ Counted /\ Fresh /\ AllLeased

(* The sets that are counted are finite.                                     *)
LEMMA FinitePlaces ==
  /\ IsFiniteSet(UnderWay) /\ Cardinality(UnderWay) \in Nat
  /\ \A s : IsFiniteSet(Taking(s)) /\ Cardinality(Taking(s)) \in Nat
  /\ IsFiniteSet(Asking) /\ Cardinality(Asking) \in Nat
<1>1. IsFiniteSet(UnderWay)
  BY Zenon, ProxyAssumption, FS_Subset DEF UnderWay
<1>2. \A s : IsFiniteSet(Taking(s))
  BY Zenon, ProxyAssumption, FS_Subset DEF Taking
<1>3. IsFiniteSet(Keys)
  <2>1. IsFiniteSet({"session"} \cup {"public"})
    BY Zenon, FS_Singleton, FS_AddElement
  <2>2. Keys = {"session"} \cup {"public"}
    BY Zenon DEF Keys
  <2> QED
    BY Zenon, <2>1, <2>2
<1>4. IsFiniteSet(Asking)
  BY Zenon, <1>3, FS_Subset DEF Asking
<1> QED
  BY Zenon, <1>1, <1>2, <1>4, FS_CardinalityType

(* Where no request comes or ends, the places stay taken.                    *)
LEMMA SamePlaces ==
  ASSUME Counted,
         \A r \in Requests : /\ reqs'[r].phase = "off" <=> reqs[r].phase = "off"
                             /\ reqs[r].phase # "off" => reqs'[r].key = reqs[r].key,
         inflight'.total = inflight.total, inflight'.by = inflight.by
  PROVE  Places'
<1>1. UnderWay' = UnderWay
  BY Zenon DEF UnderWay
<1>2. \A s : Taking(s)' = Taking(s)
  BY Zenon DEF Taking
<1> QED
  BY Zenon, <1>1, <1>2 DEF Counted, Places

(* Where no call begins or returns, the questions are the same.              *)
LEMMA SameQuestions ==
  ASSUME Counted, \A k \in Keys : calls'[k] = NoCall <=> calls[k] = NoCall,
         inflight'.validations = inflight.validations
  PROVE  Questions'
<1>1. Asking' = Asking
  BY Zenon DEF Asking
<1> QED
  BY Zenon, <1>1 DEF Counted, Questions

(* A call begins where there is room for it, and returns.                    *)
LEMMA OneMoreQuestion ==
  ASSUME Counted, NEW key \in Keys, calls[key] = NoCall, calls'[key] # NoCall, ~Full,
         \A k \in Keys : k # key => calls'[k] = calls[k],
         inflight'.validations = inflight.validations + 1
  PROVE  Questions'
<1>1. Asking' = Asking \cup {key} /\ key \notin Asking
  BY DEF Asking
<1>2. Cardinality(Asking') = Cardinality(Asking) + 1
  BY Zenon, <1>1, FinitePlaces, FS_AddElement
<1> QED
  BY <1>2, FinitePlaces, ProxyAssumption DEF Counted, Questions, Full

\* A call that returns is one less.
LEMMA OneLessQuestion ==
  ASSUME Counted, NEW key \in Keys, calls[key] # NoCall, calls'[key] = NoCall,
         \A k \in Keys : k # key => calls'[k] = calls[k],
         inflight'.validations = inflight.validations - 1
  PROVE  Questions'
<1>1. Asking' = Asking \ {key} /\ key \in Asking
  BY Zenon DEF Asking
<1>2. Cardinality(Asking') = Cardinality(Asking) - 1
  BY Zenon, <1>1, FinitePlaces, FS_RemoveElement
<1>3. Cardinality(Asking) \in Nat
  BY Zenon, FinitePlaces
<1> QED
  BY <1>2, <1>3, ProxyAssumption DEF Counted, Questions

(* A request comes where there is room for it.                               *)
LEMMA PlacesTaken ==
  ASSUME Counted, NEW r \in Requests, NEW key \in Keys, HasRoom(r, key),
         reqs[r].phase = "off", reqs'[r].phase # "off", reqs'[r].key = key,
         \A q \in Requests : q # r => reqs'[q] = reqs[q],
         inflight'.total = inflight.total + 1,
         \A s \in AllSlots : inflight'.by[s] = IF s \in Slots(r, key) THEN inflight.by[s] + 1 ELSE inflight.by[s]
  PROVE  Places'
<1>1. UnderWay' = UnderWay \cup {r} /\ r \notin UnderWay
  BY Zenon DEF UnderWay
<1>2. Cardinality(UnderWay') = Cardinality(UnderWay) + 1
  BY Zenon, <1>1, FinitePlaces, FS_AddElement
<1>3. inflight'.total = Cardinality(UnderWay') /\ inflight'.total <= MaxInflightTotal
  BY <1>2, FinitePlaces, ProxyAssumption DEF Counted, Places, HasRoom
<1>4. ASSUME NEW s \in AllSlots
      PROVE  inflight'.by[s] = Cardinality(Taking(s)') /\ inflight'.by[s] <= Limit[s]
  <2>0. Cardinality(Taking(s)) \in Nat /\ IsFiniteSet(Taking(s)) /\ Limit[s] \in Nat
    BY Zenon, FinitePlaces, ProxyAssumption
  <2>1. CASE s \in Slots(r, key)
    <3>1. Taking(s)' = Taking(s) \cup {r} /\ r \notin Taking(s)
      BY Zenon, <2>1 DEF Taking
    <3>2. Cardinality(Taking(s)') = Cardinality(Taking(s)) + 1
      BY Zenon, <3>1, <2>0, FS_AddElement
    <3>3. inflight.by[s] < Limit[s]
      BY Zenon, <2>1 DEF HasRoom
    <3> QED
      BY <3>2, <3>3, <2>0, <2>1 DEF Counted, Places
  <2>2. CASE s \notin Slots(r, key)
    <3>1. Taking(s)' = Taking(s)
      BY Zenon, <2>2 DEF Taking
    <3> QED
      BY Zenon, <3>1, <2>2 DEF Counted, Places
  <2> QED
    BY Zenon, <2>1, <2>2
<1> QED
  BY Zenon, <1>3, <1>4 DEF Places

\* A request that ends frees its places.
LEMMA PlacesReleased ==
  ASSUME Counted, NEW r \in Requests, reqs[r].phase # "off", reqs'[r].phase = "off",
         \A q \in Requests : q # r => reqs'[q] = reqs[q],
         inflight'.total = inflight.total - 1,
         \A s \in AllSlots : inflight'.by[s] =
             IF s \in Slots(r, reqs[r].key) THEN inflight.by[s] - 1 ELSE inflight.by[s]
  PROVE  Places'
<1>1. UnderWay' = UnderWay \ {r} /\ r \in UnderWay
  BY Zenon DEF UnderWay
<1>2. Cardinality(UnderWay') = Cardinality(UnderWay) - 1
  BY Zenon, <1>1, FinitePlaces, FS_RemoveElement
<1>a. Cardinality(UnderWay) \in Nat
  BY Zenon, FinitePlaces
<1>3. inflight'.total = Cardinality(UnderWay') /\ inflight'.total <= MaxInflightTotal
  BY <1>2, <1>a, ProxyAssumption DEF Counted, Places
<1>4. ASSUME NEW s \in AllSlots
      PROVE  inflight'.by[s] = Cardinality(Taking(s)') /\ inflight'.by[s] <= Limit[s]
  <2>0. Cardinality(Taking(s)) \in Nat /\ IsFiniteSet(Taking(s)) /\ Limit[s] \in Nat
    BY Zenon, FinitePlaces, ProxyAssumption
  <2>1. CASE s \in Slots(r, reqs[r].key)
    <3>1. Taking(s)' = Taking(s) \ {r} /\ r \in Taking(s)
      BY Zenon, <2>1 DEF Taking
    <3>2. Cardinality(Taking(s)') = Cardinality(Taking(s)) - 1
      BY Zenon, <3>1, <2>0, FS_RemoveElement
    <3> QED
      BY <3>2, <2>0, <2>1 DEF Counted, Places
  <2>2. CASE s \notin Slots(r, reqs[r].key)
    <3>1. Taking(s)' = Taking(s)
      BY Zenon, <2>2 DEF Taking
    <3> QED
      BY Zenon, <3>1, <2>2 DEF Counted, Places
  <2> QED
    BY Zenon, <2>1, <2>2
<1> QED
  BY Zenon, <1>3, <1>4 DEF Places

(* What reserving and releasing do to the counts.                            *)
LEMMA ReservedFacts ==
  ASSUME NEW f, DOMAIN f = {"total", "by", "validations"}, NEW r, NEW key
  PROVE  /\ DOMAIN Reserved(f, r, key) = {"total", "by", "validations"}
         /\ Reserved(f, r, key).total = f.total + 1
         /\ Reserved(f, r, key).validations = f.validations
         /\ \A s \in AllSlots : Reserved(f, r, key).by[s] =
               IF s \in Slots(r, key) THEN f.by[s] + 1 ELSE f.by[s]
BY Zenon DEF Reserved

\* What releasing does to the counts.
LEMMA ReleaseFacts ==
  ASSUME NEW f, DOMAIN f = {"total", "by", "validations"}, NEW r, NEW key
  PROVE  /\ DOMAIN Release(f, r, key) = {"total", "by", "validations"}
         /\ Release(f, r, key).total = f.total - 1
         /\ Release(f, r, key).validations = f.validations
         /\ \A s \in AllSlots : Release(f, r, key).by[s] =
               IF s \in Slots(r, key) THEN f.by[s] - 1 ELSE f.by[s]
BY Zenon DEF Release

\* A change of the number of calls leaves the other counts alone.
LEMMA ValidationsFacts ==
  ASSUME NEW f, DOMAIN f = {"total", "by", "validations"}, NEW n
  PROVE  /\ DOMAIN [f EXCEPT !.validations = n] = {"total", "by", "validations"}
         /\ [f EXCEPT !.validations = n].total = f.total
         /\ [f EXCEPT !.validations = n].by = f.by
         /\ [f EXCEPT !.validations = n].validations = n
OBVIOUS

(* A new call is none that is missing, and a request that is off is one.     *)
LEMMA CallFacts ==
  /\ \A b \in BOOLEAN : Call(b) \in Calls /\ Call(b) # NoCall /\ Call(b).answer = "none"
  /\ NoCall \notin Calls /\ Off \in Req /\ Off.phase = "off" /\ Off.again = "no"
  /\ NoRoute \in [id : Nat, public : BOOLEAN]
<1>1. Off \in Req /\ Off.phase = "off" /\ Off.again = "no"
  BY ProxyAssumption DEF Off, Handler, Req, Keys
<1>2. NoCall \notin Calls
  BY Zenon DEF NoCall, Calls
<1>3. \A b \in BOOLEAN : Call(b) \in Calls /\ Call(b).answer = "none"
  BY ProxyAssumption DEF Call, Calls
<1> QED
  BY Zenon, <1>1, <1>2, <1>3 DEF NoRoute

(* The handler of a request that is let in.                                  *)
LEMMA Entered ==
  ASSUME NEW phase \in {"off", "allowed", "follow", "lead"}, NEW key \in Keys
  PROVE  /\ Handler(phase, key) \in Req /\ Handler(phase, key).phase = phase
         /\ Handler(phase, key).key = key /\ Handler(phase, key).again = "no"
BY ProxyAssumption DEF Handler, Req

\* reservePublic, reserveSessionRequest, validateAccess: a request takes its places
\* and is allowed by the cache, joins the call of its key, begins one, or leaves.
LEMMA ArriveStep ==
  ASSUME ProxyIInv, NEW r \in Requests, NEW key \in Keys, Arrive(r, key)
  PROVE  ProxyIInv'
<1>0. /\ reqs[r].phase = "off" /\ HasRoom(r, key)
      /\ UNCHANGED <<cache, gitea, route, dropped, changed>>
  BY Zenon DEF Arrive
<1>1. PICK phase \in {"allowed", "follow", "lead"} :
        /\ reqs' = [reqs EXCEPT ![r] = Handler(phase, key)]
        /\ phase = "allowed" => cache[key] > 0
        /\ \/ UNCHANGED calls /\ inflight' = Reserved(inflight, r, key)
           \/ /\ calls[key] = NoCall /\ ~Full /\ calls' = [calls EXCEPT ![key] = Call(TRUE)]
              /\ inflight' = [Reserved(inflight, r, key) EXCEPT !.validations = @ + 1]
  BY Zenon DEF Arrive
<1> DEFINE q == Handler(phase, key)
<1>2. q \in Req /\ q.phase = phase /\ q.key = key /\ q.again = "no"
  BY Entered
<1> HIDE DEF q
<1>3. reqs' \in [Requests -> Req] /\ reqs'[r] = q /\ \A p \in Requests : p # r => reqs'[p] = reqs[p]
  BY Zenon, <1>1, <1>2 DEF ProxyIInv, ProxyType, q
<1>4. \A k \in Keys : \/ calls'[k] = calls[k]
                      \/ calls[k] = NoCall /\ calls'[k] = Call(TRUE)
  BY Zenon, <1>1 DEF ProxyIInv, ProxyType
<1>5. ProxyType'
  <2>1. calls' \in [Keys -> Calls \cup {NoCall}]
    BY Zenon, <1>1, CallFacts DEF ProxyIInv, ProxyType
  <2> QED
    BY Zenon, <2>1, <1>0, <1>2, <1>3 DEF ProxyIInv, ProxyType
<1>6. /\ DOMAIN inflight' = {"total", "by", "validations"} /\ inflight'.total = inflight.total + 1
      /\ \A s \in AllSlots : inflight'.by[s] =
            IF s \in Slots(r, key) THEN inflight.by[s] + 1 ELSE inflight.by[s]
      /\ \/ UNCHANGED calls /\ inflight'.validations = inflight.validations
         \/ inflight'.validations = inflight.validations + 1 /\ calls[key] = NoCall
            /\ ~Full /\ calls' = [calls EXCEPT ![key] = Call(TRUE)]
  <2> DEFINE g == Reserved(inflight, r, key)
  <2>1. /\ DOMAIN g = {"total", "by", "validations"} /\ g.total = inflight.total + 1
        /\ g.validations = inflight.validations
        /\ \A s \in AllSlots : g.by[s] =
              IF s \in Slots(r, key) THEN inflight.by[s] + 1 ELSE inflight.by[s]
    BY ReservedFacts DEF ProxyIInv, Counted
  <2> HIDE DEF g
  <2>3. CASE UNCHANGED calls /\ inflight' = g
    BY Zenon, <2>1, <2>3
  <2>4. CASE /\ calls[key] = NoCall /\ ~Full /\ calls' = [calls EXCEPT ![key] = Call(TRUE)]
             /\ inflight' = [g EXCEPT !.validations = g.validations + 1]
    BY Zenon, <2>1, <2>4, ValidationsFacts
  <2> QED
    BY Zenon, <1>1, <2>3, <2>4 DEF g
<1>7. Places'
  BY <1>0, <1>2, <1>3, <1>6, PlacesTaken DEF ProxyIInv
<1>8. Questions'
  <2>1. CASE UNCHANGED calls /\ inflight'.validations = inflight.validations
    BY Zenon, <2>1, SameQuestions DEF ProxyIInv
  <2>2. CASE /\ inflight'.validations = inflight.validations + 1 /\ calls[key] = NoCall
             /\ ~Full /\ calls' = [calls EXCEPT ![key] = Call(TRUE)]
    <3>1. calls'[key] # NoCall /\ \A k \in Keys : k # key => calls'[k] = calls[k]
      BY Zenon, <2>2, CallFacts DEF ProxyIInv, ProxyType
    <3> QED
      BY Zenon, <3>1, <2>2, OneMoreQuestion DEF ProxyIInv
  <2> QED
    BY Zenon, <1>6, <2>1, <2>2
<1>9. Fresh'
  <2>1. ASSUME NEW k \in Keys PROVE (AnswerFresh(calls[k], gitea[k].denied) /\ CacheFresh(cache[k], gitea[k].denied))'
    BY Zenon, <1>0, <1>4, CallFacts DEF ProxyIInv, Fresh, AnswerFresh, CacheFresh
  <2>2. ASSUME NEW p \in Requests
        PROVE  RequestFresh(reqs[p], calls[reqs[p].key], gitea[reqs[p].key].denied)'
    <3>1. CASE p = r
      <4>1. phase = "allowed" => gitea[key].denied + cache[key] <= CallTime + AllowedTTL
        BY Zenon, <1>1 DEF ProxyIInv, Fresh, CacheFresh
      <4>2. gitea[key].denied \in Nat /\ cache[key] \in Nat
        BY DEF ProxyIInv, ProxyType
      <4>3. phase = "allowed" => gitea[key].denied <= CallTime + AllowedTTL
        BY <4>1, <4>2, ProxyAssumption
      <4> QED
        BY Zenon, <3>1, <4>3, <1>0, <1>2, <1>3 DEF RequestFresh
    <3>2. CASE p # r
      <4>1. reqs'[p] = reqs[p] /\ reqs[p].key \in Keys
        BY Zenon, <3>2, <1>3 DEF ProxyIInv, ProxyType, Req
      <4>2. calls[reqs[p].key] # NoCall => calls'[reqs[p].key] = calls[reqs[p].key]
        BY Zenon, <4>1, <1>4
      <4> QED
        BY Zenon, <4>1, <4>2, <1>0 DEF ProxyIInv, Fresh, RequestFresh
    <3> QED
      BY Zenon, <3>1, <3>2
  <2> QED
    BY Zenon, <2>1, <2>2 DEF Fresh
<1>10. AllLeased'
  BY Zenon, <1>0, <1>2, <1>3 DEF ProxyIInv, AllLeased, Leased
<1> QED
  BY Zenon, <1>5, <1>6, <1>7, <1>8, <1>9, <1>10 DEF ProxyIInv, Counted

(* One request changes, and nothing else: it has to be fresh and leased.     *)
LEMMA RequestChanges ==
  ASSUME ProxyIInv, NEW r \in Requests, NEW q \in Req, reqs' = [reqs EXCEPT ![r] = q],
         reqs[r].phase # "off", q.phase # "off", q.key = reqs[r].key, q.phase # "proxy" => q.again = "no",
         RequestFresh(q, calls[q.key], gitea[q.key].denied), r \notin dropped => Leased(q, route),
         UNCHANGED <<inflight, calls, cache, gitea, route, dropped, changed>>
  PROVE  ProxyIInv'
<1>1. reqs' \in [Requests -> Req] /\ reqs'[r] = q /\ \A p \in Requests : p # r => reqs'[p] = reqs[p]
  BY Zenon DEF ProxyIInv, ProxyType
<1>2. ProxyType'
  BY Zenon, <1>1 DEF ProxyIInv, ProxyType
<1>3. Places' /\ Questions'
  BY Zenon, <1>1, SamePlaces, SameQuestions DEF ProxyIInv
<1>4. Fresh'
  BY <1>1, Zenon DEF ProxyIInv, Fresh
<1>5. AllLeased'
  BY <1>1, Zenon DEF ProxyIInv, AllLeased
<1> QED
  BY Zenon, <1>2, <1>3, <1>4, <1>5 DEF ProxyIInv, Counted

\* Leave: a request that was waiting or was cancelled is over.
LEMMA LeaveStep ==
  ASSUME ProxyIInv, NEW r \in Requests, Leave(r)
  PROVE  ProxyIInv'
<1> DEFINE q == IF reqs[r].phase = "proxy" THEN [reqs[r] EXCEPT !.cancelled = TRUE]
                ELSE [reqs[r] EXCEPT !.phase = "over"]
<1>0. /\ reqs' = [reqs EXCEPT ![r] = q] /\ reqs[r].phase # "off" /\ reqs[r] \in Req
      /\ reqs[r].phase # "proxy" => reqs[r].again = "no"
      /\ UNCHANGED <<inflight, calls, cache, gitea, route, dropped, changed>>
  BY Zenon DEF Leave, ProxyIInv, ProxyType
<1>1. /\ q \in Req /\ q.key = reqs[r].key /\ q.phase \in {"proxy", "over"}
      /\ q.phase # "proxy" => q.again = "no"
      /\ q.phase = "proxy" => q.cancelled
  BY Zenon, <1>0 DEF Req
<1> HIDE DEF q
<1>2. RequestFresh(q, calls[q.key], gitea[q.key].denied) /\ Leased(q, route)
  BY Zenon, <1>1 DEF RequestFresh, Leased
<1> QED
  BY Zenon, <1>0, <1>1, <1>2, RequestChanges

\* BeginProxy: the lease is of the route of this moment.
LEMMA BeginProxyStep ==
  ASSUME ProxyIInv, NEW r \in Requests, BeginProxy(r)
  PROVE  ProxyIInv'
<1> DEFINE q == IF route = NoRoute \/ (reqs[r].key = "public" /\ ~route.public)
                THEN [reqs[r] EXCEPT !.phase = "over"]
                ELSE [reqs[r] EXCEPT !.phase = "proxy", !.lease = route.id, !.timer = RevalidateInterval]
<1>0. /\ reqs' = [reqs EXCEPT ![r] = q] /\ reqs[r].phase = "allowed" /\ reqs[r] \in Req
      /\ reqs[r].again = "no" /\ route.id \in Nat
      /\ UNCHANGED <<inflight, calls, cache, gitea, route, dropped, changed>>
  BY Zenon DEF BeginProxy, ProxyIInv, ProxyType
<1>1. /\ q \in Req /\ q.key = reqs[r].key /\ q.again = "no"
      /\ \/ q.phase = "over"
         \/ /\ q.phase = "proxy" /\ q.lease = route.id /\ q.timer = RevalidateInterval
            /\ reqs[r].key = "public" => route.public
  <2>1. CASE route = NoRoute \/ (reqs[r].key = "public" /\ ~route.public)
    BY Zenon, <1>0, <2>1 DEF Req
  <2>2. CASE ~(route = NoRoute \/ (reqs[r].key = "public" /\ ~route.public))
    <3>1. q = [reqs[r] EXCEPT !.phase = "proxy", !.lease = route.id, !.timer = RevalidateInterval]
      BY Zenon, <2>2
    <3> HIDE DEF q
    <3>2. /\ q \in Req /\ q.key = reqs[r].key /\ q.again = reqs[r].again
          /\ q.phase = "proxy" /\ q.lease = route.id /\ q.timer = RevalidateInterval
      <4>1. q = [[[reqs[r] EXCEPT !.phase = "proxy"] EXCEPT !.lease = route.id] EXCEPT !.timer = RevalidateInterval]
        BY Zenon, <3>1
      <4>2. [reqs[r] EXCEPT !.phase = "proxy"] \in Req
        BY Zenon, <1>0 DEF Req
      <4>3. [[reqs[r] EXCEPT !.phase = "proxy"] EXCEPT !.lease = route.id] \in Req
        BY Zenon, <1>0, <4>2 DEF Req
      <4>4. RevalidateInterval \in 0 .. RevalidateInterval
        BY ProxyAssumption
      <4>5. q \in Req
        BY Zenon, <4>1, <4>3, <4>4 DEF Req
      <4>6. q.key = reqs[r].key /\ q.again = reqs[r].again /\ q.phase = "proxy" /\ q.lease = route.id
            /\ q.timer = RevalidateInterval
        BY Zenon, <3>1, <1>0 DEF Req
      <4> QED
        BY Zenon, <4>5, <4>6
    <3> QED
      BY Zenon, <1>0, <2>2, <3>2
  <2> QED
    BY Zenon, <2>1, <2>2
<1>2. gitea[q.key].denied <= CallTime + AllowedTTL /\ gitea[q.key].denied \in Nat
  BY Zenon, <1>0, <1>1 DEF ProxyIInv, ProxyType, Fresh, RequestFresh, Req
<1> HIDE DEF q
<1>3. RequestFresh(q, calls[q.key], gitea[q.key].denied) /\ Leased(q, route)
  BY <1>1, <1>2, ProxyAssumption DEF RequestFresh, Leased
<1> QED
  BY Zenon, <1>0, <1>1, <1>3, RequestChanges

\* Decide: Gitea answers what is true now.
LEMMA DecideStep ==
  ASSUME ProxyIInv, NEW key \in Keys, Decide(key)
  PROVE  ProxyIInv'
<1> DEFINE c == [calls[key] EXCEPT !.answer = IF gitea[key].allowed THEN "yes" ELSE "no"]
<1>0. /\ calls[key] \in Calls /\ calls' = [calls EXCEPT ![key] = c]
      /\ UNCHANGED <<reqs, inflight, cache, gitea, route, dropped, changed>>
  BY Zenon DEF Decide, ProxyIInv, ProxyType
<1>1. c \in Calls /\ c.age = calls[key].age /\ (c.answer = "yes" => gitea[key].allowed)
  BY Zenon, <1>0 DEF Calls
<1>2. gitea[key].allowed => gitea[key].denied = 0
  BY Zenon DEF ProxyIInv, ProxyType
<1> HIDE DEF c
<1>3. /\ calls' \in [Keys -> Calls \cup {NoCall}] /\ calls'[key] = c
      /\ \A k \in Keys : k # key => calls'[k] = calls[k]
  BY Zenon, <1>0, <1>1 DEF ProxyIInv, ProxyType
<1>4. ProxyType'
  BY Zenon, <1>0, <1>3 DEF ProxyIInv, ProxyType
<1>5. Places' /\ Questions'
  <2>1. c # NoCall /\ calls[key] # NoCall
    BY Zenon, <1>0, <1>1, CallFacts
  <2>2. \A k \in Keys : calls'[k] = NoCall <=> calls[k] = NoCall
    BY <2>1, <1>3, Zenon
  <2> QED
    BY Zenon, <1>0, <2>2, SamePlaces, SameQuestions DEF ProxyIInv
<1>6. Fresh'
  <2>1. AnswerFresh(c, gitea[key].denied)
    BY <1>0, <1>1, <1>2 DEF AnswerFresh, Calls
  <2>2. c # NoCall
    BY Zenon, <1>1, CallFacts
  <2>3. \A r \in Requests : RequestFresh(reqs[r], calls'[reqs[r].key], gitea[reqs[r].key].denied)
    BY <1>1, <1>3, <2>2 DEF ProxyIInv, ProxyType, Fresh, RequestFresh, Req
  <2> QED
    BY <1>0, <1>3, <2>1, <2>3, Zenon DEF ProxyIInv, Fresh
<1>7. AllLeased'
  BY <1>0, Zenon DEF ProxyIInv, AllLeased
<1> QED
  BY Zenon, <1>0, <1>4, <1>5, <1>6, <1>7 DEF ProxyIInv, Counted

(* What an answer does to a request: one that is with another key stays as   *)
(* it is; one of the key that goes on had no question open or gets a yes.    *)
AfterAnswer(q, a, key, yes) ==
  /\ a \in Req /\ q \in Req /\ a.key = q.key /\ (a.phase = "off" <=> q.phase = "off")
  /\ a.phase # "proxy" => a.again = "no"
  /\ q.key # key => a = q
  /\ a.phase = "allowed" => q.phase = "allowed" \/ yes
  /\ a.phase = "proxy" => q.phase = "proxy" /\ a.lease = q.lease /\ a.timer = q.timer
  /\ a.phase = "proxy" /\ q.key = key => a.again = "no"
  /\ a.phase = "proxy" /\ ~a.cancelled => ~q.cancelled /\ (yes \/ a = q)

(* That is what Answered does.                                               *)
LEMMA AnsweredFacts ==
  ASSUME NEW q \in Req, q.phase # "proxy" => q.again = "no", NEW key, NEW yes \in BOOLEAN
  PROVE  AfterAnswer(q, Answered(q, key, yes), key, yes)
<1> DEFINE a == Answered(q, key, yes)
<1>0. a = Answered(q, key, yes)
  OBVIOUS
<1> HIDE DEF a
<1> SUFFICES AfterAnswer(q, a, key, yes)
    BY Zenon, <1>0
<1> USE <1>0 DEF AfterAnswer
<1>1. CASE q.key # key
  BY Zenon, <1>1 DEF Answered
<1>2. CASE q.key = key /\ q.phase \in {"lead", "follow"}
  <2>1. a = [q EXCEPT !.phase = IF yes THEN "allowed" ELSE "over"]
    BY Zenon, <1>2 DEF Answered
  <2>2. a \in Req /\ a.key = q.key /\ a.again = q.again /\ a.phase = IF yes THEN "allowed" ELSE "over"
    BY Zenon, <2>1 DEF Req
  <2> QED
    BY Zenon, <2>2, <1>2
<1>3. CASE q.key = key /\ q.phase = "proxy" /\ q.again # "no"
  <2>1. a = [q EXCEPT !.again = "no", !.cancelled = q.cancelled \/ ~yes]
    BY Zenon, <1>3 DEF Answered
  <2>2. q.cancelled \in BOOLEAN /\ (q.cancelled \/ ~yes) \in BOOLEAN
    BY Zenon DEF Req
  <2>3. [q EXCEPT !.again = "no"] \in Req
    BY Zenon DEF Req
  <2>4. a = [[q EXCEPT !.again = "no"] EXCEPT !.cancelled = q.cancelled \/ ~yes]
    BY Zenon, <2>1
  <2>5. a \in Req
    BY Zenon, <2>2, <2>3, <2>4 DEF Req
  <2>6. a.key = q.key /\ a.again = "no" /\ a.phase = q.phase /\ a.lease = q.lease /\ a.timer = q.timer
        /\ a.cancelled = (q.cancelled \/ ~yes)
    BY Zenon, <2>1 DEF Req
  <2> QED
    BY Zenon, <2>5, <2>6, <1>3
<1>4. CASE q.key = key /\ q.phase \notin {"lead", "follow"} /\ ~(q.phase = "proxy" /\ q.again # "no")
  <2>1. a = q
    BY Zenon, <1>4 DEF Answered
  <2> QED
    BY Zenon, <2>1, <1>4
<1> QED
  BY Zenon, <1>1, <1>2, <1>3, <1>4

(* The call of a key returns: the answer was true a call ago.                *)
LEMMA FinishKeeps ==
  ASSUME ProxyIInv, NEW key \in Keys, calls[key] # NoCall, NEW yes \in BOOLEAN, Finish(key, yes),
         yes => gitea[key].denied <= CallTime, UNCHANGED <<gitea, route, dropped, changed>>,
         cache' \in [Keys -> 0 .. AllowedTTL], \A k \in Keys : CacheFresh(cache'[k], gitea[k].denied)
  PROVE  ProxyIInv'
<1>1. /\ reqs' = [r \in Requests |-> Answered(reqs[r], key, yes)]
      /\ calls' = [calls EXCEPT ![key] = NoCall]
      /\ inflight' = [inflight EXCEPT !.validations = inflight.validations - 1]
  BY Zenon DEF Finish
<1>2. /\ calls' \in [Keys -> Calls \cup {NoCall}] /\ calls'[key] = NoCall
      /\ \A k \in Keys : k # key => calls'[k] = calls[k]
  BY Zenon, <1>1 DEF ProxyIInv, ProxyType
<1>3. ASSUME NEW r \in Requests
      PROVE  AfterAnswer(reqs[r], reqs'[r], key, yes)
  <2>1. reqs'[r] = Answered(reqs[r], key, yes)
    BY Zenon, <1>1
  <2>2. reqs[r] \in Req /\ (reqs[r].phase # "proxy" => reqs[r].again = "no")
    BY Zenon DEF ProxyIInv, ProxyType
  <2> QED
    BY <2>1, <2>2, AnsweredFacts, Zenon
<1>4. ProxyType'
  <2>1. reqs' \in [Requests -> Req]
    BY Zenon, <1>1, <1>3 DEF AfterAnswer
  <2> QED
    BY Zenon, <2>1, <1>2, <1>3 DEF ProxyIInv, ProxyType, AfterAnswer
<1>5. DOMAIN inflight' = {"total", "by", "validations"} /\ Places' /\ Questions'
  <2>1. /\ DOMAIN inflight' = {"total", "by", "validations"} /\ inflight'.total = inflight.total
        /\ inflight'.by = inflight.by /\ inflight'.validations = inflight.validations - 1
    BY Zenon, <1>1, ValidationsFacts DEF ProxyIInv, Counted
  <2>2. Places'
    BY Zenon, <2>1, <1>3, SamePlaces DEF ProxyIInv, AfterAnswer
  <2>3. Questions'
    BY Zenon, <2>1, <1>2, OneLessQuestion DEF ProxyIInv
  <2> QED
    BY Zenon, <2>1, <2>2, <2>3
<1>6. Fresh'
  <2>1. ASSUME NEW k \in Keys PROVE AnswerFresh(calls[k], gitea[k].denied)'
    BY Zenon, <1>2 DEF ProxyIInv, Fresh, AnswerFresh
  <2>2. ASSUME NEW r \in Requests
        PROVE  RequestFresh(reqs'[r], calls'[reqs'[r].key], gitea[reqs'[r].key].denied)
    <3> DEFINE q == reqs[r]
               a == reqs'[r]
               d == gitea[q.key].denied
    <3>0. d \in Nat /\ a.timer \in 0 .. RevalidateInterval /\ q.key \in Keys /\ a.key = q.key
      BY Zenon, <1>3 DEF ProxyIInv, ProxyType, Req, AfterAnswer
    <3>1. RequestFresh(q, calls[q.key], d)
      BY Zenon DEF ProxyIInv, Fresh
    <3>2. CASE q.key # key
      BY <3>0, <3>1, <3>2, <1>2, <1>3 DEF AfterAnswer
    <3>3. CASE q.key = key
      <4>1. a.phase = "allowed" => d <= CallTime + AllowedTTL
        <5>1. CASE q.phase = "allowed"
          BY Zenon, <5>1, <3>1 DEF RequestFresh
        <5>2. CASE yes
          BY <5>2, <3>0, <3>3, ProxyAssumption
        <5> QED
          BY Zenon, <5>1, <5>2, <1>3 DEF AfterAnswer
      <4>2. a.phase = "proxy" /\ ~a.cancelled => a.again = "no" /\ d + a.timer <= CallTime + AllowedTTL + RevalidateInterval
        <5>1. CASE yes
          BY <5>1, <3>0, <3>3, <1>3, ProxyAssumption DEF AfterAnswer
        <5>2. CASE a = q
          BY Zenon, <5>2, <3>1, <3>3, <1>3 DEF RequestFresh, AfterAnswer
        <5> QED
          BY Zenon, <5>1, <5>2, <1>3 DEF AfterAnswer
      <4> QED
        BY Zenon, <4>1, <4>2, <3>0 DEF RequestFresh
    <3> QED
      BY Zenon, <3>2, <3>3
  <2>3. gitea' = gitea
    OBVIOUS
  <2> QED
    BY <2>1, <2>2, <2>3, Zenon DEF Fresh
<1>7. AllLeased'
  BY <1>3 DEF ProxyIInv, AllLeased, Leased, AfterAnswer
<1> QED
  BY Zenon, <1>4, <1>5, <1>6, <1>7 DEF ProxyIInv, Counted

\* ReturnAnswer: a yes is remembered for one validity from the call on.
LEMMA ReturnAnswerStep ==
  ASSUME ProxyIInv, NEW key \in Keys, ReturnAnswer(key)
  PROVE  ProxyIInv'
<1> DEFINE yes == calls[key].answer = "yes"
<1>0. /\ calls[key] # NoCall /\ Finish(key, yes) /\ UNCHANGED <<gitea, route, dropped, changed>>
      /\ cache' = cache \/ (yes /\ cache' = [cache EXCEPT ![key] = AllowedTTL])
  BY Zenon DEF ReturnAnswer
<1>1. calls[key] \in Calls /\ gitea[key].denied \in Nat
  BY Zenon, <1>0 DEF ProxyIInv, ProxyType
<1>2. yes => gitea[key].denied <= CallTime
  BY <1>0, <1>1, ProxyAssumption DEF ProxyIInv, Fresh, AnswerFresh, Calls
<1>3. cache' \in [Keys -> 0 .. AllowedTTL]
  BY <1>0, ProxyAssumption DEF ProxyIInv, ProxyType
<1>4. ASSUME NEW k \in Keys PROVE CacheFresh(cache'[k], gitea[k].denied)
  <2>1. CASE cache'[k] = cache[k]
    BY Zenon, <2>1 DEF ProxyIInv, Fresh
  <2>2. CASE yes /\ k = key /\ cache'[k] = AllowedTTL
    BY <2>2, <1>1, <1>2, ProxyAssumption DEF CacheFresh
  <2> QED
    BY Zenon, <2>1, <2>2, <1>0 DEF ProxyIInv, ProxyType
<1>5. yes \in BOOLEAN
  OBVIOUS
<1> HIDE DEF yes
<1> QED
  BY Zenon, <1>0, <1>2, <1>3, <1>4, <1>5, FinishKeeps

\* Fail: a call that fails is a no for all who share it.
LEMMA FailStep ==
  ASSUME ProxyIInv, NEW key \in Keys, Fail(key)
  PROVE  ProxyIInv'
<1>0. calls[key] # NoCall /\ Finish(key, FALSE) /\ UNCHANGED <<cache, gitea, route, dropped, changed>>
  BY Zenon DEF Fail
<1>1. cache' \in [Keys -> 0 .. AllowedTTL] /\ \A k \in Keys : CacheFresh(cache'[k], gitea[k].denied)
  BY Zenon, <1>0 DEF ProxyIInv, ProxyType, Fresh
<1> QED
  BY Zenon, <1>0, <1>1, FinishKeeps

(* The timer of a request is started again.                                  *)
LEMMA TimerStarted ==
  ASSUME NEW q \in Req
  PROVE  [q EXCEPT !.timer = RevalidateInterval] \in Req
<1>1. RevalidateInterval \in 0 .. RevalidateInterval
  BY ProxyAssumption
<1> QED
  BY Zenon, <1>1 DEF Req

\* withGatewayProxyRevalidation: when the timer runs out, the cache, a call under
\* way or a new one is asked.
LEMMA RevalidateStep ==
  ASSUME ProxyIInv, NEW r \in Requests, Revalidate(r)
  PROVE  ProxyIInv'
<1> DEFINE key == reqs[r].key
           d == gitea[key].denied
<1>0. /\ reqs[r].phase = "proxy" /\ reqs[r].timer = 0 /\ UNCHANGED <<cache, gitea, route, dropped, changed>>
      /\ reqs[r] \in Req /\ key \in Keys /\ d \in Nat /\ calls[key] \in Calls \cup {NoCall}
  BY Zenon DEF Revalidate, Due, ProxyIInv, ProxyType, Req
<1>1. RequestFresh(reqs[r], calls[key], d) /\ (r \notin dropped => Leased(reqs[r], route))
  BY Zenon DEF ProxyIInv, Fresh, AllLeased
<1>2. ASSUME NEW a \in {"no", "lead", "follow"}, reqs' = [reqs EXCEPT ![r].again = a, ![r].timer = RevalidateInterval]
      PROVE  \E q \in Req : /\ reqs' = [reqs EXCEPT ![r] = q] /\ q.phase = "proxy" /\ q.key = key
                            /\ q.again = a /\ q.lease = reqs[r].lease /\ q.cancelled = reqs[r].cancelled
  <2> DEFINE q == [[reqs[r] EXCEPT !.again = a] EXCEPT !.timer = RevalidateInterval]
  <2>1. reqs' = [reqs EXCEPT ![r] = q]
    BY Zenon, <1>2, <1>0 DEF ProxyIInv, ProxyType
  <2>2. [reqs[r] EXCEPT !.again = a] \in Req
    BY Zenon, <1>0 DEF Req
  <2>3. q \in Req
    BY Zenon, <2>2, TimerStarted
  <2>4. /\ q.phase = "proxy" /\ q.key = key
        /\ q.again = a /\ q.lease = reqs[r].lease /\ q.cancelled = reqs[r].cancelled
    BY Zenon, <1>0 DEF Req
  <2> QED
    BY Zenon, <2>1, <2>3, <2>4
<1>3. CASE /\ reqs[r].again # "no" \/ calls[key] # NoCall
           /\ UNCHANGED <<calls, inflight>>
           /\ \E a \in {"lead", "follow"} :
                /\ reqs' = [reqs EXCEPT ![r].again = a, ![r].timer = RevalidateInterval]
  <2>1. PICK q \in Req : /\ reqs' = [reqs EXCEPT ![r] = q] /\ q.phase = "proxy" /\ q.key = key
                         /\ q.again # "no" /\ q.lease = reqs[r].lease /\ q.cancelled = reqs[r].cancelled
    BY Zenon, <1>2, <1>3
  <2>2. ~reqs[r].cancelled => calls[key] # NoCall
    BY Zenon, <1>0, <1>1, <1>3 DEF RequestFresh
  <2>3. ~reqs[r].cancelled => d <= CallTime + AllowedTTL + RevalidateInterval + calls[key].age
    <3>1. calls[key] # NoCall => calls[key].age \in Nat
      BY <1>0, ProxyAssumption DEF Calls
    <3> QED
      BY SMTT(60), <3>1, <2>2, <1>0, <1>1, ProxyAssumption DEF RequestFresh
  <2>4. RequestFresh(q, calls[q.key], gitea[q.key].denied)
    BY Zenon, <2>1, <2>2, <2>3 DEF RequestFresh
  <2>5. r \notin dropped => Leased(q, route)
    BY Zenon, <2>1, <1>0, <1>1 DEF Leased
  <2> QED
    BY Zenon, <1>0, <1>3, <2>1, <2>4, <2>5, RequestChanges
<1>4. CASE /\ reqs[r].again = "no" /\ calls[key] = NoCall /\ Full
           /\ reqs' = [reqs EXCEPT ![r].cancelled = TRUE, ![r].timer = RevalidateInterval]
           /\ UNCHANGED <<calls, inflight>>
  <2> DEFINE q == [[reqs[r] EXCEPT !.cancelled = TRUE] EXCEPT !.timer = RevalidateInterval]
  <2>1. reqs' = [reqs EXCEPT ![r] = q]
    BY Zenon, <1>4, <1>0 DEF ProxyIInv, ProxyType
  <2>2. [reqs[r] EXCEPT !.cancelled = TRUE] \in Req
    BY Zenon, <1>0 DEF Req
  <2>3. q \in Req
    BY Zenon, <2>2, TimerStarted
  <2>4. q.phase = "proxy" /\ q.key = key /\ q.cancelled
    BY Zenon, <1>0 DEF Req
  <2> HIDE DEF q
  <2>5. RequestFresh(q, calls[q.key], gitea[q.key].denied) /\ Leased(q, route)
    BY Zenon, <2>4 DEF RequestFresh, Leased
  <2> QED
    BY Zenon, <1>0, <1>4, <2>1, <2>3, <2>4, <2>5, RequestChanges
<1>5. CASE /\ reqs[r].again = "no" /\ calls[key] = NoCall /\ ~Full
           /\ reqs' = [reqs EXCEPT ![r].again = "lead", ![r].timer = RevalidateInterval]
           /\ calls' = [calls EXCEPT ![key] = Call(FALSE)]
           /\ inflight' = [inflight EXCEPT !.validations = inflight.validations + 1]
  <2>1. PICK q \in Req : /\ reqs' = [reqs EXCEPT ![r] = q] /\ q.phase = "proxy" /\ q.key = key
                         /\ q.again = "lead" /\ q.lease = reqs[r].lease /\ q.cancelled = reqs[r].cancelled
    BY Zenon, <1>2, <1>5
  <2>2. reqs' \in [Requests -> Req] /\ reqs'[r] = q /\ \A p \in Requests : p # r => reqs'[p] = reqs[p]
    BY Zenon, <2>1 DEF ProxyIInv, ProxyType
  <2>3. /\ calls' \in [Keys -> Calls \cup {NoCall}] /\ calls'[key] = Call(FALSE) /\ Call(FALSE) # NoCall
        /\ Call(FALSE).answer = "none" /\ \A k \in Keys : k # key => calls'[k] = calls[k]
    BY Zenon, <1>0, <1>5, CallFacts DEF ProxyIInv, ProxyType
  <2>4. /\ DOMAIN inflight' = {"total", "by", "validations"} /\ inflight'.total = inflight.total
        /\ inflight'.by = inflight.by /\ inflight'.validations = inflight.validations + 1
    BY Zenon, <1>5, ValidationsFacts DEF ProxyIInv, Counted
  <2>5. ProxyType'
    BY Zenon, <1>0, <2>1, <2>2, <2>3 DEF ProxyIInv, ProxyType
  <2>6. Places'
    BY Zenon, <1>0, <2>1, <2>2, <2>4, SamePlaces DEF ProxyIInv
  <2>7. Questions'
    BY Zenon, <1>0, <1>5, <2>3, <2>4, OneMoreQuestion DEF ProxyIInv
  <2>8. Fresh'
    <3>1. ASSUME NEW k \in Keys PROVE AnswerFresh(calls'[k], gitea[k].denied)
      BY Zenon, <2>3 DEF ProxyIInv, Fresh, AnswerFresh
    <3>2. ASSUME NEW p \in Requests
          PROVE  RequestFresh(reqs'[p], calls'[reqs'[p].key], gitea[reqs'[p].key].denied)
      <4>1. CASE p = r
        <5>1. ~reqs[r].cancelled => d <= CallTime + AllowedTTL + RevalidateInterval + Call(FALSE).age
          BY <1>0, <1>1, <1>5, ProxyAssumption DEF RequestFresh, Call
        <5> QED
          BY Zenon, <4>1, <5>1, <2>1, <2>2, <2>3 DEF RequestFresh
      <4>2. CASE p # r
        <5>1. reqs'[p] = reqs[p] /\ reqs[p].key \in Keys
          BY Zenon, <4>2, <2>2 DEF ProxyIInv, ProxyType, Req
        <5>2. calls[reqs[p].key] # NoCall => calls'[reqs[p].key] = calls[reqs[p].key]
          BY Zenon, <5>1, <1>5, <2>3
        <5> QED
          BY Zenon, <5>1, <5>2 DEF ProxyIInv, Fresh, RequestFresh
      <4> QED
        BY Zenon, <4>1, <4>2
    <3>3. gitea' = gitea /\ cache' = cache
      BY Zenon, <1>0
    <3> QED
      BY <3>1, <3>2, <3>3, Zenon DEF ProxyIInv, Fresh
  <2>9. AllLeased'
    BY Zenon, <1>0, <2>1, <2>2 DEF ProxyIInv, AllLeased, Leased
  <2> QED
    BY Zenon, <2>4, <2>5, <2>6, <2>7, <2>8, <2>9 DEF ProxyIInv, Counted
<1> QED
  BY Zenon, <1>0, <1>3, <1>4, <1>5 DEF Revalidate, Req

\* End: the deferred releases give back what was reserved.
LEMMA EndStep ==
  ASSUME ProxyIInv, NEW r \in Requests, End(r)
  PROVE  ProxyIInv'
<1>0. /\ reqs[r].phase # "off" /\ reqs' = [reqs EXCEPT ![r] = Off] /\ dropped' = dropped \ {r}
      /\ inflight' = Release(inflight, r, reqs[r].key) /\ UNCHANGED <<calls, cache, gitea, route, changed>>
  BY Zenon DEF End
<1>1. /\ reqs' \in [Requests -> Req] /\ reqs'[r] = Off /\ Off.phase = "off" /\ Off.again = "no"
      /\ \A p \in Requests : p # r => reqs'[p] = reqs[p]
  BY Zenon, <1>0, CallFacts DEF ProxyIInv, ProxyType
<1>2. ProxyType'
  BY Zenon, <1>0, <1>1 DEF ProxyIInv, ProxyType
<1>3. /\ DOMAIN inflight' = {"total", "by", "validations"} /\ inflight'.total = inflight.total - 1
      /\ inflight'.validations = inflight.validations
      /\ \A s \in AllSlots : inflight'.by[s] =
            IF s \in Slots(r, reqs[r].key) THEN inflight.by[s] - 1 ELSE inflight.by[s]
  BY <1>0, ReleaseFacts DEF ProxyIInv, Counted
<1>4. Places'
  BY Zenon, <1>0, <1>1, <1>3, PlacesReleased DEF ProxyIInv
<1>5. Questions'
  BY Zenon, <1>0, <1>3, SameQuestions DEF ProxyIInv
<1>6. Fresh'
  <2>1. RequestFresh(Off, calls[Off.key], gitea[Off.key].denied)
    BY Zenon, <1>1 DEF RequestFresh
  <2> QED
    BY <1>0, <1>1, <2>1, Zenon DEF ProxyIInv, Fresh
<1>7. AllLeased'
  <2>1. Leased(Off, route)
    BY Zenon, <1>1 DEF Leased
  <2>2. \A p \in Requests : p # r /\ p \notin dropped' => p \notin dropped
    BY Zenon, <1>0
  <2> QED
    BY <1>0, <1>1, <2>1, <2>2, Zenon DEF ProxyIInv, AllLeased
<1> QED
  BY Zenon, <1>2, <1>3, <1>4, <1>5, <1>6, <1>7 DEF ProxyIInv, Counted

(* The entry of the endpoint changes: who has a lease of the old one is      *)
(* about to be cancelled.                                                    *)
LEMMA RouteStep ==
  ASSUME ProxyIInv, Delete \/ \E public \in BOOLEAN : Replace(public)
  PROVE  ProxyIInv'
<1>0. /\ dropped' = dropped \cup LeasesTaken /\ UNCHANGED <<reqs, inflight, calls, cache, gitea>>
      /\ changed' = changed + 1
      /\ route' = NoRoute \/ \E public \in BOOLEAN : route' = [id |-> changed + 2, public |-> public]
  BY Zenon DEF Delete, Replace, Change
<1>1. changed' \in Nat /\ route' \in [id : Nat, public : BOOLEAN]
  BY <1>0, CallFacts DEF ProxyIInv, ProxyType
<1>2. ProxyType'
  BY Zenon, <1>0, <1>1 DEF ProxyIInv, ProxyType
<1>3. Places' /\ Questions'
  BY Zenon, <1>0, SamePlaces, SameQuestions DEF ProxyIInv
<1>4. Fresh'
  BY <1>0, Zenon DEF ProxyIInv, Fresh
<1>5. AllLeased'
  BY Zenon, <1>0 DEF ProxyIInv, AllLeased, Leased, LeasesTaken
<1> QED
  BY Zenon, <1>0, <1>2, <1>3, <1>4, <1>5 DEF ProxyIInv, Counted

\* cancelGatewayRouteLeases: what was dropped is cancelled.
LEMMA CancelStep ==
  ASSUME ProxyIInv, cancelGatewayRouteLeases
  PROVE  ProxyIInv'
<1>0. /\ dropped' = {} /\ UNCHANGED <<inflight, calls, cache, gitea, route, changed>>
      /\ reqs' = [r \in Requests |-> IF r \in dropped THEN [reqs[r] EXCEPT !.cancelled = TRUE] ELSE reqs[r]]
  BY Zenon DEF cancelGatewayRouteLeases
<1>1. ASSUME NEW r \in Requests
      PROVE  /\ reqs'[r] \in Req /\ reqs'[r].phase = reqs[r].phase /\ reqs'[r].key = reqs[r].key
             /\ reqs'[r].again = reqs[r].again
             /\ reqs'[r] = reqs[r] \/ reqs'[r].cancelled
             /\ r \in dropped => reqs'[r].cancelled
             /\ r \notin dropped => reqs'[r] = reqs[r]
  <2>1. reqs[r] \in Req
    BY Zenon DEF ProxyIInv, ProxyType
  <2>2. CASE r \in dropped
    <3>1. reqs'[r] = [reqs[r] EXCEPT !.cancelled = TRUE]
      BY Zenon, <1>0, <2>2
    <3> QED
      BY Zenon, <2>1, <2>2, <3>1 DEF Req
  <2>3. CASE r \notin dropped
    BY Zenon, <1>0, <2>1, <2>3
  <2> QED
    BY Zenon, <2>2, <2>3
<1>2. ProxyType'
  <2>1. reqs' \in [Requests -> Req]
    BY Zenon, <1>0, <1>1
  <2> QED
    BY Zenon, <2>1, <1>0, <1>1 DEF ProxyIInv, ProxyType
<1>3. Places' /\ Questions'
  BY Zenon, <1>0, <1>1, SamePlaces, SameQuestions DEF ProxyIInv
<1>4. Fresh'
  <2>1. ASSUME NEW r \in Requests
        PROVE  RequestFresh(reqs'[r], calls[reqs'[r].key], gitea[reqs'[r].key].denied)
    <3>1. RequestFresh(reqs[r], calls[reqs[r].key], gitea[reqs[r].key].denied)
      BY Zenon DEF ProxyIInv, Fresh
    <3> QED
      BY Zenon, <3>1, <1>1 DEF RequestFresh
  <2> QED
    BY <1>0, <2>1, Zenon DEF ProxyIInv, Fresh
<1>5. AllLeased'
  BY Zenon, <1>0, <1>1 DEF ProxyIInv, AllLeased, Leased
<1> QED
  BY Zenon, <1>0, <1>2, <1>3, <1>4, <1>5 DEF ProxyIInv, Counted

(* Gitea changes its mind: what was allowed until now is fresh.              *)
LEMMA DecidesStep ==
  ASSUME ProxyIInv, NEW key \in Keys, Decides(key)
  PROVE  ProxyIInv'
<1>0. /\ changed' = changed + 1 /\ UNCHANGED <<reqs, inflight, calls, cache, route, dropped>>
      /\ gitea' = [gitea EXCEPT ![key] = [allowed |-> ~gitea[key].allowed, denied |-> 0]]
  BY Zenon DEF Decides, Change
<1>1. gitea[key].allowed \in BOOLEAN
  BY Zenon DEF ProxyIInv, ProxyType
<1>2. /\ gitea' \in [Keys -> [allowed : BOOLEAN, denied : Nat]] /\ gitea'[key].denied = 0
      /\ \A k \in Keys : k # key => gitea'[k] = gitea[k]
  BY Zenon, <1>0, <1>1 DEF ProxyIInv, ProxyType
<1>3. ProxyType'
  BY <1>0, <1>2 DEF ProxyIInv, ProxyType
<1>4. Places' /\ Questions'
  BY Zenon, <1>0, SamePlaces, SameQuestions DEF ProxyIInv
<1>a. CallTime \in Nat /\ AllowedTTL \in Nat /\ RevalidateInterval \in Nat
  BY Zenon, ProxyAssumption
<1>5. Fresh'
  <2>1. ASSUME NEW k \in Keys PROVE AnswerFresh(calls[k], gitea'[k].denied) /\ CacheFresh(cache[k], gitea'[k].denied)
    <3>1. CASE k # key
      BY Zenon, <3>1, <1>2 DEF ProxyIInv, Fresh
    <3>2. CASE k = key
      <4>1. calls[k] # NoCall => calls[k].age \in 0 .. CallTime
        BY Zenon DEF ProxyIInv, ProxyType, Calls
      <4>2. cache[k] \in 0 .. AllowedTTL
        BY Zenon DEF ProxyIInv, ProxyType
      <4> QED
        BY <3>2, <4>1, <4>2, <1>2, <1>a DEF AnswerFresh, CacheFresh
    <3> QED
      BY Zenon, <3>1, <3>2
  <2>2. ASSUME NEW r \in Requests
        PROVE  RequestFresh(reqs[r], calls[reqs[r].key], gitea'[reqs[r].key].denied)
    <3>0. RequestFresh(reqs[r], calls[reqs[r].key], gitea[reqs[r].key].denied)
      BY Zenon DEF ProxyIInv, Fresh
    <3>1. CASE reqs[r].key # key
      BY Zenon, <3>0, <3>1, <1>2 DEF ProxyIInv, ProxyType, Req
    <3>2. CASE reqs[r].key = key
      <4>1. calls[key] # NoCall => calls[key].age \in 0 .. CallTime
        BY Zenon DEF ProxyIInv, ProxyType, Calls
      <4>2. reqs[r].timer \in 0 .. RevalidateInterval
        BY Zenon DEF ProxyIInv, ProxyType, Req
      <4> QED
        BY <3>0, <3>2, <4>1, <4>2, <1>2, <1>a DEF RequestFresh
    <3> QED
      BY Zenon, <3>1, <3>2
  <2> QED
    BY <1>0, <2>1, <2>2, Zenon DEF Fresh
<1>6. AllLeased'
  BY <1>0, Zenon DEF ProxyIInv, AllLeased
<1> QED
  BY Zenon, <1>0, <1>3, <1>4, <1>5, <1>6 DEF ProxyIInv, Counted

(* A tick: what ages does so by one, a timer that runs and a time to live    *)
(* get shorter by one.                                                       *)
LEMMA TickStep ==
  ASSUME ProxyIInv, ProxyTick
  PROVE  ProxyIInv'
<1>0. /\ UNCHANGED <<inflight, route, dropped, changed>>
      /\ \A k \in Keys : calls[k] # NoCall => calls[k].age < CallTime
      /\ \A r \in Requests : reqs[r].phase # "allowed" /\ ~(reqs[r].phase = "proxy" /\ reqs[r].timer = 0)
  BY Zenon DEF ProxyTick, Due
<1>a. CallTime \in Nat /\ AllowedTTL \in Nat /\ RevalidateInterval \in Nat
  BY Zenon, ProxyAssumption
<1>1. ASSUME NEW r \in Requests
      PROVE  /\ reqs'[r] \in Req /\ reqs'[r].phase = reqs[r].phase /\ reqs'[r].key = reqs[r].key
             /\ reqs'[r].again = reqs[r].again /\ reqs'[r].cancelled = reqs[r].cancelled
             /\ reqs'[r].lease = reqs[r].lease
             /\ reqs'[r].timer = IF reqs[r].timer = 0 THEN 0 ELSE reqs[r].timer - 1
  <2>1. reqs[r] \in Req
    BY Zenon DEF ProxyIInv, ProxyType
  <2> DEFINE n == IF reqs[r].timer = 0 THEN 0 ELSE reqs[r].timer - 1
  <2>2. reqs'[r] = [reqs[r] EXCEPT !.timer = n]
    BY Zenon DEF ProxyTick
  <2>3. n \in 0 .. RevalidateInterval
    BY <2>1, <1>a DEF Req
  <2> HIDE DEF n
  <2>4. reqs'[r] \in Req /\ reqs'[r].timer = n
    BY Zenon, <2>1, <2>2, <2>3 DEF Req
  <2>5. /\ reqs'[r].phase = reqs[r].phase /\ reqs'[r].key = reqs[r].key
        /\ reqs'[r].again = reqs[r].again /\ reqs'[r].cancelled = reqs[r].cancelled
        /\ reqs'[r].lease = reqs[r].lease
    BY Zenon, <2>1, <2>2 DEF Req
  <2> QED
    BY Zenon, <2>4, <2>5 DEF n
<1>2. ASSUME NEW k \in Keys
      PROVE  /\ calls'[k] \in Calls \cup {NoCall} /\ (calls'[k] = NoCall <=> calls[k] = NoCall)
             /\ calls[k] # NoCall => /\ calls[k] \in Calls /\ calls'[k].age = calls[k].age + 1
                                     /\ calls'[k].answer = calls[k].answer
  <2>1. CASE calls[k] = NoCall
    BY Zenon, <2>1 DEF ProxyTick
  <2>2. CASE calls[k] # NoCall
    <3>1. calls[k] \in Calls
      BY Zenon, <2>2 DEF ProxyIInv, ProxyType
    <3> DEFINE n == calls[k].age + 1
    <3>2. n \in 0 .. CallTime
      BY <3>1, <2>2, <1>0, <1>a DEF Calls
    <3>3. calls'[k] = [calls[k] EXCEPT !.age = n]
      BY Zenon, <2>2 DEF ProxyTick
    <3> HIDE DEF n
    <3>4. calls'[k] \in Calls /\ calls'[k].age = n /\ calls'[k].answer = calls[k].answer
      BY Zenon, <3>1, <3>2, <3>3 DEF Calls
    <3> QED
      BY Zenon, <3>1, <3>4, <2>2, CallFacts DEF n
  <2> QED
    BY Zenon, <2>1, <2>2
<1>3. ASSUME NEW k \in Keys
      PROVE  /\ gitea[k].denied \in Nat /\ gitea'[k] \in [allowed : BOOLEAN, denied : Nat]
             /\ gitea'[k].allowed => gitea'[k].denied = 0
             /\ gitea'[k].denied <= gitea[k].denied + 1
  <2>1. gitea[k] \in [allowed : BOOLEAN, denied : Nat] /\ (gitea[k].allowed => gitea[k].denied = 0)
    BY Zenon DEF ProxyIInv, ProxyType
  <2>2. CASE gitea'[k] = gitea[k]
    BY <2>1, <2>2
  <2>3. CASE ~gitea[k].allowed /\ gitea'[k] = [gitea[k] EXCEPT !.denied = gitea[k].denied + 1]
    BY <2>1, <2>3
  <2> QED
    BY Zenon, <2>2, <2>3 DEF ProxyTick
<1>4. ASSUME NEW k \in Keys
      PROVE  cache[k] \in Nat /\ cache'[k] \in 0 .. AllowedTTL /\ (cache'[k] > 0 => cache[k] = cache'[k] + 1)
  <2>1. cache[k] \in 0 .. AllowedTTL /\ cache'[k] = IF cache[k] = 0 THEN 0 ELSE cache[k] - 1
    BY Zenon DEF ProxyIInv, ProxyType, ProxyTick
  <2> QED
    BY <2>1, <1>a
<1>5. ProxyType'
  <2>1. reqs' \in [Requests -> Req]
    BY Zenon, <1>1 DEF ProxyTick
  <2>2. calls' \in [Keys -> Calls \cup {NoCall}] /\ cache' \in [Keys -> 0 .. AllowedTTL]
    BY Zenon, <1>2, <1>4 DEF ProxyTick
  <2>3. gitea' \in [Keys -> [allowed : BOOLEAN, denied : Nat]]
    BY Zenon, <1>3 DEF ProxyTick
  <2>4. \A r \in Requests : reqs'[r].phase # "proxy" => reqs'[r].again = "no"
    BY Zenon, <1>1 DEF ProxyIInv, ProxyType
  <2> QED
    BY Zenon, <2>1, <2>2, <2>3, <2>4, <1>0, <1>3 DEF ProxyIInv, ProxyType
<1>6. Places' /\ Questions'
  <2>1. Places'
    BY Zenon, <1>0, <1>1, SamePlaces DEF ProxyIInv
  <2>2. Questions'
    BY Zenon, <1>0, <1>2, SameQuestions DEF ProxyIInv
  <2> QED
    BY Zenon, <2>1, <2>2
<1>7. Fresh'
  <2>1. ASSUME NEW k \in Keys PROVE AnswerFresh(calls'[k], gitea'[k].denied) /\ CacheFresh(cache'[k], gitea'[k].denied)
    <3>0. AnswerFresh(calls[k], gitea[k].denied) /\ CacheFresh(cache[k], gitea[k].denied)
      BY Zenon DEF ProxyIInv, Fresh
    <3>1. AnswerFresh(calls'[k], gitea'[k].denied)
      <4>1. gitea'[k].denied \in Nat /\ (calls[k] # NoCall => calls[k].age \in Nat)
        BY <1>2, <1>3, <1>a DEF Calls
      <4> QED
        BY <4>1, <3>0, <1>2, <1>3 DEF AnswerFresh
    <3>2. CacheFresh(cache'[k], gitea'[k].denied)
      BY <3>0, <1>3, <1>4, <1>a DEF CacheFresh
    <3> QED
      BY Zenon, <3>1, <3>2
  <2>2. ASSUME NEW r \in Requests
        PROVE  RequestFresh(reqs'[r], calls'[reqs'[r].key], gitea'[reqs'[r].key].denied)
    <3> DEFINE q == reqs[r]
               k == q.key
               d == gitea[k].denied
               e == gitea'[k].denied
    <3>0. k \in Keys /\ q.timer \in Nat
      BY <1>a DEF ProxyIInv, ProxyType, Req
    <3>1. d \in Nat /\ e \in Nat /\ e <= d + 1
      BY Zenon, <3>0, <1>3
    <3>2. RequestFresh(q, calls[k], d)
      BY Zenon DEF ProxyIInv, Fresh
    <3>3. q.phase = "proxy" => reqs'[r].timer = q.timer - 1
      BY Zenon, <1>0, <1>1
    <3>4. /\ reqs'[r].phase = q.phase /\ q.phase # "allowed" /\ reqs'[r].key = k
          /\ reqs'[r].again = q.again /\ reqs'[r].cancelled = q.cancelled
      BY Zenon, <1>0, <1>1
    <3>5. calls[k] # NoCall => calls'[k] # NoCall /\ calls'[k].age = calls[k].age + 1 /\ calls[k].age \in Nat
      BY <3>0, <1>2, <1>a DEF Calls
    <3>6. q.phase = "proxy" /\ ~q.cancelled /\ q.again = "no" =>
            e + reqs'[r].timer <= CallTime + AllowedTTL + RevalidateInterval
      BY SMTT(60), <3>0, <3>1, <3>2, <3>3, <1>a DEF RequestFresh
    <3>7. q.phase = "proxy" /\ ~q.cancelled /\ q.again # "no" =>
            calls'[k] # NoCall /\ e <= CallTime + AllowedTTL + RevalidateInterval + calls'[k].age
      BY <3>1, <3>2, <3>5, <1>a DEF RequestFresh
    <3> QED
      BY Zenon, <3>4, <3>6, <3>7 DEF RequestFresh
  <2> QED
    BY <2>1, <2>2, Zenon DEF Fresh
<1>8. AllLeased'
  BY Zenon, <1>0, <1>1 DEF ProxyIInv, AllLeased, Leased
<1> QED
  BY Zenon, <1>0, <1>5, <1>6, <1>7, <1>8 DEF ProxyIInv, Counted

\* No request, no call and no route.
LEMMA ProxyInitIInv == ProxyInit => ProxyIInv
<1> SUFFICES ASSUME ProxyInit PROVE ProxyIInv
    OBVIOUS
<1>1. \A r \in Requests : reqs[r] = Off /\ Off \in Req /\ Off.phase = "off" /\ Off.again = "no"
  BY Zenon, CallFacts DEF ProxyInit
<1>2. ProxyType
  BY <1>1, ProxyAssumption DEF ProxyInit, ProxyType
<1>3. Counted
  <2>1. UnderWay = {} /\ Asking = {} /\ \A s : Taking(s) = {}
    BY Zenon, <1>1 DEF ProxyInit, UnderWay, Asking, Taking
  <2>2. Cardinality({}) = 0
    BY Zenon, FS_EmptySet
  <2>3. inflight = [total |-> 0, by |-> [s \in AllSlots |-> 0], validations |-> 0]
    BY Zenon DEF ProxyInit
  <2> QED
    BY <2>1, <2>2, <2>3, ProxyAssumption DEF Counted, Places, Questions
<1>4. Fresh
  <2>1. \A k \in Keys : calls[k] = NoCall /\ cache[k] = 0
    BY Zenon DEF ProxyInit
  <2> QED
    BY <1>1, <2>1 DEF Fresh, AnswerFresh, CacheFresh, RequestFresh
<1>5. AllLeased
  BY Zenon, <1>1 DEF AllLeased, Leased
<1> QED
  BY Zenon, <1>2, <1>3, <1>4, <1>5 DEF ProxyIInv

\* Every step of the proxy, of Gitea and of time keeps the invariant.
LEMMA ProxyStep == ProxyIInv /\ [ProxyNext]_proxyVars => ProxyIInv'
<1> SUFFICES ASSUME ProxyIInv, [ProxyNext]_proxyVars PROVE ProxyIInv'
    OBVIOUS
<1>1. CASE UNCHANGED proxyVars
  <2>1. UNCHANGED <<reqs, inflight, calls, cache, gitea, route, dropped, changed>>
    BY Zenon, <1>1 DEF proxyVars
  <2>2. ProxyType' /\ Fresh' /\ AllLeased'
    BY <2>1, Zenon DEF ProxyIInv, ProxyType, Fresh, AllLeased
  <2>3. Places' /\ Questions'
    BY Zenon, <2>1, SamePlaces, SameQuestions DEF ProxyIInv
  <2> QED
    BY Zenon, <2>1, <2>2, <2>3 DEF ProxyIInv, Counted
<1>2. ASSUME NEW r \in Requests,
             (\E k \in Keys : Arrive(r, k)) \/ BeginProxy(r) \/ Revalidate(r) \/ Leave(r) \/ End(r)
      PROVE  ProxyIInv'
  BY <1>2, ArriveStep, BeginProxyStep, RevalidateStep, LeaveStep, EndStep, Zenon
<1>3. CASE \E k \in Keys : Decide(k) \/ ReturnAnswer(k) \/ Fail(k) \/ Decides(k)
  BY <1>3, DecideStep, ReturnAnswerStep, FailStep, DecidesStep, Zenon
<1>4. ASSUME NEW public \in BOOLEAN, Replace(public) PROVE ProxyIInv'
  BY Zenon, <1>4, RouteStep
<1>5. CASE Delete
  BY Zenon, <1>5, RouteStep
<1>6. CASE cancelGatewayRouteLeases
  BY Zenon, <1>6, CancelStep
<1>7. CASE ProxyTick
  BY Zenon, <1>7, TickStep
<1> QED
  BY <1>1, <1>2, <1>3, <1>4, <1>5, <1>6, <1>7, Zenon DEF ProxyNext

\* The invariant always holds.
LEMMA ProxyInvariance == ProxySpec => []ProxyIInv
BY ProxyInitIInv, ProxyStep, PTL DEF ProxySpec

\* reservePublic, reserveSessionRequest, beginValidation and their releases: for
\* any requests, keys and limits, every count is the number of those under way and
\* within its limit.
THEOREM CountsAreExact == ProxySpec => []ReservationsExact
<1>1. ProxyIInv => ReservationsExact
  BY Zenon DEF ProxyIInv, Counted, Places, Questions, UnderWay, Taking, Asking, ReservationsExact
<1> QED
  BY <1>1, ProxyInvariance, PTL

\* BeginProxy, takeCancels, validateAccess, withGatewayProxyRevalidation: for any
\* durations, no request outlives its route or, by more than one validity, one
\* interval and two calls, its permission.
THEOREM RevokedAreCut == ProxySpec => []RevokedIsCut
<1>1. ASSUME ProxyIInv PROVE RevokedIsCut
  <2> SUFFICES ASSUME NEW r \in Requests, reqs[r].phase = "proxy", ~reqs[r].cancelled
               PROVE  /\ r \notin dropped =>
                           reqs[r].lease = route.id /\ (reqs[r].key = "public" => route.public)
                      /\ gitea[reqs[r].key].denied # Never
      BY Zenon DEF RevokedIsCut
  <2> DEFINE c == calls[reqs[r].key]
             d == gitea[reqs[r].key].denied
  <2>1. r \notin dropped => reqs[r].lease = route.id /\ (reqs[r].key = "public" => route.public)
    BY Zenon, <1>1 DEF ProxyIInv, AllLeased, Leased
  <2>2. RequestFresh(reqs[r], c, d)
    BY Zenon, <1>1 DEF ProxyIInv, Fresh
  <2>3. reqs[r].key \in Keys /\ reqs[r].timer \in 0 .. RevalidateInterval
    BY Zenon, <1>1 DEF ProxyIInv, ProxyType, Req
  <2>4. d \in Nat /\ (c # NoCall => c.age \in 0 .. CallTime)
    BY Zenon, <1>1, <2>3 DEF ProxyIInv, ProxyType, Calls
  <2>5. CallTime \in Nat /\ AllowedTTL \in Nat /\ RevalidateInterval \in Nat
    BY Zenon, ProxyAssumption
  <2>6. d # Never
    BY <2>2, <2>3, <2>4, <2>5 DEF RequestFresh, Never
  <2> QED
    BY Zenon, <2>1, <2>6
<1> QED
  BY <1>1, ProxyInvariance, PTL
=============================================================================
