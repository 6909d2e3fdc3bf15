--------------------------- MODULE RegistryCache ---------------------------
(***************************************************************************)
(* The registry a cache process serves (internal/cache registry_cache.go,  *)
(* registry_auth.go, credential.go): requests admitted by credential and    *)
(* namespace under the read side of the maintenance lock, and the cleanup   *)
(* that holds its write side while it evicts repositories and sweeps blobs. *)
(* The storage and its mark-and-sweep are those of the Distribution         *)
(* library.  Each client has a namespace with one repository; "mirror" is   *)
(* the proxied upstream, kept in storage of its own.                        *)
(***************************************************************************)
EXTENDS Integers, Sequences, FiniteSets, Functions

CONSTANTS
  Users,             \* credential holders, and the repositories they own
  Builders,          \* those whose credential allows build caches
  Expiring,          \* those whose credential ends within the modelled time
  Images,            \* the sets of layers, of one byte each, a build pushes
  MaxBytes,          \* maxBytes
  MaxAge,            \* maxAge
  HoldAge,           \* the hour a repository is kept even over capacity
  AuthenticationTTL, \* authenticationTTL
  TokenTTL           \* lifetime of a credential

ASSUME RegistryConstants ==
  /\ {MaxBytes, MaxAge, HoldAge, AuthenticationTTL, TokenTTL} \subseteq Nat
  /\ Builders \cup Expiring \subseteq Users

VARIABLES
  manifests, \* per repository: the layers its manifest names, or none; its age
  stored,    \* blobs in storage
  req,       \* per user, the request being served, under a read lock
  sent,      \* per user, layers it has uploaded for its next manifest
  maint,     \* the maintenance lock and the cleanup under it
  token,     \* per expiring user, what is left of its credential
  session    \* per expiring user, what is left of its cached verification

registryVars == <<manifests, stored, req, sent, maint, token, session>>

NoManifest == [layers |-> {}, age |-> 0]
NoRequest == [op |-> "none", layers |-> {}, valid |-> TRUE]
Free == [lock |-> "free", todo |-> <<>>, marked |-> {}]

RegistryInit ==
  /\ manifests = [u \in Users |-> NoManifest]
  /\ stored = {}
  /\ req = [u \in Users |-> NoRequest]
  /\ sent = [u \in Users |-> {}]
  /\ maint = Free
  /\ token = [u \in Expiring |-> TokenTTL]
  /\ session = [u \in Expiring |-> 0]

Least(a, b) == IF a < b THEN a ELSE b

(***************************************************************************)
(* Requests.                                                               *)
(***************************************************************************)

(* TryRLock fails while a cleanup holds the lock or waits for it.           *)
AdmittedInCleanup == maint.lock \in {"free", "waiting", "locked", "marked"}

Admitted == maint.lock = "free"

CachedUncapped(u) == AuthenticationTTL

(* A verification is cached no longer than the credential lives.            *)
Cached(u) == Least(AuthenticationTTL, token[u])

(* verifyToken: a cached session answers without looking at the token.      *)
verifyToken(u) ==
  \/ u \notin Expiring /\ UNCHANGED session
  \/ u \in Expiring /\ session[u] > 0 /\ UNCHANGED session
  \/ u \in Expiring /\ session[u] = 0 /\ token[u] > 0 /\ session' = [session EXCEPT ![u] = Cached(u)]

(* authorize: build credentials pull and push in their namespace; the       *)
(* mirror is only pulled from.                                              *)
authorize(u, repository, action) ==
  \/ u \in Builders /\ repository = u /\ action \in {"pull", "push"}
  \/ repository = "mirror" /\ action = "pull"

Serve(u, op, layers) ==
  /\ Admitted
  /\ req[u] = NoRequest
  /\ verifyToken(u)
  /\ req' = [req EXCEPT ![u] = [op |-> op, layers |-> layers, valid |-> u \in Expiring => token[u] > 0]]
  /\ UNCHANGED <<manifests, stored, sent, maint, token>>

(* A push is one request for the layers and one for the manifest.           *)
Upload(u) ==
  \E layers \in Images :
    /\ authorize(u, u, "push")
    /\ Serve(u, "upload", layers)

PutManifest(u) ==
  /\ sent[u] # {}
  /\ authorize(u, u, "push")
  /\ Serve(u, "put", sent[u])

Pull(u) ==
  /\ \E r \in {u, "mirror"} : authorize(u, r, "pull")
  /\ Serve(u, "pull", {})

Done(u) == req' = [req EXCEPT ![u] = NoRequest]

FinishUpload(u) ==
  /\ req[u].op = "upload"
  /\ stored' = stored \cup req[u].layers
  /\ sent' = [sent EXCEPT ![u] = req[u].layers]
  /\ Done(u)
  /\ UNCHANGED <<manifests, maint, token, session>>

(* The library accepts a manifest whose layers it finds, then links it.     *)
VerifyManifest(u) ==
  /\ req[u].op = "put"
  /\ IF req[u].layers \subseteq stored
     THEN req' = [req EXCEPT ![u].op = "link"] /\ UNCHANGED sent
     ELSE Done(u) /\ sent' = [sent EXCEPT ![u] = {}]
  /\ UNCHANGED <<manifests, stored, maint, token, session>>

LinkManifest(u) ==
  /\ req[u].op = "link"
  /\ manifests' = [manifests EXCEPT ![u] = [layers |-> req[u].layers, age |-> 0]]
  /\ sent' = [sent EXCEPT ![u] = {}]
  /\ Done(u)
  /\ UNCHANGED <<stored, maint, token, session>>

FinishPull(u) ==
  /\ req[u].op = "pull"
  /\ Done(u)
  /\ UNCHANGED <<manifests, stored, sent, maint, token, session>>

(***************************************************************************)
(* prune.                                                                  *)
(***************************************************************************)

cacheBlobBytes == Cardinality(stored)

LockMaintenance ==
  /\ maint.lock = "free"
  /\ maint' = [maint EXCEPT !.lock = "waiting"]
  /\ UNCHANGED <<manifests, stored, req, sent, token, session>>

(* With every request done; an empty storage has nothing to collect.        *)
Acquired == maint.lock = "waiting" /\ \A u \in Users : req[u] = NoRequest

NothingStored ==
  /\ Acquired
  /\ cacheBlobBytes = 0
  /\ maint' = Free
  /\ UNCHANGED <<manifests, stored, req, sent, token, session>>

(* The repositories that have a manifest, oldest first; those of one age in *)
(* any order, for sort.Slice is not stable.                                 *)
OldestFirst(names) ==
  {s \in [1 .. Cardinality(names) -> names] :
     /\ Range(s) = names
     /\ \A i, j \in DOMAIN s : i < j => manifests[s[i]].age >= manifests[s[j]].age}

Enumerate ==
  /\ Acquired
  /\ cacheBlobBytes > 0
  /\ \E todo \in OldestFirst({u \in Users : manifests[u] # NoManifest}) :
       maint' = [lock |-> "locked", todo |-> todo, marked |-> {}]
  /\ UNCHANGED <<manifests, stored, req, sent, token, session>>

Expired(u) == manifests[u].age > MaxAge
OverCapacity(u) == cacheBlobBytes > MaxBytes /\ manifests[u].age >= HoldAge

Keep ==
  /\ maint.lock = "locked" /\ maint.todo # <<>>
  /\ ~Expired(Head(maint.todo)) /\ ~OverCapacity(Head(maint.todo))
  /\ maint' = [maint EXCEPT !.todo = Tail(@)]
  /\ UNCHANGED <<manifests, stored, req, sent, token, session>>

Referenced == UNION {manifests[u].layers : u \in Users}

(* deleteCacheRepository: untag, delete the manifests, then mark and sweep. *)
deleteCacheRepository ==
  /\ maint.lock = "locked" /\ maint.todo # <<>>
  /\ Expired(Head(maint.todo)) \/ OverCapacity(Head(maint.todo))
  /\ manifests' = [manifests EXCEPT ![Head(maint.todo)] = NoManifest]
  /\ maint' = [lock |-> "marked", todo |-> Tail(maint.todo),
               marked |-> UNION {manifests'[u].layers : u \in Users}]
  /\ UNCHANGED <<stored, req, sent, token, session>>

(* The last mark, after every candidate.                                    *)
Mark ==
  /\ maint.lock = "locked" /\ maint.todo = <<>>
  /\ maint' = [maint EXCEPT !.lock = "marked", !.todo = <<"end">>, !.marked = Referenced]
  /\ UNCHANGED <<manifests, stored, req, sent, token, session>>

Swept == stored \cap maint.marked

Sweep ==
  /\ maint.lock = "marked"
  /\ stored' = Swept
  /\ maint' = IF maint.todo = <<"end">> THEN Free ELSE [maint EXCEPT !.lock = "locked", !.marked = {}]
  /\ UNCHANGED <<manifests, req, sent, token, session>>

(* Storage failed, or the grant's deadline or the permit ended the cleanup. *)
AbortPrune ==
  /\ maint.lock \in {"locked", "marked"}
  /\ maint' = Free
  /\ UNCHANGED <<manifests, stored, req, sent, token, session>>

(***************************************************************************)
(* Time, and a client that takes a new credential.                         *)
(***************************************************************************)

RegistryTick ==
  /\ manifests' = [u \in Users |-> IF manifests[u] = NoManifest THEN NoManifest
                     ELSE [manifests[u] EXCEPT !.age = Least(@ + 1, MaxAge + 1)]]
  /\ token' = [u \in Expiring |-> IF token[u] = 0 THEN 0 ELSE token[u] - 1]
  /\ session' = [u \in Expiring |-> IF session[u] = 0 THEN 0 ELSE session[u] - 1]
  /\ UNCHANGED <<stored, req, sent, maint>>

SignCredential(u) ==
  /\ u \in Expiring /\ token[u] = 0
  /\ token' = [token EXCEPT ![u] = TokenTTL]
  /\ session' = [session EXCEPT ![u] = 0]
  /\ UNCHANGED <<manifests, stored, req, sent, maint>>

RegistryNext ==
  \/ \E u \in Users :
       \/ Upload(u) \/ PutManifest(u) \/ Pull(u)
       \/ FinishUpload(u) \/ VerifyManifest(u) \/ LinkManifest(u) \/ FinishPull(u)
       \/ SignCredential(u)
  \/ LockMaintenance \/ NothingStored \/ Enumerate \/ Keep \/ deleteCacheRepository
  \/ Mark \/ Sweep \/ AbortPrune \/ RegistryTick

RegistrySpec == RegistryInit /\ [][RegistryNext]_registryVars

(***************************************************************************)
(* Properties.                                                             *)
(***************************************************************************)

(* Every manifest in the registry finds all its layers in storage: a        *)
(* cleanup never sweeps a layer of a manifest that is being put while it    *)
(* marks and sweeps, nor one a surviving repository shares with an evicted  *)
(* one (prune, under the maintenance lock).                                 *)
LayersKept == Referenced \subseteq stored

(* No request is admitted on a credential that has expired, although the    *)
(* verification is cached for longer than a request lasts (verifyToken).    *)
ServedOnLiveToken == \A u \in Users : req[u].valid
=============================================================================
