--------------------------- MODULE FeatureInstall ---------------------------
(***************************************************************************)
(* The Features of a Dev Container: how the references of a configuration  *)
(* are resolved to the contents to install, in which order these are       *)
(* installed, and how the lockfile pins them for the next create.          *)
(*                                                                         *)
(* A reference is a number; the order of the numbers is the order of the   *)
(* references' names.  What is fetched is told apart by its digest, and a  *)
(* digest has its metadata.  Two references may lead to one digest, and    *)
(* the registry may move a reference to another digest at any time.        *)
(* Options are left out: every reference is asked for with the same ones.  *)
(***************************************************************************)
EXTENDS Naturals, Sequences, FiniteSets, Functions

CONSTANTS
    References,   \* numbers; those of one repository differ in their version only
    Repository,   \* featureReferenceID: the repository of each reference
    Platform,     \* the references the platform injects, which are not locked
    Digests,      \* the contents the registry may have
    Wishes,       \* the sets of references a configuration may ask for, not all the platform's
    Overrides,    \* the values of overrideFeatureInstallOrder
    DependsOn,    \* the choices for the metadata dependsOn: functions of digests
    InstallsAfter,\* the choices for the metadata installsAfter
    Published,    \* the choices for what the registry serves at first
    MaxCreates,   \* bound: creates of an environment
    MaxMoves      \* bound: references the registry moves

ASSUME FeatureAssumption ==
    /\ References \subseteq Nat /\ IsFiniteSet(References) /\ IsFiniteSet(Digests)
    /\ Wishes \subseteq SUBSET References
    /\ DependsOn \cup InstallsAfter \subseteq [Digests -> SUBSET References]
    /\ Published \subseteq [References -> Digests]

VARIABLES
    asked,     \* the references of the configuration
    override,  \* its overrideFeatureInstallOrder
    frozen,    \* its FrozenLockfile
    dependsOn, installsAfter, \* the metadata of the contents
    published, \* what the registry serves for each reference
    lockfile,  \* the digests of devcontainer-lock.json
    creates, moves, \* what is used up of the bounds
    phase,        \* where the create is
    pending,   \* references to resolve, the next one first
    resolved,  \* the digest of each reference resolved so far
    naming,    \* the features found: the reference each was found by first
    ordered    \* the install order so far

featureVars == <<asked, override, frozen, dependsOn, installsAfter, published, lockfile,
                 creates, moves, phase, pending, resolved, naming, ordered>>
configured  == <<asked, override, frozen, dependsOn, installsAfter>>

Nothing == [r \in {} |-> 0]

\* The references, each once, in the order of their names.
InOrder(refs) == {s \in [1 .. Cardinality(refs) -> refs] :
                     Range(s) = refs /\ \A i, j \in DOMAIN s : i < j => s[i] < s[j]}

FeatureInit ==
    /\ asked = {} /\ override = <<>> /\ frozen = FALSE
    /\ dependsOn = Nothing /\ installsAfter = Nothing /\ published = Nothing
    /\ lockfile = Nothing /\ creates = 0 /\ moves = 0 /\ phase = "unknown"
    /\ pending = <<>> /\ resolved = Nothing /\ naming = Nothing /\ ordered = <<>>

---------------------------------------------------------------------------
\* The inputs: a configuration, and what the registry has of the Features it may lead to.
Configuration ==
    /\ phase = "unknown" /\ phase' = "idle"
    /\ asked' \in Wishes /\ override' \in Overrides /\ frozen' \in BOOLEAN
    /\ dependsOn' \in DependsOn /\ installsAfter' \in InstallsAfter
    /\ published' \in Published
    /\ UNCHANGED <<lockfile, creates, moves, pending, resolved, naming, ordered>>

\* A tag is moved in the registry.
Republish(r, d) ==
    /\ phase # "unknown" /\ moves < MaxMoves /\ d # published[r]
    /\ moves' = moves + 1
    /\ published' = [published EXCEPT ![r] = d]
    /\ UNCHANGED <<configured, lockfile, creates, phase, pending, resolved, naming, ordered>>

\* A create reads the lockfile; a frozen one must be there.
BeginFeatures ==
    /\ phase \in {"idle", "installed", "refused", "cycle"} /\ creates < MaxCreates
    /\ creates' = creates + 1
    /\ IF frozen /\ lockfile = Nothing
       THEN phase' = "refused" /\ pending' = <<>>
       ELSE phase' = "resolve" /\ pending' \in InOrder(asked)
    /\ resolved' = Nothing /\ naming' = Nothing /\ ordered' = <<>>
    /\ UNCHANGED <<configured, published, lockfile, moves>>

\* What is fetched for a reference: what the lockfile says, else what is published now.
PublishedNow(r) == published[r]

fetchFeature(r) == IF r \in DOMAIN lockfile THEN lockfile[r] ELSE published[r]

\* resolveFeature: a reference seen before is done; one that leads to content seen before
\* is one more name for it; new content has its dependencies resolved next.
resolveFeature ==
    /\ phase = "resolve" /\ pending # <<>>
    /\ LET r == Head(pending)
           d == fetchFeature(r)
       IN IF r \in DOMAIN resolved
          THEN pending' = Tail(pending) /\ UNCHANGED <<resolved, naming>>
          ELSE /\ resolved' = [x \in DOMAIN resolved \cup {r} |->
                                  IF x = r THEN d ELSE resolved[x]]
               /\ IF d \in DOMAIN naming
                  THEN pending' = Tail(pending) /\ UNCHANGED naming
                  ELSE /\ naming' = [x \in DOMAIN naming \cup {d} |->
                                        IF x = d THEN r ELSE naming[x]]
                       /\ \E s \in InOrder(dependsOn[d]) : pending' = s \o Tail(pending)
    /\ UNCHANGED <<configured, published, lockfile, creates, moves, phase, ordered>>

\* The registry or the content cannot be read: the create fails.
FetchFails ==
    /\ phase = "resolve" /\ pending # <<>> /\ Head(pending) \notin DOMAIN resolved
    /\ phase' = "refused"
    /\ UNCHANGED <<configured, published, lockfile, creates, moves, pending, resolved, naming, ordered>>

Features == DOMAIN naming

\* The features a name stands for: by one of their references, or by their repository.
findFeatureMatches(r) ==
    {f \in Features : \/ r \in DOMAIN resolved /\ resolved[r] = f
                      \/ Repository[naming[f]] = Repository[r]}

HardDependencies(f) == {resolved[r] : r \in dependsOn[f]}
SoftDependencies(f) == UNION {findFeatureMatches(r) : r \in installsAfter[f]}
Dependencies(f)     == HardDependencies(f) \cup SoftDependencies(f)

\* The last entry of the override that names a feature decides on its priority.
Priority(f) ==
    LET named == {i \in 1 .. Len(override) : f \in findFeatureMatches(override[i])}
    IN IF named = {} THEN 0 ELSE Len(override) + 1 - CHOOSE i \in named : \A j \in named : j <= i

OverrideKnown == \A i \in 1 .. Len(override) : findFeatureMatches(override[i]) # {}

BeginOrder ==
    /\ phase = "resolve" /\ pending = <<>>
    /\ phase' = IF OverrideKnown THEN "order" ELSE "refused"
    /\ UNCHANGED <<configured, published, lockfile, creates, moves, pending, resolved, naming, ordered>>

Installed == Range(ordered)

\* What may be installed next.
HardOnly(f) == f \notin Installed /\ HardDependencies(f) \subseteq Installed

Candidate(f) == f \notin Installed /\ Dependencies(f) \subseteq Installed

\* The features, each once, in the order of their references.
ByReference(features) ==
    {s \in [1 .. Cardinality(features) -> features] :
        Range(s) = features /\ \A i, j \in DOMAIN s : i < j => naming[s[i]] < naming[s[j]]}

\* One round: all the candidates of the highest priority, by their references.
orderFeatures ==
    /\ phase = "order" /\ Installed # Features
    /\ LET candidates == {f \in Features : Candidate(f)}
           first == {f \in candidates : \A g \in candidates : Priority(g) <= Priority(f)}
       IN IF candidates = {}
          THEN phase' = "cycle" /\ UNCHANGED ordered
          ELSE /\ \E s \in ByReference(first) : ordered' = ordered \o s
               /\ UNCHANGED phase
    /\ UNCHANGED <<configured, published, lockfile, creates, moves, pending, resolved, naming>>

\* The references to lock: all that were resolved but for those of the platform.
Lockable == [r \in DOMAIN resolved \ Platform |-> resolved[r]]

\* writeResolvedFeatureLockfile, then the image.  A frozen lockfile is compared only.
WriteLockfile ==
    /\ phase = "order" /\ Installed = Features
    /\ IF frozen /\ Lockable # lockfile
       THEN phase' = "refused" /\ UNCHANGED lockfile
       ELSE phase' = "installed" /\ lockfile' = Lockable
    /\ UNCHANGED <<configured, published, creates, moves, pending, resolved, naming, ordered>>

\* The user edits the configuration between two creates: a lockfile may be frozen by then.
Freeze ==
    /\ phase = "installed" /\ ~frozen
    /\ frozen' = TRUE
    /\ UNCHANGED <<asked, override, dependsOn, installsAfter, published, lockfile, creates,
                   moves, phase, pending, resolved, naming, ordered>>

FeatureNext ==
    \/ Configuration
    \/ \E r \in References, d \in Digests : Republish(r, d)
    \/ BeginFeatures \/ resolveFeature \/ FetchFails \/ BeginOrder \/ orderFeatures
    \/ WriteLockfile \/ Freeze

FeatureSpec == FeatureInit /\ [][FeatureNext]_featureVars

---------------------------------------------------------------------------
(* Properties. *)

\* The dependency graph as such: what a feature needs, directly or not, is in every set
\* that has its dependencies and all of theirs.
Closed(S) == \A g \in S : Dependencies(g) \subseteq S
Needs(f) ==
    Dependencies(f) \cup
        {g \in Features : \A S \in SUBSET Features : Dependencies(f) \subseteq S /\ Closed(S) => g \in S}

\* An install order has every feature once and after all it needs, and a configuration is
\* refused for a cycle exactly if its graph has one, whatever the override
\* (orderFeatures, findFeatureMatches).
OrderIsTopological ==
    /\ phase = "installed" =>
           /\ Len(ordered) = Cardinality(Features) /\ Installed = Features
           /\ \A i \in 1 .. Len(ordered) :
                 Needs(ordered[i]) \subseteq {ordered[j] : j \in 1 .. i - 1}
    /\ phase = "cycle" => \E f \in Features : f \in Needs(f)

\* What the lockfile says of a reference stays, though the registry moves it between the
\* creates, as long as the configuration leads to that reference (fetchFeature, WriteLockfile).
LockHolds ==
    [][\A r \in DOMAIN lockfile \cap DOMAIN lockfile' : lockfile'[r] = lockfile[r]]_featureVars
=============================================================================
