----------------------------- MODULE PolicyCache ------------------------------
(***************************************************************************)
(* The advisory manifest cache: adapters/cache/cache.go.  Nodes share a    *)
(* backend and each has a cache over it with a size limit of its own.  A   *)
(* node asks GetOrLoad for a revision, compiles what it gets and offers it *)
(* to its engine; its synchronizer polls the repository as well.  The      *)
(* cache library is external: a miss starts a load for the key, which goes *)
(* on when the caller leaves and then stores what it found under that key. *)
(***************************************************************************)
EXTENDS Naturals

CONSTANTS
    Nodes,
    Contents,           \* what a manifest may say
    Size,               \* the encoded size of each content
    Limit,              \* per node: MaxValue of its cache
    MaxCachedRevision   \* bound on the revisions stored

ASSUME CacheAssumption == MaxCachedRevision \in Nat

VARIABLES
    repository, \* the manifest the repository holds, or NoManifest
    history,    \* history: every manifest the repository has held
    entries,    \* the backend: per key a manifest, or NoManifest
    load,       \* per node and key: the load in flight
    caller,     \* per node: its call of GetOrLoad
    active      \* per node: the manifest its engine runs

cacheVars == <<repository, history, entries, load, caller, active>>

Revisions == 1..MaxCachedRevision

NoManifest == [revision |-> 0, content |-> 0]
NoLoad == [pc |-> "none", manifest |-> NoManifest]
NoCall == [pc |-> "idle", key |-> 0, manifest |-> NoManifest, err |-> "none"]

Manifests == [revision: Revisions, content: Contents]
Loads == [pc: {"none", "started", "found"}, manifest: Manifests \cup {NoManifest}]
Calls == [pc: {"idle", "lookup", "wait", "got"}, key: 0..MaxCachedRevision,
          manifest: Manifests \cup {NoManifest},
          err: {"none", "ErrInvalidRevision", "ErrManifestTooLarge", "ErrNotInitialized",
                "NotFound", "RepositoryError", "ContextError"}]

CacheInit ==
    /\ repository = NoManifest
    /\ history = {}
    /\ entries = [r \in Revisions |-> NoManifest]
    /\ load = [n \in Nodes |-> [r \in Revisions |-> NoLoad]]
    /\ caller = [n \in Nodes |-> NoCall]
    /\ active = [n \in Nodes |-> NoManifest]

(* A publisher stores a greater revision.                                  *)
Update(r, content) ==
    /\ r > repository.revision
    /\ repository' = [revision |-> r, content |-> content]
    /\ history' = history \cup {repository'}
    /\ UNCHANGED <<entries, load, caller, active>>

-----------------------------------------------------------------------------
(* GetOrLoad                                                               *)

(* EncodeKey refuses revision 0.                                           *)
GetOrLoad(n, r) ==
    /\ caller[n].pc = "idle"
    /\ caller' = [caller EXCEPT ![n] =
                    IF r = 0 THEN [NoCall EXCEPT !.err = "ErrInvalidRevision"]
                    ELSE [NoCall EXCEPT !.pc = "lookup", !.key = r]]
    /\ UNCHANGED <<repository, history, entries, load, active>>

(* Encode and Decode of ManifestCodec apply the node's limit.              *)
CodecError(n, manifest) ==
    IF Size[manifest.content] > Limit[n] THEN "ErrManifestTooLarge" ELSE "none"

Returned(n, manifest, err) ==
    IF err = "none" THEN [caller[n] EXCEPT !.pc = "got", !.manifest = manifest]
    ELSE [NoCall EXCEPT !.err = err]

Hit(n) ==
    LET entry == entries[caller[n].key] IN
    /\ caller[n].pc = "lookup" /\ entry # NoManifest
    /\ caller' = [caller EXCEPT ![n] = Returned(n, entry, CodecError(n, entry))]
    /\ UNCHANGED <<repository, history, entries, load, active>>

(* A second caller for the key joins the load in flight.                   *)
Miss(n) ==
    LET key == caller[n].key IN
    /\ caller[n].pc = "lookup" /\ entries[key] = NoManifest
    /\ caller' = [caller EXCEPT ![n].pc = "wait"]
    /\ load' = IF load[n][key].pc # "none" THEN load
               ELSE [load EXCEPT ![n][key].pc = "started"]
    /\ UNCHANGED <<repository, history, entries, active>>

(* Variant with a mistake: whatever is stored counts as found.             *)
LoaderResultLatest(r) ==
    IF repository = NoManifest
    THEN [err |-> "ErrNotInitialized", found |-> FALSE, manifest |-> NoManifest]
    ELSE [err |-> "none", found |-> TRUE, manifest |-> repository]

(* What the loader returns for the key once Load has answered.             *)
LoaderResult(r) ==
    IF repository = NoManifest
    THEN [err |-> "ErrNotInitialized", found |-> FALSE, manifest |-> NoManifest]
    ELSE IF repository.revision # r THEN [err |-> "none", found |-> FALSE, manifest |-> NoManifest]
    ELSE [err |-> "none", found |-> TRUE, manifest |-> repository]

(* The load ends, and so does the call that still waits for it.            *)
EndLoad(n, r, manifest, err) ==
    /\ load' = [load EXCEPT ![n][r] = NoLoad]
    /\ caller' = IF caller[n].pc = "wait" /\ caller[n].key = r
                 THEN [caller EXCEPT ![n] = Returned(n, manifest, err)] ELSE caller

RepositoryLoader(n, r) ==
    LET result == LoaderResult(r) IN
    /\ load[n][r].pc = "started"
    /\ IF result.found
       THEN /\ load' = [load EXCEPT ![n][r] = [pc |-> "found", manifest |-> result.manifest]]
            /\ UNCHANGED caller
       ELSE EndLoad(n, r, NoManifest, IF result.err # "none" THEN result.err ELSE "NotFound")
    /\ UNCHANGED <<repository, history, entries, active>>

(* The repository answers with an error.                                   *)
LoaderFails(n, r) ==
    /\ load[n][r].pc = "started"
    /\ EndLoad(n, r, NoManifest, "RepositoryError")
    /\ UNCHANGED <<repository, history, entries, active>>

(* What was found is encoded and stored under the key, however late.       *)
Fill(n, r) ==
    LET manifest == load[n][r].manifest
        err == CodecError(n, manifest) IN
    /\ load[n][r].pc = "found"
    /\ entries' = IF err = "none" THEN [entries EXCEPT ![r] = manifest] ELSE entries
    /\ EndLoad(n, r, manifest, err)
    /\ UNCHANGED <<repository, history, active>>

(* The caller's context ends; the load is not its own.                     *)
Leave(n) ==
    /\ caller[n].pc \in {"lookup", "wait"}
    /\ caller' = [caller EXCEPT ![n] = [NoCall EXCEPT !.err = "ContextError"]]
    /\ UNCHANGED <<repository, history, entries, load, active>>

(* The backend drops an entry: TTL or capacity.                            *)
Expire(r) ==
    /\ entries[r] # NoManifest
    /\ entries' = [entries EXCEPT ![r] = NoManifest]
    /\ UNCHANGED <<repository, history, load, caller, active>>

-----------------------------------------------------------------------------
(* Activation                                                              *)

(* ReplaceSnapshot of the compiled manifest: greater revisions only.       *)
Offer(n, manifest) ==
    active' = IF manifest.revision > active[n].revision
              THEN [active EXCEPT ![n] = manifest] ELSE active

UseAnswer(n) ==
    /\ caller[n].pc = "got"
    /\ Offer(n, caller[n].manifest)
    /\ caller' = [caller EXCEPT ![n] = NoCall]
    /\ UNCHANGED <<repository, history, entries, load>>

Poll(n) ==
    /\ repository # NoManifest
    /\ Offer(n, repository)
    /\ UNCHANGED <<repository, history, entries, load, caller>>

CacheNext ==
    \/ \E r \in Revisions, content \in Contents : Update(r, content)
    \/ \E r \in Revisions : Expire(r)
    \/ \E n \in Nodes :
         \/ \E r \in 0..MaxCachedRevision : GetOrLoad(n, r)
         \/ Hit(n)
         \/ Miss(n)
         \/ \E r \in Revisions : RepositoryLoader(n, r) \/ LoaderFails(n, r) \/ Fill(n, r)
         \/ Leave(n)
         \/ UseAnswer(n)
         \/ Poll(n)

CacheSpec == CacheInit /\ [][CacheNext]_cacheVars

-----------------------------------------------------------------------------

(* Types of the repository, the backend, the loads, the calls and engines. *)
CacheTypeOK ==
    /\ repository \in Manifests \cup {NoManifest}
    /\ history \subseteq Manifests
    /\ entries \in [Revisions -> Manifests \cup {NoManifest}]
    /\ load \in [Nodes -> [Revisions -> Loads]]
    /\ caller \in [Nodes -> Calls]
    /\ active \in [Nodes -> Manifests \cup {NoManifest}]

(* A cache hit is as good as the repository was: however late a load ends, *)
(* and although keys outlive the manifest the repository now holds, a call *)
(* for a revision gets the one manifest that was ever stored under it, not *)
(* the latest one; and no answer of the cache sets an engine back: it only *)
(* moves to stored manifests of greater revisions (docs/cache.md: a cached *)
(* manifest must never override a newer repository manifest).              *)
CachedManifestsAreExact ==
    [][\A n \in Nodes :
         /\ caller'[n].pc = "got" =>
              {m \in history' : m.revision = caller'[n].key} = {caller'[n].manifest}
         /\ active'[n] # active[n] =>
              active'[n].revision > active[n].revision /\ active'[n] \in history]_cacheVars

=============================================================================
