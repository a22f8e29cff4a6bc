--------------------------- MODULE PolicyLifecycle ---------------------------
(***************************************************************************)
(* From publication to activation, as docs/valkey.md wires it: a publisher *)
(* that was told of a stored revision publishes it as a hint; every node   *)
(* watches hints with Synchronizer.Observe as the handler, and may poll    *)
(* the repository as well.  The store is StoredPolicy, which PolicyStore   *)
(* implements.  A node's reloads are serialized as Synchronizer shows;     *)
(* here a reload is its reading of the repository and its activation.      *)
(***************************************************************************)
EXTENDS StoredPolicy, Invalidator

ASSUME LifecycleAssumption == MaxRevision \in Nat

VARIABLES
    engineRev,  \* per watcher: the active revision of its node, 0 before the first
    loaded      \* per watcher: the revision its Observe has loaded, 0 if none

nodeVars == <<engineRev, loaded>>
vars == <<storedVars, hintVars, nodeVars>>

Init ==
    /\ StoredInit
    /\ HintInit
    /\ engineRev = [w \in Watchers |-> 0]
    /\ loaded = [w \in Watchers |-> 0]

-----------------------------------------------------------------------------
(* Publication                                                             *)

(* Publish(ctx, stored.Revision).  When its answer is lost the revision    *)
(* stays acknowledged and may be published again.                          *)
Publish(r) ==
    /\ r \in acked
    /\ PublishHint(r)
    /\ acked' \in {acked, acked \ {r}}
    /\ UNCHANGED <<stored, nodeVars>>

-----------------------------------------------------------------------------
(* Observe as the handler of Watch                                         *)

(* A hint at or below the active revision is acknowledged at once.         *)
ObserveKnown(w) ==
    /\ loaded[w] = 0
    /\ watcher[w].seen <= engineRev[w]
    /\ HandlerSucceeds(w)
    /\ UNCHANGED <<storedVars, nodeVars>>

ObserveLoads(w) ==
    /\ watcher[w].pc = "handle"
    /\ loaded[w] = 0
    /\ watcher[w].seen > engineRev[w]
    /\ stored # 0
    /\ loaded' = [loaded EXCEPT ![w] = stored]
    /\ UNCHANGED <<engineRev, storedVars, hintVars>>

ObserveFails(w) ==
    /\ loaded[w] = 0
    /\ watcher[w].seen > engineRev[w]
    /\ HandlerFails(w)
    /\ UNCHANGED <<storedVars, nodeVars>>

(* The loaded manifest is activated, or was already; then the hint must be *)
(* reached.                                                                *)
ObserveActivates(w) ==
    LET active == IF loaded[w] > engineRev[w] THEN loaded[w] ELSE engineRev[w]
        stale == loaded[w] < engineRev[w] IN
    /\ loaded[w] # 0
    /\ engineRev' = [engineRev EXCEPT ![w] = active]
    /\ loaded' = [loaded EXCEPT ![w] = 0]
    /\ IF stale \/ active < watcher[w].seen THEN HandlerFails(w) ELSE HandlerSucceeds(w)
    /\ UNCHANGED storedVars

(* Run reloads; it waits while Observe holds reloadMu.                     *)
PollRepository(w) ==
    /\ loaded[w] = 0
    /\ stored # 0
    /\ stored > engineRev[w]
    /\ engineRev' = [engineRev EXCEPT ![w] = stored]
    /\ UNCHANGED <<loaded, storedVars, hintVars>>

-----------------------------------------------------------------------------

(* Watch(ctx, engine.Revision(), handler), again after every return.       *)
Watch(w) == StartWatch(w, engineRev[w]) /\ UNCHANGED <<storedVars, nodeVars>>

WatchStep(w) ==
    /\ \/ Subscribed(w) \/ ReceiveEnds(w) \/ Join(w) \/ ReadKey(w) \/ ReadFails(w)
       \/ TickWatch(w) \/ WakeWatch(w) \/ CancelWatch(w)
    /\ UNCHANGED <<storedVars, nodeVars>>

Observe(w) == ObserveKnown(w) \/ ObserveLoads(w) \/ ObserveFails(w) \/ ObserveActivates(w)

Next ==
    \/ StoredNext /\ UNCHANGED <<hintVars, nodeVars>>
    \/ \E r \in 1..MaxHint : Publish(r)
    \/ EvictKey /\ UNCHANGED <<storedVars, nodeVars>>
    \/ \E w \in Watchers : Watch(w) \/ WatchStep(w) \/ Observe(w) \/ PollRepository(w)

Spec == Init /\ [][Next]_vars

(* Goroutines run, a canceled Receive returns, the ticker fires and a      *)
(* supervisor restarts Watch; the backend and the repository are not down  *)
(* forever, so a read or a load that is tried again and again succeeds at  *)
(* last (strong fairness).                                                 *)
FairSpec ==
    /\ Spec
    /\ \A w \in Watchers :
         /\ WF_vars(Watch(w))
         /\ WF_vars(/\ watcher[w].pc = "joining" /\ ReceiveEnds(w)
                    /\ UNCHANGED <<storedVars, nodeVars>>)
         /\ WF_vars(Join(w) /\ UNCHANGED <<storedVars, nodeVars>>)
         /\ SF_vars(ReadKey(w) /\ UNCHANGED <<storedVars, nodeVars>>)
         /\ SF_vars(TickWatch(w) /\ UNCHANGED <<storedVars, nodeVars>>)
         /\ WF_vars(ObserveKnown(w))
         /\ SF_vars(ObserveLoads(w))
         /\ WF_vars(ObserveActivates(w))

-----------------------------------------------------------------------------
(* Properties                                                              *)

(* Types of the three parts together.                                      *)
TypeOK ==
    /\ StoredTypeOK
    /\ HintTypeOK
    /\ engineRev \in [Watchers -> 0..MaxRevision]
    /\ loaded \in [Watchers -> 0..MaxRevision]

(* Hints follow storage: neither the key nor a hint on its way to Observe  *)
(* names a revision that is not stored yet, so a reload that a hint caused *)
(* always reaches it and no hint stops a watcher with ErrStaleManifest;    *)
(* and in whatever order publishers come, the key never goes back to an    *)
(* older revision, though it may disappear.                                *)
HintsFollowStorage ==
    /\ [](/\ key <= stored
          /\ \A w \in Watchers :
               /\ watcher[w].pc = "handle" => watcher[w].seen <= stored
               /\ loaded[w] # 0 => watcher[w].seen <= loaded[w] /\ engineRev[w] <= loaded[w])
    /\ [][key' >= key \/ key' = 0]_vars

(* The hint path is enough while the key is kept: the revision it names    *)
(* becomes active on every node although messages are lost, subscriptions  *)
(* end, reads and reloads fail, and nobody polls the repository.           *)
HintedBecomesActive ==
    \A w \in Watchers : \A r \in 1..MaxHint :
        (key >= r) ~> (engineRev[w] >= r \/ key < r)

=============================================================================
