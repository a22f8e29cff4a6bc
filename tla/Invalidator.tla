----------------------------- MODULE Invalidator -----------------------------
(***************************************************************************)
(* Advisory revision hints: valkey/invalidator.go.  Publish is one Lua     *)
(* script; Watch reads the key when it starts, when its ticker fires and   *)
(* when a pub/sub message woke it, and calls its handler serially.         *)
(* Revisions stay in the range where the script's numbers are exact.       *)
(***************************************************************************)
EXTENDS Naturals

CONSTANTS Watchers, MaxHint, HintFaults   \* HintFaults: which of HintFaultKinds occur

(* "disconnect": Receive ends.  "readError": GET fails.  "evict": the key  *)
(* disappears.                                                             *)
HintFaultKinds == {"disconnect", "readError", "evict"}

ASSUME InvalidatorAssumption ==
    /\ MaxHint \in Nat \ {0}
    /\ HintFaults \subseteq HintFaultKinds

VARIABLES
    key,     \* the advisory key, 0 when it is missing
    watcher  \* per watcher: where it is in Watch

hintVars == <<key, watcher>>

(* subscribed: Receive runs.  wakeup: the one-slot channel is full.  seen: *)
(* the revision the handler was called with last.                          *)
WatcherRecord ==
    [pc: {"off", "observe", "handle", "select", "joining"}, after: 0..MaxHint, seen: 0..MaxHint,
     receive: {"idle", "starting", "subscribed", "ended"}, wakeup: BOOLEAN,
     err: {"none", "ReadError", "HandlerError", "ContextError"}]

OffWatcher == [pc |-> "off", after |-> 0, seen |-> 0, receive |-> "idle", wakeup |-> FALSE,
               err |-> "none"]

HintInit ==
    /\ key = 0
    /\ watcher = [w \in Watchers |-> OffWatcher]

-----------------------------------------------------------------------------
(* Publish                                                                 *)

(* Variant with a mistake: SET without the comparison.                     *)
PublishHintAny(r) ==
    /\ key' = r
    /\ watcher' = [w \in Watchers |-> [watcher[w] EXCEPT
                      !.wakeup = @ \/ watcher[w].receive = "subscribed"]]

(* publishScript: a key at or above r is left alone; else SET and PUBLISH, *)
(* whose message fills the wakeup slot of every subscriber.  A message     *)
(* that comes late, or not at all, leaves what a slot taken late leaves.   *)
PublishHint(r) ==
    /\ key' = IF key >= r THEN key ELSE r
    /\ watcher' = IF key >= r THEN watcher
                  ELSE [w \in Watchers |-> [watcher[w] EXCEPT
                          !.wakeup = @ \/ watcher[w].receive = "subscribed"]]

(* External: the key is deleted or evicted.                                *)
EvictKey ==
    /\ "evict" \in HintFaults
    /\ key # 0
    /\ key' = 0
    /\ UNCHANGED watcher

-----------------------------------------------------------------------------
(* Watch                                                                   *)

(* Watch(ctx, after, handler) starts Receive in a goroutine and observes.  *)
StartWatch(w, after) ==
    /\ watcher[w].pc = "off"
    /\ watcher' = [watcher EXCEPT ![w] =
         [OffWatcher EXCEPT !.pc = "observe", !.after = after, !.receive = "starting"]]
    /\ UNCHANGED key

(* External: the subscription is confirmed; messages before it are lost.   *)
Subscribed(w) ==
    /\ watcher[w].receive = "starting"
    /\ watcher' = [watcher EXCEPT ![w].receive = "subscribed"]
    /\ UNCHANGED key

(* Receive returns: the subscription was lost, and the loop takes          *)
(* receiveDone once and goes on polling; or Watch has canceled it.  Its    *)
(* callback never waits, so a full wakeup slot does not keep it.           *)
ReceiveEnds(w) ==
    /\ \/ "disconnect" \in HintFaults /\ watcher[w].pc # "off"
       \/ watcher[w].pc = "joining"
    /\ watcher[w].receive \in {"starting", "subscribed"}
    /\ watcher' = [watcher EXCEPT ![w].receive = "ended"]
    /\ UNCHANGED key

(* Watch returns err: cancel, then wait for the Receive goroutine.         *)
LeaveWatch(w, err) == watcher' = [watcher EXCEPT ![w].pc = "joining", ![w].err = err]

(* <-subscriptionDone                                                      *)
Join(w) ==
    /\ watcher[w].pc = "joining"
    /\ watcher[w].receive = "ended"
    /\ watcher' = [watcher EXCEPT ![w] = [OffWatcher EXCEPT !.err = watcher[w].err]]
    /\ UNCHANGED key

(* observe: a key above after goes to the handler.                         *)
ReadKey(w) ==
    /\ watcher[w].pc = "observe"
    /\ watcher' = IF key > watcher[w].after
                  THEN [watcher EXCEPT ![w].pc = "handle", ![w].seen = key]
                  ELSE [watcher EXCEPT ![w].pc = "select"]
    /\ UNCHANGED key

ReadFails(w) ==
    /\ "readError" \in HintFaults
    /\ watcher[w].pc = "observe"
    /\ LeaveWatch(w, "ReadError")
    /\ UNCHANGED key

HandlerSucceeds(w) ==
    /\ watcher[w].pc = "handle"
    /\ watcher' = [watcher EXCEPT ![w].pc = "select", ![w].after = watcher[w].seen]
    /\ UNCHANGED key

HandlerFails(w) ==
    /\ watcher[w].pc = "handle"
    /\ LeaveWatch(w, "HandlerError")
    /\ UNCHANGED key

(* Variant with a mistake: polling stops with the subscription.            *)
TickWatchSubscribed(w) ==
    /\ watcher[w].pc = "select"
    /\ watcher[w].receive # "ended"
    /\ watcher' = [watcher EXCEPT ![w].pc = "observe"]
    /\ UNCHANGED key

TickWatch(w) ==
    /\ watcher[w].pc = "select"
    /\ watcher' = [watcher EXCEPT ![w].pc = "observe"]
    /\ UNCHANGED key

WakeWatch(w) ==
    /\ watcher[w].pc = "select"
    /\ watcher[w].wakeup
    /\ watcher' = [watcher EXCEPT ![w].pc = "observe", ![w].wakeup = FALSE]
    /\ UNCHANGED key

CancelWatch(w) ==
    /\ watcher[w].pc = "select"
    /\ LeaveWatch(w, "ContextError")
    /\ UNCHANGED key

-----------------------------------------------------------------------------
(* Types: the key and the watchers.                                        *)
HintTypeOK ==
    /\ key \in 0..MaxHint
    /\ watcher \in [Watchers -> WatcherRecord]

=============================================================================
