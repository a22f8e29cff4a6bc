---------------------------- MODULE GatewayProofs ----------------------------
(***************************************************************************)
(* Proofs about Gateway, for any number of callers, any snapshots and any  *)
(* cap on the matched policies.  A caller's steps depend on the others     *)
(* only by the engine's revision, which grows: the argument is about one   *)
(* caller, and what it holds at each step until it responds.               *)
(***************************************************************************)
EXTENDS Gateway, SequenceTheorems, TLAPS

(* Nothing is observed before the authorizer returns, nothing is answered  *)
(* before the call is done.                                                *)
Quiet(c) ==
    /\ pc[c] \notin {"return", "done"} =>
         observed[c].counted = <<>> /\ observed[c].logged = <<>> /\ observed[c].span # "ended"
    /\ pc[c] # "done" => response[c].kind = "none"

(* Past its admission a service call has a revision.                       *)
Fence(c) ==
    call[c].front = "service" /\ pc[c] \notin {"idle", "admit", "done"} => call[c].revision > 0

(* A context that had ended when the authorizer returned is still ended.   *)
Ended(c) == pc[c] \in {"finish", "return"} /\ late[c] => ctxDone[c]

(* The engine's answer comes from what this call loaded.                   *)
Source(c) ==
    call[c].authorizer = "engine" =>
        /\ pc[c] \in {"decide", "finish", "return"} => loaded[c].revision >= arrival[c]
        /\ pc[c] \in {"finish", "return"} =>
             /\ answer[c].decision.revision = loaded[c].revision
             /\ answer[c].decision.outcome = "Allow" => loaded[c].policies # <<>>

GoodCall(c) ==
    /\ arrival[c] <= active.revision
    /\ Quiet(c) /\ Fence(c) /\ Ended(c) /\ Source(c)
    /\ GrantIsBacked(c) /\ GrantIsFenced(c) /\ IsFaithful(observed[c], answer[c])

GatewayInv == GatewayTypeOK /\ \A c \in Callers : GoodCall(c)

-----------------------------------------------------------------------------
(* One caller                                                              *)

(* Nothing of the caller changes.                                          *)
Same(c) ==
    /\ loaded'[c] = loaded[c] /\ pc'[c] = pc[c] /\ call'[c] = call[c]
    /\ ctxDone'[c] = ctxDone[c] /\ answer'[c] = answer[c] /\ observed'[c] = observed[c]
    /\ response'[c] = response[c] /\ arrival'[c] = arrival[c] /\ late'[c] = late[c]

LEMMA RevisionTypes ==
    ASSUME GatewayTypeOK
    PROVE  /\ active.revision \in Nat
           /\ \A c \in Callers : loaded[c].revision \in Nat /\ arrival[c] \in Nat
BY Zenon, GatewayAssumption DEF GatewayTypeOK

LEMMA SameKeeps ==
    ASSUME NEW c \in Callers, GatewayTypeOK, GatewayTypeOK', GoodCall(c), Same(c),
           active.revision <= active'.revision
    PROVE  GoodCall(c)'
<1>1. arrival'[c] <= active'.revision
  <2>1. arrival[c] \in Nat /\ active.revision \in Nat
    BY Zenon, RevisionTypes
  <2>2. active'.revision \in Nat
    BY Zenon, GatewayAssumption DEF GatewayTypeOK
  <2> QED BY <2>1, <2>2 DEF GoodCall, Same
<1>2. Quiet(c)' /\ Fence(c)' /\ Ended(c)'
  BY Zenon DEF GoodCall, Same, Quiet, Fence, Ended
<1>3. Source(c)'
  BY Zenon DEF GoodCall, Same, Source
<1>4. GrantIsBacked(c)' /\ GrantIsFenced(c)'
  BY Zenon DEF GoodCall, Same, GrantIsBacked, GrantIsFenced, Granted
<1>5. IsFaithful(observed[c], answer[c])'
  BY Zenon DEF GoodCall, Same
<1> QED BY Zenon, <1>1, <1>2, <1>3, <1>4, <1>5 DEF GoodCall

(* A step of c leaves the others alone and, except for Install, the engine *)
(* at its revision.                                                        *)
LEMMA OneCaller ==
    ASSUME GatewayInv, GatewayTypeOK', NEW c \in Callers, GoodCall(c)',
           \A d \in Callers \ {c} : Same(d), UNCHANGED active
    PROVE  GatewayInv'
<1>1. active.revision <= active'.revision
  BY RevisionTypes DEF GatewayInv
<1>2. ASSUME NEW d \in Callers, d # c PROVE GoodCall(d)'
  BY Zenon, <1>1, <1>2, SameKeeps DEF GatewayInv
<1> QED BY Zenon, <1>2 DEF GatewayInv

-----------------------------------------------------------------------------
(* What is observed                                                        *)

LEMMA EventTells ==
    ASSUME NEW a \in Answer
    PROVE  EventOf(a) \in Event /\ TellsOf(EventOf(a), a)
<1> DEFINE matched == a.decision.matched
           count == IF Len(matched) < MaxPolicyIDs THEN Len(matched) ELSE MaxPolicyIDs
           told == [a.decision EXCEPT !.matched = SubSeq(matched, 1, count),
                                      !.truncated = @ \/ count # Len(matched)]
<1>1. matched \in Seq(Nat) /\ a.decision \in Decision /\ a.err \in AuthorizerErrors
  BY Zenon DEF Answer, Decision
<1>2. count \in Nat /\ count <= Len(matched) /\ count <= MaxPolicyIDs
  BY <1>1, GatewayAssumption
<1>3. SubSeq(matched, 1, count) \in Seq(Nat) /\ Len(SubSeq(matched, 1, count)) = count
  <2>1. \A i \in 1..count : matched[i] \in Nat
    BY <1>1, <1>2
  <2> HIDE DEF matched, count
  <2> QED BY <1>2, <2>1, SubSeqProperties
<1>4. count = Len(matched) => SubSeq(matched, 1, count) = matched
  <2> HIDE DEF matched, count
  <2> QED BY Zenon, <1>1, SubSeqFull
<1>5. a.decision.truncated \in BOOLEAN
  BY Zenon, <1>1 DEF Decision
<1>6. EventOf(a) = [decision |-> told, failed |-> a.err # "none"]
  BY Zenon DEF EventOf
<1> HIDE DEF matched, count
<1>7. /\ told \in Decision
      /\ told.matched = SubSeq(matched, 1, count)
      /\ told.outcome = a.decision.outcome
      /\ told.revision = a.decision.revision
  BY Zenon, <1>1, <1>3, <1>5 DEF Decision
<1>8. ~told.truncated => ~a.decision.truncated /\ count = Len(matched)
  <2>1. told.truncated = (a.decision.truncated \/ count # Len(matched))
    BY Zenon, <1>1 DEF Decision
  <2> HIDE DEF told
  <2> QED BY Zenon, <1>5, <2>1
<1> HIDE DEF told
<1>9. EventOf(a) \in Event
  BY <1>6, <1>7 DEF Event
<1>10. a.decision.matched = matched
  BY Zenon DEF matched
<1>11. EventOf(a).decision = told
  BY <1>6
<1>14. EventOf(a).failed = (a.err # "none")
  BY <1>6
<1>12. ~told.truncated => told.matched = a.decision.matched /\ ~a.decision.truncated
  BY Zenon, <1>4, <1>7, <1>8, <1>10
<1>13. Len(told.matched) <= MaxPolicyIDs
  BY Zenon, <1>2, <1>3, <1>7
<1> QED
  BY Zenon, <1>7, <1>9, <1>11, <1>12, <1>13, <1>14 DEF TellsOf

LEMMA ResultLabels ==
    ASSUME NEW a \in Answer
    PROVE  /\ Result(EventOf(a)) \in Labels
           /\ LabelTells(Result(EventOf(a)), a)
<1> DEFINE e == EventOf(a)
<1>1. e \in Event /\ TellsOf(e, a)
  BY Zenon, EventTells
<1> HIDE DEF e
<1>2. e.decision.outcome \in Outcomes /\ e.failed \in BOOLEAN
  BY Zenon, <1>1 DEF Event, Decision
<1>3. e.failed = (a.err # "none") /\ e.decision.outcome = a.decision.outcome
  BY Zenon, <1>1 DEF TellsOf
<1>4. CASE e.failed
  BY Zenon, <1>3, <1>4 DEF Result, Labels, LabelTells, e
<1>5. CASE ~e.failed
  BY Zenon, <1>2, <1>3, <1>5 DEF Result, Labels, LabelTells, Outcomes, e
<1> QED BY Zenon, <1>2, <1>4, <1>5

-----------------------------------------------------------------------------
(* The steps                                                               *)

LEMMA InitInv == GatewayInit => GatewayInv
<1> SUFFICES ASSUME GatewayInit PROVE GatewayInv
  BY Zenon
<1> USE GatewayAssumption DEF GatewayInit
<1>1. NoDecision \in Decision
  BY DEF NoDecision, Decision, Outcomes, Reasons
<1>2. active = InitialSnapshot /\ loaded = [c \in Callers |-> InitialSnapshot]
  BY Zenon DEF Point!Init
<1>3. answers \in [Callers -> Seq([outcome: {"Allow", "Deny"}, revision: Nat])]
  BY DEF Point!Init
<1>4. /\ call \in [Callers -> Call] /\ answer \in [Callers -> Answer]
      /\ response \in [Callers -> Response]
  BY Zenon, <1>1 DEF Call, Fronts, Authorizers, Inputs, Answer, AuthorizerErrors, Response,
              ResponseKinds, ServiceErrors
<1>5. observed \in [Callers -> Observed]
  BY DEF Observed
<1>6. GatewayTypeOK
  BY Zenon, <1>2, <1>3, <1>4, <1>5 DEF GatewayTypeOK, Steps
<1>7. ASSUME NEW c \in Callers PROVE GoodCall(c)
  <2>1. arrival[c] <= active.revision
    BY <1>2
  <2>2. Quiet(c) /\ Fence(c) /\ Ended(c) /\ Source(c)
    BY Zenon DEF Quiet, Fence, Ended, Source
  <2>3. GrantIsBacked(c) /\ GrantIsFenced(c)
    BY Zenon DEF GrantIsBacked, GrantIsFenced, Granted
  <2>4. IsFaithful(observed[c], answer[c])
    BY DEF IsFaithful
  <2> QED BY Zenon, <2>1, <2>2, <2>3, <2>4 DEF GoodCall
<1> QED BY Zenon, <1>6, <1>7 DEF GatewayInv

LEMMA InstallKeeps == ASSUME GatewayInv, Install PROVE GatewayInv'
<1>1. PICK next \in Snapshots : next.revision > active.revision /\ active' = next
  BY Zenon DEF Install, Point!Install
<1>2. UNCHANGED <<loaded, answers, pc, call, ctxDone, watch, answer, observed, response,
                  arrival, late>>
  BY Zenon DEF Install, Point!Install, callVars
<1>3. GatewayTypeOK'
  BY Zenon, <1>1, <1>2 DEF GatewayInv, GatewayTypeOK
<1>4. active.revision <= active'.revision
  BY <1>1, GatewayAssumption, RevisionTypes DEF GatewayInv
<1>5. ASSUME NEW c \in Callers PROVE GoodCall(c)'
  BY Zenon, <1>2, <1>3, <1>4, SameKeeps DEF GatewayInv, Same
<1> QED BY Zenon, <1>3, <1>5 DEF GatewayInv

LEMMA EndContextKeeps == ASSUME GatewayInv, NEW c \in Callers, EndContext(c) PROVE GatewayInv'
<1> USE DEF EndContext, pointVars
<1>1. GatewayTypeOK'
  BY Zenon DEF GatewayInv, GatewayTypeOK
<1>2. \A d \in Callers \ {c} : Same(d)
  BY Zenon DEF Same, GatewayInv, GatewayTypeOK
<1>3. GoodCall(c)'
  <2>1. ctxDone'[c] = TRUE
    BY Zenon DEF GatewayInv, GatewayTypeOK
  <2> QED BY Zenon, <2>1 DEF GatewayInv, GoodCall, Quiet, Fence, Ended, Source, GrantIsBacked, GrantIsFenced,
                      Granted
<1> QED BY Zenon, <1>1, <1>2, <1>3, OneCaller

LEMMA ArriveKeeps == ASSUME GatewayInv, NEW c \in Callers, Arrive(c) PROVE GatewayInv'
<1> USE DEF Arrive, pointVars
<1>1. PICK request \in Call : call' = [call EXCEPT ![c] = request]
  <2>1. PICK front \in Fronts, authorizer \in Authorizers, input \in Inputs,
             revision \in Revisions \cup {0} :
          call' = [call EXCEPT ![c] = [front |-> front, authorizer |-> authorizer,
                                       input |-> input, revision |-> revision]]
    BY Zenon
  <2>2. [front |-> front, authorizer |-> authorizer, input |-> input,
         revision |-> revision] \in Call
    BY GatewayAssumption DEF Call
  <2> QED BY Zenon, <2>1, <2>2
<1>2. GatewayTypeOK'
  BY Zenon, <1>1, RevisionTypes DEF GatewayInv, GatewayTypeOK, Steps
<1>3. \A d \in Callers \ {c} : Same(d)
  BY <1>1 DEF Same, GatewayInv, GatewayTypeOK
<1>4. /\ pc'[c] = "admit" /\ arrival'[c] = active.revision
      /\ response'[c] = response[c] /\ observed'[c] = observed[c] /\ answer'[c] = answer[c]
      /\ pc[c] = "idle" /\ active' = active
  BY Zenon DEF GatewayInv, GatewayTypeOK
<1>5. response[c].kind = "none" /\ Quiet(c) /\ IsFaithful(observed[c], answer[c])
  BY Zenon, <1>4 DEF GatewayInv, GoodCall, Quiet
<1>6. GoodCall(c)'
  <2>1. arrival'[c] <= active'.revision
    BY <1>4, RevisionTypes DEF GatewayInv
  <2>2. Quiet(c)' /\ Fence(c)' /\ Ended(c)' /\ Source(c)'
    BY Zenon, <1>4, <1>5 DEF Quiet, Fence, Ended, Source
  <2>3. GrantIsBacked(c)' /\ GrantIsFenced(c)'
    BY Zenon, <1>4, <1>5 DEF GrantIsBacked, GrantIsFenced, Granted
  <2> QED BY Zenon, <1>4, <1>5, <2>1, <2>2, <2>3 DEF GoodCall
<1> QED BY Zenon, <1>2, <1>3, <1>6, OneCaller

LEMMA RespondKeeps ==
    ASSUME GatewayInv, NEW c \in Callers, NEW kind \in ResponseKinds, NEW decision \in Decision,
           NEW err \in ServiceErrors \cup HandlerErrors \cup {"Forbidden", "InternalError"},
           Respond(c, kind, decision, err), GrantIsBacked(c)', GrantIsFenced(c)'
    PROVE  GatewayInv'
<1> USE DEF Respond, pointVars
<1>1. response' \in [Callers -> Response]
  BY Zenon DEF GatewayInv, GatewayTypeOK, Response
<1>2. GatewayTypeOK'
  BY Zenon, <1>1 DEF GatewayInv, GatewayTypeOK, Steps
<1>3. \A d \in Callers \ {c} : Same(d)
  BY Zenon DEF Same, GatewayInv, GatewayTypeOK
<1>4. pc'[c] = "done"
  BY Zenon DEF GatewayInv, GatewayTypeOK
<1>5. Quiet(c)' /\ Fence(c)' /\ Ended(c)' /\ Source(c)'
  BY Zenon, <1>4 DEF Quiet, Fence, Ended, Source
<1>6. GoodCall(c)'
  BY Zenon, <1>5 DEF GatewayInv, GoodCall
<1> QED BY Zenon, <1>2, <1>3, <1>6, OneCaller

(* What Respond leaves behind for the caller.                              *)
LEMMA Responded ==
    ASSUME GatewayTypeOK, NEW c \in Callers, NEW kind, NEW decision, NEW err,
           Respond(c, kind, decision, err)
    PROVE  /\ response'[c] = [kind |-> kind, decision |-> decision, err |-> err]
           /\ answer'[c] = answer[c] /\ call'[c] = call[c] /\ loaded'[c] = loaded[c]
           /\ arrival'[c] = arrival[c] /\ late'[c] = late[c]
BY Zenon DEF Respond, pointVars, GatewayTypeOK

LEMMA DeniedTypes ==
    ASSUME GatewayTypeOK, NEW c \in Callers
    PROVE  /\ NoDecision \in Decision
           /\ Denied(c) \in Decision
           /\ Denied(c).outcome = "Deny" /\ Denied(c).revision = call[c].revision
<1>1. call[c].revision \in Nat
  BY Zenon DEF GatewayTypeOK, Call
<1>2. NoDecision \in Decision /\ NoDecision.outcome = "Deny"
  BY DEF NoDecision, Decision, Outcomes, Reasons
<1> HIDE DEF NoDecision
<1>3. Denied(c) \in Decision
  BY Zenon, <1>1, <1>2 DEF Denied, Decision
<1>4. Denied(c).outcome = "Deny" /\ Denied(c).revision = call[c].revision
  BY Zenon, <1>2 DEF Denied, Decision
<1> QED BY Zenon, <1>2, <1>3, <1>4

(* A service that answers with an error denies at the requested revision.  *)
LEMMA ServiceDenies ==
    ASSUME GatewayInv, NEW c \in Callers, NEW decision \in Decision,
           decision.outcome = "Deny", decision.revision = call[c].revision,
           NEW err \in ServiceErrors \ {"none"}, Respond(c, "decision", decision, err)
    PROVE  GatewayInv'
<1>1. /\ response'[c] = [kind |-> "decision", decision |-> decision, err |-> err]
      /\ call'[c] = call[c]
  BY Responded DEF GatewayInv
<1>2. GrantIsBacked(c)' /\ GrantIsFenced(c)'
  BY <1>1 DEF GrantIsBacked, GrantIsFenced, Granted
<1>3. "decision" \in ResponseKinds
  BY Zenon DEF ResponseKinds
<1> QED BY Zenon, <1>2, <1>3, RespondKeeps

(* Middleware that fails or denies says so.                                *)
LEMMA HandlerRefuses ==
    ASSUME GatewayInv, NEW c \in Callers, NEW kind \in {"denied", "failed"}, NEW decision \in Decision,
           NEW err \in HandlerErrors \cup {"Forbidden", "InternalError"}, err # "none",
           Respond(c, kind, decision, err)
    PROVE  GatewayInv'
<1>1. response'[c] = [kind |-> kind, decision |-> decision, err |-> err]
  BY Responded DEF GatewayInv
<1>2. GrantIsBacked(c)' /\ GrantIsFenced(c)'
  BY <1>1 DEF GrantIsBacked, GrantIsFenced, Granted
<1>3. kind \in ResponseKinds
  BY Zenon DEF ResponseKinds
<1> QED BY Zenon, <1>2, <1>3, RespondKeeps

LEMMA ServiceRefusesKeeps == ASSUME GatewayInv, NEW c \in Callers, ServiceRefuses(c) PROVE GatewayInv'
<1>1. AdmissionError(c) \in ServiceErrors \ {"none"}
  BY Zenon DEF ServiceRefuses, AdmissionError, ServiceErrors
<1>2. Respond(c, "decision", Denied(c), AdmissionError(c))
  BY Zenon DEF ServiceRefuses
<1> QED BY Zenon, <1>1, <1>2, DeniedTypes, ServiceDenies DEF GatewayInv

LEMMA FailureErrors ==
    ASSUME NEW c, NEW err \in HandlerErrors \cup {"Forbidden"}, err # "none",
           NEW mapped \in FailureError(c, err)
    PROVE  mapped \in HandlerErrors \cup {"Forbidden", "InternalError"} /\ mapped # "none"
BY Zenon DEF FailureError, HandlerErrors

LEMMA MapperFailsKeeps == ASSUME GatewayInv, NEW c \in Callers, MapperFails(c) PROVE GatewayInv'
<1>1. PICK err \in FailureError(c, "MapperError") : Respond(c, "failed", NoDecision, err)
  BY Zenon DEF MapperFails
<1>2. err \in HandlerErrors \cup {"Forbidden", "InternalError"} /\ err # "none"
  BY Zenon, FailureErrors DEF HandlerErrors
<1> QED BY Zenon, <1>1, <1>2, DeniedTypes, HandlerRefuses DEF GatewayInv

LEMMA PanicsKeep == ASSUME GatewayInv, NEW c \in Callers, AuthorizerPanics(c) PROVE GatewayInv'
<1>1. CASE call[c].front = "service"
  <2>1. Respond(c, "decision", Denied(c), "ErrPolicyPanic")
    BY Zenon, <1>1 DEF AuthorizerPanics
  <2>2. "ErrPolicyPanic" \in ServiceErrors \ {"none"}
    BY Zenon DEF ServiceErrors
  <2> QED BY Zenon, <2>1, <2>2, DeniedTypes, ServiceDenies DEF GatewayInv
<1>2. CASE call[c].front # "service"
  <2>1. Respond(c, "panic", NoDecision, "none")
    BY Zenon, <1>2 DEF AuthorizerPanics
  <2>2. response'[c] = [kind |-> "panic", decision |-> NoDecision, err |-> "none"]
    BY <2>1, Responded DEF GatewayInv
  <2>3. GrantIsBacked(c)' /\ GrantIsFenced(c)'
    BY <2>2 DEF GrantIsBacked, GrantIsFenced, Granted
  <2>4. "panic" \in ResponseKinds /\ "none" \in ServiceErrors
    BY Zenon DEF ResponseKinds, ServiceErrors
  <2> QED BY Zenon, <2>1, <2>3, <2>4, DeniedTypes, RespondKeeps DEF GatewayInv
<1> QED BY Zenon, <1>1, <1>2

LEMMA AdmitKeeps == ASSUME GatewayInv, NEW c \in Callers, Admit(c) PROVE GatewayInv'
<1> USE DEF Admit, pointVars
<1>1. GatewayTypeOK'
  BY Zenon DEF GatewayInv, GatewayTypeOK, Steps
<1>2. \A d \in Callers \ {c} : Same(d)
  BY Zenon DEF Same, GatewayInv, GatewayTypeOK
<1>3. pc[c] = "admit" /\ pc'[c] = "observe"
  BY Zenon DEF GatewayInv, GatewayTypeOK
<1>4. call[c].front = "service" => call[c].revision > 0
  <2>1. call[c].revision \in Nat
    BY Zenon DEF GatewayInv, GatewayTypeOK, Call
  <2> QED BY <2>1 DEF AdmissionError
<1>5. Quiet(c)' /\ Fence(c)' /\ Ended(c)' /\ Source(c)'
  BY Zenon, <1>3, <1>4 DEF GatewayInv, GoodCall, Quiet, Fence, Ended, Source
<1>6. GrantIsBacked(c)' /\ GrantIsFenced(c)'
  BY Zenon DEF GatewayInv, GoodCall, GrantIsBacked, GrantIsFenced, Granted
<1>7. GoodCall(c)'
  BY Zenon, <1>5, <1>6 DEF GatewayInv, GoodCall
<1> QED BY Zenon, <1>1, <1>2, <1>7, OneCaller

LEMMA BeginKeeps == ASSUME GatewayInv, NEW c \in Callers, Begin(c) PROVE GatewayInv'
<1>1. PICK instrumenter \in {"nobody", "otel", "slog"} :
        /\ watch' = [watch EXCEPT ![c] = instrumenter]
        /\ observed' = [observed EXCEPT ![c].span =
                          IF instrumenter = "otel" THEN "open" ELSE "none"]
  BY Zenon DEF Begin
<1>2. pc' = [pc EXCEPT ![c] = IF call[c].authorizer = "engine" THEN "load" ELSE "decide"]
  BY Zenon DEF Begin
<1>3. pc[c] = "observe" /\ UNCHANGED <<active, loaded, answers, call, ctxDone, answer,
                                       response, arrival, late>>
  BY Zenon DEF Begin, pointVars
<1> DEFINE span == IF instrumenter = "otel" THEN "open" ELSE "none"
           seen == [observed[c] EXCEPT !.span = span]
<1>4. observed[c] \in Observed /\ observed \in [Callers -> Observed]
  BY Zenon DEF GatewayInv, GatewayTypeOK
<1>5. observed' = [observed EXCEPT ![c] = seen]
  BY Zenon, <1>1, <1>4
<1>6. seen \in Observed /\ seen.counted = observed[c].counted
        /\ seen.logged = observed[c].logged /\ seen.span # "ended"
  BY Zenon, <1>4 DEF Observed
<1> HIDE DEF seen
<1>7. observed' \in [Callers -> Observed] /\ observed'[c] = seen
  BY Zenon, <1>4, <1>5, <1>6
<1>8. pc'[c] \in {"load", "decide"} /\ (pc'[c] = "decide" => call[c].authorizer # "engine")
  BY Zenon, <1>2 DEF GatewayInv, GatewayTypeOK
<1>9. GatewayTypeOK'
  BY Zenon, <1>1, <1>2, <1>3, <1>7 DEF GatewayInv, GatewayTypeOK, Steps
<1>10. \A d \in Callers \ {c} : Same(d)
  BY Zenon, <1>2, <1>3, <1>4, <1>5 DEF Same, GatewayInv, GatewayTypeOK
<1>11. Quiet(c)' /\ Fence(c)' /\ Ended(c)' /\ Source(c)'
  BY Zenon, <1>3, <1>6, <1>7, <1>8 DEF GatewayInv, GoodCall, Quiet, Fence, Ended, Source
<1>12. GrantIsBacked(c)' /\ GrantIsFenced(c)'
  BY Zenon, <1>3 DEF GatewayInv, GoodCall, GrantIsBacked, GrantIsFenced, Granted
<1>13. IsFaithful(observed[c], answer[c])'
  <2>1. seen.counted = <<>> /\ seen.logged = <<>>
    BY Zenon, <1>3, <1>6 DEF GatewayInv, GoodCall, Quiet
  <2>2. IsFaithful(seen, answer'[c])
    BY <1>6, <2>1 DEF IsFaithful
  <2> QED BY Zenon, <1>7, <2>2
<1>14. GoodCall(c)'
  BY Zenon, <1>3, <1>11, <1>12, <1>13 DEF GatewayInv, GoodCall
<1> QED BY Zenon, <1>3, <1>9, <1>10, <1>14, OneCaller

(* What is loaded was active after the request arrived.                    *)
LEMMA EngineLoadsKeeps == ASSUME GatewayInv, NEW c \in Callers, EngineLoads(c) PROVE GatewayInv'
<1> USE DEF EngineLoads, Point!Load
<1>1. GatewayTypeOK'
  BY Zenon DEF GatewayInv, GatewayTypeOK, Steps
<1>2. \A d \in Callers \ {c} : Same(d)
  BY Zenon DEF Same, GatewayInv, GatewayTypeOK
<1>3. pc[c] = "load" /\ pc'[c] = "decide" /\ loaded'[c] = active
  BY Zenon DEF GatewayInv, GatewayTypeOK
<1>4. response[c].kind = "none"
  BY Zenon, <1>3 DEF GatewayInv, GoodCall, Quiet
<1>5. loaded'[c].revision >= arrival[c]
  BY Zenon, <1>3, RevisionTypes DEF GatewayInv, GoodCall
<1>6. Quiet(c)' /\ Fence(c)' /\ Ended(c)' /\ Source(c)'
  BY Zenon, <1>3, <1>5 DEF GatewayInv, GoodCall, Quiet, Fence, Ended, Source
<1>7. GrantIsBacked(c)' /\ GrantIsFenced(c)'
  BY Zenon, <1>4 DEF GrantIsBacked, GrantIsFenced, Granted
<1>8. GoodCall(c)'
  BY Zenon, <1>6, <1>7 DEF GatewayInv, GoodCall
<1> QED BY Zenon, <1>1, <1>2, <1>8, OneCaller

(* The authorizer returns, if an engine then with an answer from what it   *)
(* loaded.                                                                 *)
LEMMA AnswersKeep ==
    ASSUME GatewayInv, NEW c \in Callers, pc[c] = "decide", UNCHANGED <<active, loaded>>,
           answers' \in [Callers -> Seq([outcome: {"Allow", "Deny"}, revision: Nat])],
           NEW decision \in Decision, NEW err \in AuthorizerErrors, Answers(c, decision, err),
           call[c].authorizer = "engine" =>
               /\ decision.revision = loaded[c].revision
               /\ decision.outcome = "Allow" => loaded[c].policies # <<>>
    PROVE  GatewayInv'
<1> USE DEF Answers
<1>1. answer' \in [Callers -> Answer]
  BY Zenon DEF GatewayInv, GatewayTypeOK, Answer
<1>2. GatewayTypeOK'
  BY Zenon, <1>1 DEF GatewayInv, GatewayTypeOK, Steps
<1>3. \A d \in Callers \ {c} : Same(d)
  BY Zenon DEF Same, GatewayInv, GatewayTypeOK
<1>4. /\ pc'[c] = "finish" /\ late'[c] = ctxDone[c]
      /\ answer'[c] = [decision |-> decision, err |-> err]
  BY Zenon DEF GatewayInv, GatewayTypeOK
<1>5. /\ response[c].kind = "none" /\ observed[c].counted = <<>> /\ observed[c].logged = <<>>
      /\ observed[c].span # "ended"
  BY Zenon DEF GatewayInv, GoodCall, Quiet
<1>6. Quiet(c)' /\ Fence(c)' /\ Ended(c)'
  BY Zenon, <1>4, <1>5 DEF GatewayInv, GoodCall, Quiet, Fence, Ended
<1>7. Source(c)'
  <2>1. Source(c)
    BY Zenon DEF GatewayInv, GoodCall
  <2>2. call[c].authorizer = "engine" => loaded[c].revision >= arrival[c]
    BY Zenon, <2>1 DEF Source
  <2>3. answer'[c].decision = decision
    BY <1>4
  <2> QED BY Zenon, <2>2, <2>3 DEF Source
<1>8. GrantIsBacked(c)' /\ GrantIsFenced(c)'
  BY Zenon, <1>5 DEF GrantIsBacked, GrantIsFenced, Granted
<1>9. IsFaithful(observed[c], answer'[c])
  BY <1>5 DEF IsFaithful
<1>10. GoodCall(c)'
  BY Zenon, <1>6, <1>7, <1>8, <1>9 DEF GatewayInv, GoodCall
<1> QED BY Zenon, <1>2, <1>3, <1>10, OneCaller

LEMMA EngineAnswersKeeps == ASSUME GatewayInv, NEW c \in Callers, EngineAnswers(c) PROVE GatewayInv'
<1>1. pc[c] = "decide" /\ UNCHANGED <<active, loaded>>
  BY Zenon DEF EngineAnswers, Point!Reply
<1>2. PICK outcome \in {"Allow", "Deny"} :
        /\ outcome = "Allow" => loaded[c].policies # <<>>
        /\ answers' = [answers EXCEPT ![c] =
             Append(@, [outcome |-> outcome, revision |-> loaded[c].revision])]
  BY Zenon DEF EngineAnswers, Point!Reply
<1> DEFINE Given == [outcome: {"Allow", "Deny"}, revision: Nat]
           given == [outcome |-> outcome, revision |-> loaded[c].revision]
<1>3. loaded[c].revision \in Nat /\ given \in Given
  BY Zenon, RevisionTypes DEF GatewayInv
<1>4. answers \in [Callers -> Seq(Given)] /\ answers[c] \in Seq(Given)
  BY Zenon DEF GatewayInv, GatewayTypeOK
<1>5. answers'[c] = Append(answers[c], given)
  BY Zenon, <1>2, <1>4
<1> HIDE DEF given, Given
<1>6. /\ Append(answers[c], given) \in Seq(Given)
      /\ Append(answers[c], given)[Len(Append(answers[c], given))] = given
  BY <1>3, <1>4, AppendProperties
<1>7. answers' \in [Callers -> Seq(Given)] /\ answers'[c][Len(answers'[c])] = given
  BY Zenon, <1>2, <1>4, <1>5, <1>6 DEF given
<1>8. PICK err \in AuthorizerErrors, matched \in Matches, truncated \in BOOLEAN :
        Answers(c, [outcome |-> given.outcome,
                    reason |-> IF err = "none" THEN "Policy" ELSE "EvaluationError",
                    revision |-> given.revision, matched |-> matched,
                    truncated |-> truncated], err)
  BY Zenon, <1>7 DEF EngineAnswers
<1> DEFINE decision == [outcome |-> given.outcome,
                        reason |-> IF err = "none" THEN "Policy" ELSE "EvaluationError",
                        revision |-> given.revision, matched |-> matched,
                        truncated |-> truncated]
<1>9. given.outcome = outcome /\ given.revision = loaded[c].revision
  BY Zenon DEF given
<1>10. /\ decision \in Decision /\ decision.revision = loaded[c].revision
       /\ decision.outcome = "Allow" => loaded[c].policies # <<>>
  BY Zenon, <1>2, <1>3, <1>9, GatewayAssumption DEF Decision, Outcomes, Reasons
<1>11. answers' \in [Callers -> Seq([outcome: {"Allow", "Deny"}, revision: Nat])]
  BY Zenon, <1>7 DEF Given
<1>12. Answers(c, decision, err)
  BY Zenon, <1>8
<1> HIDE DEF decision
<1> QED BY Zenon, <1>1, <1>10, <1>11, <1>12, AnswersKeep

LEMMA CustomAnswersKeeps == ASSUME GatewayInv, NEW c \in Callers, CustomAnswers(c) PROVE GatewayInv'
<1>1. pc[c] = "decide" /\ call[c].authorizer # "engine" /\ UNCHANGED <<active, loaded, answers>>
  BY Zenon DEF CustomAnswers, pointVars
<1>2. PICK outcome \in Outcomes, revision \in Revisions, err \in AuthorizerErrors,
           matched \in Matches, truncated \in BOOLEAN :
        Answers(c, [outcome |-> outcome, reason |-> "Policy", revision |-> revision,
                    matched |-> matched, truncated |-> truncated], err)
  BY Zenon DEF CustomAnswers
<1> DEFINE decision == [outcome |-> outcome, reason |-> "Policy", revision |-> revision,
                        matched |-> matched, truncated |-> truncated]
<1>3. decision \in Decision
  BY Zenon, GatewayAssumption DEF Decision, Reasons
<1>4. answers' \in [Callers -> Seq([outcome: {"Allow", "Deny"}, revision: Nat])]
  BY Zenon, <1>1 DEF GatewayInv, GatewayTypeOK
<1>5. Answers(c, decision, err)
  BY Zenon, <1>2
<1> HIDE DEF decision
<1> QED BY Zenon, <1>1, <1>3, <1>4, <1>5, AnswersKeep

(* The callback sees the answer once, and an empty record before.          *)
LEMMA Observes ==
    ASSUME GatewayInv, NEW c \in Callers, Finish(c)
    PROVE  /\ observed' \in [Callers -> Observed]
           /\ \A d \in Callers \ {c} : observed'[d] = observed[d]
           /\ IsFaithful(observed'[c], answer[c])
<1> DEFINE a == answer[c]
           o == observed[c]
           event == EventOf(a)
<1>1. observed \in [Callers -> Observed] /\ o \in Observed /\ a \in Answer
  BY Zenon DEF GatewayInv, GatewayTypeOK
<1>0. o.counted = <<>> /\ o.logged = <<>> /\ o.span # "ended"
  BY Zenon DEF GatewayInv, GoodCall, Quiet, Finish
<1>2. event \in Event /\ TellsOf(event, a)
  BY Zenon, <1>1, EventTells
<1>3. /\ Result(event) \in Labels
      /\ LabelTells(Result(event), a)
  BY Zenon, <1>1, ResultLabels
<1>4. PICK seen \in {o, [o EXCEPT !.logged = Append(@, event)]} \cup
                    {[o EXCEPT !.counted = Append(o.counted, Result(event)), !.span = span] :
                       span \in {"open", "ended"}} :
        observed' = [observed EXCEPT ![c] = seen]
  <2>1. CASE observed' = observed
    BY Zenon, <1>1, <2>1
  <2>2. CASE observed' = [observed EXCEPT ![c].logged = Append(@, event)]
    BY Zenon, <1>1, <2>2
  <2>3. ASSUME NEW span \in {"open", "ended"},
               observed' = [observed EXCEPT ![c].counted = Append(o.counted, Result(event)),
                                            ![c].span = span]
        PROVE  observed' = [observed EXCEPT ![c] =
                  [o EXCEPT !.counted = Append(o.counted, Result(event)), !.span = span]]
    BY Zenon, <1>1, <2>3
  <2> HIDE DEF o, event
  <2> QED BY Zenon, <2>1, <2>2, <2>3 DEF Finish, o, event
<1> HIDE DEF o, event, a
<1>5. seen \in Observed /\ IsFaithful(seen, a)
  <2>1. CASE seen = o
    <3>1. IsFaithful(o, a)
      BY <1>0 DEF IsFaithful
    <3> QED BY Zenon, <1>1, <2>1, <3>1
  <2>2. CASE seen = [o EXCEPT !.logged = Append(@, event)]
    <3>1. seen.logged = Append(<<>>, event) /\ seen.counted = <<>> /\ seen.span # "ended"
      BY Zenon, <1>0, <1>1, <2>2 DEF Observed
    <3>3. Append(<<>>, event) = <<event>>
      OBVIOUS
    <3>2. seen \in Observed
      <4>1. o.logged \in Seq(Event)
        BY Zenon, <1>1 DEF Observed
      <4>2. Append(o.logged, event) \in Seq(Event)
        BY Zenon, <1>2, <4>1, AppendProperties
      <4> QED BY Zenon, <1>1, <2>2, <4>2 DEF Observed
    <3> QED BY <1>2, <3>1, <3>2, <3>3 DEF IsFaithful
  <2>3. ASSUME NEW span \in {"open", "ended"},
               seen = [o EXCEPT !.counted = Append(o.counted, Result(event)), !.span = span]
        PROVE  seen \in Observed /\ IsFaithful(seen, a)
    <3>1. seen.logged = <<>> /\ seen.counted = Append(<<>>, Result(event))
      BY Zenon, <1>0, <1>1, <2>3 DEF Observed
    <3>3. Append(<<>>, Result(event)) = <<Result(event)>>
      OBVIOUS
    <3>2. seen \in Observed
      <4>1. o.counted \in Seq(Labels)
        BY Zenon, <1>1 DEF Observed
      <4>2. Append(o.counted, Result(event)) \in Seq(Labels)
        BY Zenon, <1>3, <4>1, AppendProperties
      <4> QED BY Zenon, <1>1, <2>3, <4>2 DEF Observed
    <3> QED BY <1>3, <3>1, <3>2, <3>3 DEF IsFaithful
  <2> QED BY Zenon, <1>4, <2>1, <2>2, <2>3
<1>6. observed' \in [Callers -> Observed] /\ observed'[c] = seen
  BY Zenon, <1>1, <1>4, <1>5
<1>7. \A d \in Callers \ {c} : observed'[d] = observed[d]
  BY Zenon, <1>1, <1>4
<1>8. IsFaithful(observed'[c], answer[c])
  BY Zenon, <1>5, <1>6 DEF a
<1> QED BY Zenon, <1>6, <1>7, <1>8

LEMMA FinishKeeps == ASSUME GatewayInv, NEW c \in Callers, Finish(c) PROVE GatewayInv'
<1>1. /\ observed' \in [Callers -> Observed]
      /\ \A d \in Callers \ {c} : observed'[d] = observed[d]
      /\ IsFaithful(observed'[c], answer[c])
  BY Zenon, Observes
<1>2. /\ pc' = [pc EXCEPT ![c] = "return"] /\ pc[c] = "finish"
      /\ UNCHANGED <<active, loaded, answers, call, ctxDone, watch, answer, response,
                     arrival, late>>
  BY Zenon DEF Finish, pointVars
<1>3. GatewayTypeOK'
  BY Zenon, <1>1, <1>2 DEF GatewayInv, GatewayTypeOK, Steps
<1>4. \A d \in Callers \ {c} : Same(d)
  BY Zenon, <1>1, <1>2 DEF Same, GatewayInv, GatewayTypeOK
<1>5. pc'[c] = "return"
  BY Zenon, <1>2 DEF GatewayInv, GatewayTypeOK
<1>6. Quiet(c)' /\ Fence(c)' /\ Ended(c)' /\ Source(c)'
  BY Zenon, <1>2, <1>5 DEF GatewayInv, GoodCall, Quiet, Fence, Ended, Source
<1>7. GrantIsBacked(c)' /\ GrantIsFenced(c)'
  BY Zenon, <1>2 DEF GatewayInv, GoodCall, GrantIsBacked, GrantIsFenced, Granted
<1>8. GoodCall(c)'
  BY Zenon, <1>1, <1>2, <1>6, <1>7 DEF GatewayInv, GoodCall
<1> QED BY Zenon, <1>2, <1>3, <1>4, <1>8, OneCaller

(* The fence: past it the answer is at the requested revision, and the     *)
(* context had not ended when the authorizer returned.                     *)
LEMMA ServiceReturnsKeeps == ASSUME GatewayInv, NEW c \in Callers, ServiceReturns(c) PROVE GatewayInv'
<1> DEFINE err == FenceError(c)
<1>1. pc[c] = "return" /\ call[c].front = "service"
  BY Zenon DEF ServiceReturns
<1>2. answer[c].decision \in Decision /\ call[c].revision \in Nat
  BY Zenon DEF GatewayInv, GatewayTypeOK, Answer, Call
<1>3. CASE err = "none"
  <2>1. Respond(c, "decision", answer[c].decision, "none")
    BY Zenon, <1>3 DEF ServiceReturns
  <2>2. /\ ~ctxDone[c] /\ answer[c].err = "none"
        /\ answer[c].decision.revision = call[c].revision
        /\ answer[c].decision.outcome \in {"Allow", "Deny"}
    BY Zenon, <1>3 DEF FenceError
  <2>3. /\ response'[c] = [kind |-> "decision", decision |-> answer[c].decision, err |-> "none"]
        /\ answer'[c] = answer[c] /\ call'[c] = call[c] /\ loaded'[c] = loaded[c]
        /\ arrival'[c] = arrival[c] /\ late'[c] = late[c]
    BY Zenon, <2>1, Responded DEF GatewayInv
  <2>4. Source(c) /\ call[c].revision > 0 /\ ~late[c]
    BY Zenon, <1>1, <2>2 DEF GatewayInv, GoodCall, Fence, Ended
  <2>5. GrantIsBacked(c)'
    <3>1. call[c].authorizer = "engine" =>
            /\ loaded[c].revision >= arrival[c]
            /\ answer[c].decision.revision = loaded[c].revision
            /\ answer[c].decision.outcome = "Allow" => loaded[c].policies # <<>>
      BY Zenon, <1>1, <2>4 DEF Source
    <3>2. response'[c].decision = answer[c].decision /\ response'[c].kind = "decision"
      BY <2>3
    <3> QED BY Zenon, <2>2, <2>3, <3>1, <3>2 DEF GrantIsBacked, Granted
  <2>6. GrantIsFenced(c)'
    BY <1>1, <2>2, <2>3, <2>4 DEF GrantIsFenced, Source
  <2>7. "decision" \in ResponseKinds /\ "none" \in ServiceErrors
    BY Zenon DEF ResponseKinds, ServiceErrors
  <2> QED BY Zenon, <1>2, <2>1, <2>5, <2>6, <2>7, RespondKeeps
<1>4. CASE err # "none"
  <2> DEFINE decision == IF err = "ErrRevisionConflict"
                         THEN [Denied(c) EXCEPT !.reason = "PolicyStale"] ELSE Denied(c)
  <2>1. err \in ServiceErrors \ {"none"}
    BY Zenon, <1>4 DEF FenceError, ServiceErrors
  <2>2. Respond(c, "decision", decision, err)
    BY Zenon, <1>4 DEF ServiceReturns
  <2>3. /\ Denied(c) \in Decision /\ Denied(c).outcome = "Deny"
        /\ Denied(c).revision = call[c].revision
    BY Zenon, DeniedTypes DEF GatewayInv
  <2>4. decision \in Decision /\ decision.outcome = "Deny" /\ decision.revision = call[c].revision
    BY Zenon, <2>3 DEF Decision, Reasons
  <2> HIDE DEF decision, err
  <2> QED BY Zenon, <2>1, <2>2, <2>4, ServiceDenies
<1> QED BY Zenon, <1>3, <1>4

LEMMA HandlerReturnsKeeps == ASSUME GatewayInv, NEW c \in Callers, HandlerReturns(c) PROVE GatewayInv'
<1>1. pc[c] = "return" /\ answer[c].decision \in Decision
  BY Zenon DEF HandlerReturns, GatewayInv, GatewayTypeOK, Answer
<1>2. ASSUME NEW kind \in {"denied", "failed"}, NEW decision \in Decision,
             NEW err \in {"AuthorizerError", "ErrInvalidOutcome", "Forbidden"},
             NEW mapped \in FailureError(c, err), Respond(c, kind, decision, mapped)
      PROVE  GatewayInv'
  <2>1. mapped \in HandlerErrors \cup {"Forbidden", "InternalError"} /\ mapped # "none"
    BY Zenon, <1>2, FailureErrors DEF HandlerErrors
  <2> QED BY Zenon, <1>2, <2>1, HandlerRefuses
<1>3. CASE /\ answer[c].err = "none" /\ answer[c].decision.outcome = "Allow"
           /\ Respond(c, "next", answer[c].decision, "none")
  <2>1. /\ response'[c] = [kind |-> "next", decision |-> answer[c].decision, err |-> "none"]
        /\ answer'[c] = answer[c] /\ call'[c] = call[c] /\ loaded'[c] = loaded[c]
        /\ arrival'[c] = arrival[c]
    <3>1. GatewayTypeOK
      BY Zenon DEF GatewayInv
    <3> QED BY <1>3, <3>1, Responded
  <2>2. call[c].authorizer = "engine" =>
          /\ loaded[c].revision >= arrival[c] /\ loaded[c].policies # <<>>
          /\ answer[c].decision.revision = loaded[c].revision
    <3>1. Source(c)
      BY Zenon DEF GatewayInv, GoodCall
    <3> QED BY Zenon, <1>1, <1>3, <3>1 DEF Source
  <2>3. GrantIsBacked(c)' /\ GrantIsFenced(c)'
    <3>1. response'[c].decision = answer[c].decision /\ response'[c].kind = "next"
      BY <2>1
    <3>2. GrantIsBacked(c)'
      BY Zenon, <1>3, <2>1, <2>2, <3>1 DEF GrantIsBacked, Granted
    <3> QED BY Zenon, <3>1, <3>2 DEF GrantIsFenced
  <2>4. "next" \in ResponseKinds /\ "none" \in ServiceErrors
    BY Zenon DEF ResponseKinds, ServiceErrors
  <2> QED BY Zenon, <1>1, <1>3, <2>3, <2>4, RespondKeeps
<1>4. NoDecision \in Decision
  BY Zenon, DeniedTypes DEF GatewayInv
<1> QED BY Zenon, <1>1, <1>2, <1>3, <1>4 DEF HandlerReturns

LEMMA NextKeeps == GatewayInv /\ [GatewayNext]_gatewayVars => GatewayInv'
<1> SUFFICES ASSUME GatewayInv, [GatewayNext]_gatewayVars PROVE GatewayInv'
  BY Zenon
<1>1. CASE UNCHANGED gatewayVars
  <2>1. UNCHANGED <<active, loaded, answers, pc, call, ctxDone, watch, answer, observed,
                    response, arrival, late>>
    BY Zenon, <1>1 DEF gatewayVars, pointVars, callVars
  <2>2. GatewayTypeOK' /\ active.revision <= active'.revision
    BY <2>1, RevisionTypes DEF GatewayInv, GatewayTypeOK
  <2>3. ASSUME NEW c \in Callers PROVE GoodCall(c)'
    BY Zenon, <2>1, <2>2, SameKeeps DEF GatewayInv, Same
  <2> QED BY Zenon, <2>2, <2>3 DEF GatewayInv
<1>2. ASSUME NEW c \in Callers, Step(c) PROVE GatewayInv'
  BY Zenon, <1>2, ServiceRefusesKeeps, MapperFailsKeeps, AdmitKeeps, BeginKeeps, EngineLoadsKeeps,
     EngineAnswersKeeps, CustomAnswersKeeps, PanicsKeep, FinishKeeps, ServiceReturnsKeeps,
     HandlerReturnsKeeps DEF Step
<1> QED BY Zenon, <1>1, <1>2, InstallKeeps, ArriveKeeps, EndContextKeeps DEF GatewayNext

THEOREM Invariance == GatewaySpec => []GatewayInv
BY InitInv, NextKeeps, PTL DEF GatewaySpec

-----------------------------------------------------------------------------

(* No front lets an operation run without an allow that the authorizer     *)
(* gave this call, and an engine's allow comes from a snapshot that was    *)
(* active after the request arrived: however snapshots are replaced        *)
(* between engine.Decide's load and the middleware's next.                 *)
THEOREM Backed == GatewaySpec => []GrantsAreBacked
<1>1. GatewayInv => GrantsAreBacked
  BY Zenon DEF GatewayInv, GoodCall, GrantsAreBacked
<1> QED BY Invariance, <1>1, PTL

(* decisionService.Decide grants only at the requested revision, only to a *)
(* context that had not ended when the authorizer returned, and denies     *)
(* with every error, a recovered panic included.                           *)
THEOREM Fenced == GatewaySpec => []GrantsAreFenced
<1>1. GatewayInv => GrantsAreFenced
  BY Zenon DEF GatewayInv, GoodCall, GrantsAreFenced
<1> QED BY Invariance, <1>1, PTL

(* Instrumented.Decide and its instrumenters report each answer at most    *)
(* once and as it was, whatever panics and however matches are cut.        *)
THEOREM Faithful == GatewaySpec => []ObservationIsFaithful
<1>1. GatewayInv => ObservationIsFaithful
  BY Zenon DEF GatewayInv, GoodCall, ObservationIsFaithful
<1> QED BY Invariance, <1>1, PTL

=============================================================================
