------------------------------- MODULE Gateway -------------------------------
(***************************************************************************)
(* The boundaries applications call and what runs between them and the     *)
(* authorizer: decision_service.go (the revision-fenced service),          *)
(* adapters/http and adapters/jsonrpc (the middleware), instrumentation.go *)
(* (the observing decorator) with adapters/otel and adapters/slog.  The    *)
(* authorizer is an engine, of which only what DecisionPoint promises is   *)
(* used, or any other implementation of the interface.  Contexts end and   *)
(* snapshots are replaced at any moment.                                   *)
(***************************************************************************)
EXTENDS Naturals, Sequences

CONSTANTS
    Callers,          \* goroutines that serve one request each
    Snapshots,        \* the snapshots the engine may install
    InitialSnapshot,  \* the snapshot the engine starts with
    Revisions,        \* the revisions a service request may ask for
    Matches,          \* the lists of matched policy IDs an authorizer may report
    MaxPolicyIDs      \* InstrumentationConfig.MaxPolicyIDs

Fronts == {"service", "http", "jsonrpc"}
Authorizers == {"engine", "custom"}
Inputs == {"good", "unmapped", "invalidRequest", "badCorrelation", "nilContext"}
Outcomes == {"NotApplicable", "Allow", "Deny", "Invalid"}
Reasons == {"Policy", "EvaluationError", "PolicyStale"}

AuthorizerErrors == {"none", "AuthorizerError"}
ServiceErrors == {"none", "ErrInvalidRequest", "ErrInvalidRevision", "ValidationError",
                  "ContextError", "ErrDecisionUnavailable", "ErrRevisionConflict",
                  "ErrInvalidOutcome", "ErrPolicyPanic"}
HandlerErrors == {"none", "MapperError", "AuthorizerError", "ErrInvalidOutcome"}

Call == [front: Fronts, authorizer: Authorizers, input: Inputs, revision: Nat]
Decision == [outcome: Outcomes, reason: Reasons, revision: Nat,
             matched: Seq(Nat), truncated: BOOLEAN]
Answer == [decision: Decision, err: AuthorizerErrors]
Event == [decision: Decision, failed: BOOLEAN]
Labels == {"allow", "deny", "not-applicable", "error"}
Observed == [span: {"none", "open", "ended"}, counted: Seq(Labels), logged: Seq(Event)]
Steps == {"idle", "admit", "observe", "load", "decide", "finish", "return", "done"}
ResponseKinds == {"none", "decision", "next", "denied", "failed", "panic"}
Response == [kind: ResponseKinds, decision: Decision,
             err: ServiceErrors \cup HandlerErrors \cup {"Forbidden", "InternalError"}]

(* NewSnapshot admits only positive revisions; newInstrumented replaces a  *)
(* zero MaxPolicyIDs by a positive default and refuses a negative one.     *)
ASSUME GatewayAssumption ==
    /\ MaxPolicyIDs \in Nat \ {0}
    /\ Revisions \subseteq Nat
    /\ Matches \subseteq Seq(Nat)
    /\ \A s \in Snapshots \cup {InitialSnapshot} : s.revision \in Nat \ {0}

VARIABLES
    active, loaded, answers,   \* the engine, as in DecisionPoint
    pc,        \* per caller: the step its goroutine is at
    call,      \* per caller: the front it entered by and what it passed
    ctxDone,   \* per caller: ctx.Err() # nil
    watch,     \* per caller: the instrumenter whose finish callback is held
    answer,    \* per caller: what the authorizer returned
    observed,  \* per caller: what reached the span, the counter and the log
    response,  \* per caller: what the front gave back
    arrival,   \* history: per caller, the engine's revision when it arrived
    late       \* history: per caller, ctx had ended when the authorizer returned

pointVars == <<active, loaded, answers>>
callVars == <<pc, call, ctxDone, watch, answer, observed, response, arrival, late>>
gatewayVars == <<pointVars, callVars>>

Point == INSTANCE DecisionPoint

NoDecision == [outcome |-> "Deny", reason |-> "EvaluationError", revision |-> 0,
               matched |-> <<>>, truncated |-> FALSE]

(* The denied literal of decisionService.Decide.                           *)
Denied(c) == [NoDecision EXCEPT !.revision = call[c].revision]

GatewayInit ==
    /\ Point!Init
    /\ pc = [c \in Callers |-> "idle"]
    /\ call = [c \in Callers |-> [front |-> "service", authorizer |-> "engine",
                                  input |-> "good", revision |-> 0]]
    /\ ctxDone = [c \in Callers |-> FALSE]
    /\ watch = [c \in Callers |-> "nobody"]
    /\ answer = [c \in Callers |-> [decision |-> NoDecision, err |-> "AuthorizerError"]]
    /\ observed = [c \in Callers |-> [span |-> "none", counted |-> <<>>, logged |-> <<>>]]
    /\ response = [c \in Callers |-> [kind |-> "none", decision |-> NoDecision, err |-> "none"]]
    /\ arrival = [c \in Callers |-> 0]
    /\ late = [c \in Callers |-> FALSE]

-----------------------------------------------------------------------------
(* The fronts, before the authorizer                                       *)

(* A request arrives.  Only the middleware has a mapper; only the service  *)
(* has a correlation ID, a revision and a context the caller may leave nil.*)
Arrive(c) ==
    /\ pc[c] = "idle"
    /\ \E front \in Fronts, authorizer \in Authorizers, input \in Inputs, revision \in Revisions \cup {0} :
         /\ front = "service" => input # "unmapped"
         /\ front # "service" => input \notin {"badCorrelation", "nilContext"} /\ revision = 0
         /\ call' = [call EXCEPT ![c] = [front |-> front, authorizer |-> authorizer,
                                         input |-> input, revision |-> revision]]
    /\ arrival' = [arrival EXCEPT ![c] = active.revision]
    /\ pc' = [pc EXCEPT ![c] = "admit"]
    /\ UNCHANGED <<pointVars, ctxDone, watch, answer, observed, response, late>>

(* The front answers c and its goroutine is done.                          *)
Respond(c, kind, decision, err) ==
    /\ response' = [response EXCEPT ![c] =
                      [kind |-> kind, decision |-> decision, err |-> err]]
    /\ pc' = [pc EXCEPT ![c] = "done"]
    /\ UNCHANGED <<pointVars, call, ctxDone, watch, answer, observed, arrival, late>>

(* DecisionContext.Validate, then the first look at the context.           *)
AdmissionError(c) ==
    IF call[c].input = "invalidRequest" THEN "ErrInvalidRequest"
    ELSE IF call[c].revision = 0 THEN "ErrInvalidRevision"
    ELSE IF call[c].input = "badCorrelation" THEN "ValidationError"
    ELSE IF call[c].input = "nilContext" THEN "ErrInvalidRequest"
    ELSE IF ctxDone[c] THEN "ContextError"
    ELSE "none"

ServiceRefuses(c) ==
    /\ pc[c] = "admit" /\ call[c].front = "service"
    /\ AdmissionError(c) # "none"
    /\ Respond(c, "decision", Denied(c), AdmissionError(c))

(* mapFailure: a failed mapper that returns nil is replaced.               *)
FailureError(c, err) ==
    IF call[c].front = "jsonrpc" THEN {err, "InternalError"} ELSE {err}

MapperFails(c) ==
    /\ pc[c] = "admit" /\ call[c].front # "service"
    /\ call[c].input = "unmapped"
    /\ \E err \in FailureError(c, "MapperError") : Respond(c, "failed", NoDecision, err)

Admit(c) ==
    /\ pc[c] = "admit"
    /\ IF call[c].front = "service" THEN AdmissionError(c) = "none"
                                    ELSE call[c].input # "unmapped"
    /\ pc' = [pc EXCEPT ![c] = "observe"]
    /\ UNCHANGED <<pointVars, call, ctxDone, watch, answer, observed, response, arrival, late>>

-----------------------------------------------------------------------------
(* Instrumented.Decide around the authorizer                               *)

(* safeInstrumentationStart: no decorator, a panic in Start and a nil      *)
(* callback all leave nobody to tell.                                      *)
Begin(c) ==
    /\ pc[c] = "observe"
    /\ \E instrumenter \in {"nobody", "otel", "slog"} :
         /\ watch' = [watch EXCEPT ![c] = instrumenter]
         /\ observed' = [observed EXCEPT ![c].span =
                           IF instrumenter = "otel" THEN "open" ELSE "none"]
    /\ pc' = [pc EXCEPT ![c] = IF call[c].authorizer = "engine" THEN "load" ELSE "decide"]
    /\ UNCHANGED <<pointVars, call, ctxDone, answer, response, arrival, late>>

EngineLoads(c) ==
    /\ pc[c] = "load"
    /\ Point!Load(c)
    /\ pc' = [pc EXCEPT ![c] = "decide"]
    /\ UNCHANGED <<call, ctxDone, watch, answer, observed, response, arrival, late>>

(* The authorizer returns to the decorator.                                *)
Answers(c, decision, err) ==
    /\ answer' = [answer EXCEPT ![c] = [decision |-> decision, err |-> err]]
    /\ late' = [late EXCEPT ![c] = ctxDone[c]]
    /\ pc' = [pc EXCEPT ![c] = "finish"]
    /\ UNCHANGED <<call, ctxDone, watch, observed, response, arrival>>

(* An engine answers from the snapshot it loaded.  A denial may come with  *)
(* an error, and does for a request that it rejects.                       *)
EngineAnswers(c) ==
    /\ pc[c] = "decide" /\ call[c].authorizer = "engine"
    /\ Point!Reply(c)
    /\ LET given == answers'[c][Len(answers'[c])] IN
       \E err \in AuthorizerErrors, matched \in Matches, truncated \in BOOLEAN :
         /\ call[c].input = "invalidRequest" => err # "none"
         /\ err # "none" => given.outcome = "Deny" /\ matched = <<>> /\ ~truncated
         /\ Answers(c, [outcome |-> given.outcome,
                        reason |-> IF err = "none" THEN "Policy" ELSE "EvaluationError",
                        revision |-> given.revision, matched |-> matched,
                        truncated |-> truncated], err)

(* Another implementation of Authorizer may return anything.               *)
CustomAnswers(c) ==
    /\ pc[c] = "decide" /\ call[c].authorizer = "custom"
    /\ \E outcome \in Outcomes, revision \in Revisions, err \in AuthorizerErrors,
          matched \in Matches, truncated \in BOOLEAN :
         Answers(c, [outcome |-> outcome, reason |-> "Policy", revision |-> revision,
                     matched |-> matched, truncated |-> truncated], err)
    /\ UNCHANGED pointVars

(* Variant with a mistake: the service lets the panic out.                 *)
AuthorizerPanicsThrough(c) ==
    /\ pc[c] = "decide"
    /\ pc' = [pc EXCEPT ![c] = "crashed"]
    /\ UNCHANGED <<pointVars, call, ctxDone, watch, answer, observed, response, arrival, late>>

(* A panic passes the decorator, whose finish is not called.  The service  *)
(* recovers it; the middleware leaves it to the server.                    *)
AuthorizerPanics(c) ==
    /\ pc[c] = "decide"
    /\ IF call[c].front = "service"
       THEN Respond(c, "decision", Denied(c), "ErrPolicyPanic")
       ELSE Respond(c, "panic", NoDecision, "none")

(* Variant with a mistake: shortened matches are not declared.             *)
EventOfSilently(a) ==
    [decision |-> [a.decision EXCEPT
        !.matched = SubSeq(@, 1, IF Len(@) < MaxPolicyIDs THEN Len(@) ELSE MaxPolicyIDs)],
     failed |-> a.err # "none"]

(* The Event that Instrumented.Decide builds: matched IDs are capped.      *)
EventOf(a) ==
    LET matched == a.decision.matched
        count == IF Len(matched) < MaxPolicyIDs THEN Len(matched) ELSE MaxPolicyIDs
    IN  [decision |-> [a.decision EXCEPT
            !.matched = SubSeq(matched, 1, count),
            !.truncated = @ \/ count # Len(matched)],
         failed |-> a.err # "none"]

(* Result of internal/authorizationotel.                                   *)
Result(event) ==
    IF event.failed THEN "error"
    ELSE CASE event.decision.outcome = "Allow" -> "allow"
           [] event.decision.outcome = "Deny" -> "deny"
           [] event.decision.outcome = "NotApplicable" -> "not-applicable"
           [] event.decision.outcome = "Invalid" -> "error"

(* safeInstrumentationFinish: the callback of slog logs; the callback of   *)
(* otel counts, then ends the span; a panic on the way is contained and    *)
(* the rest is not done.  Decide returns what the authorizer returned.     *)
Finish(c) ==
    /\ pc[c] = "finish"
    /\ LET event == EventOf(answer[c])
           counted == Append(observed[c].counted, Result(event)) IN
       \/ observed' = observed
       \/ /\ watch[c] = "slog"
          /\ observed' = [observed EXCEPT ![c].logged = Append(@, event)]
       \/ /\ watch[c] = "otel"
          /\ \E span \in {"open", "ended"} :
               observed' = [observed EXCEPT ![c].counted = counted, ![c].span = span]
    /\ pc' = [pc EXCEPT ![c] = "return"]
    /\ UNCHANGED <<pointVars, call, ctxDone, watch, answer, response, arrival, late>>

-----------------------------------------------------------------------------
(* The fronts, after the authorizer                                        *)

(* Variant with a mistake: the context is not looked at again.             *)
FenceErrorStaleContext(c) ==
    IF answer[c].err # "none" THEN "ErrDecisionUnavailable"
    ELSE IF answer[c].decision.revision # call[c].revision THEN "ErrRevisionConflict"
    ELSE IF answer[c].decision.outcome \notin {"Allow", "Deny"} THEN "ErrInvalidOutcome"
    ELSE "none"

(* The second look at the context, then the fence.                         *)
FenceError(c) ==
    IF ctxDone[c] THEN "ContextError"
    ELSE IF answer[c].err # "none" THEN "ErrDecisionUnavailable"
    ELSE IF answer[c].decision.revision # call[c].revision THEN "ErrRevisionConflict"
    ELSE IF answer[c].decision.outcome \notin {"Allow", "Deny"} THEN "ErrInvalidOutcome"
    ELSE "none"

ServiceReturns(c) ==
    LET err == FenceError(c) IN
    /\ pc[c] = "return" /\ call[c].front = "service"
    /\ Respond(c, "decision",
               IF err = "none" THEN answer[c].decision
               ELSE IF err = "ErrRevisionConflict"
                    THEN [Denied(c) EXCEPT !.reason = "PolicyStale"]
                    ELSE Denied(c),
               err)

(* Variant with a mistake: whatever is not denied reaches the handler.     *)
HandlerReturnsOpen(c) ==
    LET a == answer[c] IN
    /\ pc[c] = "return" /\ call[c].front # "service"
    /\ \/ /\ a.err # "none"
          /\ Respond(c, "failed", NoDecision, "AuthorizerError")
       \/ /\ a.err = "none" /\ a.decision.outcome = "Deny"
          /\ Respond(c, "denied", a.decision, "Forbidden")
       \/ /\ a.err = "none" /\ a.decision.outcome # "Deny"
          /\ Respond(c, "next", a.decision, "none")

(* The ladder of NewHandler and NewMiddleware.                             *)
HandlerReturns(c) ==
    LET a == answer[c] IN
    /\ pc[c] = "return" /\ call[c].front # "service"
    /\ \/ /\ a.err # "none"
          /\ \E err \in FailureError(c, "AuthorizerError") : Respond(c, "failed", NoDecision, err)
       \/ /\ a.err = "none" /\ a.decision.outcome = "Invalid"
          /\ \E err \in FailureError(c, "ErrInvalidOutcome") : Respond(c, "failed", NoDecision, err)
       \/ /\ a.err = "none" /\ a.decision.outcome \in {"NotApplicable", "Deny"}
          /\ \E err \in FailureError(c, "Forbidden") : Respond(c, "denied", a.decision, err)
       \/ /\ a.err = "none" /\ a.decision.outcome = "Allow"
          /\ Respond(c, "next", a.decision, "none")

-----------------------------------------------------------------------------
(* The environment                                                         *)

EndContext(c) ==
    /\ ~ctxDone[c] /\ pc[c] # "done"
    /\ ctxDone' = [ctxDone EXCEPT ![c] = TRUE]
    /\ UNCHANGED <<pointVars, pc, call, watch, answer, observed, response, arrival, late>>

Install == Point!Install /\ UNCHANGED callVars

Step(c) ==
    \/ ServiceRefuses(c) \/ MapperFails(c) \/ Admit(c) \/ Begin(c) \/ EngineLoads(c)
    \/ EngineAnswers(c) \/ CustomAnswers(c) \/ AuthorizerPanics(c) \/ Finish(c)
    \/ ServiceReturns(c) \/ HandlerReturns(c)

GatewayNext == Install \/ \E c \in Callers : Arrive(c) \/ Step(c) \/ EndContext(c)

GatewaySpec == GatewayInit /\ [][GatewayNext]_gatewayVars

(* Goroutines that can run are scheduled; authorizers and callbacks        *)
(* return, which is what the code asks of them.                            *)
FairGatewaySpec == GatewaySpec /\ \A c \in Callers : WF_gatewayVars(Step(c))

-----------------------------------------------------------------------------
(* Properties                                                              *)

(* Types of the engine, the requests, the answers and what is observed.    *)
GatewayTypeOK ==
    /\ active \in Snapshots \cup {InitialSnapshot}
    /\ loaded \in [Callers -> Snapshots \cup {InitialSnapshot}]
    /\ answers \in [Callers -> Seq([outcome: {"Allow", "Deny"}, revision: Nat])]
    /\ pc \in [Callers -> Steps]
    /\ call \in [Callers -> Call]
    /\ ctxDone \in [Callers -> BOOLEAN]
    /\ watch \in [Callers -> {"nobody", "otel", "slog"}]
    /\ answer \in [Callers -> Answer]
    /\ observed \in [Callers -> Observed]
    /\ response \in [Callers -> Response]
    /\ arrival \in [Callers -> Nat]
    /\ late \in [Callers -> BOOLEAN]

Granted(c) ==
    \/ response[c].kind = "next"
    \/ response[c].kind = "decision" /\ response[c].err = "none"
         /\ response[c].decision.outcome = "Allow"

GrantIsBacked(c) ==
    /\ Granted(c) =>
         /\ answer[c].err = "none" /\ answer[c].decision.outcome = "Allow"
         /\ response[c].decision = answer[c].decision
         /\ call[c].authorizer = "engine" =>
              /\ loaded[c].policies # <<>>
              /\ answer[c].decision.revision = loaded[c].revision
              /\ loaded[c].revision >= arrival[c]
    /\ response[c].kind \in {"denied", "failed"} => response[c].err # "none"

GrantIsFenced(c) ==
    response[c].kind = "decision" =>
        /\ response[c].decision.revision = call[c].revision
        /\ response[c].decision.outcome \in {"Allow", "Deny"}
        /\ response[c].err # "none" => response[c].decision.outcome = "Deny"
        /\ Granted(c) =>
             /\ call[c].revision > 0 /\ ~late[c]
             /\ call[c].authorizer = "engine" => call[c].revision >= arrival[c]

(* The event e tells of the answer a.                                      *)
TellsOf(e, a) ==
    /\ e.failed = (a.err # "none")
    /\ e.decision.outcome = a.decision.outcome
    /\ e.decision.revision = a.decision.revision
    /\ Len(e.decision.matched) <= MaxPolicyIDs
    /\ ~e.decision.truncated =>
         e.decision.matched = a.decision.matched /\ ~a.decision.truncated

(* The counter's label is the one of the answer a.                         *)
LabelTells(label, a) ==
    /\ label = "allow" <=> a.err = "none" /\ a.decision.outcome = "Allow"
    /\ label = "deny" <=> a.err = "none" /\ a.decision.outcome = "Deny"
    /\ label = "error" <=> a.err # "none" \/ a.decision.outcome = "Invalid"

IsFaithful(o, a) ==
    /\ Len(o.logged) + Len(o.counted) <= 1
    /\ \A i \in DOMAIN o.logged : TellsOf(o.logged[i], a)
    /\ \A i \in DOMAIN o.counted : LabelTells(o.counted[i], a)
    /\ o.span = "ended" => o.counted # <<>>

(* A front lets an operation run only on an explicit allow without error   *)
(* that the authorizer returned for this very call; if the authorizer is   *)
(* the engine, the allow comes from a snapshot with policies that was      *)
(* active after the request arrived, however many replacements ran.        *)
(* Whatever is refused says so: a JSON-RPC refusal is never a nil error,   *)
(* which the dispatcher would take for success.                            *)
GrantsAreBacked == \A c \in Callers : GrantIsBacked(c)

(* The service grants at the requested revision only: a request fenced at  *)
(* a revision the engine had left before the request arrived is not        *)
(* granted, and neither is one whose context had ended when the authorizer *)
(* returned, although the engine may still have answered allow.  A refusal *)
(* always carries a Deny for the requested revision.                       *)
GrantsAreFenced == \A c \in Callers : GrantIsFenced(c)

(* What is observed is what was answered: at most one event per call, with *)
(* the answer's outcome, revision and failure, with matched IDs that are   *)
(* all of the answer's or declared truncated; the counter has the label of *)
(* the answer; and a span is ended only with its decision counted.         *)
ObservationIsFaithful == \A c \in Callers : IsFaithful(observed[c], answer[c])

(* Every request that arrived is answered, whatever the authorizer and the *)
(* instrumenter do, and a panic reaches only callers of the middleware.    *)
EveryRequestAnswered ==
    \A c \in Callers :
        (pc[c] = "admit") ~> /\ pc[c] = "done"
                             /\ response[c].kind # "none"
                             /\ call[c].front = "service" => response[c].kind = "decision"

=============================================================================
