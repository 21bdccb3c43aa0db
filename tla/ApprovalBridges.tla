--------------------------- MODULE ApprovalBridges ---------------------------
(***************************************************************************)
(* The two approval bridges: approval-bridge.ts, whose source and resolver  *)
(* are awaited, and openclaw-approval-bridge.ts, whose port answers at      *)
(* once; approval-composition.ts, which asks permission-evaluator.ts before *)
(* it resolves; and the fake source and resolver, fake-approval.ts.         *)
(*                                                                          *)
(* The bridges keep nothing: what a caller knows of an approval is the last *)
(* answer it was given.  A scope is a function from the scope fields that   *)
(* are given to their refs, and an optional thing is a set of one or none.  *)
(* An operator marked "Faulty" is a variant with a bug, used by no          *)
(* specification.                                                           *)
(***************************************************************************)
EXTENDS Naturals

CONSTANTS
    BridgeCallers,
    BridgeInputs,           \* bound: the requests and the decisions that are given
    EvaluationContexts,     \* bound: whom and where a permission is evaluated for
    PermissionGrants,       \* bound: the grants a host may hold
    ComposedChoices         \* bound: what a host composes: a context, a requirement of its own, if
                            \* one, and the evaluator

-----------------------------------------------------------------------------
(* permission-evaluator.ts                                                  *)

ScopeFields == {"actorRef", "workspaceRef", "agentRef", "resourceRef"}
PermissionActions ==
    {"send-message", "invoke-command", "consume-callback", "resolve-approval", "admin-topic-binding"}
ResourceKinds == {"workspace", "agent", "topic", "callback", "approval", "delivery"}

\* A spread: the fields of one scope, and those another has besides.
Over(scope, other) ==
    [f \in DOMAIN scope \cup DOMAIN other |-> IF f \in DOMAIN scope THEN scope[f] ELSE other[f]]

\* The refs of the topic come before those of the context, the requirement's before both.
EffectiveRequirement(requirement, context) ==
    [requirement EXCEPT !.scope =
        Over(@, Over(context.actor, Over(context.topic, context.scope)))]

RequiresTrustedTopic(requirement) ==
    \/ requirement.kind \in {"topic", "callback", "approval", "delivery"}
    \/ requirement.action # "admin-topic-binding"

RequiredScope(requirement) ==
    {"actorRef"}
    \cup (IF requirement.kind \in {"workspace", "agent"} \/ RequiresTrustedTopic(requirement)
          THEN {"workspaceRef"} ELSE {})
    \cup (IF requirement.kind = "agent" \/ requirement.action # "admin-topic-binding"
          THEN {"agentRef"} ELSE {})
    \cup (IF requirement.kind \in {"topic", "callback", "approval", "delivery"}
          THEN {"resourceRef"} ELSE {})

ContextAllows(requirement, context) ==
    /\ context.trusted
    /\ RequiredScope(requirement) \subseteq DOMAIN requirement.scope
    /\ RequiresTrustedTopic(requirement) => context.topicTrusted /\ context.topicActive
    /\ ~(requirement.action = "consume-callback" /\ context.tokenConsumed)

\* A grant covers whatever it does not name.
GrantMatches(grant, requirement) ==
    /\ grant.action = requirement.action
    /\ grant.kind = requirement.kind
    /\ \A field \in DOMAIN grant.scope :
          field \in DOMAIN requirement.scope /\ grant.scope[field] = requirement.scope[field]

EvaluatePermission(asked, context, grants) ==
    LET requirement == EffectiveRequirement(asked, context)
    IN [requirement |-> requirement,
        allowed |-> /\ ContextAllows(requirement, context)
                    /\ \E grant \in grants : GrantMatches(grant, requirement)]

Evaluators == {"default", "injected", "no-function"}

ASSUME ApprovalBridgesAssumption ==
    /\ \A choice \in ComposedChoices : choice.evaluator \in Evaluators /\ choice.context \in EvaluationContexts
    /\ \A r \in PermissionGrants \cup UNION {choice.own : choice \in ComposedChoices} :
          r.action \in PermissionActions /\ r.kind \in ResourceKinds /\ DOMAIN r.scope \subseteq ScopeFields
    /\ \A c \in EvaluationContexts :
          /\ c.trusted \in BOOLEAN /\ c.topicTrusted \in BOOLEAN /\ c.topicActive \in BOOLEAN
          /\ DOMAIN c.actor \subseteq {"actorRef"} /\ DOMAIN c.scope \subseteq ScopeFields \ {"actorRef"}

-----------------------------------------------------------------------------
(* Requests, decisions and answers                                          *)

DecisionStatuses == {"approved", "rejected", "expired", "cancelled"}
StateStatuses    == DecisionStatuses \cup {"submitted", "unknown"}

\* What a caller gives: a request, or a decision with the actor it may name.  flaws: the parts
\* that do not normalize; a text that looks sensitive is redacted, never refused.
SafeApprovalObject(flaws) == flaws \cap {"unsafe-field", "ref"} = {}

CreateBridgeRequest(input) == SafeApprovalObject(input.flaws) /\ input.flaws \cap {"text", "button"} = {}
CreateBridgeDecision(input) == SafeApprovalObject(input.flaws) /\ input.status \in DecisionStatuses
InputAccepted(input) ==
    IF input.status = "request" THEN CreateBridgeRequest(input) ELSE CreateBridgeDecision(input)

\* createDefaultApprovalPermissionRequirement: the actor the decision names comes first.
DefaultScope(input, context) ==
    Over(input.actor, Over(context.actor, [f \in DOMAIN context.scope \ {"resourceRef"} |->
                                             context.scope[f]]))

\* Faulty: it does not name the approval.
DefaultRequirementUnscoped(input, context) ==
    [action |-> "resolve-approval", kind |-> "approval",
     scope |-> DefaultScope(input, context)]

DefaultRequirement(input, context) ==
    [action |-> "resolve-approval", kind |-> "approval",
     scope |-> Over([resourceRef |-> input.approvalRef], DefaultScope(input, context))]

BridgeAnswer(code, retryable, state) == [code |-> code, retryable |-> retryable, state |-> state]
Final(code)     == BridgeAnswer(code, "unstated", {})
TryAgain        == BridgeAnswer("dependency-failed", "yes", {})
Waiting         == BridgeAnswer("waiting", "unstated", {})

-----------------------------------------------------------------------------
VARIABLES
    wired,              \* which of "submit" and "resolve" the bridges have a boundary for
    heldGrants,         \* the grants of the host
    evaluations,        \* the allowed permission decision that the host keeps
    approvalCalls       \* the call of each caller under way, or its last one

approvalVars == <<wired, heldGrants, evaluations, approvalCalls>>

NoCall == [operation |-> "none", answer |-> Final("none"), taken |-> FALSE]

ApprovalInit ==
    /\ wired \in SUBSET {"submit", "resolve"}
    /\ heldGrants = {}
    /\ evaluations = {}
    /\ approvalCalls = [c \in BridgeCallers |-> NoCall]

Quiet(c) == approvalCalls[c].answer # Waiting

\* The grants the host holds are its own affair.
ChangeGrants(g) ==
    /\ heldGrants' = (heldGrants \ {g}) \cup ({g} \ heldGrants)
    /\ UNCHANGED <<wired, evaluations, approvalCalls>>

\* A host that evaluates by itself and keeps what it was told; a denied decision is refused
\* like a missing one.
Evaluate(input, context) ==
    /\ InputAccepted(input) /\ input.status # "request"
    /\ LET decision == EvaluatePermission(DefaultRequirement(input, context), context, heldGrants)
       IN decision.allowed /\ evaluations' = {decision}
    /\ UNCHANGED <<wired, heldGrants, approvalCalls>>

-----------------------------------------------------------------------------
(* The calls                                                                *)

HasBoundary(operation) == operation \in wired

\* What stands before the boundary is called, in the order of the code; "none" lets the call
\* through.  permission is the decision given with it, if there is one.
BridgeRefusal(operation, input, permission, contextIsSound) ==
    CASE ~contextIsSound                          -> "invalid-input"
      [] contextIsSound /\ ~HasBoundary(operation) -> "dependency-missing"
      [] OTHER ->
            IF ~InputAccepted(input) THEN "invalid-input"
            ELSE IF operation = "resolve" /\ ~\E p \in permission : p.allowed THEN "forbidden"
            ELSE "none"

Begun(bridge, operation, input, permission, held) ==
    [bridge |-> bridge, operation |-> operation, input |-> input, permission |-> permission,
     held |-> held, answer |-> Waiting, taken |-> FALSE]

Answered(call, answer) == [call EXCEPT !.answer = answer]

\* approval-bridge.ts: refuses, or awaits the source or the resolver.
Await(call, contextIsSound) ==
    LET refusal == BridgeRefusal(call.operation, call.input, call.permission, contextIsSound)
    IN IF refusal = "none" THEN call ELSE Answered(call, Final(refusal))

\* What the source or the resolver does with the call, as the fakes do: it appends.
Take(c) ==
    /\ ~Quiet(c)
    /\ ~approvalCalls[c].taken
    /\ approvalCalls' = [approvalCalls EXCEPT ![c].taken = TRUE]
    /\ UNCHANGED <<wired, heldGrants, evaluations>>

\* The boundary rejects its promise, whether or not it took the call, or fulfils it, and its
\* value is not looked at.
Settlements(call) ==
    {Answered(call, TryAgain)}
    \cup (IF call.taken THEN {Answered(call, BridgeAnswer("ok", "unstated", {}))} ELSE {})

SettleAwaited(c) ==
    /\ ~Quiet(c)
    /\ approvalCalls' \in {[approvalCalls EXCEPT ![c] = s] : s \in Settlements(approvalCalls[c])}
    /\ UNCHANGED <<wired, heldGrants, evaluations>>

-----------------------------------------------------------------------------
(* openclaw-approval-bridge.ts                                              *)

PortCodes ==
    {"invalid-input", "not-found", "conflict", "unauthorized", "forbidden", "approval-unavailable",
     "port-unavailable", "approval-rejected", "timeout", "internal", "another"}

MapApprovalPortFailureCode(code) ==
    CASE code \in {"approval-unavailable", "port-unavailable"} -> "dependency-missing"
      [] code \in {"approval-rejected", "timeout", "another"}  -> "dependency-failed"
      [] OTHER                                                 -> code

\* What the port answers: ok with a state, a failure, or something malformed or unsafe.  Refs
\* that are not stated are taken to be the asked ones.
PortResults ==
    [kind : {"ok"}, refMatches : BOOLEAN, status : {"unstated", "approved", "unknown", "no-status"}]
    \cup [kind : {"failure"}, refMatches : BOOLEAN, code : {"conflict", "port-unavailable", "another"},
          retryable : {"unstated", "yes", "no"}]
    \cup [kind : {"unsafe", "neither"}, refMatches : {TRUE}]

PortResultIsSafe(result) == result.kind # "unsafe"

\* normalizeApprovalPortState: the status of the port, which need not be the decision's.
PortState(input, result) ==
    IF result.status # "unstated" THEN result.status
    ELSE IF input.status = "request" THEN "submitted" ELSE input.status

NormalizePortFailure(result) ==
    BridgeAnswer(MapApprovalPortFailureCode(result.code), result.retryable, {})

NormalizeResolvePortResult(input, result) ==
    CASE PortResultIsSafe(result) /\ result.kind = "ok" /\ result.refMatches
         /\ PortState(input, result) \in StateStatuses ->
            BridgeAnswer("ok", "unstated", {PortState(input, result)})
      [] PortResultIsSafe(result) /\ result.kind = "failure" /\ result.refMatches ->
            NormalizePortFailure(result)
      [] OTHER -> TryAgain

\* The port is true to itself: it took what it answers ok, and did not take what it answers
\* it failed.
MayHaveTaken(result) ==
    {t \in BOOLEAN : (result.kind = "ok" => t) /\ (result.kind = "failure" => ~t)}

\* The calls of the port and what the bridge makes of them.
PortCalls(call) ==
    UNION {{[Answered(call, NormalizeResolvePortResult(call.input, result)) EXCEPT !.taken = t] :
               t \in MayHaveTaken(result)} : result \in PortResults}

\* A port that throws is told as one whose result cannot be read.
ThrownCalls(call) == {[Answered(call, TryAgain) EXCEPT !.taken = t] : t \in BOOLEAN}

AskPort(call, contextIsSound) ==
    LET refusal == BridgeRefusal(call.operation, call.input, call.permission, contextIsSound)
    IN IF refusal = "none" THEN PortCalls(call) \cup ThrownCalls(call)
       ELSE {Answered(call, Final(refusal))}

ReadinessReports ==
    {"none", "ready", "degraded", "not-ready", "pass", "warn", "fail", "unknown", "another", "thrown",
     "malformed"}

CheckStatus(reported) ==
    CASE reported \in {"ready", "pass"}     -> "pass"
      [] reported \in {"degraded", "warn"}  -> "warn"
      [] reported \in {"not-ready", "fail"} -> "fail"
      [] OTHER                              -> "unknown"

\* summarizeOpenClawApprovalBridgeReadiness: a port that is asked may throw; one that cannot be
\* asked is taken to be ready.
PortReadiness(reported) ==
    IF ~(HasBoundary("submit") /\ HasBoundary("resolve")) \/ reported \in {"thrown", "malformed"} THEN "fail"
    ELSE IF reported = "none" THEN "pass"
    ELSE CheckStatus(reported)

-----------------------------------------------------------------------------
(* The actions                                                              *)

SubmitRequest(c, input, sound) ==
    LET call(bridge) == Begun(bridge, "submit", input, {}, {})
    IN /\ Quiet(c)
       /\ input.status = "request"
       /\ \/ approvalCalls' = [approvalCalls EXCEPT ![c] = Await(call("adapter"), sound)]
          \/ \E s \in AskPort(call("openclaw"), sound) : approvalCalls' = [approvalCalls EXCEPT ![c] = s]
       /\ UNCHANGED <<wired, heldGrants, evaluations>>

\* A host that resolves with a permission decision that it kept, or with none.
Resolve(c, input, permission, sound) ==
    LET call(bridge) == Begun(bridge, "resolve", input, permission, heldGrants)
    IN /\ Quiet(c)
       /\ input.status # "request"
       /\ \/ approvalCalls' = [approvalCalls EXCEPT ![c] = Await(call("adapter"), sound)]
          \/ \E s \in AskPort(call("openclaw"), sound) : approvalCalls' = [approvalCalls EXCEPT ![c] = s]
       /\ UNCHANGED <<wired, heldGrants, evaluations>>

\* What an evaluator decides of a requirement: the default one by the grants, an injected one
\* as it likes.
Verdicts(evaluator, requirement, context) ==
    IF evaluator = "default" THEN {EvaluatePermission(requirement, context, heldGrants)}
    ELSE [requirement : {requirement}, allowed : BOOLEAN]

\* resolveApprovalBridgeDecisionWithPermission, with the default requirement and evaluator or
\* the host's own.  An evaluator that throws is told as final; one that answers nothing is
\* not looked after, and the promise of the caller rejects.
ResolveWithPermission(c, input, context, own, evaluator) ==
    LET bridge == IF own = {} /\ evaluator = "default" THEN "composed" ELSE "composed-own"
        call(given) == Begun(bridge, "resolve", input, given, heldGrants)
        become(s) == approvalCalls' = [approvalCalls EXCEPT ![c] = s]
        end(answer) == become(Answered(call({}), answer))
    IN /\ Quiet(c)
       /\ input.status # "request"
       /\ \/ ~InputAccepted(input) /\ end(Final("invalid-input"))
          \/ InputAccepted(input) /\ evaluator = "no-function" /\ end(Final("dependency-missing"))
          \/ /\ InputAccepted(input) /\ evaluator # "no-function"
             /\ \/ end(BridgeAnswer("dependency-failed", "no", {}))
                \/ evaluator = "injected" /\ end(Final("rejected"))
                \/ \E r \in IF own = {} THEN {DefaultRequirement(input, context)} ELSE own :
                   \E verdict \in Verdicts(evaluator, r, context) :
                      \/ ~verdict.allowed /\ become(Answered(call({verdict}), Final("forbidden")))
                      \/ verdict.allowed /\ \E sound \in BOOLEAN : become(Await(call({verdict}), sound))
       /\ UNCHANGED <<wired, heldGrants, evaluations>>

AskReadiness(c, reported) ==
    /\ Quiet(c)
    /\ approvalCalls' = [approvalCalls EXCEPT ![c] =
          [operation |-> "readiness", answer |-> Final(PortReadiness(reported)), taken |-> FALSE]]
    /\ UNCHANGED <<wired, heldGrants, evaluations>>

ApprovalNext ==
    \/ \E g \in PermissionGrants : ChangeGrants(g)
    \/ \E input \in BridgeInputs, context \in EvaluationContexts : Evaluate(input, context)
    \/ \E c \in BridgeCallers, input \in BridgeInputs, sound \in BOOLEAN :
          \/ SubmitRequest(c, input, sound)
          \/ \E permission \in {{}} \cup {{p} : p \in evaluations} : Resolve(c, input, permission, sound)
    \/ \E c \in BridgeCallers, input \in BridgeInputs, choice \in ComposedChoices :
          ResolveWithPermission(c, input, choice.context, choice.own, choice.evaluator)
    \/ \E c \in BridgeCallers : Take(c) \/ SettleAwaited(c)
    \/ \E c \in BridgeCallers, reported \in ReadinessReports : AskReadiness(c, reported)

ApprovalSpec == ApprovalInit /\ [][ApprovalNext]_approvalVars

-----------------------------------------------------------------------------
(* Properties                                                               *)

\* A resolution reaches the resolver only with an allowed permission decision; the composed
\* one, unless the host put a requirement or an evaluator of its own, only while the host held
\* a grant to resolve this very approval.  The bridges alone take a decision about any approval.
\* approval-bridge.ts 766-797, approval-composition.ts 176-215.
ResolutionsWereGranted ==
    \A c \in BridgeCallers : LET call == approvalCalls[c] IN
        call.taken /\ call.operation = "resolve" =>
            /\ \E p \in call.permission : p.allowed
            /\ call.bridge = "composed" =>
                  \E grant \in call.held :
                      /\ grant.action = "resolve-approval" /\ grant.kind = "approval"
                      /\ "resourceRef" \in DOMAIN grant.scope =>
                             grant.scope.resourceRef = call.input.approvalRef

\* A caller that is told ok was served, one that is told of a failure that it may not retry
\* was not, and a port that says it is ready is not missing.  approval-bridge.ts 713-728,
\* openclaw-approval-bridge.ts 636-661, 723-745, 806-858.
ApprovalAnswersAreTrue ==
    \A c \in BridgeCallers : LET call == approvalCalls[c] IN
        /\ call.answer.code = "ok" => call.taken
        /\ call.taken => call.answer.code \in {"ok", "waiting"} \/ call.answer.retryable = "yes"
        /\ call.operation = "readiness" /\ call.answer.code = "pass" =>
               {"submit", "resolve"} \subseteq wired

\* An approval is resolved by whom it may be, and whoever asked is told what became of it.
ApprovalsAreTrue == ResolutionsWereGranted /\ ApprovalAnswersAreTrue
=============================================================================
