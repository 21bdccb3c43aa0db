----------------------------- MODULE OcaApprovals -----------------------------
(***************************************************************************)
(* The OCA approval runtime, approval-runtime.ts, over the operation        *)
(* handlers, operation-handlers.ts, their policies, capability-descriptor   *)
(* .ts, and the fake client, fake-client.ts.                                *)
(*                                                                          *)
(* A host calls the runtime with a request; what needs an approval is       *)
(* answered with a requirement, an operator grants a decision for it, and   *)
(* the host calls again with that decision, when it likes and as often as   *)
(* it likes.  The runtime keeps nothing between two calls.  The refs of a   *)
(* request are the record of those it carries; a requirement ref holds a    *)
(* checksum of them, which two records may share.  An operator marked       *)
(* "Faulty" is a variant with a bug, used by no specification.              *)
(***************************************************************************)
EXTENDS Naturals, FiniteSetsExt

CONSTANTS
    OcaRequests,        \* bound: the requests that a host makes
    Checksum(_),        \* checksumSafe over the fingerprint of a request, modulo 65521
    MaxRuns             \* bound: calls of the client

-----------------------------------------------------------------------------
(* capability-descriptor.ts, and the policies operation-handlers.ts makes   *)

ReadOnlyOperations ==
    {"get-status", "get-output", "list", "diff-get", "branch-summarize", "logs-summarize"}
ExternalOperations ==
    {"start-session", "continue-session", "send-input", "cancel", "archive", "review-request"}
Operations == ReadOnlyOperations \cup ExternalOperations \cup {"review-submit"}

Effect(operation) ==
    CASE operation \in ReadOnlyOperations -> "read-only"
      [] operation = "review-submit"      -> "repository-mutation"
      [] OTHER                            -> "external-effect"

RequiredRefs(operation) ==
    CASE operation = "start-session" -> {"taskRef"}
      [] operation = "list"          -> {}
      [] operation = "get-output"    -> {"sessionRef", "outputRef"}
      [] operation = "diff-get"      -> {"sessionRef", "diffRef"}
      [] operation = "review-submit" -> {"sessionRef", "reviewRef"}
      [] OTHER                       -> {"sessionRef"}

-----------------------------------------------------------------------------
(* Requests and decisions                                                   *)

\* refs: the refs a request carries; its requestRef and idempotencyRef may be absent; flaw is
\* the part that a validator refuses, "none" if there is none; marker says that the
\* request carries an "approved" field.
Fields == {"sessionRef", "taskRef", "worktreeRef", "branchRef", "outputRef", "logRef",
           "diffRef", "artifactRef", "reviewRef"}
Flaws  == {"none", "envelope", "key", "operation-input"}

ASSUME OcaApprovalsAssumption ==
    /\ MaxRuns \in Nat
    /\ \A r \in OcaRequests :
          /\ r.operation \in Operations \cup {"unknown"} /\ DOMAIN r.refs \subseteq Fields
          /\ r.flaw \in Flaws /\ r.fails \in BOOLEAN /\ r.marker \in BOOLEAN

\* The decision that grants a requirement: what it must repeat of the request.
Requirement(r) ==
    [operation |-> r.operation, effect |-> Effect(r.operation),
     requirementRef |-> <<r.operation, Checksum(r)>>,
     idempotencyRef |-> r.idempotencyRef, requestRef |-> r.requestRef]

Decisions  == {Requirement(r) : r \in OcaRequests}
NoDecision == [kind |-> "none"]
Malformed  == [kind |-> "malformed"]

-----------------------------------------------------------------------------
VARIABLES
    requirements,       \* the requests whose requirement the host was given
    granted,            \* the decisions the operator has granted
    runs,               \* how often the client was called with each request
    ocaAnswer           \* the last answer: its status, and whether it says "called"

ocaApprovalVars == <<requirements, granted, runs, ocaAnswer>>

OcaApprovalsInit ==
    /\ requirements = {}
    /\ granted = {}
    /\ runs = [r \in OcaRequests |-> 0]
    /\ ocaAnswer = [status |-> "none", called |-> FALSE]

\* normalizeRuntimeToolRequest: the envelope, the operation and the two keys.
RequestAccepted(r) == r.operation \in Operations /\ r.flaw \notin {"envelope", "key"}

\* normalizeOcaOperationHandlerRequest: each field it knows, then the refs required.
OperationAccepted(r) ==
    r.flaw # "operation-input" /\ RequiredRefs(r.operation) \subseteq DOMAIN r.refs

\* Faulty: the requirement that was decided on is not compared.
AcceptsForeign(r, decision) ==
    \E foreign \in Decisions :
        /\ decision = foreign
        /\ foreign = [Requirement(r) EXCEPT !.requirementRef = foreign.requirementRef]

\* normalizeApprovalDecision; a decision that is malformed is none of Decisions.
AcceptsDecision(r, decision) == decision = Requirement(r)

\* What stands before the client is called; "none" lets the call through.
Refusal(r, decision) ==
    CASE ~RequestAccepted(r) -> "invalid-operation"
      [] RequestAccepted(r) /\ r.marker -> "invalid-approval"
      [] RequestAccepted(r) /\ ~r.marker /\ Effect(r.operation) = "read-only" ->
            IF decision # NoDecision THEN "invalid-approval"
            ELSE IF OperationAccepted(r) THEN "none" ELSE "invalid-operation"
      [] OTHER ->
            IF ~OperationAccepted(r) THEN "invalid-operation"
            ELSE IF decision = NoDecision THEN "approval-required"
            ELSE IF AcceptsDecision(r, decision) THEN "none" ELSE "invalid-approval"

Refuse(r, decision) ==
    /\ Refusal(r, decision) # "none"
    /\ ocaAnswer' = [status |-> Refusal(r, decision), called |-> FALSE]
    /\ requirements' = IF Refusal(r, decision) = "approval-required"
                       THEN requirements \cup {r} ELSE requirements
    /\ UNCHANGED <<granted, runs>>

TotalRuns == MapThenSumSet(LAMBDA r : runs[r], OcaRequests)

\* createFakeOcaClient: what the client answers, and the status handleOcaOperation and the
\* runtime make of it.
ClientStatus(r) == IF r.fails THEN "fake-failed" ELSE "executed"

\* A client given by the host may answer what safeResult takes for unsafe, which is then
\* told as not called.
SafeAnswers(r) ==
    {[status |-> ClientStatus(r), called |-> TRUE],
     [status |-> "invalid-operation", called |-> FALSE]}

\* The client is called; one that throws reaches the host.
Execute(r, decision) ==
    /\ Refusal(r, decision) = "none"
    /\ TotalRuns < MaxRuns
    /\ runs' = [runs EXCEPT ![r] = @ + 1]
    /\ ocaAnswer' \in SafeAnswers(r) \cup {[status |-> "thrown", called |-> FALSE]}
    /\ UNCHANGED <<requirements, granted>>

\* The operator grants a requirement that the host was given.
Grant(r) ==
    /\ r \in requirements
    /\ Requirement(r) \notin granted
    /\ granted' = granted \cup {Requirement(r)}
    /\ UNCHANGED <<requirements, runs, ocaAnswer>>

\* A decision that comes with a request is one that was granted, for whichever request,
\* or is malformed.
OcaApprovalsNext ==
    \/ \E r \in OcaRequests, decision \in granted \cup {NoDecision, Malformed} :
          Refuse(r, decision) \/ Execute(r, decision)
    \/ \E r \in OcaRequests : Grant(r)

OcaApprovalsSpec == OcaApprovalsInit /\ [][OcaApprovalsNext]_ocaApprovalVars

-----------------------------------------------------------------------------
(* Properties                                                               *)

\* An operation with an effect only ran for a request whose like an operator was shown
\* and granted: the same operation under the same keys, with refs of the same checksum.
\* A request that differs in its summary alone runs on the same decision.
\* approval-runtime.ts 178-195, 294-335.
EffectsWereGranted ==
    \A r \in OcaRequests : runs[r] > 0 /\ Effect(r.operation) # "read-only" =>
        \E q \in requirements :
            /\ Requirement(q) \in granted
            /\ q.operation = r.operation
            /\ q.idempotencyRef = r.idempotencyRef /\ q.requestRef = r.requestRef
            /\ Checksum(q) = Checksum(r)
=============================================================================
