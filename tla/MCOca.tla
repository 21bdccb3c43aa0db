-------------------------------- MODULE MCOca --------------------------------
EXTENDS OcaSessions, OcaApprovals, ApprovalBridges, TLC
VARIABLE part       \* which of the three modules a behaviour is about

Interchangeable ==
    Permutations(SessionRefs) \cup Permutations(SessionKeys)

\* Inputs that are sound, that have one flaw, or that claim a status they do not have.
MCCreateInputs ==
    LET planned(details, statuses, flaws) ==
            [sessionRef : SessionRefs, idempotencyRef : SessionKeys, detail : details,
             lifecycleState : {"planned"}, derivedStatus : statuses, flaws : flaws]
    IN planned(SessionDetails, {"unstated", "stale"}, {{}})
       \cup planned(SessionDetails \ UnshownDetails, {"healthy"}, {{"refs"}, {"lists"}, {"texts"}, {"issues"}})

Request(operation, refs, key) ==
    [operation |-> operation, refs |-> refs, idempotencyRef |-> key, requestRef |-> "absent",
     inputSummary |-> 1, flaw |-> "none", fails |-> FALSE, marker |-> FALSE]
Session(s) == [sessionRef |-> s]

\* Two cancels of sessions whose refs have one checksum, one of another checksum, one under
\* another key, one with another summary; a review; reads; and requests with a flaw.
MCRequests ==
    LET cancel == Request("cancel", Session(1), "key1")
        read   == Request("get-status", Session(1), "absent")
    IN {cancel, [Request("cancel", Session(2), "key1") EXCEPT !.fails = TRUE],
        Request("cancel", Session(3), "key1"), Request("cancel", Session(1), "key2"), [cancel EXCEPT !.inputSummary = 2],
        [cancel EXCEPT !.marker = TRUE], [cancel EXCEPT !.flaw = "operation-input"],
        [cancel EXCEPT !.flaw = "key"],
        Request("start-session", Session(1), "key1"), Request("unknown", Session(1), "absent"),
        Request("review-submit", [sessionRef |-> 1, reviewRef |-> 1], "key1"),
        read, [read EXCEPT !.operation = "get-output"]}

MCChecksum(r) ==
    IF "sessionRef" \in DOMAIN r.refs /\ r.refs.sessionRef = 2 THEN 1
    ELSE IF "sessionRef" \in DOMAIN r.refs THEN r.refs.sessionRef ELSE 0

\* A request, decisions on two approvals, one that names its actor, and one that is unsafe.
MCBridgeInputs ==
    LET decision(a) == [approvalRef |-> a, status |-> "approved", actor |-> <<>>, flaws |-> {}]
    IN {[decision("a1") EXCEPT !.status = "request"], decision("a1"), decision("a2"),
        [decision("a1") EXCEPT !.status = "rejected", !.actor = "actorRef" :> "u2"],
        [decision("a1") EXCEPT !.flaws = {"ref"}]}

\* A topic that is about another approval, a paused one, and a stranger.
MCSoundContext ==
    [trusted |-> TRUE, actor |-> "actorRef" :> "u1", topic |-> "resourceRef" :> "a2",
     topicTrusted |-> TRUE, topicActive |-> TRUE, tokenConsumed |-> FALSE,
     scope |-> ("workspaceRef" :> "w1") @@ ("agentRef" :> "g1")]
MCEvaluationContexts ==
    {MCSoundContext, [MCSoundContext EXCEPT !.topicActive = FALSE], [MCSoundContext EXCEPT !.trusted = FALSE]}

\* A grant for one approval and one for one actor.
MCPermissionGrants ==
    {[action |-> "resolve-approval", kind |-> "approval", scope |-> "resourceRef" :> "a2"],
     [action |-> "resolve-approval", kind |-> "approval", scope |-> "actorRef" :> "u2"]}

\* The default evaluator looks at the context; what is put in its place does as it likes in any.
MCComposedChoices ==
    [context : MCEvaluationContexts, evaluator : {"default"},
     own : {{}, {[action |-> "resolve-approval", kind |-> "approval", scope |-> "resourceRef" :> "a2"]}}]
    \cup [context : {MCSoundContext}, evaluator : Evaluators \ {"default"}, own : {{}}]

MCInit ==
    /\ part \in {"sessions", "approvals", "bridges"}
    /\ OcaSessionsInit /\ OcaApprovalsInit /\ ApprovalInit
    /\ part # "bridges" => wired = {}
MCNext ==
    /\ \/ part = "sessions" /\ OcaSessionsNext /\ UNCHANGED <<ocaApprovalVars, approvalVars>>
       \/ part = "approvals" /\ OcaApprovalsNext /\ UNCHANGED <<ocaSessionVars, approvalVars>>
       \/ part = "bridges" /\ ApprovalNext /\ UNCHANGED <<ocaSessionVars, ocaApprovalVars>>
    /\ UNCHANGED part
MCSpec == MCInit /\ [][MCNext]_<<ocaSessionVars, ocaApprovalVars, approvalVars, part>>
=============================================================================
