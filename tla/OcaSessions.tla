----------------------------- MODULE OcaSessions -----------------------------
(***************************************************************************)
(* The in-memory session store of the OCA wrapper, session-store.ts, over   *)
(* the session model, session-model.ts, and the two cards presentation.ts   *)
(* makes of what the store lists.                                           *)
(*                                                                          *)
(* The store is synchronous: one action is one call.  A session input is    *)
(* its refs, its lifecycle state, the status it claims and one token for    *)
(* the rest of its fields; a field that the validators refuse is a flaw.    *)
(* An operator marked "Faulty" is a variant with a bug, used by no          *)
(* specification.                                                           *)
(***************************************************************************)
EXTENDS Naturals, Sequences

CONSTANTS
    SessionRefs,
    SessionKeys,        \* idempotency refs
    SessionDetails,     \* what two create inputs may differ in
    CreateInputs,       \* bound: the sessions given to create
    MaxListLimit,
    UnshownDetails,     \* details with a text that the cards refuse and the store does not
    PanelSize           \* MAX_PANEL_SESSIONS

ASSUME OcaSessionsAssumption ==
    MaxListLimit \in Nat \ {0} /\ PanelSize \in Nat /\ UnshownDetails \subseteq SessionDetails

-----------------------------------------------------------------------------
(* session-model.ts                                                         *)

TerminalStates == {"completed", "failed", "cancelled", "expired", "archived"}
LifecycleStates ==
    {"planned", "requested", "approval-required", "starting", "active", "waiting-for-input",
     "waiting-for-approval", "producing-output"} \cup TerminalStates
DerivedStatuses == {"healthy", "degraded", "blocked", "stale", "terminal"}
StatusFlags == SUBSET {"blocked", "stale", "degraded"}

\* Where a session may go from a state, the archive of a terminal one left out.
LifecycleTransitions ==
    ({"planned"} \X {"requested", "cancelled", "expired"})
    \cup ({"requested"} \X {"approval-required", "starting", "cancelled", "expired"})
    \cup ({"approval-required"} \X {"starting", "waiting-for-approval", "cancelled", "expired"})
    \cup ({"starting"} \X {"active", "failed", "cancelled", "expired"})
    \cup ({"active"} \X {"waiting-for-input", "waiting-for-approval", "producing-output",
                         "completed", "failed", "cancelled", "expired"})
    \cup ({"waiting-for-input"} \X {"active", "waiting-for-approval", "producing-output",
                                    "failed", "cancelled", "expired"})
    \cup ({"waiting-for-approval"} \X {"active", "producing-output", "failed", "cancelled",
                                       "expired"})
    \cup ({"producing-output"} \X {"active", "waiting-for-input", "completed", "failed",
                                   "cancelled", "expired"})

\* Faulty: a terminal session may be archived and may be taken up again.
CanReopen(from, to) ==
    \/ from \in TerminalStates /\ to \in {"archived", "active"} /\ from # to
    \/ <<from, to>> \in LifecycleTransitions

CanTransition(from, to) ==
    \/ to = "archived" /\ from \in TerminalStates \ {"archived"}
    \/ <<from, to>> \in LifecycleTransitions

DeriveStatus(state, flags) ==
    CASE state \in TerminalStates -> "terminal"
      [] state \in {"approval-required", "waiting-for-approval"}
           \/ "blocked" \in flags -> "blocked"
      [] "stale" \in flags        -> "stale"
      [] "degraded" \in flags     -> "degraded"
      [] state = "waiting-for-input" -> "blocked"
      [] OTHER                    -> "healthy"

\* normalizeOcaSessionModel, by the fields it reads.
RefsAreSafe(input)   == "refs" \notin input.flaws
ListsAreSafe(input)  == "lists" \notin input.flaws
TextsAreSafe(input)  == "texts" \notin input.flaws
IssuesAreSafe(input) == "issues" \notin input.flaws

\* The status an input claims must be the one its state implies with no flag set.
StatusIsDerived(input) ==
    input.derivedStatus \in {"unstated", DeriveStatus(input.lifecycleState, {})}

Normalizes(input) ==
    /\ RefsAreSafe(input) /\ ListsAreSafe(input) /\ TextsAreSafe(input) /\ IssuesAreSafe(input)
    /\ StatusIsDerived(input)

Normalized(input) ==
    [sessionRef |-> input.sessionRef, idempotencyRef |-> input.idempotencyRef,
     detail |-> input.detail, lifecycleState |-> input.lifecycleState,
     derivedStatus |-> IF input.derivedStatus = "unstated"
                       THEN DeriveStatus(input.lifecycleState, {}) ELSE input.derivedStatus]

\* A normalized session is itself an input.
AsInput(session) ==
    [sessionRef |-> session.sessionRef, idempotencyRef |-> session.idempotencyRef,
     detail |-> session.detail, lifecycleState |-> session.lifecycleState,
     derivedStatus |-> session.derivedStatus, flaws |-> {}]

Sessions == [sessionRef : SessionRefs, idempotencyRef : SessionKeys, detail : SessionDetails,
             lifecycleState : LifecycleStates, derivedStatus : DerivedStatuses]

SessionInputs ==
    [sessionRef : SessionRefs, idempotencyRef : SessionKeys, detail : SessionDetails,
     lifecycleState : LifecycleStates, derivedStatus : DerivedStatuses \cup {"unstated"},
     flaws : SUBSET {"refs", "lists", "texts", "issues"}]

ASSUME CreateInputsAssumption == CreateInputs \subseteq SessionInputs

-----------------------------------------------------------------------------
(* session-store.ts                                                         *)

VARIABLES
    sessionsByRef,      \* the stored session of each session ref that has one
    sessionsByKey,      \* each used idempotency ref: its session ref, the created input
    sessionOrder,       \* the session refs in the order they were created (Map order)
    sessionAnswer       \* the last answer: its status, the sessions it returns

ocaSessionVars == <<sessionsByRef, sessionsByKey, sessionOrder, sessionAnswer>>

CreateErrors == {"invalid-session", "invalid-idempotency-ref", "idempotency-conflict",
                 "not-found", "session-conflict"}
StoreErrors  == CreateErrors \cup {"invalid-request", "invalid-transition"}
AnswerStatuses == StoreErrors \cup
    {"none", "created", "idempotent-replay", "found", "resumed", "listed", "updated",
     "panel", "unsafe-json", "invalid-field"}

Put(map, key, value) ==
    [k \in DOMAIN map \cup {key} |-> IF k = key THEN value ELSE map[k]]

Answer(status, sessions) == sessionAnswer' = [status |-> status, sessions |-> sessions]

OcaSessionsInit ==
    /\ sessionsByRef = <<>>
    /\ sessionsByKey = <<>>
    /\ sessionOrder = <<>>
    /\ sessionAnswer = [status |-> "none", sessions |-> <<>>]

\* The refusals of create that come before a stored record is looked at.
CreateInputError(key, input) ==
    CASE ~Normalizes(input)           -> "invalid-session"
      [] input.idempotencyRef # key   -> "invalid-idempotency-ref"
      [] OTHER                        -> "none"

CreateRejected(key, input) ==
    /\ CreateInputError(key, input) # "none"
    /\ Answer(CreateInputError(key, input), <<>>)
    /\ UNCHANGED <<sessionsByRef, sessionsByKey, sessionOrder>>

\* The idempotency ref was used: by another input, or by this one, whose session as it is
\* now is the answer.
ReplayAnswer(record, input) ==
    CASE record.input # Normalized(input) ->
            [status |-> "idempotency-conflict", sessions |-> <<>>]
      [] record.sessionRef \notin DOMAIN sessionsByRef ->
            [status |-> "not-found", sessions |-> <<>>]
      [] OTHER ->
            [status |-> "idempotent-replay", sessions |-> <<sessionsByRef[record.sessionRef]>>]

CreateReplayed(key, input) ==
    /\ CreateInputError(key, input) = "none"
    /\ key \in DOMAIN sessionsByKey
    /\ sessionAnswer' = ReplayAnswer(sessionsByKey[key], input)
    /\ UNCHANGED <<sessionsByRef, sessionsByKey, sessionOrder>>

StoreSession(key, input) ==
    /\ sessionsByRef' = Put(sessionsByRef, input.sessionRef, Normalized(input))
    /\ sessionsByKey' = Put(sessionsByKey, key, [sessionRef |-> input.sessionRef,
                                                 input |-> Normalized(input)])
    /\ Answer("created", <<Normalized(input)>>)

\* Faulty: a session ref that another request created is taken over.
CreateOver(key, input) ==
    /\ CreateInputError(key, input) = "none"
    /\ key \notin DOMAIN sessionsByKey
    /\ StoreSession(key, input)
    /\ sessionOrder' = IF input.sessionRef \in DOMAIN sessionsByRef THEN sessionOrder
                       ELSE Append(sessionOrder, input.sessionRef)

CreateFresh(key, input) ==
    /\ CreateInputError(key, input) = "none"
    /\ key \notin DOMAIN sessionsByKey
    /\ \/ /\ input.sessionRef \in DOMAIN sessionsByRef
          /\ Answer("session-conflict", <<>>)
          /\ UNCHANGED <<sessionsByRef, sessionsByKey, sessionOrder>>
       \/ /\ input.sessionRef \notin DOMAIN sessionsByRef
          /\ StoreSession(key, input)
          /\ sessionOrder' = Append(sessionOrder, input.sessionRef)

\* Input that is no record, or an idempotency ref that is not safe.
RefuseRequest ==
    /\ \E status \in {"invalid-request", "invalid-idempotency-ref"} : Answer(status, <<>>)
    /\ UNCHANGED <<sessionsByRef, sessionsByKey, sessionOrder>>

\* get and resume read alike; an unsafe ref is not found either.
ReadExistingSession(ref) ==
    /\ \/ ref \notin DOMAIN sessionsByRef /\ Answer("not-found", <<>>)
       \/ /\ ref \in DOMAIN sessionsByRef
          /\ \E status \in {"found", "resumed"} : Answer(status, <<sessionsByRef[ref]>>)
    /\ UNCHANGED <<sessionsByRef, sessionsByKey, sessionOrder>>

Listed(limit) ==
    [i \in 1..(IF limit < Len(sessionOrder) THEN limit ELSE Len(sessionOrder)) |->
        sessionsByRef[sessionOrder[i]]]

ListSessions(limit) ==
    /\ Answer("listed", Listed(limit))
    /\ UNCHANGED <<sessionsByRef, sessionsByKey, sessionOrder>>

\* withTransition: the session under its new state, with the status the flags derive.
TransitionCandidate(session, to, flags) ==
    [AsInput(session) EXCEPT !.lifecycleState = to, !.derivedStatus = DeriveStatus(to, flags)]

TransitionError(ref, to, flags) ==
    CASE ref \notin DOMAIN sessionsByRef -> "not-found"
      [] ~CanTransition(sessionsByRef[ref].lifecycleState, to) -> "invalid-transition"
      [] ~Normalizes(TransitionCandidate(sessionsByRef[ref], to, flags)) -> "invalid-session"
      [] OTHER -> "none"

TransitionRefused(ref, to, flags) ==
    /\ TransitionError(ref, to, flags) # "none"
    /\ Answer(TransitionError(ref, to, flags), <<>>)
    /\ UNCHANGED <<sessionsByRef, sessionsByKey, sessionOrder>>

\* The time stamp given with a transition must be well formed, whatever the one before.
TransitionStamped(ref, to, flags) ==
    /\ TransitionError(ref, to, flags) = "none"
    /\ LET moved == Normalized(TransitionCandidate(sessionsByRef[ref], to, flags)) IN
       \/ /\ sessionsByRef' = [sessionsByRef EXCEPT ![ref] = moved]
          /\ Answer("updated", <<moved>>)
       \/ UNCHANGED sessionsByRef /\ Answer("invalid-session", <<>>)
    /\ UNCHANGED <<sessionsByKey, sessionOrder>>

-----------------------------------------------------------------------------
(* presentation.ts                                                          *)

\* buildOcaSessionStatusCard normalizes the session it shows; its own list of unsafe texts
\* is longer than the one of the session model.
CardError(session) ==
    CASE ~Normalizes(AsInput(session))   -> "invalid-field"
      [] session.detail \in UnshownDetails -> "unsafe-json"
      [] OTHER                             -> "none"

StatusCard(session) ==
    [sessionRef |-> session.sessionRef, lifecycleState |-> session.lifecycleState,
     derivedStatus |-> session.derivedStatus]

\* buildOcaActiveSessionsPanel of the sessions last listed.
ShowPanel ==
    LET sessions == sessionAnswer.sessions
        visible  == SubSeq(sessions, 1, IF Len(sessions) < PanelSize
                                        THEN Len(sessions) ELSE PanelSize)
    IN
    /\ sessionAnswer.status = "listed"
    /\ \/ /\ \A i \in DOMAIN visible : CardError(visible[i]) = "none"
          /\ Answer("panel", [i \in DOMAIN visible |-> StatusCard(visible[i])])
       \/ \E i \in DOMAIN visible :
             /\ CardError(visible[i]) # "none"
             /\ \A j \in 1..(i - 1) : CardError(visible[j]) = "none"
             /\ Answer(CardError(visible[i]), <<>>)
    /\ UNCHANGED <<sessionsByRef, sessionsByKey, sessionOrder>>

OcaSessionsNext ==
    \/ \E key \in SessionKeys, input \in CreateInputs :
          CreateRejected(key, input) \/ CreateReplayed(key, input) \/ CreateFresh(key, input)
    \/ RefuseRequest
    \/ \E ref \in SessionRefs : ReadExistingSession(ref)
    \/ \E limit \in 1..MaxListLimit : ListSessions(limit)
    \/ \E ref \in SessionRefs, to \in LifecycleStates, flags \in StatusFlags :
          TransitionRefused(ref, to, flags) \/ TransitionStamped(ref, to, flags)
    \/ ShowPanel

OcaSessionsSpec == OcaSessionsInit /\ [][OcaSessionsNext]_ocaSessionVars

-----------------------------------------------------------------------------
(* Properties                                                               *)

\* The two maps of the store agree through every create, replay and transition: a used
\* idempotency ref leads to a stored session that carries it, and a stored session is
\* led to by the idempotency ref it carries.  Lines 143-168, 225-236.
KeysAndSessionsAgree ==
    /\ \A key \in DOMAIN sessionsByKey :
          /\ sessionsByKey[key].sessionRef \in DOMAIN sessionsByRef
          /\ sessionsByRef[sessionsByKey[key].sessionRef].idempotencyRef = key
    /\ \A ref \in DOMAIN sessionsByRef :
          /\ sessionsByRef[ref].idempotencyRef \in DOMAIN sessionsByKey
          /\ sessionsByKey[sessionsByRef[ref].idempotencyRef].sessionRef = ref

\* Whatever flags came with its transitions, a stored session has a status card, unless
\* its own text has none: one card that is refused leaves the whole panel unshown.
\* session-store.ts 225-236, presentation.ts 223-262.
StoredSessionsAreShown ==
    \A ref \in DOMAIN sessionsByRef :
        sessionsByRef[ref].detail \notin UnshownDetails
            => CardError(sessionsByRef[ref]) = "none"

\* What the store keeps is found under its keys and can be shown.
SessionsAreSound == KeysAndSessionsAgree /\ StoredSessionsAreShown

\* A session that ended can only be archived, by no sequence of creates, replays and
\* transitions is it taken up again, and none is removed.  canTransitionOcaSessionLifecycle.
EndedSessionsStayEnded ==
    [][\A ref \in DOMAIN sessionsByRef :
         /\ ref \in DOMAIN sessionsByRef'
         /\ \/ sessionsByRef[ref].lifecycleState \notin TerminalStates
            \/ sessionsByRef'[ref].lifecycleState
                 \in {sessionsByRef[ref].lifecycleState, "archived"}]_ocaSessionVars
=============================================================================
