------------------------ MODULE CallbackPipelineProofs ------------------------
(***************************************************************************)
(* Proofs about the ways that lead into the core. CallbackPipeline, for any *)
(* number of tokens, callbacks in flight and rejected boundary calls:       *)
(* types, and that an authorization of a token stands. HostCommands, for    *)
(* any events, sets of descriptors and dispatches, and any answers of the   *)
(* core and the runtime: no command is done twice, and what is told of it   *)
(* is true. InboundRoutes, for any updates, envelopes, bindings and         *)
(* commands: what the provider gives up is kept, the two routers send       *)
(* alike, and what comes again is acted on once.                            *)
(***************************************************************************)
EXTENDS CallbackPipeline, HostCommands, InboundRoutes, FiniteSetTheorems, SequenceTheorems, TLAPS

-----------------------------------------------------------------------------
(* The callback pipeline                                                    *)

Waiting  == {"verify", "consumeGet", "consumePut"}
Told     == {"authorized-token-consumed", "duplicate-callback"}

\* A callback past its permission, or told of a consumption, has a token.
SoundCallback(x) == x.pc \in Waiting \/ x.decision \in Told => x.token \in Tokens

\* Two callbacks in flight on a token make it an overlapped one.
Apart == \A a, b \in Callers :
            /\ a # b /\ ~At(a, "idle") /\ ~At(b, "idle")
            /\ call[a].token = call[b].token
            => call[a].token \in overlapped \cup {None}

\* A callback about to consume a token is the first that it authorizes.
PutIsFirst == \A c \in Callers :
                 At(c, "consumePut") => call[c].token \in overlapped \/ authorized[call[c].token] = 0

\* The inductive invariant.
IInv ==
    /\ TypeOK /\ AuthorizationStands
    /\ \A c \in Callers : SoundCallback(call[c])
    /\ Apart /\ PutIsFirst

-----------------------------------------------------------------------------
\* What a step may do to the tokens: a consumed one stays consumed, and only the
\* caller of a put authorizes one.
Stands ==
    /\ token' \in [Tokens -> Statuses \cup {None}]
    /\ \A t \in Tokens : token[t] = "consumed" => token'[t] = "consumed"

\* What becomes of a callback: it waits for a token it has, or it was decided.
Becomes(c, x) ==
    /\ x \in Callbacks
    /\ SoundCallback(x)
    /\ x.decision = "duplicate-callback" => token[x.token] = "consumed"
    /\ x.pc # "idle" => /\ call[c].pc # "idle" /\ x.token = call[c].token
                        /\ x.pc = "consumePut" => token[x.token] \in Open
    /\ call' = [call EXCEPT ![c] = x]

LEMMA EndedSound ==
    ASSUME NEW t \in Tokens \cup {None}, NEW d \in Decisions, d \in Told => t \in Tokens
    PROVE  Ended(t, d) \in Callbacks /\ SoundCallback(Ended(t, d))
  BY DEF Ended, Callbacks, SoundCallback, Waiting

LEMMA GotoBecomes ==
    ASSUME IInv, NEW c \in Callers, call[c].pc # "idle", call[c].token \in Tokens,
           NEW p \in Waiting, Goto(c, p), p = "consumePut" => token[call[c].token] \in Open
    PROVE  UNCHANGED overlapped /\ Becomes(c, [call[c] EXCEPT !.pc = p])
<1> DEFINE x == [call[c] EXCEPT !.pc = p]
<1>1. call[c] \in Callbacks /\ SoundCallback(call[c])
  BY DEF IInv, TypeOK
<1>2. x \in Callbacks /\ x.pc = p /\ x.token = call[c].token /\ x.decision = call[c].decision
  BY <1>1 DEF Callbacks, Waiting
<1>3. x.decision = "duplicate-callback" => token[x.token] = "consumed"
  BY <1>2 DEF IInv, AuthorizationStands, AuthorizedIsConsumed
<1> QED
  BY <1>2, <1>3 DEF Becomes, SoundCallback, Goto

LEMMA DecideBecomes ==
    ASSUME IInv, NEW c \in Callers, NEW d \in Decisions, Decide(c, d),
           d \in Told => call[c].token \in Tokens,
           d = "duplicate-callback" => token[call[c].token] = "consumed"
    PROVE  UNCHANGED overlapped /\ \E t \in Tokens \cup {None} : Becomes(c, Ended(t, d))
<1> DEFINE t == IF d \in Told THEN call[c].token ELSE None
<1>1. t \in Tokens \cup {None} /\ (d \in Told => t \in Tokens)
  OBVIOUS
<1>2. Ended(t, d) \in Callbacks /\ SoundCallback(Ended(t, d))
  BY <1>1, EndedSound
<1>3. Becomes(c, Ended(t, d))
  BY <1>2 DEF Becomes, Ended, Decide, Told
<1> QED
  BY <1>1, <1>3 DEF Decide

\* A step of one callback, the tokens standing, keeps the invariant: it authorizes
\* none, or the one that the callback was about to consume.
LEMMA MoveKeeps ==
    ASSUME IInv, NEW c \in Callers, NEW x, Becomes(c, x), Stands, UNCHANGED overlapped,
           failures' \in Nat,
           \/ UNCHANGED authorized
           \/ /\ At(c, "consumePut") /\ x.pc = "idle"
              /\ Authorize(c) /\ token'[call[c].token] = "consumed"
    PROVE  IInv'
<1>1. /\ call \in [Callers -> Callbacks] /\ authorized \in [Tokens -> 0..2]
      /\ At(c, "consumePut") => call[c].token \in Tokens
      /\ call'[c] = x /\ \A b \in Callers \ {c} : call'[b] = call[b]
  BY DEF IInv, TypeOK, SoundCallback, Waiting, At, Becomes
<1>2. TypeOK'
  BY <1>1 DEF IInv, TypeOK, Stands, Becomes, Authorize
<1>3. \A b \in Callers : SoundCallback(call[b])'
  BY <1>1 DEF IInv, SoundCallback, Becomes
<1>4. AuthorizedIsConsumed'
  <2>1. ASSUME NEW t \in Tokens, authorized'[t] > 0 PROVE token'[t] = "consumed"
    BY <1>1, <2>1 DEF IInv, AuthorizationStands, AuthorizedIsConsumed, Stands, Authorize
  <2>2. ASSUME NEW b \in Callers, call'[b].decision = "duplicate-callback"
        PROVE  token'[call'[b].token] = "consumed"
    BY <1>1, <1>3, <2>2
    DEF IInv, AuthorizationStands, AuthorizedIsConsumed, Stands, Becomes, SoundCallback, Told
  <2> QED
    BY <2>1, <2>2 DEF AuthorizedIsConsumed
<1>5. AuthorizedOnce'
  BY <1>1 DEF IInv, AuthorizationStands, AuthorizedOnce, PutIsFirst, Authorize
<1>6. Apart'
  BY <1>1 DEF IInv, Apart, At, Becomes
<1>7. PutIsFirst'
  <2> SUFFICES ASSUME NEW b \in Callers, At(b, "consumePut")', call'[b].token \notin overlapped
               PROVE  authorized'[call'[b].token] = 0
    BY DEF PutIsFirst
  <2>1. call'[b].token \in Tokens
    BY <1>3 DEF SoundCallback, Waiting, At
  <2>2. CASE b = c
    <3>1. x.token = call'[b].token /\ token[x.token] \in Open /\ UNCHANGED authorized
      BY <1>1, <2>2 DEF Becomes, At
    <3> QED
      BY <1>1, <2>1, <3>1 DEF IInv, AuthorizationStands, AuthorizedIsConsumed, Open
  <2>3. CASE b # c
    <3>1. At(b, "consumePut") /\ call'[b] = call[b] /\ authorized[call[b].token] = 0
      BY <1>1, <2>3 DEF IInv, PutIsFirst, At
    <3>2. UNCHANGED authorized \/ (Authorize(c) /\ call[c].token # call[b].token)
      BY <1>1, <2>1, <2>3, <3>1, PipelineAssumption DEF IInv, Apart, At
    <3> QED
      BY <1>1, <2>1, <3>1, <3>2 DEF Authorize
  <2> QED
    BY <2>2, <2>3
<1> QED
  BY <1>2, <1>3, <1>4, <1>5, <1>6, <1>7 DEF IInv, AuthorizationStands


LEMMA ReceiveKeeps ==
    ASSUME IInv, NEW c \in Callers, NEW t \in Tokens \cup {None}, Receive(c, t)
    PROVE  IInv'
<1>1. /\ call \in [Callers -> Callbacks] /\ UNCHANGED <<token, authorized, failures>>
      /\ call'[c] = [pc |-> "permission", token |-> t, decision |-> "none"]
      /\ \A b \in Callers \ {c} : call'[b] = call[b]
  BY DEF IInv, TypeOK, Receive
<1>2. TypeOK'
  BY <1>1 DEF IInv, TypeOK, Receive, Reach, Callbacks, Decisions
<1>3. \A b \in Callers : SoundCallback(call[b])'
  BY <1>1 DEF IInv, SoundCallback, Waiting, Told
<1>4. AuthorizationStands'
  BY <1>1 DEF IInv, AuthorizationStands, AuthorizedIsConsumed, AuthorizedOnce, Receive, Reach
<1>5. Apart' /\ PutIsFirst'
  BY <1>1 DEF IInv, Apart, PutIsFirst, At, Receive, Reach
<1> QED
  BY <1>2, <1>3, <1>4, <1>5 DEF IInv

LEMMA HostKeeps ==
    ASSUME IInv, NEW t \in Tokens, HostPut(t)
    PROVE  IInv'
<1>1. Stands /\ UNCHANGED <<call, authorized, overlapped, failures>>
  BY PipelineAssumption DEF IInv, TypeOK, HostPut, Stands, Statuses, Open
<1>2. AuthorizedIsConsumed'
  BY <1>1 DEF IInv, AuthorizationStands, AuthorizedIsConsumed, Stands, SoundCallback, Told
<1> QED
  BY <1>1, <1>2 DEF IInv, TypeOK, Stands, AuthorizationStands, AuthorizedOnce, SoundCallback, Apart,
                    PutIsFirst, At

-----------------------------------------------------------------------------
LEMMA Initial == Init => IInv
<1> SUFFICES ASSUME Init PROVE IInv
  OBVIOUS
<1>1. Ended(None, "none") \in Callbacks /\ SoundCallback(Ended(None, "none"))
  BY EndedSound DEF Decisions, Told
<1> QED
  BY <1>1, PipelineAssumption
  DEF Init, IInv, TypeOK, AuthorizationStands, AuthorizedIsConsumed, AuthorizedOnce, Apart,
      PutIsFirst, At, Ended

\* What the decisions of a step are.
LEMMA AnswerKeeps ==
    ASSUME IInv, NEW c \in Callers, NEW d \in Decisions, Decide(c, d),
           d \notin Told \/ (d = "duplicate-callback" /\ call[c].token \in Tokens
                               /\ token[call[c].token] = "consumed"),
           Stands, UNCHANGED authorized, failures' \in Nat
    PROVE  IInv'
<1>1. UNCHANGED overlapped /\ \E t \in Tokens \cup {None} : Becomes(c, Ended(t, d))
  BY DecideBecomes DEF Told
<1> QED
  BY <1>1, MoveKeeps

LEMMA WaitKeeps ==
    ASSUME IInv, NEW c \in Callers, call[c].pc # "idle", call[c].token \in Tokens,
           NEW p \in Waiting, Goto(c, p), p = "consumePut" => token[call[c].token] \in Open,
           UNCHANGED <<token, authorized, failures>>
    PROVE  IInv'
<1>1. UNCHANGED overlapped /\ Becomes(c, [call[c] EXCEPT !.pc = p])
  BY GotoBecomes
<1>2. Stands /\ failures \in Nat
  BY DEF Stands, IInv, TypeOK
<1> QED
  BY <1>1, <1>2, MoveKeeps

LEMMA StepKeeps == ASSUME IInv, NEW c \in Callers, CallbackStep(c) PROVE IInv'
<1>1. /\ call[c] \in Callbacks /\ failures \in Nat
      /\ call[c].pc \in Waiting => call[c].token \in Tokens
      /\ UNCHANGED token => Stands
  BY DEF IInv, TypeOK, SoundCallback, Stands
<1>2. ASSUME Consume(c), At(c, "consumePut") PROVE Stands /\ token'[call[c].token] = "consumed"
  BY <1>1, <1>2 DEF IInv, TypeOK, Consume, Stands, Statuses, At, Waiting
<1>3. CASE ReceiveRejected(c)
  <2>1. PICK d \in {"unsafe-payload-rejected", "unsupported-action"} :
            call' = [call EXCEPT ![c] = Ended(None, d)]
    BY <1>3 DEF ReceiveRejected
  <2>2. Becomes(c, Ended(None, d))
    BY <2>1, EndedSound DEF Becomes, Ended, Decisions, Told
  <2> QED
    BY <1>1, <1>3, <2>2, MoveKeeps DEF ReceiveRejected
<1>4. CASE CheckPermission(c)
  <2>1. CASE \E d \in NoPermission \cup {"failed-safe-redacted", "provider-ack-only"} : Decide(c, d)
    BY <1>1, <1>4, <2>1, AnswerKeeps DEF CheckPermission, NoPermission, Decisions, Told
  <2>2. CASE call[c].token # None /\ Goto(c, "verify")
    BY <1>1, <1>4, <2>2, WaitKeeps DEF CheckPermission, At, Waiting, Callbacks
  <2> QED
    BY <1>4, <2>1, <2>2 DEF CheckPermission
<1>5. CASE VerifyToken(c)
  <2>1. At(c, "verify") /\ call[c].token \in Tokens /\ UNCHANGED <<token, authorized, failures>>
    BY <1>1, <1>5 DEF VerifyToken, At, Waiting
  <2>2. CASE Goto(c, "consumeGet")
    BY <2>1, <2>2, WaitKeeps DEF At, Waiting
  <2>3. CASE \E d \in {"token-context-mismatch", "token-missing", "token-expired", "token-invalid"} :
                Decide(c, d)
    BY <1>1, <2>1, <2>3, AnswerKeeps DEF Decisions, Told
  <2>4. CASE token[call[c].token] = "consumed" /\ Decide(c, "duplicate-callback")
    BY <1>1, <2>1, <2>4, AnswerKeeps DEF Decisions
  <2> QED
    BY <1>5, <2>2, <2>3, <2>4 DEF VerifyToken
<1>6. CASE ConsumeGet(c)
  <2>1. At(c, "consumeGet") /\ call[c].token \in Tokens /\ UNCHANGED <<token, authorized, failures>>
    BY <1>1, <1>6 DEF ConsumeGet, At, Waiting
  <2>2. CASE token[call[c].token] \in Open /\ Goto(c, "consumePut")
    BY <2>1, <2>2, WaitKeeps DEF At, Waiting
  <2>3. CASE \E d \in {"token-missing", "consume-conflict"} : Decide(c, d)
    BY <1>1, <2>1, <2>3, AnswerKeeps DEF Decisions, Told
  <2>4. CASE token[call[c].token] = "consumed" /\ Decide(c, "duplicate-callback")
    BY <1>1, <2>1, <2>4, AnswerKeeps DEF Decisions
  <2> QED
    BY <1>6, <2>2, <2>3, <2>4 DEF ConsumeGet
<1>7. CASE ConsumePut(c)
  <2>1. At(c, "consumePut") /\ call[c].token \in Tokens
    BY <1>1, <1>7 DEF ConsumePut, At, Waiting
  <2>2. /\ UNCHANGED overlapped
        /\ \E t \in Tokens \cup {None} : Becomes(c, Ended(t, "authorized-token-consumed"))
    BY <1>7, <2>1, DecideBecomes DEF ConsumePut, Decisions
  <2> QED
    BY <1>1, <1>2, <1>7, <2>1, <2>2, MoveKeeps DEF ConsumePut, Ended
<1>8. CASE PutFails(c) \/ GetFails(c)
  <2>1. Stands /\ UNCHANGED authorized /\ failures' \in Nat /\ Decide(c, "failed-safe-redacted")
    BY <1>1, <1>2, <1>8 DEF PutFails, GetFails
  <2> QED
    BY <2>1, AnswerKeeps DEF Decisions, Told
<1> QED
  BY <1>3, <1>4, <1>5, <1>6, <1>7, <1>8, ReceiveKeeps DEF CallbackStep

LEMMA Inductive == IInv /\ [Next]_vars => IInv'
<1>1. IInv /\ UNCHANGED vars => IInv'
  BY DEF vars, IInv, TypeOK, AuthorizationStands, AuthorizedIsConsumed, AuthorizedOnce,
         SoundCallback, Apart, PutIsFirst, At
<1> QED
  BY <1>1, StepKeeps, HostKeeps DEF Next

LEMMA AlwaysSound == Spec => []IInv
  BY Initial, Inductive, PTL DEF Spec

\* Tokens, callbacks in flight and histories keep their shape.
THEOREM TypeCorrect == Spec => []TypeOK
<1>1. IInv => TypeOK
  BY DEF IInv
<1> QED
  BY <1>1, AlwaysSound, PTL

\* Whatever overlaps, and whatever boundary calls reject, a token that was
\* authorized, or of which a duplicate was told, stays consumed; one that callbacks
\* do not overlap on is authorized at most once.
THEOREM Authorizations == Spec => []AuthorizationStands
<1>1. IInv => AuthorizationStands
  BY DEF IInv
<1> QED
  BY <1>1, AlwaysSound, PTL

-----------------------------------------------------------------------------
(* Commands and dispatches                                                  *)

\* What was done of a call is what was taken of it since it was last given, and nothing was
\* when it may be given again.
CallStands(x) ==
    /\ x \in [answer : {x.answer}, method : {x.method}, taken : BOOLEAN, done : {0, 1}, given : Nat]
    /\ x.done = IF x.taken THEN 1 ELSE 0
    /\ x.given = 0 => x.answer.code = "none" /\ ~x.taken
    /\ x.answer.retryable = "yes" => ~x.taken

StatusStands(x) ==
    /\ x.answer.status = "completed" => x.taken
    /\ x.answer.status \in {"rejected", "not-run"} => ~x.taken

\* The descriptor of a command that has reached the core was found.
CommandIsFound(e) ==
    LET x == commandCalls[e]
    IN x.taken \/ x.answer = AwaitsCore =>
           (EventOf[e].kind = "command" => \A s \in commandSet : FindDescriptor(s, EventOf[e].name) # {})

CommandsInv ==
    /\ commandCalls = [e \in CommandEvents |-> commandCalls[e]]
    /\ runtimeCalls = [d \in DispatchRefs |-> runtimeCalls[d]]
    /\ \A s \in commandSet : SetAccepted(s)
    /\ \A e \in CommandEvents :
         CallStands(commandCalls[e]) /\ StatusStands(commandCalls[e]) /\ CommandIsFound(e)
    /\ \A d \in DispatchRefs :
         CallStands(runtimeCalls[d]) /\ (runtimeCalls[d].answer.code = "ok" => runtimeCalls[d].taken)

\* One call of the core that changes.
LEMMA CommandMoves ==
    ASSUME CommandsInv, NEW e \in CommandEvents, NEW x,
           commandCalls' = [commandCalls EXCEPT ![e] = x], UNCHANGED <<commandSet, runtimeCalls>>,
           CallStands(x), StatusStands(x),
           x.taken \/ x.answer = AwaitsCore =>
               (EventOf[e].kind = "command" => \A s \in commandSet : FindDescriptor(s, EventOf[e].name) # {})
    PROVE  CommandsInv'
  BY DEF CommandsInv, CommandIsFound

\* A call that is given, again or for the first time, has done nothing yet.
LEMMA GivenStands ==
    ASSUME NEW x, CallStands(x), MayGive(x), NEW answer, NEW method
    PROVE  /\ Given(x, answer, method).answer = answer
           /\ ~Given(x, answer, method).taken
           /\ CallStands(Given(x, answer, method))
<1>1. x.taken = FALSE /\ x.done = 0 /\ x.given \in Nat
  BY DEF CallStands, MayGive
<1> QED
  BY <1>1 DEF CallStands, Given

LEMMA SubmitKeeps ==
    ASSUME CommandsInv, NEW e \in CommandEvents, SubmitEvent(e) PROVE CommandsInv'
<1> DEFINE composed == ComposeIntent(EventOf[e], commandSet)
<1>1. /\ MayGive(commandCalls[e]) /\ CallStands(commandCalls[e])
      /\ UNCHANGED <<commandSet, runtimeCalls>>
  BY DEF SubmitEvent, CommandsInv
<1>2. CASE commandCalls' = [commandCalls EXCEPT ![e] = Given(@, composed.refusal, {})]
  <2>1. composed.refusal.status = "none" /\ composed.refusal.code # "waiting"
    BY HostCommandsAssumption
       DEF ComposeIntent, ComposeMessage, ComposeCallback, ComposeSystem, ComposeRefusal, NotAnswered,
           Unstated, CommandAnswer, EventKinds, HostActionTarget, UserIntentTarget
  <2> HIDE DEF composed
  <2>2. PICK answer, method : answer = composed.refusal /\ method = {}
    OBVIOUS
  <2>3. commandCalls' = [commandCalls EXCEPT ![e] = Given(commandCalls[e], answer, method)]
    BY <1>2, <2>2 DEF CommandsInv
  <2>4. answer # AwaitsCore
    BY <2>1, <2>2 DEF AwaitsCore, Unstated, CommandAnswer
  <2>5. /\ CallStands(Given(commandCalls[e], answer, method))
        /\ StatusStands(Given(commandCalls[e], answer, method))
        /\ ~Given(commandCalls[e], answer, method).taken
        /\ Given(commandCalls[e], answer, method).answer = answer
    <3>1. /\ CallStands(Given(commandCalls[e], answer, method))
          /\ ~Given(commandCalls[e], answer, method).taken
          /\ Given(commandCalls[e], answer, method).answer = answer
      BY <1>1, GivenStands
    <3> QED
      BY <2>1, <2>2, <3>1 DEF StatusStands
  <2> QED
    BY <1>1, <2>3, <2>4, <2>5, CommandMoves
<1>3. ASSUME NEW intent \in composed.intent, commandCalls' = [commandCalls EXCEPT ![e] = Submitted(@, intent)]
      PROVE  CommandsInv'
  <2>1. EventOf[e].kind = "command" => \A s \in commandSet : FindDescriptor(s, EventOf[e].name) # {}
    BY <1>3 DEF ComposeIntent, ComposeMessage, ParsesAsCommand
  <2>2. PICK answer, method :
            Submitted(commandCalls[e], intent) = Given(commandCalls[e], answer, method)
            /\ answer.status \in {"none", "waiting"}
    <3>1. \/ Submitted(commandCalls[e], intent) = Given(commandCalls[e], Unstated("invalid-input"), {})
          \/ Submitted(commandCalls[e], intent) =
                 Given(commandCalls[e], CommandAnswer("dependency-missing", "yes", "none"), {})
          \/ Submitted(commandCalls[e], intent) = Given(commandCalls[e], AwaitsCore, {MethodOf(intent.target)})
      BY DEF Submitted
    <3> QED
      BY <3>1 DEF AwaitsCore, Unstated, CommandAnswer
  <2>3. commandCalls' = [commandCalls EXCEPT ![e] = Given(commandCalls[e], answer, method)]
    BY <1>3, <2>2 DEF CommandsInv
  <2> QED
    BY <1>1, <2>1, <2>2, <2>3, GivenStands, CommandMoves DEF StatusStands
<1> QED
  BY <1>2, <1>3 DEF SubmitEvent

LEMMA TakesKeeps ==
    ASSUME CommandsInv, NEW e \in CommandEvents, CoreTakes(e) PROVE CommandsInv'
<1> DEFINE x == [commandCalls[e] EXCEPT !.taken = TRUE, !.done = @ + 1]
<1>1. /\ CallStands(commandCalls[e]) /\ CommandIsFound(e)
      /\ commandCalls[e].answer = AwaitsCore /\ ~commandCalls[e].taken
      /\ commandCalls' = [commandCalls EXCEPT ![e] = x]
      /\ UNCHANGED <<commandSet, runtimeCalls>>
  BY DEF CoreTakes, CommandsInv
<1>2. AwaitsCore.code = "waiting" /\ AwaitsCore.status = "none" /\ AwaitsCore.retryable = "unstated"
  BY DEF AwaitsCore, Unstated, CommandAnswer
<1>3. commandCalls[e].given \in Nat \ {0} /\ commandCalls[e].done = 0
  BY <1>1, <1>2 DEF CallStands
<1>4. /\ x \in [answer : {commandCalls[e].answer}, method : {commandCalls[e].method}, taken : BOOLEAN,
                done : {0, 1}, given : Nat]
      /\ x.taken /\ x.given = commandCalls[e].given /\ x.answer = AwaitsCore
  <2> DEFINE y == [commandCalls[e] EXCEPT !.taken = TRUE]
  <2>1. /\ y \in [answer : {commandCalls[e].answer}, method : {commandCalls[e].method}, taken : BOOLEAN,
                  done : {0}, given : Nat]
        /\ y.taken /\ y.given = commandCalls[e].given /\ y.answer = AwaitsCore
    BY <1>1, <1>3 DEF CallStands
  <2>2. x = [y EXCEPT !.done = @ + 1]
    OBVIOUS
  <2> HIDE DEF x, y
  <2> QED
    BY <2>1, <2>2
<1>5. x.done = 1
  BY <1>3, <1>1 DEF CallStands
<1> HIDE DEF x
<1>6. CallStands(x) /\ StatusStands(x)
  BY <1>2, <1>3, <1>4, <1>5 DEF CallStands, StatusStands
<1> QED
  BY <1>1, <1>4, <1>6, CommandMoves DEF CommandIsFound

\* What the core's answer is turned into says of the call what the core itself may say.
LEMMA CommandResultIsTrue ==
    ASSUME NEW result \in CoreResults, NEW taken \in BOOLEAN, CoreMaySay(result, taken)
    PROVE  LET answer == NormalizeCommandResult(result)
           IN /\ answer # AwaitsCore /\ answer.code # "none"
              /\ answer.retryable = "yes" => ~taken
              /\ answer.status = "completed" => taken
              /\ answer.status \in {"rejected", "not-run"} => ~taken
<1> USE DEF CoreMaySay, NormalizeCommandResult, AwaitsCore, Unstated, CommandAnswer
<1>1. CASE result \in [kind : {"ok"}, status : {"accepted", "completed", "rejected", "not-run", "another"}]
  BY <1>1 DEF CommandSuccess, CommandStatus, CommandStatuses
<1>2. CASE result \in [kind : {"failure"}, code : {"conflict", "not-ready", "another"},
                      retryable : {"unstated", "yes", "no"}]
  <2>1. MapCommandFailureCode(result.code) \notin {"none", "waiting"}
    BY <1>2 DEF MapCommandFailureCode
  <2> QED
    BY <1>2, <2>1 DEF CommandFailure
<1>3. CASE result \in [kind : {"unsafe", "neither", "thrown"}]
  BY <1>3
<1> QED
  BY <1>1, <1>2, <1>3 DEF CoreResults

LEMMA SettlesKeeps ==
    ASSUME CommandsInv, NEW e \in CommandEvents, NEW result \in CoreResults, CoreSettles(e, result)
    PROVE  CommandsInv'
<1> DEFINE x == [commandCalls[e] EXCEPT !.answer = NormalizeCommandResult(result)]
           taken == commandCalls[e].taken
<1>1. /\ CallStands(commandCalls[e]) /\ CommandIsFound(e)
      /\ commandCalls[e].answer = AwaitsCore /\ CoreMaySay(result, taken) /\ taken \in BOOLEAN
      /\ commandCalls' = [commandCalls EXCEPT ![e] = x]
      /\ UNCHANGED <<commandSet, runtimeCalls>>
  BY DEF CoreSettles, CommandsInv, CallStands
<1>2. /\ NormalizeCommandResult(result) # AwaitsCore
      /\ NormalizeCommandResult(result).retryable = "yes" => ~taken
      /\ NormalizeCommandResult(result).status = "completed" => taken
      /\ NormalizeCommandResult(result).status \in {"rejected", "not-run"} => ~taken
  BY <1>1, CommandResultIsTrue
<1>3. commandCalls[e].given # 0
  BY <1>1 DEF CallStands, AwaitsCore, Unstated, CommandAnswer
<1>4. x \in [answer : {NormalizeCommandResult(result)}, method : {commandCalls[e].method}, taken : {taken},
             done : {commandCalls[e].done}, given : {commandCalls[e].given}]
  BY <1>1 DEF CallStands
<1> HIDE DEF x
<1>5. CallStands(x) /\ StatusStands(x)
  BY <1>1, <1>2, <1>3, <1>4 DEF CallStands, StatusStands
<1> QED
  BY <1>1, <1>2, <1>4, <1>5, CommandMoves DEF CommandIsFound

LEMMA DispatchMoves ==
    ASSUME CommandsInv, NEW d \in DispatchRefs, NEW x,
           runtimeCalls' = [runtimeCalls EXCEPT ![d] = x], UNCHANGED <<commandSet, commandCalls>>,
           CallStands(x), x.answer.code = "ok" => x.taken
    PROVE  CommandsInv'
  BY DEF CommandsInv, CommandIsFound

LEMMA RuntimeResultIsTrue ==
    ASSUME NEW result \in RuntimeResults, NEW ran \in BOOLEAN, RuntimeMaySay(result, ran)
    PROVE  LET answer == IF PortThrows(result) THEN Unstated("dependency-failed")
                         ELSE NormalizeRuntimeResult(result)
           IN /\ answer.retryable = "yes" => ~ran
              /\ answer.code = "ok" => ran
<1> USE DEF RuntimeMaySay, NormalizeRuntimeResult, PortThrows, Unstated, CommandAnswer
<1>1. CASE result \in [kind : {"ok"}, ref : {"own", "unstated", "another"}]
  BY <1>1
<1>2. CASE result \in [kind : {"failure"}, ref : {"own", "another"},
                       code : {"runtime-unavailable", "internal", "another"},
                       retryable : {"unstated", "yes", "no"}]
  BY <1>2 DEF MapRuntimeFailureCode
<1>3. CASE result \in [kind : {"unsafe", "neither", "thrown"}]
  BY <1>3
<1> QED
  BY <1>1, <1>2, <1>3 DEF RuntimeResults

LEMMA DispatchKeeps ==
    ASSUME CommandsInv, NEW d \in DispatchRefs, NEW result \in RuntimeResults,
           NEW ran \in BOOLEAN, NEW c \in BOOLEAN, NEW r \in BOOLEAN, Dispatch(d, c, r, result, ran)
    PROVE  CommandsInv'
<1>1. /\ MayGive(runtimeCalls[d]) /\ CallStands(runtimeCalls[d])
      /\ runtimeCalls = [f \in DispatchRefs |-> runtimeCalls[f]]
      /\ UNCHANGED <<commandSet, commandCalls>>
  BY DEF Dispatch, CommandsInv
<1>2. ASSUME NEW code \in {"invalid-input", "dependency-missing"},
             runtimeCalls' = [runtimeCalls EXCEPT ![d] = Given(@, Unstated(code), {})]
      PROVE  CommandsInv'
  <2>1. PICK answer, method : answer = Unstated(code) /\ method = {}
    OBVIOUS
  <2>2. /\ CallStands(Given(runtimeCalls[d], answer, method))
        /\ Given(runtimeCalls[d], answer, method).answer = answer
    BY <1>1, GivenStands
  <2>3. answer.code # "ok"
    BY <2>1 DEF Unstated, CommandAnswer
  <2>4. runtimeCalls' = [runtimeCalls EXCEPT ![d] = Given(runtimeCalls[d], answer, method)]
    BY <1>1, <1>2, <2>1
  <2> QED
    BY <1>1, <2>2, <2>3, <2>4, DispatchMoves
<1>3. ASSUME NEW answer, RuntimeMaySay(result, ran),
             answer = IF PortThrows(result) THEN Unstated("dependency-failed")
                      ELSE NormalizeRuntimeResult(result),
             runtimeCalls' = [runtimeCalls EXCEPT ![d] =
                 Ran(Given(@, answer, {}), ran)]
      PROVE  CommandsInv'
  <2> DEFINE y == [Given(runtimeCalls[d], answer, {}) EXCEPT !.taken = ran]
             x == Ran(Given(runtimeCalls[d], answer, {}), ran)
  <2>1. /\ runtimeCalls[d].done = 0 /\ runtimeCalls[d].given \in Nat
    BY <1>1 DEF CallStands, MayGive
  <2>2. /\ y \in [answer : {answer}, method : {{}}, taken : BOOLEAN, done : {0}, given : Nat \ {0}]
        /\ y.taken <=> ran
    BY <2>1 DEF Given
  <2>3. runtimeCalls' = [runtimeCalls EXCEPT ![d] = x]
    BY <1>1, <1>3
  <2>7. x = [y EXCEPT !.done = @ + (IF ran THEN 1 ELSE 0)]
    BY DEF Ran
  <2> HIDE DEF x, y
  <2>4. /\ x \in [answer : {answer}, method : {{}}, taken : BOOLEAN, done : {0, 1}, given : Nat \ {0}]
        /\ x.taken <=> ran
        /\ x.done = IF ran THEN 1 ELSE 0
    BY <2>2, <2>7
  <2>5. (answer.retryable = "yes" => ~ran) /\ (answer.code = "ok" => ran)
    BY <1>3, RuntimeResultIsTrue
  <2>6. CallStands(x) /\ (x.answer.code = "ok" => x.taken)
    BY <2>4, <2>5 DEF CallStands
  <2> QED
    BY <1>1, <2>3, <2>6, DispatchMoves
<1> QED
  BY <1>2, <1>3 DEF Dispatch

LEMMA CommandsInductive == CommandsInv /\ [CommandsNext]_commandVars => CommandsInv'
<1> SUFFICES ASSUME CommandsInv, [CommandsNext]_commandVars PROVE CommandsInv'
  OBVIOUS
<1>1. CASE UNCHANGED commandVars
  BY <1>1 DEF commandVars, CommandsInv, CommandIsFound
<1>2. ASSUME NEW methods \in SUBSET FacadeMethods, ChangeFacade(methods) PROVE CommandsInv'
  BY <1>2 DEF ChangeFacade, CommandsInv, CommandIsFound
<1> QED
  BY <1>1, <1>2, SubmitKeeps, TakesKeeps, SettlesKeeps, DispatchKeeps
     DEF CommandsNext, EventsNext, DispatchesNext

\* A name that a set of descriptors finds, it finds once.
LEMMA FoundOnce ==
    ASSUME NEW s, SetAccepted(s), NEW name, FindDescriptor(s, name) # {}
    PROVE  Cardinality(FindDescriptor(s, name)) = 1
<1>1. PICK i : i \in FindDescriptor(s, name)
  OBVIOUS
<1>2. FindDescriptor(s, name) = {i}
  BY <1>1 DEF FindDescriptor, SetAccepted, LookupNamesAreUnique
<1> QED
  BY <1>2, FS_Singleton

\* No command is done twice, nor one its set does not name once, and the answers of the core
\* and of the runtime are true of what they did, whatever they answer and however often a
\* host gives again what it was told to.
THEOREM CommandAnswersTrue == CommandsSpec => []CommandAnswersAreTrue
<1>1. CommandsInit => CommandsInv
  <2> SUFFICES ASSUME CommandsInit PROVE CommandsInv
    OBVIOUS
  <2>1. /\ CallStands(NeverGiven) /\ StatusStands(NeverGiven)
        /\ NeverGiven.answer.code = "none" /\ ~NeverGiven.taken
    BY DEF NeverGiven, CallStands, StatusStands, NotAnswered, Unstated, CommandAnswer
  <2>2. AwaitsCore.code = "waiting"
    BY DEF AwaitsCore, Unstated, CommandAnswer
  <2> QED
    BY <2>1, <2>2 DEF CommandsInit, CommandsInv, CommandIsFound
<1>2. CommandsInv => CommandAnswersAreTrue
  <2> SUFFICES ASSUME CommandsInv PROVE CommandAnswersAreTrue
    OBVIOUS
  <2>1. ASSUME NEW e \in CommandEvents, commandCalls[e].done > 0, EventOf[e].kind = "command",
               NEW s \in commandSet
        PROVE  Cardinality(FindDescriptor(s, EventOf[e].name)) = 1
    BY <2>1, FoundOnce DEF CommandsInv, CallStands, CommandIsFound
  <2>2. CommandsAreDoneOnce
    BY <2>1 DEF CommandsInv, CallStands, StatusStands, CommandsAreDoneOnce
  <2>3. \A d \in DispatchRefs :
           /\ runtimeCalls[d].done <= 1
           /\ runtimeCalls[d].answer.code = "ok" => runtimeCalls[d].taken
    BY DEF CommandsInv, CallStands
  <2>4. CombineReadiness(commandHost, coreMethods) = "ready" => CommandMethods \subseteq coreMethods
    BY DEF CombineReadiness, CommandReadiness, MissingCommandMethods
  <2>5. \A reported \in {"none", "ready", "malformed"} :
            "pass" \in {BridgeReadiness(runtimePort, reported), OpenClawPortReadiness(runtimePort, reported)}
                => runtimePort
    BY DEF BridgeReadiness, OpenClawPortReadiness
  <2> QED
    BY <2>2, <2>3, <2>4, <2>5 DEF CommandAnswersAreTrue, RuntimeAnswersAreOwn
<1> QED
  BY <1>1, <1>2, CommandsInductive, PTL DEF CommandsSpec

-----------------------------------------------------------------------------
(* Inbound routes                                                           *)

\* The case that a chain of early returns takes.
LEMMA FirstHolds ==
    ASSUME NEW cases, DOMAIN cases \subseteq Nat, NEW i \in DOMAIN cases, cases[i][1],
           \A j \in DOMAIN cases : j < i => ~cases[j][1]
    PROVE  FirstHolding(cases) = cases[i][2]
<1> DEFINE held == {k \in DOMAIN cases : cases[k][1]}
<1>1. i \in held /\ (\A j \in held : i <= j) /\ held \subseteq Nat
  OBVIOUS
<1> HIDE DEF held
<1>2. Min(held) \in held /\ \A j \in held : Min(held) <= j
  BY <1>1 DEF Min
<1>3. Min(held) = i
  BY <1>1, <1>2
<1> QED
  BY <1>3 DEF FirstHolding, held

LEMMA FirstOf4 ==
    ASSUME NEW cases, DOMAIN cases = 1..4, cases[4][1]
    PROVE  FirstHolding(cases) =
           IF cases[1][1] THEN cases[1][2]
           ELSE IF cases[2][1] THEN cases[2][2]
           ELSE IF cases[3][1] THEN cases[3][2]
           ELSE cases[4][2]
<1>1. ASSUME cases[1][1]
      PROVE  FirstHolding(cases) = cases[1][2]
  BY <1>1, FirstHolds
<1>2. ASSUME cases[2][1], ~cases[1][1]
      PROVE  FirstHolding(cases) = cases[2][2]
  BY <1>2, FirstHolds
<1>3. ASSUME cases[3][1], ~cases[1][1], ~cases[2][1]
      PROVE  FirstHolding(cases) = cases[3][2]
  BY <1>3, FirstHolds
<1>4. ASSUME cases[4][1], ~cases[1][1], ~cases[2][1], ~cases[3][1]
      PROVE  FirstHolding(cases) = cases[4][2]
  BY <1>4, FirstHolds
<1> QED
  BY <1>1, <1>2, <1>3, <1>4

LEMMA FirstOf6 ==
    ASSUME NEW cases, DOMAIN cases = 1..6, cases[6][1]
    PROVE  FirstHolding(cases) =
           IF cases[1][1] THEN cases[1][2]
           ELSE IF cases[2][1] THEN cases[2][2]
           ELSE IF cases[3][1] THEN cases[3][2]
           ELSE IF cases[4][1] THEN cases[4][2]
           ELSE IF cases[5][1] THEN cases[5][2]
           ELSE cases[6][2]
<1>1. ASSUME cases[1][1]
      PROVE  FirstHolding(cases) = cases[1][2]
  BY <1>1, FirstHolds
<1>2. ASSUME cases[2][1], ~cases[1][1]
      PROVE  FirstHolding(cases) = cases[2][2]
  BY <1>2, FirstHolds
<1>3. ASSUME cases[3][1], ~cases[1][1], ~cases[2][1]
      PROVE  FirstHolding(cases) = cases[3][2]
  BY <1>3, FirstHolds
<1>4. ASSUME cases[4][1], ~cases[1][1], ~cases[2][1], ~cases[3][1]
      PROVE  FirstHolding(cases) = cases[4][2]
  BY <1>4, FirstHolds
<1>5. ASSUME cases[5][1], ~cases[1][1], ~cases[2][1], ~cases[3][1], ~cases[4][1]
      PROVE  FirstHolding(cases) = cases[5][2]
  BY <1>5, FirstHolds
<1>6. ASSUME cases[6][1], ~cases[1][1], ~cases[2][1], ~cases[3][1], ~cases[4][1], ~cases[5][1]
      PROVE  FirstHolding(cases) = cases[6][2]
  BY <1>6, FirstHolds
<1> QED
  BY <1>1, <1>2, <1>3, <1>4, <1>5, <1>6

LEMMA FirstOf7 ==
    ASSUME NEW cases, DOMAIN cases = 1..7, cases[7][1]
    PROVE  FirstHolding(cases) =
           IF cases[1][1] THEN cases[1][2]
           ELSE IF cases[2][1] THEN cases[2][2]
           ELSE IF cases[3][1] THEN cases[3][2]
           ELSE IF cases[4][1] THEN cases[4][2]
           ELSE IF cases[5][1] THEN cases[5][2]
           ELSE IF cases[6][1] THEN cases[6][2]
           ELSE cases[7][2]
<1>1. ASSUME cases[1][1]
      PROVE  FirstHolding(cases) = cases[1][2]
  BY <1>1, FirstHolds
<1>2. ASSUME cases[2][1], ~cases[1][1]
      PROVE  FirstHolding(cases) = cases[2][2]
  BY <1>2, FirstHolds
<1>3. ASSUME cases[3][1], ~cases[1][1], ~cases[2][1]
      PROVE  FirstHolding(cases) = cases[3][2]
  BY <1>3, FirstHolds
<1>4. ASSUME cases[4][1], ~cases[1][1], ~cases[2][1], ~cases[3][1]
      PROVE  FirstHolding(cases) = cases[4][2]
  BY <1>4, FirstHolds
<1>5. ASSUME cases[5][1], ~cases[1][1], ~cases[2][1], ~cases[3][1], ~cases[4][1]
      PROVE  FirstHolding(cases) = cases[5][2]
  BY <1>5, FirstHolds
<1>6. ASSUME cases[6][1], ~cases[1][1], ~cases[2][1], ~cases[3][1], ~cases[4][1], ~cases[5][1]
      PROVE  FirstHolding(cases) = cases[6][2]
  BY <1>6, FirstHolds
<1>7. ASSUME cases[7][1], ~cases[1][1], ~cases[2][1], ~cases[3][1], ~cases[4][1], ~cases[5][1], ~cases[6][1]
      PROVE  FirstHolding(cases) = cases[7][2]
  BY <1>7, FirstHolds
<1> QED
  BY <1>1, <1>2, <1>3, <1>4, <1>5, <1>6, <1>7

LEMMA FirstOf10 ==
    ASSUME NEW cases, DOMAIN cases = 1..10, cases[10][1]
    PROVE  FirstHolding(cases) =
           IF cases[1][1] THEN cases[1][2]
           ELSE IF cases[2][1] THEN cases[2][2]
           ELSE IF cases[3][1] THEN cases[3][2]
           ELSE IF cases[4][1] THEN cases[4][2]
           ELSE IF cases[5][1] THEN cases[5][2]
           ELSE IF cases[6][1] THEN cases[6][2]
           ELSE IF cases[7][1] THEN cases[7][2]
           ELSE IF cases[8][1] THEN cases[8][2]
           ELSE IF cases[9][1] THEN cases[9][2]
           ELSE cases[10][2]
<1>1. ASSUME cases[1][1]
      PROVE  FirstHolding(cases) = cases[1][2]
  BY <1>1, FirstHolds
<1>2. ASSUME cases[2][1], ~cases[1][1]
      PROVE  FirstHolding(cases) = cases[2][2]
  BY <1>2, FirstHolds
<1>3. ASSUME cases[3][1], ~cases[1][1], ~cases[2][1]
      PROVE  FirstHolding(cases) = cases[3][2]
  BY <1>3, FirstHolds
<1>4. ASSUME cases[4][1], ~cases[1][1], ~cases[2][1], ~cases[3][1]
      PROVE  FirstHolding(cases) = cases[4][2]
  BY <1>4, FirstHolds
<1>5. ASSUME cases[5][1], ~cases[1][1], ~cases[2][1], ~cases[3][1], ~cases[4][1]
      PROVE  FirstHolding(cases) = cases[5][2]
  BY <1>5, FirstHolds
<1>6. ASSUME cases[6][1], ~cases[1][1], ~cases[2][1], ~cases[3][1], ~cases[4][1], ~cases[5][1]
      PROVE  FirstHolding(cases) = cases[6][2]
  BY <1>6, FirstHolds
<1>7. ASSUME cases[7][1], ~cases[1][1], ~cases[2][1], ~cases[3][1], ~cases[4][1], ~cases[5][1], ~cases[6][1]
      PROVE  FirstHolding(cases) = cases[7][2]
  BY <1>7, FirstHolds
<1>8. ASSUME cases[8][1], ~cases[1][1], ~cases[2][1], ~cases[3][1], ~cases[4][1], ~cases[5][1],
             ~cases[6][1], ~cases[7][1]
      PROVE  FirstHolding(cases) = cases[8][2]
  BY <1>8, FirstHolds
<1>9. ASSUME cases[9][1], ~cases[1][1], ~cases[2][1], ~cases[3][1], ~cases[4][1], ~cases[5][1],
             ~cases[6][1], ~cases[7][1], ~cases[8][1]
      PROVE  FirstHolding(cases) = cases[9][2]
  BY <1>9, FirstHolds
<1>10. ASSUME cases[10][1], ~cases[1][1], ~cases[2][1], ~cases[3][1], ~cases[4][1], ~cases[5][1],
              ~cases[6][1], ~cases[7][1], ~cases[8][1], ~cases[9][1]
      PROVE  FirstHolding(cases) = cases[10][2]
  BY <1>10, FirstHolds
<1> QED
  BY <1>1, <1>2, <1>3, <1>4, <1>5, <1>6, <1>7, <1>8, <1>9, <1>10

\* What an update is answered: one that is not acknowledged gives no event, one that is
\* gives an event of its own or asks for nothing.
LEMMA AnswerIsKept ==
    ASSUME NEW u, NEW config
    PROVE  LET answer == NormalizeChannelEvent(u, config) IN
           /\ \A e \in answer.events : e \in SourceEvents(u) /\ UpdateOf[u].kind \in SourceKinds
           /\ answer.ack = "do-not-acknowledge" => answer.events = {}
           /\ answer.ack # "do-not-acknowledge" => answer.events # {} \/ AsksForNothing(u)
<1> DEFINE raw == UpdateOf[u]
           Kept(answer) ==
               /\ \A e \in answer.events : e \in SourceEvents(u) /\ raw.kind \in SourceKinds
               /\ answer.ack = "do-not-acknowledge" => answer.events = {}
               /\ answer.ack # "do-not-acknowledge" => answer.events # {} \/ AsksForNothing(u)
           cases == <<
               <<config = "invalid",          SourceAnswer(u, "invalid", FALSE, {})>>,
               <<~TransportIsReady(config),   SourceAnswer(u, "ignored", FALSE, {})>>,
               <<raw.kind = "not-an-object",  SourceAnswer(u, "invalid", FALSE, {})>>,
               <<raw.ignored,                 SourceAnswer(u, "ignored", TRUE, {})>>,
               <<raw.kind \notin SourceKinds, SourceAnswer(u, "unsupported", TRUE, {})>>,
               <<SourceEvents(u) = {},        SourceAnswer(u, "invalid", FALSE, {})>>,
               <<TRUE,                        SourceAnswer(u, "normalized", TRUE, SourceEvents(u))>> >>
<1>1. NormalizeChannelEvent(u, config) = FirstHolding(cases)
  BY DEF NormalizeChannelEvent
<1>2. ASSUME NEW status PROVE Kept(SourceAnswer(u, status, FALSE, {}))
  BY DEF SourceAnswer, AckDecision, AsksForNothing
<1>3. ASSUME NEW status, raw.ignored \/ raw.kind \notin SourceKinds
      PROVE  Kept(SourceAnswer(u, status, TRUE, {}))
  BY <1>3 DEF SourceAnswer, AckDecision, AsksForNothing
<1>4. ASSUME SourceEvents(u) # {}, raw.kind \in SourceKinds
      PROVE  Kept(SourceAnswer(u, "normalized", TRUE, SourceEvents(u)))
  <2>1. AckDecision(u, TRUE) # "do-not-acknowledge"
    BY DEF AckDecision
  <2> QED
    BY <1>4, <2>1 DEF SourceAnswer
<1>5. /\ DOMAIN cases = 1..7 /\ cases[7][1]
      /\ Kept(cases[1][2]) /\ Kept(cases[2][2]) /\ Kept(cases[3][2]) /\ Kept(cases[6][2])
      /\ cases[4][1] => Kept(cases[4][2])
      /\ cases[5][1] => Kept(cases[5][2])
      /\ ~cases[5][1] /\ ~cases[6][1] => Kept(cases[7][2])
  <2> HIDE DEF Kept
  <2>1. DOMAIN cases = 1..7 /\ cases[7][1]
    OBVIOUS
  <2>2. Kept(cases[1][2]) /\ Kept(cases[2][2]) /\ Kept(cases[3][2]) /\ Kept(cases[6][2])
    BY <1>2
  <2>3. cases[4][1] => Kept(cases[4][2])
    BY <1>3
  <2>4. cases[5][1] => Kept(cases[5][2])
    BY <1>3
  <2>5. ~cases[5][1] /\ ~cases[6][1] => Kept(cases[7][2])
    BY <1>4
  <2> QED
    BY <2>1, <2>2, <2>3, <2>4, <2>5
<1>6. Kept(FirstHolding(cases))
  <2> HIDE DEF cases, Kept
  <2> QED
    BY <1>5, FirstOf7
<1> QED
  BY <1>1, <1>6

LEMMA EventIsOfUpdate == ASSUME NEW u, NEW e \in SourceEvents(u) PROVE e.update = u
<1>1. \A place : SourceEvent(u, place).update = u
  BY DEF SourceEvent
<1> QED
  BY <1>1 DEF SourceEvents

\* What waits is an event of an update of a known kind.
WaitingIsNormalized ==
    \A e \in waiting :
        /\ e.update \in InUpdates /\ e \in SourceEvents(e.update)
        /\ UpdateOf[e.update].kind \in SourceKinds

RoutesInv == AcknowledgedIsKept /\ WaitingIsNormalized

LEMMA HandOverKeeps ==
    ASSUME RoutesInv, NEW u \in InUpdates, HandOver(u) PROVE RoutesInv'
<1> DEFINE answer == NormalizeChannelEvent(u, sourceConfig)
<1>1. /\ \A e \in answer.events : e \in SourceEvents(u) /\ UpdateOf[u].kind \in SourceKinds
      /\ answer.ack = "do-not-acknowledge" => answer.events = {}
      /\ answer.ack # "do-not-acknowledge" => answer.events # {} \/ AsksForNothing(u)
  BY AnswerIsKept
<1>2. \A e \in answer.events : e.update = u
  BY <1>1, EventIsOfUpdate
<1>3. /\ u \in unacknowledged
      /\ unacknowledged' = IF answer.ack # "do-not-acknowledge" THEN unacknowledged \ {u}
                           ELSE unacknowledged
      /\ waiting' = waiting \cup answer.events /\ routes' = routes
  BY DEF HandOver
<1> HIDE DEF answer
<1>4. ~HostHas(u) /\ \A v \in InUpdates \ {u} : HostHas(v)' <=> HostHas(v)
  BY <1>2, <1>3 DEF RoutesInv, AcknowledgedIsKept, HostHas
<1>5. HostHas(u)' <=> answer.events # {}
  BY <1>2, <1>3, <1>4 DEF HostHas
<1>6. AcknowledgedIsKept'
  BY <1>1, <1>3, <1>4, <1>5 DEF RoutesInv, AcknowledgedIsKept, AsksForNothing
<1>7. WaitingIsNormalized'
  BY <1>1, <1>2, <1>3 DEF RoutesInv, WaitingIsNormalized
<1> QED
  BY <1>6, <1>7 DEF RoutesInv

LEMMA RouteWaitingKeeps ==
    ASSUME RoutesInv, NEW event \in waiting, NEW flaws, RouteWaiting(event, flaws) PROVE RoutesInv'
<1>1. PICK r : r.update = event.update /\ routes' = routes \cup {r}
  BY DEF RouteWaiting
<1>2. waiting' = waiting \ {event} /\ unacknowledged' = unacknowledged
  BY DEF RouteWaiting
<1>3. \A v \in InUpdates : HostHas(v)' <=> HostHas(v)
  BY <1>1, <1>2 DEF HostHas
<1>4. AcknowledgedIsKept'
  BY <1>2, <1>3 DEF RoutesInv, AcknowledgedIsKept, AsksForNothing
<1>5. WaitingIsNormalized'
  BY <1>2 DEF RoutesInv, WaitingIsNormalized
<1> QED
  BY <1>4, <1>5 DEF RoutesInv

LEMMA RoutesInductive == RoutesInv /\ [RoutesNext]_routeVars => RoutesInv'
<1> SUFFICES ASSUME RoutesInv, [RoutesNext]_routeVars PROVE RoutesInv'
  OBVIOUS
<1>1. CASE UNCHANGED <<waiting, routes, unacknowledged>>
  BY <1>1 DEF RoutesInv, AcknowledgedIsKept, WaitingIsNormalized, HostHas, AsksForNothing
<1>2. CASE ~UNCHANGED <<waiting, routes, unacknowledged>>
  <2>1. SourceNext(InUpdates)
    BY <1>2 DEF RoutesNext, routeVars, ChangeBindings, PrepareNext, PrepareRoute, MapNext, MapEnvelope
  <2>2. ~ChangeConfig
    BY <1>2 DEF ChangeConfig
  <2> QED
    BY <2>1, <2>2, HandOverKeeps, RouteWaitingKeeps DEF SourceNext
<1> QED
  BY <1>1, <1>2

LEMMA AlwaysRoutes == RoutesSpec => []RoutesInv
<1>1. RoutesInit => RoutesInv
  BY DEF RoutesInit, RoutesInv, AcknowledgedIsKept, WaitingIsNormalized, HostHas
<1> QED
  BY <1>1, RoutesInductive, PTL DEF RoutesSpec

\* For any updates, configurations and bindings: an update that the provider gave up waits
\* in the host, was routed, or asks for nothing; one that it still hands over was not taken
\* (channel-event-source.ts:542-721).
THEOREM NothingIsLost == RoutesSpec => []AcknowledgedIsKept
<1>1. RoutesInv => AcknowledgedIsKept
  BY DEF RoutesInv
<1> QED
  BY <1>1, AlwaysRoutes, PTL

\* The binding that the first router sends an event to.
LEMMA RouteTopicIntent ==
    ASSUME NEW event, NEW bindings, NEW commands
    PROVE  LET names == ExtractCommand(event)
               command == CommandFor(commands, names)
               needsBinding == \E c \in command : c.needsBinding
               binding == IF needsBinding THEN BindingFor(bindings, TopicOf(event.place)) ELSE {}
           IN RouteTopicCommand(event, {}, bindings, commands).intent =
                  IF \/ event.kind # "message" \/ (event.command = {} /\ TextIsMalformed(event.text))
                     \/ names = {} \/ command = {} \/ (needsBinding /\ binding = {})
                     \/ NotActive(binding) \/ IsHelp(command)
                  THEN {} ELSE binding
<1> DEFINE names == ExtractCommand(event)
           command == CommandFor(commands, names)
           needsBinding == \E c \in command : c.needsBinding
           binding == IF needsBinding THEN BindingFor(bindings, TopicOf(event.place)) ELSE {}
           cases == <<
               <<{} \cap {"surface", "refs"} # {},                    Ignored("invalid-safe-event")>>,
               <<event.kind # "message",                             Ignored("unsupported-event-kind")>>,
               <<"arguments" \in {} /\ names # {},                    Ignored("invalid-safe-event")>>,
               <<event.command = {} /\ TextIsMalformed(event.text),   Ignored("invalid-safe-event")>>,
               <<names = {},                                         Ignored("missing-command")>>,
               <<command = {},                                       SafeHelp("unknown-command")>>,
               <<needsBinding /\ binding = {},                        SafeHelp("unbound-topic")>>,
               <<NotActive(binding),                                 Ignored("disabled-binding")>>,
               <<IsHelp(command),                                    SafeHelp("safe-help")>>,
               <<TRUE,                     RouteResult("routed", "routed", binding)>> >>
<1>1. RouteTopicCommand(event, {}, bindings, commands) = FirstHolding(cases)
  BY DEF RouteTopicCommand
<1> HIDE DEF names, command, needsBinding, binding
<1>2. /\ cases[1][2].intent = {} /\ cases[2][2].intent = {} /\ cases[3][2].intent = {}
      /\ cases[4][2].intent = {} /\ cases[5][2].intent = {} /\ cases[6][2].intent = {}
      /\ cases[7][2].intent = {} /\ cases[8][2].intent = {} /\ cases[9][2].intent = {}
  BY DEF Ignored, SafeHelp, RouteResult
<1>3. cases[10][2].intent = binding
  BY DEF RouteResult
<1>4. /\ ~cases[1][1] /\ ~cases[3][1]
      /\ cases[2][1] <=> event.kind # "message"
      /\ cases[4][1] <=> (event.command = {} /\ TextIsMalformed(event.text))
      /\ cases[5][1] <=> names = {}
      /\ cases[6][1] <=> command = {}
      /\ cases[7][1] <=> needsBinding /\ binding = {}
      /\ cases[8][1] <=> NotActive(binding)
      /\ cases[9][1] <=> IsHelp(command)
  OBVIOUS
<1>5. DOMAIN cases = 1..10
  OBVIOUS
<1>6. cases[10][1]
  OBVIOUS
<1> HIDE DEF cases
<1>7. FirstHolding(cases).intent =
          IF \/ event.kind # "message" \/ (event.command = {} /\ TextIsMalformed(event.text))
             \/ names = {} \/ command = {} \/ (needsBinding /\ binding = {})
             \/ NotActive(binding) \/ IsHelp(command)
          THEN {} ELSE binding
  BY <1>2, <1>3, <1>4, <1>5, <1>6, FirstOf10
<1> QED
  BY <1>1, <1>7 DEF names, command, needsBinding, binding

\* The binding that the second router sends an event to that it has not seen.
SentTo(event, bindings, commands) ==
    LET names == CommandOfText(event.texts)
        command == CommandFor(commands, names)
        binding == BindingFor(bindings, TopicOf(event.place))
    IN IF \/ event.kind # "message" \/ TextIsMalformed(event.texts)
          \/ names = {} \/ command = {} \/ binding = {} \/ NotActive(binding) \/ IsHelp(command)
       THEN {} ELSE binding

\* What the second router says, of an event it has seen and of another.
LEMMA RouteEventIs ==
    ASSUME NEW event, NEW seen, NEW bindings, NEW commands
    PROVE  /\ RouteEvent(event, seen, bindings, commands).status = "already-processed" <=> event.ref \in seen
           /\ RouteEvent(event, seen, bindings, commands).intent =
                  IF event.ref \in seen THEN {} ELSE SentTo(event, bindings, commands)
<1> DEFINE names == CommandOfText(event.texts)
           command == CommandFor(commands, names)
           binding == BindingFor(bindings, TopicOf(event.place))
           result == RouteEvent(event, seen, bindings, commands)
           cases == <<
               <<event.ref \in seen,            RouteResult("already-processed", "already-processed", {})>>,
               <<event.kind = "callback",       RouteResult("callback-forwarded", "callback-forwarded", {})>>,
               <<event.kind # "message",        Ignored("unsupported-event-kind")>>,
               <<TextIsMalformed(event.texts),  RouteResult("rejected", "malformed-command", {})>>,
               <<names = {},                    Ignored("missing-command")>>,
               <<command = {},                  SafeHelp("unknown-command")>>,
               <<IsHelp(command),               SafeHelp("safe-help")>>,
               <<binding = {},                  SafeHelp("unbound-topic")>>,
               <<NotActive(binding),            Ignored("disabled-binding")>>,
               <<TRUE,                          RouteResult("routed", "routed", binding)>> >>
<1>1. result = FirstHolding(cases)
  BY DEF RouteEvent
<1> HIDE DEF names, command, binding, result
<1>2. /\ cases[1][2].intent = {} /\ cases[2][2].intent = {} /\ cases[3][2].intent = {}
      /\ cases[4][2].intent = {} /\ cases[5][2].intent = {} /\ cases[6][2].intent = {}
      /\ cases[7][2].intent = {} /\ cases[8][2].intent = {} /\ cases[9][2].intent = {}
      /\ cases[10][2].intent = binding
  BY DEF Ignored, SafeHelp, RouteResult
<1>3. /\ cases[1][2].status = "already-processed"
      /\ cases[2][2].status = "callback-forwarded" /\ cases[3][2].status = "ignored"
      /\ cases[4][2].status = "rejected" /\ cases[5][2].status = "ignored"
      /\ cases[6][2].status = "safe-help" /\ cases[7][2].status = "safe-help"
      /\ cases[8][2].status = "safe-help" /\ cases[9][2].status = "ignored"
      /\ cases[10][2].status = "routed"
  BY DEF Ignored, SafeHelp, RouteResult
<1>4. /\ cases[1][1] <=> event.ref \in seen
      /\ cases[2][1] <=> event.kind = "callback"
      /\ cases[3][1] <=> event.kind # "message"
      /\ cases[4][1] <=> TextIsMalformed(event.texts)
      /\ cases[5][1] <=> names = {}
      /\ cases[6][1] <=> command = {}
      /\ cases[7][1] <=> IsHelp(command)
      /\ cases[8][1] <=> binding = {}
      /\ cases[9][1] <=> NotActive(binding)
  OBVIOUS
<1>5. DOMAIN cases = 1..10
  OBVIOUS
<1>6. cases[10][1]
  OBVIOUS
<1> HIDE DEF cases
<1>7. FirstHolding(cases).status = "already-processed" <=> event.ref \in seen
  BY <1>3, <1>4, <1>5, <1>6, FirstOf10
<1>8. FirstHolding(cases).intent =
          IF \/ event.ref \in seen \/ event.kind # "message" \/ TextIsMalformed(event.texts)
             \/ names = {} \/ command = {} \/ binding = {}
             \/ NotActive(binding) \/ IsHelp(command)
          THEN {} ELSE binding
  BY <1>2, <1>4, <1>5, <1>6, FirstOf10
<1> QED
  BY <1>1, <1>7, <1>8 DEF names, command, binding, result, SentTo

\* The first path takes fewer identifiers than the second, and both have the same safe form.
LEMMA PlacesAgree ==
    ASSUME NEW u \in InUpdates, NEW place \in Place(u, [i \in RawIds |-> SourceId(i)])
    PROVE  RoutePlace(u) = {place}
<1>1. ASSUME NEW i, NEW x \in SourceId(i) PROVE RouteId(i) = {x}
  BY <1>1 DEF SourceId, RouteId, Given1
<1> DEFINE raw == UpdateOf[u]
<1>2. /\ raw.channel \in RawIds /\ raw.chat \in RawIds
      /\ raw.thread \in RawIds /\ raw.message \in RawIds
  BY InboundRoutesAssumption
<1> HIDE DEF raw
<1>3. /\ place \in SourceId(raw.channel) \X SourceId(raw.chat) \X SourceId(raw.thread) \X SourceId(raw.message)
      /\ RoutePlace(u)
             = RouteId(raw.channel) \X RouteId(raw.chat) \X RouteId(raw.thread) \X RouteId(raw.message)
  BY <1>2 DEF Place, RoutePlace, raw
<1>4. PICK a \in SourceId(raw.channel), b \in SourceId(raw.chat), c \in SourceId(raw.thread),
           d \in SourceId(raw.message) : place = <<a, b, c, d>>
  BY <1>3
<1>5. RoutePlace(u) = {a} \X {b} \X {c} \X {d}
  BY <1>1, <1>3
<1> QED
  BY <1>4, <1>5

LEMMA WaitingAgrees ==
    ASSUME NEW u \in InUpdates, UpdateOf[u].kind \in SourceKinds, UpdateOf[u].command = NotGiven,
           NEW event \in SourceEvents(u), NEW bindings, NEW commands
    PROVE  PrepareTopicRoute(u, {}, bindings, commands).intent
               = RouteTopicCommand(event, {}, bindings, commands).intent
<1>1. PICK place \in Place(u, [i \in RawIds |-> SourceId(i)]) : event = SourceEvent(u, place)
  BY DEF SourceEvents
<1>2. UpdateOf[u].kind \in DOMAIN RouteKindOf /\ RouteKindOf[UpdateOf[u].kind] = UpdateOf[u].kind
  BY DEF SourceKinds, RouteKindOf
<1> DEFINE other == ProjectEvent(u, place)
<1>3. ProjectedEvents(u) = {other}
  BY <1>2, PlacesAgree DEF ProjectedEvents
<1>4. PrepareTopicRoute(u, {}, bindings, commands) = RouteEvent(other, {}, bindings, commands)
  BY <1>3 DEF PrepareTopicRoute
<1>5. /\ other.kind = UpdateOf[u].kind /\ other.place = place /\ other.texts = TextIntent(u)
      /\ event.kind = UpdateOf[u].kind /\ event.place = place /\ event.text = ProjectText(u)
      /\ event.command = ProjectCommand(u)
  BY <1>1, <1>2 DEF ProjectEvent, SourceEvent
<1> HIDE DEF other
<1>6. CASE UpdateOf[u].kind # "message"
  BY <1>4, <1>5, <1>6, RouteTopicIntent, RouteEventIs DEF SentTo
<1>7. CASE UpdateOf[u].kind = "message"
  <2>1. other.texts = event.text
    BY <1>2, <1>5, <1>7 DEF TextIntent, ProjectText
  <2>2. event.command = CommandOfText(event.text)
    BY <1>5 DEF ProjectCommand, CommandOfText, Given1
  <2>3. ExtractCommand(event) = event.command
    BY <2>2 DEF ExtractCommand, CommandOfText
  <2>4. TextIsMalformed(event.text) => event.command = {}
    BY <1>5, <2>2 DEF TextIsMalformed, CommandOfText, ProjectText, Given1
  <2> DEFINE names == CommandOfText(event.text)
             command == CommandFor(commands, names)
             needsBinding == \E c \in command : c.needsBinding
             bound == BindingFor(bindings, TopicOf(place))
             binding == IF needsBinding THEN bound ELSE {}
  <2>5. RouteTopicCommand(event, {}, bindings, commands).intent =
            IF \/ TextIsMalformed(event.text) \/ names = {} \/ command = {}
               \/ (needsBinding /\ binding = {}) \/ NotActive(binding) \/ IsHelp(command)
            THEN {} ELSE binding
    BY <1>5, <1>7, <2>2, <2>3, <2>4, RouteTopicIntent
  <2>6. RouteEvent(other, {}, bindings, commands).intent =
            IF \/ TextIsMalformed(event.text) \/ names = {} \/ command = {}
               \/ bound = {} \/ NotActive(bound) \/ IsHelp(command)
            THEN {} ELSE bound
    <3>1. RouteEvent(other, {}, bindings, commands).intent = SentTo(other, bindings, commands)
      BY RouteEventIs
    <3>2. other.kind = "message" /\ other.place = place /\ other.texts = event.text
      BY <1>5, <1>7, <2>1
    <3> QED
      BY <3>1, <3>2 DEF SentTo
  <2>7. command # {} /\ ~IsHelp(command) => needsBinding
    BY DEF IsHelp
  <2> HIDE DEF names, command, needsBinding, bound
  <2> QED
    BY <1>4, <2>5, <2>6, <2>7
<1> QED
  BY <1>6, <1>7

\* For any updates, bindings and commands, in whatever order: the two routers of the
\* transport send a waiting text to the same binding, or both to none
\* (topic-command-router-port.ts:415-462, telegram-inbound-topic-route.ts:265-327).
THEOREM RoutersSendAlike == RoutesSpec => []RoutersAgree
<1>1. RoutesInv => RoutersAgree
  BY WaitingAgrees DEF RoutesInv, WaitingIsNormalized, RoutersAgree
<1> QED
  BY <1>1, AlwaysRoutes, PTL

-----------------------------------------------------------------------------
(* Updates and envelopes that come again                                    *)

\* What is acted on once by its refs: one whose ref is in seen, and only such a one, was.
Once(history, seen, refs) ==
    /\ DOMAIN history \subseteq DOMAIN refs
    /\ \A x \in DOMAIN history : refs[x] # {} => history[x].times \in {0, 1}
    /\ \A x \in DOMAIN history : refs[x] # {} /\ history[x].times = 1 => refs[x] \subseteq seen
    /\ \A x, y \in DOMAIN history :
           refs[x] # {} /\ refs[x] = refs[y] /\ history[x].times = 1 /\ history[y].times = 1 => x = y
    /\ \A k \in seen : \E x \in DOMAIN history : refs[x] = {k} /\ history[x].times = 1

\* One whose ref is not seen is acted on; another is only told of.
LEMMA ActsOnce ==
    ASSUME NEW history, NEW seen, NEW refs, NEW x \in DOMAIN refs, NEW result,
           Once(history, seen, refs), refs[x] \cap seen = {}, \A k, l \in refs[x] : k = l
    PROVE  Once(Recorded(history, x, result, TRUE), seen \cup refs[x], refs)
<1> DEFINE next == Recorded(history, x, result, TRUE)
<1>1. /\ DOMAIN next = DOMAIN history \cup {x}
      /\ \A y \in DOMAIN history : y # x => next[y] = history[y]
      /\ next[x].times = Past(history, x).times + 1
  BY DEF Recorded
<1>2. ASSUME refs[x] # {} PROVE Past(history, x).times = 0
  <2>1. ~(x \in DOMAIN history /\ history[x].times = 1)
    BY <1>2 DEF Once
  <2> QED
    BY <1>2, <2>1 DEF Past, Once
<1>3. ASSUME refs[x] # {} PROVE next[x].times = 1
  <2>1. Past(history, x).times = 0
    BY <1>2, <1>3
  <2>2. Past(history, x).times + 1 = 1
    BY <2>1
  <2> QED
    BY <1>1, <2>2
<1> HIDE DEF next
<1>4. DOMAIN next \subseteq DOMAIN refs
  BY <1>1 DEF Once
<1>5. ASSUME NEW y \in DOMAIN next, refs[y] # {} PROVE next[y].times \in {0, 1}
  <2>1. CASE y = x
    BY <1>3, <1>5, <2>1
  <2>2. CASE y # x
    BY <1>1, <1>5, <2>2 DEF Once
  <2> QED
    BY <2>1, <2>2
<1>6. \A y \in DOMAIN next : refs[y] # {} /\ next[y].times = 1 => refs[y] \subseteq seen \cup refs[x]
  BY <1>1 DEF Once
<1>7. \A y \in DOMAIN history : refs[y] # {} /\ refs[y] = refs[x] => history[y].times # 1
  BY DEF Once
<1>8. \A y, z \in DOMAIN next :
          refs[y] # {} /\ refs[y] = refs[z] /\ next[y].times = 1 /\ next[z].times = 1 => y = z
  BY <1>1, <1>7 DEF Once
<1>9. \A k \in seen \cup refs[x] : \E y \in DOMAIN next : refs[y] = {k} /\ next[y].times = 1
  <2>1. ASSUME NEW k \in refs[x] PROVE refs[x] = {k} /\ next[x].times = 1
    BY <1>3, <2>1
  <2>2. ASSUME NEW k \in seen PROVE \E y \in DOMAIN next : refs[y] = {k} /\ next[y].times = 1
    <3>1. PICK y \in DOMAIN history : refs[y] = {k} /\ history[y].times = 1
      BY DEF Once
    <3>2. y # x
      BY <3>1
    <3> QED
      BY <1>1, <3>1, <3>2
  <2> QED
    BY <1>1, <2>1, <2>2
<1> QED
  BY <1>4, <1>5, <1>6, <1>8, <1>9 DEF next, Once

LEMMA TellsOnly ==
    ASSUME NEW history, NEW seen, NEW refs, NEW x \in DOMAIN refs, NEW result, Once(history, seen, refs)
    PROVE  Once(Recorded(history, x, result, FALSE), seen, refs)
<1> DEFINE next == Recorded(history, x, result, FALSE)
<1>1. /\ DOMAIN next = DOMAIN history \cup {x}
      /\ \A y \in DOMAIN history : next[y].times = history[y].times
      /\ x \notin DOMAIN history => next[x].times = 0
  BY DEF Recorded, Past
<1> HIDE DEF next
<1>2. ASSUME NEW y \in DOMAIN next
      PROVE  \/ y \in DOMAIN history /\ next[y].times = history[y].times
             \/ y = x /\ next[y].times = 0
  BY <1>1
<1>3. \A y \in DOMAIN next : refs[y] # {} => next[y].times \in {0, 1}
  BY <1>2 DEF Once
<1>4. \A y \in DOMAIN next : next[y].times = 1 => y \in DOMAIN history /\ history[y].times = 1
  BY <1>2
<1>5. \A k \in seen : \E y \in DOMAIN next : refs[y] = {k} /\ next[y].times = 1
  BY <1>1 DEF Once
<1>6. DOMAIN next \subseteq DOMAIN refs
  BY <1>1 DEF Once
<1> QED
  BY <1>3, <1>4, <1>5, <1>6 DEF next, Once

\* All that have the refs of x.
Alike(history, refs, x) == {y \in DOMAIN history : refs[y] = refs[x]}

LEMMA OneWasActedOn ==
    ASSUME NEW history, NEW seen, NEW refs, Once(history, seen, refs),
           NEW x \in DOMAIN history, NEW k \in seen, refs[x] = {k}
    PROVE  OneActedOn(Alike(history, refs, x), history)
<1> DEFINE same == {y \in DOMAIN history : refs[y] = refs[x]}
<1>1. ASSUME NEW y \in same PROVE history[y].times \in {0, 1}
  <2>1. y \in DOMAIN history /\ refs[y] # {}
    BY <1>1
  <2> QED
    BY <2>1 DEF Once
<1>2. PICK y \in same : history[y].times = 1
  BY DEF Once
<1>3. {z \in same : history[z].times = 1} = {y}
  BY <1>2 DEF Once
<1>4. Cardinality({z \in same : history[z].times = 1}) = 1
  BY <1>3, FS_Singleton
<1>5. \A z \in same : history[z].times <= 1
  BY <1>1
<1> QED
  BY <1>4, <1>5 DEF OneActedOn, Alike

\* The refs of the updates, and what an update is made of, are one, or none.
PrepareRefs == [u \in InUpdates |-> {e.ref : e \in ProjectedEvents(u)}]

LEMMA RouteIdIsOne == \A i : \A a, b \in RouteId(i) : a = b
  BY DEF RouteId, Given1

LEMMA PlaceIsOne == ASSUME NEW u \in InUpdates PROVE \A a, b \in RoutePlace(u) : a = b
<1> DEFINE raw == UpdateOf[u]
<1>1. /\ raw.channel \in RawIds /\ raw.chat \in RawIds
      /\ raw.thread \in RawIds /\ raw.message \in RawIds
  BY InboundRoutesAssumption
<1> HIDE DEF raw
<1>2. RoutePlace(u)
          = RouteId(raw.channel) \X RouteId(raw.chat) \X RouteId(raw.thread) \X RouteId(raw.message)
  BY <1>1 DEF Place, RoutePlace, raw
<1> QED
  BY <1>2, RouteIdIsOne

LEMMA ProjectedIsOne ==
    ASSUME NEW u \in InUpdates, NEW e \in ProjectedEvents(u)
    PROVE  ProjectedEvents(u) = {e} /\ PrepareRefs[u] = {e.ref}
<1>1. \A a, b \in ProjectedEvents(u) : a = b
  BY PlaceIsOne DEF ProjectedEvents
<1> QED
  BY <1>1 DEF PrepareRefs

\* The ref of what an update is made of tells it from every other that is not the same.
LEMMA RefsTellApart ==
    ASSUME NEW u \in InUpdates, NEW v \in InUpdates, ProjectedEvents(u) # {}, ProjectedEvents(v) # {}
    PROVE  PrepareRefs[u] = PrepareRefs[v] <=> SameUpdate(u, v)
<1>1. PICK p \in RoutePlace(u) : ProjectEvent(u, p) \in ProjectedEvents(u)
  BY DEF ProjectedEvents
<1>2. PICK q \in RoutePlace(v) : ProjectEvent(v, q) \in ProjectedEvents(v)
  BY DEF ProjectedEvents
<1>3. /\ PrepareRefs[u] = {IdempotencyRef(u, p)} /\ PrepareRefs[v] = {IdempotencyRef(v, q)}
      /\ RoutePlace(u) = {p} /\ RoutePlace(v) = {q}
  BY <1>1, <1>2, ProjectedIsOne, PlaceIsOne DEF ProjectEvent
<1> DEFINE kindU == RouteKindOf[UpdateOf[u].kind]
           kindV == RouteKindOf[UpdateOf[v].kind]
<1>4. ASSUME NEW i, NEW j, NEW a, NEW b
      PROVE  OptionalRef(RouteId(i), <<a, b>>) = OptionalRef(RouteId(j), <<a, b>>) <=> RouteId(i) = RouteId(j)
  <2>1. CASE RouteId(i) = {} \/ RouteId(j) = {}
    BY <2>1 DEF OptionalRef
  <2>2. CASE RouteId(i) # {} /\ RouteId(j) # {}
    <3>1. PICK x, y : RouteId(i) = {x} /\ RouteId(j) = {y}
      BY <2>2, RouteIdIsOne
    <3> QED
      BY <3>1 DEF OptionalRef
  <2> QED
    BY <2>1, <2>2
<1>5. IdempotencyRef(u, p) = IdempotencyRef(v, q) <=>
          /\ kindU = kindV /\ p = q
          /\ OptionalRef(RouteId(UpdateOf[u].event), <<kindU, p>>)
                 = OptionalRef(RouteId(UpdateOf[v].event), <<kindU, p>>)
          /\ CallbackRef(u, <<kindU, p>>) = CallbackRef(v, <<kindU, p>>)
  BY DEF IdempotencyRef
<1>6. ASSUME kindU = kindV
      PROVE  CallbackRef(u, <<kindU, p>>) = CallbackRef(v, <<kindU, p>>) <=>
                 (kindU = "callback" => RouteId(UpdateOf[u].callback) = RouteId(UpdateOf[v].callback))
  BY <1>4, <1>6 DEF CallbackRef
<1> QED
  BY <1>3, <1>4, <1>5, <1>6 DEF SameUpdate

-----------------------------------------------------------------------------
(* Updates that are prepared                                                *)

\* What the second path said to have taken, or to know, has its ref remembered.
PreparedSaid ==
    \A u \in DOMAIN prepared : \A r \in prepared[u].said : Settled(r) =>
        ProjectedEvents(u) # {} /\ PrepareRefs[u] \subseteq seenRefs

PrepareInv == Once(prepared, seenRefs, PrepareRefs) /\ PreparedSaid

LEMMA PrepareKeeps == ASSUME PrepareInv, NEW u \in InUpdates, PrepareRoute(u) PROVE PrepareInv'
<1> DEFINE result == PrepareTopicRoute(u, seenRefs, routeBindings, routeCommands)
           taken == result.status \in {"routed", "callback-forwarded"}
<1>1. /\ prepared' = Recorded(prepared, u, result, taken)
      /\ seenRefs' = seenRefs \cup {e.ref : e \in {p \in ProjectedEvents(u) : taken}}
  BY DEF PrepareRoute
<1>2. u \in DOMAIN PrepareRefs
  BY DEF PrepareRefs
<1>3. CASE ProjectedEvents(u) = {}
  <2>1. result.status = "rejected"
    BY <1>3 DEF PrepareTopicRoute, Rejected, RouteResult
  <2>2. ~Settled(result)
    BY <2>1 DEF Settled
  <2> HIDE DEF result
  <2>3. prepared' = Recorded(prepared, u, result, FALSE)
    BY <1>1, <2>1 DEF Recorded
  <2>4. seenRefs' = seenRefs
    BY <1>1, <1>3
  <2>5. Once(prepared', seenRefs', PrepareRefs)
    BY <1>2, <2>3, <2>4, TellsOnly DEF PrepareInv
  <2>6. PreparedSaid'
    BY <2>2, <2>3, <2>4 DEF PrepareInv, PreparedSaid, Recorded, Past, PrepareRefs
  <2> QED
    BY <2>5, <2>6 DEF PrepareInv, Once
<1>4. CASE ProjectedEvents(u) # {}
  <2> DEFINE event == CHOOSE e \in ProjectedEvents(u) : TRUE
  <2>1. event \in ProjectedEvents(u) /\ result = RouteEvent(event, seenRefs, routeBindings, routeCommands)
    BY <1>4 DEF PrepareTopicRoute
  <2> HIDE DEF event, result
  <2>2. result.status = "already-processed" <=> event.ref \in seenRefs
    BY <2>1, RouteEventIs
  <2>3. ProjectedEvents(u) = {event} /\ PrepareRefs[u] = {event.ref}
    BY <2>1, ProjectedIsOne
  <2>4. CASE taken
    <3>1. prepared' = Recorded(prepared, u, result, TRUE) /\ seenRefs' = seenRefs \cup PrepareRefs[u]
      BY <1>1, <2>3, <2>4 DEF Recorded
    <3>2. PrepareRefs[u] \cap seenRefs = {} /\ \A k, l \in PrepareRefs[u] : k = l
      BY <2>2, <2>3, <2>4
    <3>3. Once(prepared', seenRefs', PrepareRefs)
      BY <1>2, <3>1, <3>2, ActsOnce DEF PrepareInv
    <3>4. PreparedSaid'
      BY <1>4, <3>1 DEF PrepareInv, PreparedSaid, Recorded, Past
    <3> QED
      BY <3>3, <3>4 DEF PrepareInv, Once
  <2>5. CASE ~taken
    <3>1. prepared' = Recorded(prepared, u, result, FALSE) /\ seenRefs' = seenRefs
      BY <1>1, <2>5 DEF Recorded
    <3>2. Settled(result) => PrepareRefs[u] \subseteq seenRefs
      BY <2>2, <2>3, <2>5 DEF Settled
    <3>3. Once(prepared', seenRefs', PrepareRefs)
      BY <1>2, <3>1, TellsOnly DEF PrepareInv
    <3>4. PreparedSaid'
      BY <1>4, <3>1, <3>2 DEF PrepareInv, PreparedSaid, Recorded, Past
    <3> QED
      BY <3>3, <3>4 DEF PrepareInv, Once
  <2> QED
    BY <2>4, <2>5
<1> QED
  BY <1>3, <1>4

LEMMA PreparedOnce ==
    ASSUME PrepareInv, NEW u \in DOMAIN prepared, NEW r \in prepared[u].said, Settled(r)
    PROVE  OneActedOn({v \in DOMAIN prepared : ProjectedEvents(v) # {} /\ SameUpdate(u, v)}, prepared)
<1>1. DOMAIN prepared \subseteq InUpdates
  BY DEF PrepareInv, Once, PrepareRefs
<1>2. ProjectedEvents(u) # {} /\ PrepareRefs[u] \subseteq seenRefs
  BY DEF PrepareInv, PreparedSaid
<1>3. PICK e \in ProjectedEvents(u) : PrepareRefs[u] = {e.ref}
  BY <1>1, <1>2, ProjectedIsOne
<1>4. \A v \in DOMAIN prepared :
          PrepareRefs[v] = PrepareRefs[u] <=> ProjectedEvents(v) # {} /\ SameUpdate(u, v)
  <2> SUFFICES ASSUME NEW v \in DOMAIN prepared
               PROVE  PrepareRefs[v] = PrepareRefs[u] <=> ProjectedEvents(v) # {} /\ SameUpdate(u, v)
    OBVIOUS
  <2>1. CASE ProjectedEvents(v) = {}
    <3>1. PrepareRefs[v] = {}
      BY <1>1, <2>1 DEF PrepareRefs
    <3> QED
      BY <1>3, <2>1, <3>1
  <2>2. CASE ProjectedEvents(v) # {}
    BY <1>1, <1>2, <2>2, RefsTellApart
  <2> QED
    BY <2>1, <2>2
<1>5. OneActedOn(Alike(prepared, PrepareRefs, u), prepared)
  <2>1. e.ref \in seenRefs /\ Once(prepared, seenRefs, PrepareRefs)
    BY <1>2, <1>3 DEF PrepareInv
  <2> QED
    BY <1>3, <2>1, OneWasActedOn
<1>6. Alike(prepared, PrepareRefs, u)
          = {v \in DOMAIN prepared : ProjectedEvents(v) # {} /\ SameUpdate(u, v)}
  BY <1>4 DEF Alike
<1> QED
  BY <1>5, <1>6

-----------------------------------------------------------------------------
(* Envelopes that are dispatched                                            *)

\* A refused event is mapped to a failure.
LEMMA RefusalIsNamed ==
    ASSUME NEW event, NEW binding PROVE RoutingFailure(event, binding) # "ok"
<1> DEFINE cases == <<
        <<event.topic = {},   "invalid-input">>,
        <<binding = {},       "dependency-missing">>,
        <<NotActive(binding), "conflict">>,
        <<\E b \in binding, t \in event.topic : BoundElsewhere(b, t), "conflict">>,
        <<\E b \in binding : ~RouteBindingOf[b].safe, "invalid-input">>,
        <<TRUE,               "none">> >>
<1>1. RoutingFailure(event, binding) = FirstHolding(cases)
  BY DEF RoutingFailure
<1>2. /\ cases[1][2] # "ok" /\ cases[2][2] # "ok" /\ cases[3][2] # "ok"
      /\ cases[4][2] # "ok" /\ cases[5][2] # "ok" /\ cases[6][2] # "ok"
  OBVIOUS
<1>3. DOMAIN cases = 1..6
  OBVIOUS
<1>4. cases[6][1]
  OBVIOUS
<1> HIDE DEF cases
<1> QED
  BY <1>1, <1>2, <1>3, <1>4, FirstOf6

\* What is mapped has the keys of its event; a failure has none.
LEMMA MappedKeys ==
    ASSUME NEW event, NEW binding
    PROVE  \/ /\ MapInboundEvent(event, binding).code = "ok"
              /\ MapInboundEvent(event, binding).keys = KeysOf(event)
           \/ /\ MapInboundEvent(event, binding).code # "ok"
              /\ MapInboundEvent(event, binding).keys = {}
<1> DEFINE refused == RoutingFailure(event, binding)
           Says(result) == \/ result.code = "ok" /\ result.keys = KeysOf(event)
                           \/ result.code # "ok" /\ result.keys = {}
           cases == <<
               <<refused # "none",        MapFailure(refused)>>,
               <<~event.content,          MapFailure("invalid-input")>>,
               <<~ExternalMatches(event), MapFailure("invalid-input")>>,
               <<TRUE,                    Mapped("ok", FALSE, KeysOf(event))>> >>
<1>1. MapInboundEvent(event, binding) = FirstHolding(cases)
  BY DEF MapInboundEvent
<1>2. Says(MapFailure(refused)) /\ Says(MapFailure("invalid-input")) /\ Says(Mapped("ok", FALSE, KeysOf(event)))
  BY RefusalIsNamed DEF MapFailure, Mapped
<1> HIDE DEF Says, refused
<1>3. Says(cases[1][2]) /\ Says(cases[2][2]) /\ Says(cases[3][2]) /\ Says(cases[4][2])
  BY <1>2
<1>4. DOMAIN cases = 1..4
  OBVIOUS
<1>5. cases[4][1]
  OBVIOUS
<1> HIDE DEF cases
<1>6. Says(FirstHolding(cases))
  BY <1>3, <1>4, <1>5, FirstOf4
<1> QED
  BY <1>1, <1>6 DEF Says

\* The keys of a message and of a callback of an envelope.
EnvelopeKey(e) ==
    IF EnvelopeOf[e].kind = "message"
    THEN {<<"inbound-message", Append(t, m)>> : t \in TopicRefs(e), m \in SafeId(EnvelopeOf[e].message)}
    ELSE IF EnvelopeOf[e].kind = "callback"
    THEN {<<"callback", t, c>> : t \in TopicRefs(e), c \in SafeId(EnvelopeOf[e].callback)}
    ELSE {}
EnvelopeKeys == [e \in Envelopes |-> EnvelopeKey(e)]

\* What names an envelope is one, or none.
LEMMA SafeIdIsOne == \A places : \A a, b \in SafeId(places) : a = b
<1>1. \A places : \A a, b \in FirstGiven(places) : a = b
  BY DEF FirstGiven, FirstIn
<1> QED
  BY <1>1 DEF SafeId

LEMMA TopicIsOne == \A e : \A a, b \in TopicRefs(e) : a = b
<1>1. ASSUME NEW A, NEW B, NEW C, \A a, b \in A : a = b, \A a, b \in B : a = b, \A a, b \in C : a = b,
             NEW t \in A \X B \X C, NEW s \in A \X B \X C
      PROVE  t = s
  BY <1>1
<1> QED
  BY <1>1, SafeIdIsOne DEF TopicRefs

\* A message of a topic is told from every other.
LEMMA AppendedApart ==
    ASSUME NEW e, NEW f, NEW t \in TopicRefs(e), NEW s \in TopicRefs(f), NEW m, NEW n
    PROVE  Append(s, n) = Append(t, m) <=> s = t /\ n = m
<1>1. PICK a, b, c : t = <<a, b, c>>
  BY DEF TopicRefs
<1>2. PICK p, q, r : s = <<p, q, r>>
  BY DEF TopicRefs
<1> DEFINE S == {a, b, c, m, p, q, r, n}
<1>3. t \in Seq(S) /\ Len(t) = 3 /\ s \in Seq(S) /\ Len(s) = 3 /\ m \in S /\ n \in S
  BY <1>1, <1>2
<1> HIDE DEF S
<1>4. ASSUME NEW z \in Seq(S), Len(z) = 3, NEW x \in S
      PROVE  (\A i \in 1..3 : Append(z, x)[i] = z[i]) /\ Append(z, x)[4] = x
  <2>1. (\A i \in 1..Len(z) : Append(z, x)[i] = z[i]) /\ Append(z, x)[Len(z) + 1] = x
    BY AppendProperties
  <2>2. 1..Len(z) = 1..3 /\ Len(z) + 1 = 4
    BY <1>4
  <2> QED
    BY <2>1, <2>2
<1>5. /\ \A i \in 1..3 : Append(t, m)[i] = t[i] /\ Append(s, n)[i] = s[i]
      /\ Append(t, m)[4] = m /\ Append(s, n)[4] = n
  BY <1>3, <1>4
<1>6. t = s <=> \A i \in 1..3 : t[i] = s[i]
  BY <1>1, <1>2
<1> QED
  BY <1>5, <1>6

LEMMA MessageOfEnvelope ==
    ASSUME NEW e, NEW event \in MessageEvents(e)
    PROVE  \E t, m : /\ TopicRefs(e) = {t} /\ SafeId(EnvelopeOf[e].message) = {m}
                     /\ event.kind = "message" /\ event.external = ExternalRefs(t, {m})
<1>1. PICK t \in TopicRefs(e), m \in SafeId(EnvelopeOf[e].message) :
          event.kind = "message" /\ event.external = ExternalRefs(t, {m})
  BY DEF MessageEvents
<1>2. TopicRefs(e) = {t} /\ SafeId(EnvelopeOf[e].message) = {m}
  BY TopicIsOne, SafeIdIsOne
<1> QED
  BY <1>1, <1>2

LEMMA KeysOfEnvelope ==
    ASSUME NEW e \in Envelopes, NEW event \in AdaptEnvelope(e)
    PROVE  KeysOf(event) = EnvelopeKeys[e] /\ \A k, l \in EnvelopeKeys[e] : k = l
<1>1. CASE EnvelopeOf[e].kind = "message"
  <2>1. event \in MessageEvents(e)
    BY <1>1 DEF AdaptEnvelope
  <2>2. PICK t, m : /\ TopicRefs(e) = {t} /\ SafeId(EnvelopeOf[e].message) = {m}
                    /\ event.kind = "message" /\ event.external = ExternalRefs(t, {m})
    BY <2>1, MessageOfEnvelope
  <2>3. KeysOf(event) = {<<"inbound-message", Append(t, m)>>}
    BY <2>2 DEF KeysOf, MessageKeys, ExternalRefs
  <2>4. EnvelopeKeys[e] = {<<"inbound-message", Append(a, b)>> : a \in {t}, b \in {m}}
    BY <1>1, <2>2 DEF EnvelopeKeys, EnvelopeKey
  <2>5. EnvelopeKeys[e] = {<<"inbound-message", Append(t, m)>>}
    BY <2>4
  <2> QED
    BY <2>3, <2>5
<1>2. CASE EnvelopeOf[e].kind = "callback"
  <2>1. event \in CallbackEvents(e)
    BY <1>2 DEF AdaptEnvelope
  <2>2. PICK t \in TopicRefs(e), c \in SafeId(EnvelopeOf[e].callback) :
            event.kind = "callback" /\ event.topic = {t} /\ event.callback = {c}
    BY <2>1 DEF CallbackEvents
  <2>3. TopicRefs(e) = {t} /\ SafeId(EnvelopeOf[e].callback) = {c}
    BY TopicIsOne, SafeIdIsOne
  <2>4. KeysOf(event) = {<<"callback", t, c>>}
    BY <2>2 DEF KeysOf, CallbackKeys
  <2> QED
    BY <1>2, <2>3, <2>4 DEF EnvelopeKeys, EnvelopeKey
<1>3. CASE EnvelopeOf[e].kind \notin {"message", "callback"}
  <2>1. event \in SystemEvents(e)
    BY <1>3 DEF AdaptEnvelope
  <2>2. event.kind = "system"
    BY <2>1 DEF SystemEvents
  <2>3. KeysOf(event) = {}
    BY <2>2 DEF KeysOf
  <2> QED
    BY <1>3, <2>3 DEF EnvelopeKeys, EnvelopeKey
<1> QED
  BY <1>1, <1>2, <1>3

\* The key of an envelope tells it from every other that is not the same.
LEMMA KeysTellApart ==
    ASSUME NEW e \in Envelopes, NEW f \in Envelopes, AdaptEnvelope(e) # {}, AdaptEnvelope(f) # {},
           EnvelopeKeys[e] # {}
    PROVE  EnvelopeKeys[f] = EnvelopeKeys[e] <=> SameEnvelope(e, f)
<1>1. ASSUME NEW x \in {e, f}
      PROVE  /\ EnvelopeOf[x].kind \in {"message", "callback", "system"}
             /\ \E t : TopicRefs(x) = {t}
             /\ EnvelopeOf[x].kind = "message" => \E m : SafeId(EnvelopeOf[x].message) = {m}
             /\ EnvelopeOf[x].kind = "callback" => \E c : SafeId(EnvelopeOf[x].callback) = {c}
  <2>1. PICK event \in AdaptEnvelope(x) : TRUE
    BY <1>1
  <2>2. CASE EnvelopeOf[x].kind = "message"
    <3>1. event \in MessageEvents(x)
      BY <2>1, <2>2 DEF AdaptEnvelope
    <3> QED
      BY <2>2, <3>1, MessageOfEnvelope
  <2>3. CASE EnvelopeOf[x].kind = "callback"
    <3>1. event \in CallbackEvents(x)
      BY <2>1, <2>3 DEF AdaptEnvelope
    <3>2. PICK t \in TopicRefs(x), c \in SafeId(EnvelopeOf[x].callback) : TRUE
      BY <3>1 DEF CallbackEvents
    <3>3. TopicRefs(x) = {t} /\ SafeId(EnvelopeOf[x].callback) = {c}
      BY <3>2, TopicIsOne, SafeIdIsOne
    <3> QED
      BY <2>3, <3>3
  <2>4. CASE EnvelopeOf[x].kind \notin {"message", "callback"}
    <3>1. EnvelopeOf[x].kind = "system" /\ event \in SystemEvents(x)
      BY <2>1, <2>4 DEF AdaptEnvelope
    <3>2. PICK t \in TopicRefs(x) : TRUE
      BY <3>1 DEF SystemEvents
    <3> QED
      BY <3>1, <3>2, TopicIsOne
  <2> QED
    BY <2>2, <2>3, <2>4
<1>2. EnvelopeKeys[e] = EnvelopeKey(e) /\ EnvelopeKeys[f] = EnvelopeKey(f)
  BY DEF EnvelopeKeys
<1>3. /\ \A x, y : {x} = {y} <=> x = y
      /\ \A x, y : <<"inbound-message", x>> = <<"inbound-message", y>> <=> x = y
      /\ \A x, y, z, w : <<"callback", x, y>> = <<"callback", z, w>> <=> x = z /\ y = w
  OBVIOUS
<1>4. CASE EnvelopeOf[e].kind = "message"
  <2>1. PICK t, m : TopicRefs(e) = {t} /\ SafeId(EnvelopeOf[e].message) = {m}
    BY <1>1, <1>4
  <2>2. EnvelopeKey(e) = {<<"inbound-message", Append(t, m)>>}
    BY <1>4, <2>1 DEF EnvelopeKey
  <2>3. CASE EnvelopeOf[f].kind = "message"
    <3>1. PICK s, n : TopicRefs(f) = {s} /\ SafeId(EnvelopeOf[f].message) = {n}
      BY <1>1, <2>3
    <3>2. EnvelopeKey(f) = {<<"inbound-message", Append(s, n)>>}
      BY <2>3, <3>1 DEF EnvelopeKey
    <3>3. Append(s, n) = Append(t, m) <=> s = t /\ n = m
      <4>1. t \in TopicRefs(e) /\ s \in TopicRefs(f)
        BY <2>1, <3>1
      <4> QED
        BY <4>1, AppendedApart
    <3>4. EnvelopeKey(f) = EnvelopeKey(e) <=> Append(s, n) = Append(t, m)
      <4>1. EnvelopeKey(f) = EnvelopeKey(e)
                <=> <<"inbound-message", Append(s, n)>> = <<"inbound-message", Append(t, m)>>
        <5> DEFINE k == <<"inbound-message", Append(s, n)>>
                   l == <<"inbound-message", Append(t, m)>>
        <5>1. EnvelopeKey(f) = {k} /\ EnvelopeKey(e) = {l}
          BY <2>2, <3>2
        <5> HIDE DEF k, l
        <5>2. EnvelopeKey(f) = EnvelopeKey(e) <=> k = l
          BY <5>1
        <5> QED
          BY <5>2 DEF k, l
      <4> QED
        BY <1>3, <4>1
    <3>5. SameEnvelope(e, f) <=> s = t /\ n = m
      BY <1>4, <2>1, <2>3, <3>1 DEF SameEnvelope
    <3> QED
      BY <1>2, <3>3, <3>4, <3>5
  <2>4. CASE EnvelopeOf[f].kind # "message"
    <3>1. <<"inbound-message", Append(t, m)>> \notin EnvelopeKey(f)
      BY <2>4 DEF EnvelopeKey
    <3> QED
      BY <1>2, <2>2, <1>4, <2>4, <3>1 DEF SameEnvelope
  <2> QED
    BY <2>3, <2>4
<1>5. CASE EnvelopeOf[e].kind = "callback"
  <2>1. PICK t, c : TopicRefs(e) = {t} /\ SafeId(EnvelopeOf[e].callback) = {c}
    BY <1>1, <1>5
  <2>2. EnvelopeKey(e) = {<<"callback", t, c>>}
    BY <1>5, <2>1 DEF EnvelopeKey
  <2>3. CASE EnvelopeOf[f].kind = "callback"
    <3>1. PICK s, d : TopicRefs(f) = {s} /\ SafeId(EnvelopeOf[f].callback) = {d}
      BY <1>1, <2>3
    <3>2. EnvelopeKey(f) = {<<"callback", s, d>>}
      BY <2>3, <3>1 DEF EnvelopeKey
    <3>3. EnvelopeKey(f) = EnvelopeKey(e) <=> s = t /\ d = c
      <4>1. EnvelopeKey(f) = EnvelopeKey(e) <=> <<"callback", s, d>> = <<"callback", t, c>>
        BY <1>3, <2>2, <3>2
      <4> QED
        BY <1>3, <4>1
    <3>4. SameEnvelope(e, f) <=> s = t /\ d = c
      BY <1>5, <2>1, <2>3, <3>1 DEF SameEnvelope
    <3> QED
      BY <1>2, <3>3, <3>4
  <2>4. CASE EnvelopeOf[f].kind # "callback"
    <3>1. <<"callback", t, c>> \notin EnvelopeKey(f)
      BY <2>4 DEF EnvelopeKey
    <3> QED
      BY <1>2, <2>2, <1>5, <2>4, <3>1 DEF SameEnvelope
  <2> QED
    BY <2>3, <2>4
<1>6. CASE EnvelopeOf[e].kind \notin {"message", "callback"}
  BY <1>2, <1>6 DEF EnvelopeKey
<1> QED
  BY <1>4, <1>5, <1>6

\* The keys that were told.
KeysSaid(history) == UNION {UNION {r.keys : r \in history[y].said} : y \in DOMAIN history}

\* What is said of x is said besides what was said before.
LEMMA RecordedSays ==
    ASSUME NEW history, NEW x, NEW result, NEW acts
    PROVE  KeysSaid(Recorded(history, x, result, acts)) = KeysSaid(history) \cup result.keys
<1> DEFINE next == Recorded(history, x, result, acts)
<1>1. /\ DOMAIN next = DOMAIN history \cup {x}
      /\ \A y \in DOMAIN history : y # x => next[y].said = history[y].said
      /\ next[x].said = (IF x \in DOMAIN history THEN history[x].said ELSE {}) \cup {result}
  BY DEF Recorded, Past
<1> HIDE DEF next
<1>2. ASSUME NEW k
      PROVE  (\E y \in DOMAIN next : \E r \in next[y].said : k \in r.keys)
                 <=> (\E y \in DOMAIN history : \E r \in history[y].said : k \in r.keys) \/ k \in result.keys
  BY <1>1
<1>3. \A h, k : k \in KeysSaid(h) <=> \E y \in DOMAIN h : \E r \in h[y].said : k \in r.keys
  BY DEF KeysSaid
<1>4. \A k : k \in KeysSaid(next) <=> k \in KeysSaid(history) \cup result.keys
  BY <1>2, <1>3
<1> QED
  BY <1>4 DEF next

\* What is dispatched comes from an envelope that is sound, with its key or with none.
DispatchedSaid ==
    \A e \in DOMAIN dispatched :
        /\ AdaptEnvelope(e) # {}
        /\ \A r \in dispatched[e].said : r.keys = {} \/ r.keys = EnvelopeKeys[e]

DispatchInv == Once(dispatched, DispatchedKeys, EnvelopeKeys) /\ DispatchedSaid

LEMMA MapKeeps ==
    ASSUME DispatchInv, NEW e \in Envelopes, NEW binding, MapEnvelope(e, binding) PROVE DispatchInv'
<1>1. PICK event \in AdaptEnvelope(e) :
          LET result == MapInboundEvent(event, binding)
          IN dispatched' = Recorded(dispatched, e, result,
                                    result.code = "ok" /\ result.keys \cap DispatchedKeys = {})
  BY DEF MapEnvelope
<1> DEFINE result == MapInboundEvent(event, binding)
           acts == result.code = "ok" /\ result.keys \cap DispatchedKeys = {}
<1>2. dispatched' = Recorded(dispatched, e, result, acts)
  BY <1>1
<1>3. /\ result.keys = {} \/ result.keys = EnvelopeKeys[e]
      /\ IF result.code = "ok" THEN result.keys = EnvelopeKeys[e] ELSE result.keys = {}
      /\ \A k, l \in EnvelopeKeys[e] : k = l
  BY MappedKeys, KeysOfEnvelope
<1>4. e \in DOMAIN EnvelopeKeys
  BY DEF EnvelopeKeys
<1> HIDE DEF result
<1>5. DispatchedKeys' = DispatchedKeys \cup result.keys
  <2> HIDE DEF acts
  <2>1. KeysSaid(dispatched') = KeysSaid(dispatched) \cup result.keys
    BY <1>2, RecordedSays
  <2> QED
    BY <2>1 DEF KeysSaid, DispatchedKeys
<1>6. DispatchedSaid'
  BY <1>2, <1>3 DEF DispatchInv, DispatchedSaid, Recorded, Past
<1>7. CASE acts
  <2>1. dispatched' = Recorded(dispatched, e, result, TRUE)
    BY <1>2, <1>7 DEF Recorded
  <2>2. Once(dispatched', DispatchedKeys', EnvelopeKeys)
    BY <1>3, <1>4, <1>5, <1>7, <2>1, ActsOnce DEF DispatchInv
  <2> QED
    BY <1>6, <2>2 DEF DispatchInv, Once
<1>8. CASE ~acts
  <2>1. dispatched' = Recorded(dispatched, e, result, FALSE)
    BY <1>2, <1>8 DEF Recorded
  <2>2. result.keys \subseteq DispatchedKeys
    BY <1>3, <1>8
  <2>3. Once(dispatched', DispatchedKeys', EnvelopeKeys)
    BY <1>4, <1>5, <2>1, <2>2, TellsOnly DEF DispatchInv
  <2> QED
    BY <1>6, <2>3 DEF DispatchInv, Once
<1> QED
  BY <1>7, <1>8

LEMMA DispatchedOnce ==
    ASSUME DispatchInv, NEW e \in DOMAIN dispatched, NEW r \in dispatched[e].said, r.keys # {}
    PROVE  OneActedOn({f \in DOMAIN dispatched : SameEnvelope(e, f)}, dispatched)
<1>1. DOMAIN dispatched \subseteq Envelopes
  BY DEF DispatchInv, Once, EnvelopeKeys
<1>2. r.keys = EnvelopeKeys[e] /\ r.keys \subseteq DispatchedKeys
  BY DEF DispatchInv, DispatchedSaid, DispatchedKeys
<1>3. PICK k \in EnvelopeKeys[e] : EnvelopeKeys[e] = {k}
  <2>1. PICK event \in AdaptEnvelope(e) : TRUE
    BY DEF DispatchInv, DispatchedSaid
  <2>2. \A k, l \in EnvelopeKeys[e] : k = l
    BY <1>1, <2>1, KeysOfEnvelope
  <2> QED
    BY <1>2, <2>2
<1>4. \A f \in DOMAIN dispatched : EnvelopeKeys[f] = EnvelopeKeys[e] <=> SameEnvelope(e, f)
  BY <1>1, <1>2, KeysTellApart DEF DispatchInv, DispatchedSaid
<1>5. OneActedOn(Alike(dispatched, EnvelopeKeys, e), dispatched)
  <2>1. k \in DispatchedKeys /\ Once(dispatched, DispatchedKeys, EnvelopeKeys)
    BY <1>2, <1>3 DEF DispatchInv
  <2> QED
    BY <1>3, <2>1, OneWasActedOn
<1>6. Alike(dispatched, EnvelopeKeys, e) = {f \in DOMAIN dispatched : SameEnvelope(e, f)}
  BY <1>4 DEF Alike
<1> QED
  BY <1>5, <1>6

ComesAgainInv == PrepareInv /\ DispatchInv

LEMMA ComesAgainInductive == ComesAgainInv /\ [RoutesNext]_routeVars => ComesAgainInv'
<1> SUFFICES ASSUME ComesAgainInv, [RoutesNext]_routeVars PROVE ComesAgainInv'
  OBVIOUS
<1>1. PrepareInv'
  <2>1. CASE UNCHANGED <<prepared, seenRefs>>
    BY <2>1 DEF ComesAgainInv, PrepareInv, PreparedSaid, Once
  <2>2. CASE ~UNCHANGED <<prepared, seenRefs>>
    <3>1. PrepareNext(InUpdates)
      BY <2>2 DEF RoutesNext, routeVars, ChangeBindings, SourceNext, ChangeConfig, HandOver, RouteWaiting,
                  MapNext, MapEnvelope
    <3> QED
      BY <3>1, PrepareKeeps DEF ComesAgainInv, PrepareNext
  <2> QED
    BY <2>1, <2>2
<1>2. DispatchInv'
  <2>1. CASE UNCHANGED dispatched
    BY <2>1 DEF ComesAgainInv, DispatchInv, DispatchedSaid, DispatchedKeys, Once
  <2>2. CASE ~UNCHANGED dispatched
    <3>1. MapNext(Envelopes)
      BY <2>2 DEF RoutesNext, routeVars, ChangeBindings, SourceNext, ChangeConfig, HandOver, RouteWaiting,
                  PrepareNext, PrepareRoute
    <3> QED
      BY <3>1, MapKeeps DEF ComesAgainInv, MapNext
  <2> QED
    BY <2>1, <2>2
<1> QED
  BY <1>1, <1>2 DEF ComesAgainInv

\* For any updates, envelopes, bindings and commands, however often they come and in
\* whatever order: of all that are the same message or callback, one is acted on once any
\* is told to be taken or known (safe-channel-event.ts:352-361,
\* telegram-inbound-topic-route.ts:265-327, inbound-mapper.ts:427-519).
THEOREM OneOfTheSame == RoutesSpec => []ActedOnOnce
<1>1. RoutesInit => ComesAgainInv
  BY DEF RoutesInit, ComesAgainInv, PrepareInv, DispatchInv, PreparedSaid, DispatchedSaid, DispatchedKeys, Once
<1>2. ComesAgainInv => ActedOnOnce
  BY PreparedOnce, DispatchedOnce DEF ComesAgainInv, ActedOnOnce
<1> QED
  BY <1>1, <1>2, ComesAgainInductive, PTL DEF RoutesSpec
=============================================================================
