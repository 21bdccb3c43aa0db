----------------------------- MODULE HostCommands -----------------------------
(***************************************************************************)
(* How a mapped event becomes a call of the core or of the runtime:         *)
(* command-descriptors.ts, command-intent.ts, command-facade.ts, the host   *)
(* that wraps them (core-host-factory.ts, host-command-facade.ts), and the  *)
(* runtime bridges, runtime-bridge.ts and openclaw-runtime-bridge.ts, with  *)
(* fake-runtime.ts.                                                         *)
(*                                                                          *)
(* None of them keeps anything.  A host gives an event, or a dispatch,      *)
(* again only when it was told that it may.  Names stand for themselves in  *)
(* lower case and without their slash; flaws are the parts of an input that *)
(* do not normalize; an optional thing is a set of one or none.  An         *)
(* operator marked "Faulty" is a variant with a bug, used by no             *)
(* specification.                                                           *)
(***************************************************************************)
EXTENDS Naturals, Sequences, FiniteSets

CONSTANTS
    CommandEvents,      \* the mapped events, and the intents a host makes itself
    EventOf,            \* bound: what each of them is
    CommandSets,        \* bound: the sets of descriptors that a host offers
    LongNames,          \* command names of more than 32 characters
    DispatchRefs,       \* the dispatches that a host asks the runtime for
    MaxCommands,        \* the commands a set may have: 64
    MaxAliases,         \* the aliases a command may have
    MaxGiven            \* bound: how often an event or a dispatch is given

HostActionTarget == "host-action"
UserIntentTarget == "user-intent"
EventKinds == {"message", "command", "callback", "system", HostActionTarget, UserIntentTarget}

ASSUME HostCommandsAssumption ==
    /\ MaxCommands \in Nat /\ MaxAliases \in Nat /\ MaxGiven \in Nat
    /\ \A e \in CommandEvents : EventOf[e].kind \in EventKinds

-----------------------------------------------------------------------------
(* command-descriptors.ts                                                   *)

DescriptorFlaws == {"field", "title", "scope", "visibility", "permission"}

Aliases(d) == {d.aliases[i] : i \in DOMAIN d.aliases}
LookupNames(d) == {d.name} \cup Aliases(d)

AliasesAccepted(d) ==
    /\ Len(d.aliases) <= MaxAliases
    /\ Cardinality(LookupNames(d)) = 1 + Len(d.aliases)

DescriptorAccepted(d) ==
    /\ d.flaws \cap DescriptorFlaws = {}
    /\ LookupNames(d) \cap LongNames = {}
    /\ AliasesAccepted(d)

LookupNamesAreUnique(commands) ==
    \A i, j \in DOMAIN commands : i # j => LookupNames(commands[i]) \cap LookupNames(commands[j]) = {}

SetAccepted(set) ==
    /\ Len(set.commands) \in 1 .. MaxCommands
    /\ \A i \in DOMAIN set.commands : DescriptorAccepted(set.commands[i])
    /\ LookupNamesAreUnique(set.commands)
    /\ set.default \subseteq UNION {LookupNames(set.commands[i]) : i \in DOMAIN set.commands}

\* The descriptors that a name finds; the first one is taken.
FindDescriptor(set, name) == {i \in DOMAIN set.commands : name \in LookupNames(set.commands[i])}

-----------------------------------------------------------------------------
(* command-intent.ts                                                        *)

CommandAnswer(code, retryable, status) == [code |-> code, retryable |-> retryable, status |-> status]
Unstated(code)   == CommandAnswer(code, "unstated", "none")
NotAnswered      == Unstated("none")
AwaitsCore       == Unstated("waiting")

\* safeFailure: the composition says of each failure whether it may be retried.
ComposeRefusal(code) == CommandAnswer(code, IF code = "dependency-missing" THEN "yes" ELSE "no", "none")

\* A slash makes a command of a text, when its name is one; a text or a name that cannot be
\* taken is refused.
ParsesAsCommand(e) == e.kind = "command"
TextIsRefused(e)   == e.kind \in {"message", "command"} /\ e.flaws \cap {"text", "name"} # {}

\* Attachments become argument refs by their details, which two of them may share.
ArgumentFlaws(e) == e.flaws \cap {"attachments"}

\* A callback is named by the resource and by the permission requirement.
ResourceFlaws(e) == IF e.kind = "callback" THEN e.flaws \cap {"resource"} ELSE {}

IntentOf(e, target, name) ==
    [target |-> target, name |-> name, flaws |-> ArgumentFlaws(e) \cup ResourceFlaws(e)]

ComposeMessage(e, set) ==
    IF TextIsRefused(e) THEN [refusal |-> ComposeRefusal("invalid-input"), intent |-> {}]
    ELSE IF ~ParsesAsCommand(e) THEN [refusal |-> NotAnswered, intent |-> {IntentOf(e, HostActionTarget, "message")}]
    ELSE IF \E s \in set : FindDescriptor(s, e.name) = {}
         THEN [refusal |-> ComposeRefusal("not-found"), intent |-> {}]
         ELSE [refusal |-> NotAnswered, intent |-> {IntentOf(e, HostActionTarget, e.name)}]

ComposeCallback(e) ==
    [refusal |-> NotAnswered, intent |-> {IntentOf(e, UserIntentTarget, "callback-action")}]

ComposeSystem(e) ==
    [refusal |-> NotAnswered, intent |-> {IntentOf(e, UserIntentTarget, "system-event")}]

\* An intent of the host's own passes no composition.
ComposeIntent(e, set) ==
    CASE e.kind \in {"message", "command"} -> ComposeMessage(e, set)
      [] e.kind = "callback"               -> ComposeCallback(e)
      [] e.kind = "system"                 -> ComposeSystem(e)
      [] OTHER -> [refusal |-> NotAnswered,
                   intent |-> {[target |-> e.kind, name |-> e.name, flaws |-> e.flaws]}]

-----------------------------------------------------------------------------
(* command-facade.ts                                                        *)

CommandMethods  == {"submitHostAction", "submitUserIntent"}
CommandStatuses == {"accepted", "completed", "rejected", "not-run"}

\* What an intent is refused for: a field of the provider or a secret, a ref that is no ref of
\* the adapter, an argument ref that is given twice, data that is no bounded JSON.
CommandFieldFlaws == {"field"}
CommandRefFlaws   == {"resource", "ref"}
ArgumentRefFlaws  == {"attachments"}
DataFlaws         == {"data"}

NameAccepted(name) == name \notin LongNames

IntentAccepted(intent) ==
    /\ NameAccepted(intent.name)
    /\ intent.flaws \cap (CommandFieldFlaws \cup CommandRefFlaws \cup ArgumentRefFlaws \cup DataFlaws) = {}

MethodOf(target) == IF target = HostActionTarget THEN "submitHostAction" ELSE "submitUserIntent"

MapCommandFailureCode(code) ==
    CASE code \in {"permission-denied", "token-consumed"} -> "forbidden"
      [] code = "not-ready"                               -> "dependency-missing"
      [] code \in {"timeout", "another"}                  -> "dependency-failed"
      [] OTHER                                            -> code

\* A status that is not known is told as accepted, and so is none.
CommandStatus(status) == IF status \in CommandStatuses THEN status ELSE "accepted"

CommandSuccess(result) == CommandAnswer("ok", "unstated", CommandStatus(result.status))
CommandFailure(result) == CommandAnswer(MapCommandFailureCode(result.code), result.retryable, "none")

\* What the core may answer: ok or a status without a verdict, a failure, something unsafe or
\* without a verdict; or it rejects its promise.
CoreResults ==
    [kind : {"ok"}, status : {"accepted", "completed", "rejected", "not-run", "another"}]
    \cup [kind : {"failure"}, code : {"conflict", "not-ready", "another"}, retryable : {"unstated", "yes", "no"}]
    \cup [kind : {"unsafe", "neither", "thrown"}]

\* Faulty: a core that threw may be tried again.
SettledOrRetried(result) ==
    CASE result.kind = "ok"      -> CommandSuccess(result)
      [] result.kind = "failure" -> CommandFailure(result)
      [] OTHER                   -> CommandAnswer("dependency-failed", "yes", "none")

NormalizeCommandResult(result) ==
    CASE result.kind = "ok"      -> CommandSuccess(result)
      [] result.kind = "failure" -> CommandFailure(result)
      [] OTHER                   -> Unstated("dependency-failed")

\* The core is true to itself: it did what it accepted, and did not do what it says it did
\* not, or that may be tried again.
CoreMaySay(result, taken) ==
    CASE result.kind = "ok" /\ result.status \in {"accepted", "completed"} -> taken
      [] result.kind = "ok" /\ result.status \in {"rejected", "not-run"}   -> ~taken
      [] result.kind = "failure"                                           -> result.retryable = "yes" => ~taken
      [] OTHER                                                             -> TRUE

AvailableMethods(methods)      == CommandMethods \cap methods
MissingCommandMethods(methods) == CommandMethods \ methods

CommandReadiness(methods) == IF MissingCommandMethods(methods) = {} THEN "ready" ELSE "not-ready"

-----------------------------------------------------------------------------
(* core-host-factory.ts, host-command-facade.ts                             *)

\* The other required methods of the core are told apart from none of each other, nor are the
\* ports.
FacadeMethods   == CommandMethods \cup {"another"}
RequiredMethods == FacadeMethods
RequiredPorts   == {"required"}

MissingFacadeMethods(methods) == RequiredMethods \ methods
MissingPorts(ports)           == RequiredPorts \ ports
MetadataAccepted(metadata)    == metadata = "sound"

HostReadiness(methods, ports) ==
    IF MissingFacadeMethods(methods) = {} /\ MissingPorts(ports) = {} THEN "ready" ELSE "not-ready"

\* What a host remembers of the facade it was made with; the facade itself may change.
MakeHost(methods, ports) ==
    [missing |-> MissingFacadeMethods(methods), readiness |-> HostReadiness(methods, ports)]

CombineReadiness(host, methods) ==
    IF host.readiness = "ready" /\ CommandReadiness(methods) = "ready" THEN "ready" ELSE "not-ready"

-----------------------------------------------------------------------------
(* runtime-bridge.ts, openclaw-runtime-bridge.ts                            *)

MapRuntimeFailureCode(code) ==
    CASE code = "runtime-unavailable"              -> "dependency-missing"
      [] code \in {"runtime-rejected", "another"}  -> "dependency-failed"
      [] OTHER                                     -> code

\* What the runtime may answer; a ref that is not stated is taken to be the asked one.
RuntimeResults ==
    [kind : {"ok"}, ref : {"own", "unstated", "another"}]
    \cup [kind : {"failure"}, ref : {"own", "another"}, code : {"runtime-unavailable", "internal", "another"},
          retryable : {"unstated", "yes", "no"}]
    \cup [kind : {"unsafe", "neither", "thrown"}]

\* The port of OpenClaw is asked through a boundary that throws on an unsafe result, which is
\* told like one that the bridge refuses itself.
PortThrows(result) == result.kind \in {"unsafe", "thrown"}

NormalizeRuntimeResult(result) ==
    CASE result.kind = "ok" /\ result.ref # "another" -> CommandAnswer("ok", "unstated", "completed")
      [] result.kind = "failure" /\ result.ref # "another" ->
            CommandAnswer(MapRuntimeFailureCode(result.code), result.retryable, "none")
      [] OTHER -> Unstated("dependency-failed")

\* The runtime is true to itself: it ran what it answers of its own accord, and not what may be
\* tried again; what it says of another dispatch says nothing of this one.
RuntimeMaySay(result, ran) ==
    CASE result.kind = "ok" /\ result.ref # "another"      -> ran
      [] result.kind = "failure" /\ result.ref # "another" -> result.retryable = "yes" => ~ran
      [] OTHER                                             -> TRUE

ReportedStatus(reported) ==
    CASE reported = "ready"    -> "pass"
      [] reported = "degraded" -> "warn"
      [] reported = "not-ready" -> "fail"
      [] OTHER                 -> "unknown"

\* A runtime that cannot be asked is ready, a port of OpenClaw that cannot is not.
BridgeReadiness(port, reported) ==
    IF ~port \/ reported = "malformed" THEN "fail"
    ELSE IF reported = "none" THEN "pass" ELSE ReportedStatus(reported)
OpenClawPortReadiness(port, reported) ==
    IF ~port \/ reported \in {"malformed", "none"} THEN "fail" ELSE ReportedStatus(reported)

-----------------------------------------------------------------------------
VARIABLES
    commandSet,         \* the set of descriptors that the host composes with, if it has one
    coreMethods,        \* the methods that the injected facade has now
    commandHost,        \* what the host remembers of the facade
    runtimePort,        \* whether a runtime is injected
    commandCalls,       \* for each event, its call under way or its last one
    runtimeCalls        \* for each dispatch, its last call

commandVars == <<commandSet, coreMethods, commandHost, runtimePort, commandCalls, runtimeCalls>>

NeverGiven == [answer |-> NotAnswered, method |-> {}, taken |-> FALSE, done |-> 0, given |-> 0]

CommandsInit ==
    /\ commandSet \in {{}} \cup {{s} : s \in {s \in CommandSets : SetAccepted(s)}}
    /\ coreMethods \in SUBSET FacadeMethods
    /\ \E ports \in SUBSET RequiredPorts : commandHost = MakeHost(coreMethods, ports)
    /\ runtimePort \in BOOLEAN
    /\ commandCalls = [e \in CommandEvents |-> NeverGiven]
    /\ runtimeCalls = [d \in DispatchRefs |-> NeverGiven]

\* A host gives what it has not given, and gives again what it was told to.
MayGive(call) == call.given < MaxGiven /\ (call.given = 0 \/ call.answer.retryable = "yes")

Given(call, answer, method) ==
    [answer |-> answer, method |-> method, taken |-> FALSE, done |-> call.done, given |-> call.given + 1]

\* submitAdapterCommandIntent up to the call of the core.
Submitted(call, intent) ==
    LET method == MethodOf(intent.target)
    IN IF ~IntentAccepted(intent) THEN Given(call, Unstated("invalid-input"), {})
       ELSE IF method \notin AvailableMethods(coreMethods)
            THEN Given(call, CommandAnswer("dependency-missing", "yes", "none"), {})
            ELSE Given(call, AwaitsCore, {method})

SubmitEvent(e) ==
    LET composed == ComposeIntent(EventOf[e], commandSet)
    IN /\ MayGive(commandCalls[e])
       /\ \/ /\ composed.intent = {}
             /\ commandCalls' = [commandCalls EXCEPT ![e] = Given(@, composed.refusal, {})]
          \/ \E intent \in composed.intent :
                commandCalls' = [commandCalls EXCEPT ![e] = Submitted(@, intent)]
       /\ UNCHANGED <<commandSet, coreMethods, commandHost, runtimePort, runtimeCalls>>

CoreTakes(e) ==
    /\ commandCalls[e].answer = AwaitsCore
    /\ ~commandCalls[e].taken
    /\ commandCalls' = [commandCalls EXCEPT ![e].taken = TRUE, ![e].done = @ + 1]
    /\ UNCHANGED <<commandSet, coreMethods, commandHost, runtimePort, runtimeCalls>>

CoreSettles(e, result) ==
    /\ commandCalls[e].answer = AwaitsCore
    /\ CoreMaySay(result, commandCalls[e].taken)
    /\ commandCalls' = [commandCalls EXCEPT ![e].answer = NormalizeCommandResult(result)]
    /\ UNCHANGED <<commandSet, coreMethods, commandHost, runtimePort, runtimeCalls>>

\* The facade is an object of the host, which may gain and lose methods.
ChangeFacade(methods) ==
    /\ methods # coreMethods
    /\ coreMethods' = methods
    /\ UNCHANGED <<commandSet, commandHost, runtimePort, commandCalls, runtimeCalls>>

Ran(call, ran) == [call EXCEPT !.taken = ran, !.done = @ + (IF ran THEN 1 ELSE 0)]

\* dispatchOpenClawRuntime and dispatchOpenClawRuntimePort answer in one step.
Dispatch(d, contextIsSound, requestIsSound, result, ran) ==
    LET refuse(code) == runtimeCalls' = [runtimeCalls EXCEPT ![d] = Given(@, Unstated(code), {})]
        reach == contextIsSound /\ runtimePort /\ requestIsSound
    IN /\ MayGive(runtimeCalls[d])
       /\ \/ ~contextIsSound /\ refuse("invalid-input")
          \/ contextIsSound /\ ~runtimePort /\ refuse("dependency-missing")
          \/ contextIsSound /\ runtimePort /\ ~requestIsSound /\ refuse("invalid-input")
          \/ /\ reach
             /\ RuntimeMaySay(result, ran)
             /\ runtimeCalls' = [runtimeCalls EXCEPT ![d] =
                   Ran(Given(@, IF PortThrows(result) THEN Unstated("dependency-failed")
                                ELSE NormalizeRuntimeResult(result), {}), ran)]
       /\ UNCHANGED <<commandSet, coreMethods, commandHost, runtimePort, commandCalls>>

EventsNext ==
    \/ \E e \in CommandEvents : SubmitEvent(e) \/ CoreTakes(e)
    \/ \E e \in CommandEvents, result \in CoreResults : CoreSettles(e, result)
    \/ \E methods \in SUBSET FacadeMethods : ChangeFacade(methods)

DispatchesNext ==
    \E d \in DispatchRefs, result \in RuntimeResults, ran, c, r \in BOOLEAN : Dispatch(d, c, r, result, ran)

CommandsNext == EventsNext \/ DispatchesNext

CommandsSpec == CommandsInit /\ [][CommandsNext]_commandVars

-----------------------------------------------------------------------------
(* Properties                                                               *)

\* A host that gives again only what it is told to has no event done twice by the core, no
\* command done that its set does not name once and only once, and is told "rejected",
\* "not-run" or "try again" only of what was not done.  command-facade.ts 795-845,
\* command-intent.ts 345-353, command-descriptors.ts 212-226.
CommandsAreDoneOnce ==
    \A e \in CommandEvents : LET call == commandCalls[e] IN
        /\ call.done <= 1
        /\ call.done > 0 /\ EventOf[e].kind = "command" =>
               \A set \in commandSet : Cardinality(FindDescriptor(set, EventOf[e].name)) = 1
        /\ call.answer.status = "completed" => call.taken
        /\ call.answer.status \in {"rejected", "not-run"} => ~call.taken

\* The same of the dispatches of the runtime, whose answers are of the dispatch that was asked
\* for: what is told ok was run.  A host, a bridge or a port that is said to be ready has what
\* is called next.  runtime-bridge.ts 490-656, host-command-facade.ts 65-85.
RuntimeAnswersAreOwn ==
    /\ \A d \in DispatchRefs : LET call == runtimeCalls[d] IN
          /\ call.done <= 1
          /\ call.answer.code = "ok" => call.taken
    /\ CombineReadiness(commandHost, coreMethods) = "ready" => CommandMethods \subseteq coreMethods
    /\ \A reported \in {"none", "ready", "malformed"} :
          "pass" \in {BridgeReadiness(runtimePort, reported), OpenClawPortReadiness(runtimePort, reported)}
              => runtimePort

\* Both ways into the core, the facade and the runtime, tell what was done.
CommandAnswersAreTrue == CommandsAreDoneOnce /\ RuntimeAnswersAreOwn
=============================================================================
