---------------------------- MODULE InboundRoutes ----------------------------
(***************************************************************************)
(* How an update of the provider becomes a command of a topic.  Two paths   *)
(* of the transport: channel-event-source.ts, whose events go to            *)
(* topic-command-router-port.ts; and safe-channel-event.ts with             *)
(* telegram-inbound-topic-route.ts.  One of the adapter:                    *)
(* openclaw-channel-event-adapter.ts with inbound-mapper.ts.                *)
(*                                                                          *)
(* None of them keeps anything.  The provider hands an update over again    *)
(* until it is acknowledged; the host keeps the normalized events it has    *)
(* not routed yet, the refs of what it routed, and the keys of what it      *)
(* dispatched.  Hashes are the tuples they are made of; an optional thing   *)
(* is a set of one or none.  An operator marked "Faulty" is a variant with  *)
(* a bug, used by no specification.                                         *)
(***************************************************************************)
EXTENDS Naturals, Sequences, FiniteSets, FiniteSetsExt, Functions

CONSTANTS
    IdOf,           \* what each raw identifier is: body, numeric, dashed, safe
    TextOf,         \* what each text is: safe, slash, and the name of its command
    InUpdates,      \* bound: the updates of the provider
    UpdateOf,       \* what each update carries
    Envelopes,      \* bound: the envelopes of OpenClaw
    EnvelopeOf,     \* what each envelope carries
    RouteBindingOf, \* what each binding of a topic is
    BindingLists,   \* bound: the bindings that a host may have, in order
    CommandLists,   \* bound: the commands that a host may offer, in order
    MaxHandedOver   \* bound: how often an update is handed over once it is routed

NotGiven == "none"
Given1(x) == {x} \ {NotGiven}

\* The value of the first of these <<condition, value>> that holds.
FirstHolding(cases) == cases[Min({i \in DOMAIN cases : cases[i][1]})][2]
\* The first of a sequence that is in S.
FirstIn(s, S) ==
    LET found == {i \in DOMAIN s : s[i] \in S} IN IF found = {} THEN {} ELSE {s[Min(found)]}

VARIABLES
    sourceConfig,   \* the configuration of the transport
    routeBindings,  \* the bindings of the host
    routeCommands,  \* the commands of the host
    unacknowledged, \* the updates that the provider still hands over
    waiting,        \* the normalized events that the host has not routed
    routes,         \* history: what the first path made of them
    seenRefs,       \* the refs that the host remembers
    prepared,       \* history: what the second path said, and how often it routed
    dispatched      \* history: what the mapper said, and how often it was dispatched
routeVars == <<sourceConfig, routeBindings, routeCommands, unacknowledged, waiting, routes, seenRefs, prepared, dispatched>>

-----------------------------------------------------------------------------
(* channel-event-source.ts: the sign of a number is lost, a text may not    *)
(* begin with a dash.                                                       *)

RawIds == DOMAIN IdOf \cup {NotGiven}

\* An update says where it is by identifiers.
ASSUME InboundRoutesAssumption ==
    \A u \in InUpdates :
        {UpdateOf[u].channel, UpdateOf[u].chat, UpdateOf[u].thread, UpdateOf[u].message} \subseteq RawIds

SourceId(i) == {IdOf[k].body : k \in {j \in Given1(i) : IdOf[j].safe /\ (IdOf[j].numeric \/ ~IdOf[j].dashed)}}

\* Where a message is by the safe forms of its identifiers: channel, chat, thread and message,
\* all or nothing.
Place(u, safe) ==
    LET raw == UpdateOf[u] IN safe[raw.channel] \X safe[raw.chat] \X safe[raw.thread] \X safe[raw.message]
TopicOf(place) == SubSeq(place, 1, 3)

OptionalRef(ids, fallback) == IF ids = {} THEN fallback ELSE <<CHOOSE i \in ids : TRUE>>

\* A text that is not safe is left out; a command is its own field, or a text with a slash.
ProjectText(u) == {t \in Given1(UpdateOf[u].text) : TextOf[t].safe}
ProjectCommand(u) ==
    LET explicit == Given1(UpdateOf[u].command)
        prefixed == {t \in ProjectText(u) : TextOf[t].slash}
    IN UNION {TextOf[t].name : t \in IF explicit # {} THEN explicit ELSE prefixed}

SourceKinds == {"message", "callback", "system"}
SourceEvent(u, place) ==
    LET kind == UpdateOf[u].kind
        callback == IF kind = "callback" THEN OptionalRef(SourceId(UpdateOf[u].callback), <<"unavailable">>) ELSE <<>>
        stable == <<kind, place, callback>>
        ref == OptionalRef(SourceId(UpdateOf[u].event), stable)
    IN [update |-> u, kind |-> kind, place |-> place, command |-> ProjectCommand(u), text |-> ProjectText(u),
        key |-> <<ref, stable>>]
SourceEvents(u) == {SourceEvent(u, place) : place \in Place(u, [i \in RawIds |-> SourceId(i)])}

AckDecision(u, acknowledges) ==
    IF ~UpdateOf[u].asksAck THEN "not-required"
    ELSE IF acknowledges THEN "acknowledge" ELSE "do-not-acknowledge"
SourceAnswer(u, status, acknowledges, events) ==
    [status |-> status, ack |-> AckDecision(u, acknowledges), events |-> events]

TransportIsReady(config) == config = "ready"

\* Faulty: a disabled provider is told that its event was taken.
NormalizeAcksFirst(u, config) ==
    LET raw == UpdateOf[u] IN
    FirstHolding(<<
        <<~TransportIsReady(config), SourceAnswer(u, "ignored", config = "disabled", {})>>,
        <<raw.ignored,               SourceAnswer(u, "ignored", TRUE, {})>>,
        <<SourceEvents(u) = {},      SourceAnswer(u, "invalid", FALSE, {})>>,
        <<TRUE,                      SourceAnswer(u, "normalized", TRUE, SourceEvents(u))>> >>)

NormalizeChannelEvent(u, config) ==
    LET raw == UpdateOf[u] IN
    FirstHolding(<<
        <<config = "invalid",          SourceAnswer(u, "invalid", FALSE, {})>>,
        <<~TransportIsReady(config),   SourceAnswer(u, "ignored", FALSE, {})>>,
        <<raw.kind = "not-an-object",  SourceAnswer(u, "invalid", FALSE, {})>>,
        <<raw.ignored,                 SourceAnswer(u, "ignored", TRUE, {})>>,
        <<raw.kind \notin SourceKinds, SourceAnswer(u, "unsupported", TRUE, {})>>,
        <<SourceEvents(u) = {},        SourceAnswer(u, "invalid", FALSE, {})>>,
        <<TRUE,                        SourceAnswer(u, "normalized", TRUE, SourceEvents(u))>> >>)

-----------------------------------------------------------------------------
(* topic-command-router-port.ts.                                            *)

RouteResult(status, reason, intent) == [status |-> status, reason |-> reason, intent |-> intent]
Ignored(reason) == RouteResult("ignored", reason, {})
SafeHelp(reason) == RouteResult("safe-help", reason, {})

\* The command of an event: its own, or else that of its text, which must then parse.
TextIsMalformed(texts) == \E t \in texts : TextOf[t].slash /\ TextOf[t].name = {}
ExtractCommand(event) ==
    IF event.command # {} THEN event.command
    ELSE UNION {TextOf[t].name : t \in {s \in event.text : TextOf[s].slash}}

\* The first binding of the topic, active or not, and the first command of that name.
BindingFor(bindings, topic) ==
    FirstIn(bindings, {b \in DOMAIN RouteBindingOf : RouteBindingOf[b].safe /\ RouteBindingOf[b].topic = topic})
CommandFor(commands, names) ==
    FirstIn(commands, {c \in Range(commands) : c.enabled /\ c.safe /\ c.name \in names})

NotActive(binding) == \E b \in binding : RouteBindingOf[b].status # "active"
IsHelp(command) == \E c \in command : ~c.needsBinding \/ c.help

RouteTopicCommand(event, flaws, bindings, commands) ==
    LET names == ExtractCommand(event)
        command == CommandFor(commands, names)
        needsBinding == \E c \in command : c.needsBinding
        binding == IF needsBinding THEN BindingFor(bindings, TopicOf(event.place)) ELSE {}
    IN FirstHolding(<<
        <<flaws \cap {"surface", "refs"} # {},                             Ignored("invalid-safe-event")>>,
        <<event.kind # "message",                                         Ignored("unsupported-event-kind")>>,
        <<"arguments" \in flaws /\ names # {},                             Ignored("invalid-safe-event")>>,
        <<event.command = {} /\ TextIsMalformed(event.text),               Ignored("invalid-safe-event")>>,
        <<names = {},                                                     Ignored("missing-command")>>,
        <<command = {},                                                   SafeHelp("unknown-command")>>,
        <<needsBinding /\ binding = {},                                    SafeHelp("unbound-topic")>>,
        <<NotActive(binding),                                             Ignored("disabled-binding")>>,
        <<IsHelp(command),                                                SafeHelp("safe-help")>>,
        <<TRUE,                                                           RouteResult("routed", "routed", binding)>> >>)

-----------------------------------------------------------------------------
(* safe-channel-event.ts: leading dashes are dropped, other names of the    *)
(* kinds are taken.                                                         *)

RouteId(i) == {IdOf[k].body : k \in {j \in Given1(i) : IdOf[j].safe}}
RoutePlace(u) == Place(u, [i \in RawIds |-> RouteId(i)])

RouteKindOf == [message |-> "message", text_message |-> "message", callback |-> "callback", callback_query |-> "callback",
                system |-> "system", topic |-> "system", topic_event |-> "system"]

\* A callback without an id is known by where it is.
CallbackRef(u, stable) ==
    IF RouteKindOf[UpdateOf[u].kind] = "callback" THEN OptionalRef(RouteId(UpdateOf[u].callback), stable) ELSE <<>>
IdempotencyRef(u, place) ==
    LET stable == <<RouteKindOf[UpdateOf[u].kind], place>>
    IN <<OptionalRef(RouteId(UpdateOf[u].event), stable), stable, CallbackRef(u, stable)>>

TextIntent(u) ==
    {t \in Given1(UpdateOf[u].text) : TextOf[t].safe /\ RouteKindOf[UpdateOf[u].kind] = "message"}
CommandOfText(texts) == UNION {TextOf[t].name : t \in {s \in texts : TextOf[s].slash}}

\* Faulty: an event is known by its kind and its topic.
RefOfTopic(u, place) ==
    [update |-> u, kind |-> RouteKindOf[UpdateOf[u].kind], place |-> place,
     ref |-> <<RouteKindOf[UpdateOf[u].kind], TopicOf(place)>>, texts |-> TextIntent(u)]

ProjectEvent(u, place) ==
    [update |-> u, kind |-> RouteKindOf[UpdateOf[u].kind], place |-> place,
     ref |-> IdempotencyRef(u, place), texts |-> TextIntent(u)]
ProjectedEvents(u) ==
    {ProjectEvent(u, place) : place \in IF UpdateOf[u].kind \in DOMAIN RouteKindOf THEN RoutePlace(u) ELSE {}}

-----------------------------------------------------------------------------
(* telegram-inbound-topic-route.ts: no binding is looked for a help.        *)

\* Faulty: the first active binding is taken, not the first.
RouteAnyActive(event, seen, bindings, commands) ==
    LET command == CommandFor(commands, CommandOfText(event.texts))
        binding == BindingFor(SelectSeq(bindings, LAMBDA b : RouteBindingOf[b].status = "active"), TopicOf(event.place))
    IN FirstHolding(<<
        <<event.ref \in seen,                      RouteResult("already-processed", "already-processed", {})>>,
        <<event.kind = "callback",                 RouteResult("callback-forwarded", "callback-forwarded", {})>>,
        <<event.kind # "message" \/ command = {} \/ IsHelp(command) \/ binding = {}, SafeHelp("safe-help")>>,
        <<TRUE,                                    RouteResult("routed", "routed", binding)>> >>)

RouteEvent(event, seen, bindings, commands) ==
    LET names == CommandOfText(event.texts)
        command == CommandFor(commands, names)
        binding == BindingFor(bindings, TopicOf(event.place))
    IN FirstHolding(<<
        <<event.ref \in seen,            RouteResult("already-processed", "already-processed", {})>>,
        <<event.kind = "callback",       RouteResult("callback-forwarded", "callback-forwarded", {})>>,
        <<event.kind # "message",        Ignored("unsupported-event-kind")>>,
        <<TextIsMalformed(event.texts),  RouteResult("rejected", "malformed-command", {})>>,
        <<names = {},                    Ignored("missing-command")>>,
        <<command = {},                  SafeHelp("unknown-command")>>,
        <<IsHelp(command),               SafeHelp("safe-help")>>,
        <<binding = {},                  SafeHelp("unbound-topic")>>,
        <<NotActive(binding),            Ignored("disabled-binding")>>,
        <<TRUE,                          RouteResult("routed", "routed", binding)>> >>)

Rejected(u) ==
    RouteResult("rejected", IF UpdateOf[u].kind \in DOMAIN RouteKindOf THEN "invalid-provider-input" ELSE "unsupported-event-kind", {})
PrepareTopicRoute(u, seen, bindings, commands) ==
    IF ProjectedEvents(u) = {} THEN Rejected(u)
    ELSE LET event == CHOOSE e \in ProjectedEvents(u) : TRUE IN RouteEvent(event, seen, bindings, commands)

-----------------------------------------------------------------------------
(* openclaw-channel-event-adapter.ts: of the places where a field may be,   *)
(* the first that is given counts, sound or not.                            *)

FirstGiven(places) == FirstIn(places, DOMAIN IdOf)
SafeId(places) == {i \in FirstGiven(places) : IdOf[i].safe}

ThreadPlaces(e) == EnvelopeOf[e].thread \o EnvelopeOf[e].messageThread \o EnvelopeOf[e].topThread
TopicRefs(e) == SafeId(EnvelopeOf[e].channel) \X SafeId(EnvelopeOf[e].chat) \X SafeId(ThreadPlaces(e))

EnvelopeKinds == {"message", "callback", "system"}
EnvelopeFlaws == {"unsafe field", "operation", "correlation", "actor", "timestamp", "attachment", "details"}

\* The message an event is about is of the topic of the event.
ExternalRefs(topic, ids) == {Append(topic, m) : m \in ids}

HasContent(e) == EnvelopeOf[e].text = "some" \/ (EnvelopeOf[e].text = NotGiven /\ EnvelopeOf[e].attachments)
MessageEvents(e) ==
    {[kind |-> "message", topic |-> {t}, external |-> ExternalRefs(t, {m}), callback |-> {}, content |-> TRUE] :
        t \in TopicRefs(e), m \in {i \in SafeId(EnvelopeOf[e].message) : HasContent(e)}}
\* The message of a callback is looked for in the callback first, and may be missing.
MessageIsSound(places) == FirstGiven(places) = SafeId(places)
CallbackEvents(e) ==
    {[kind |-> "callback", topic |-> {t}, external |-> ExternalRefs(t, SafeId(EnvelopeOf[e].message)), callback |-> {c},
      content |-> EnvelopeOf[e].payload = "token"] :
        t \in {r \in TopicRefs(e) : MessageIsSound(EnvelopeOf[e].message) /\ EnvelopeOf[e].payload # NotGiven},
        c \in SafeId(EnvelopeOf[e].callback)}
SystemEvents(e) ==
    {[kind |-> "system", topic |-> {t}, external |-> ExternalRefs(t, SafeId(EnvelopeOf[e].message)), callback |-> {}, content |-> TRUE] :
        t \in {r \in TopicRefs(e) : MessageIsSound(EnvelopeOf[e].message) /\ EnvelopeOf[e].systemKindKnown}}

AdaptEnvelope(e) ==
    IF EnvelopeOf[e].flaws \cap EnvelopeFlaws # {} THEN {}
    ELSE CASE EnvelopeOf[e].kind = "message" -> MessageEvents(e)
           [] EnvelopeOf[e].kind = "callback" -> CallbackEvents(e)
           [] EnvelopeOf[e].kind = "system" -> SystemEvents(e)
           [] OTHER -> {}

-----------------------------------------------------------------------------
(* inbound-mapper.ts.                                                       *)

Mapped(code, retryable, keys) == [code |-> code, retryable |-> retryable, keys |-> keys]
MapFailure(code) == Mapped(code, code = "dependency-missing", {})

\* A binding has a channel and a thread: the chat of the event is not compared with it.
BoundElsewhere(b, topic) == RouteBindingOf[b].topic[1] # topic[1] \/ RouteBindingOf[b].topic[3] # topic[3]
RoutingFailure(event, binding) ==
    FirstHolding(<<
        <<event.topic = {},   "invalid-input">>,
        <<binding = {},       "dependency-missing">>,
        <<NotActive(binding), "conflict">>,
        <<\E b \in binding, t \in event.topic : BoundElsewhere(b, t), "conflict">>,
        <<\E b \in binding : ~RouteBindingOf[b].safe, "invalid-input">>,
        <<TRUE,               "none">> >>)

ExternalMatches(event) == \A x \in event.external, t \in event.topic : TopicOf(x) = t
MessageKeys(event) == {<<"inbound-message", x>> : x \in event.external}
CallbackKeys(event) == {<<"callback", t, c>> : t \in event.topic, c \in event.callback}
KeysOf(event) ==
    CASE event.kind = "message" -> MessageKeys(event)
      [] event.kind = "callback" -> CallbackKeys(event)
      [] OTHER -> {}

MapInboundEvent(event, binding) ==
    LET refused == RoutingFailure(event, binding)
    IN FirstHolding(<<
        <<refused # "none",        MapFailure(refused)>>,
        <<~event.content,          MapFailure("invalid-input")>>,
        <<~ExternalMatches(event), MapFailure("invalid-input")>>,
        <<TRUE,                    Mapped("ok", FALSE, KeysOf(event))>> >>)

-----------------------------------------------------------------------------

RoutesInit ==
    /\ sourceConfig \in {"missing", "invalid", "disabled", "ready"}
    /\ routeBindings \in BindingLists /\ routeCommands \in CommandLists
    /\ unacknowledged = InUpdates
    /\ waiting = {} /\ routes = {} /\ seenRefs = {}
    /\ prepared = <<>> /\ dispatched = <<>>

\* The transport is configured anew; topics are bound anew.
ChangeConfig ==
    /\ sourceConfig' \in {"disabled", "ready"} \ {sourceConfig}
    /\ UNCHANGED <<routeBindings, routeCommands, unacknowledged, waiting, routes, seenRefs, prepared, dispatched>>
ChangeBindings ==
    /\ routeBindings' \in BindingLists \ {routeBindings}
    /\ UNCHANGED <<sourceConfig, routeCommands, unacknowledged, waiting, routes, seenRefs, prepared, dispatched>>

\* The provider hands an update over, and keeps it unless it is told that it was taken.
HandOver(u) ==
    LET answer == NormalizeChannelEvent(u, sourceConfig) IN
    /\ u \in unacknowledged
    /\ unacknowledged' = unacknowledged \ {v \in {u} : answer.ack # "do-not-acknowledge"}
    /\ waiting' = waiting \cup answer.events
    /\ UNCHANGED <<sourceConfig, routeBindings, routeCommands, routes, seenRefs, prepared, dispatched>>

\* The host routes an event; what it gives the router may have a flaw by then.
RouteWaiting(event, flaws) ==
    /\ event \in waiting
    /\ waiting' = waiting \ {event}
    /\ routes' = routes \cup
        {[update |-> event.update, bindings |-> routeBindings,
          result |-> RouteTopicCommand(event, flaws, routeBindings, routeCommands)]}
    /\ UNCHANGED <<sourceConfig, routeBindings, routeCommands, unacknowledged, seenRefs, prepared, dispatched>>

\* What was said of x, and how often it was acted on.
Past(history, x) == IF x \in DOMAIN history THEN history[x] ELSE [times |-> 0, said |-> {}]
Recorded(history, x, result, acts) ==
    LET past == Past(history, x)
    IN [y \in DOMAIN history \cup {x} |->
           IF y # x THEN history[y]
           ELSE [times |-> IF acts THEN past.times + 1 ELSE past.times, said |-> past.said \cup {result}]]

\* The host hands an update to the second path, and remembers what was routed.
PrepareRoute(u) ==
    LET result == PrepareTopicRoute(u, seenRefs, routeBindings, routeCommands)
        taken == result.status \in {"routed", "callback-forwarded"}
    IN /\ Past(prepared, u).times < MaxHandedOver
       /\ prepared' = Recorded(prepared, u, result, taken)
       /\ seenRefs' = seenRefs \cup {e.ref : e \in {p \in ProjectedEvents(u) : taken}}
       /\ UNCHANGED <<sourceConfig, routeBindings, routeCommands, unacknowledged, waiting, routes, dispatched>>

\* The keys of the envelopes that were dispatched.
DispatchedKeys == UNION {UNION {r.keys : r \in dispatched[e].said} : e \in DOMAIN dispatched}
\* The host maps an envelope with a binding it found, and dispatches it unless its key is known.
MapEnvelope(e, binding) ==
    /\ Past(dispatched, e).times < MaxHandedOver
    /\ \E event \in AdaptEnvelope(e) :
        LET result == MapInboundEvent(event, binding) IN
        dispatched' = Recorded(dispatched, e, result, result.code = "ok" /\ result.keys \cap DispatchedKeys = {})
    /\ UNCHANGED <<sourceConfig, routeBindings, routeCommands, unacknowledged, waiting, routes, seenRefs, prepared>>

SourceNext(updates) ==
    \/ ChangeConfig
    \/ \E u \in updates : HandOver(u)
    \/ \E event \in waiting : \E flaws \in {{}, {"surface"}, {"arguments"}} : RouteWaiting(event, flaws)
PrepareNext(updates) == \E u \in updates : PrepareRoute(u)
MapNext(envelopes) ==
    \E e \in envelopes : \E binding \in {{}} \cup {{b} : b \in Range(routeBindings)} : MapEnvelope(e, binding)
RoutesNext == ChangeBindings \/ SourceNext(InUpdates) \/ PrepareNext(InUpdates) \/ MapNext(Envelopes)
RoutesSpec == RoutesInit /\ [][RoutesNext]_routeVars

-----------------------------------------------------------------------------

\* The provider gives up an update only when the host has its event, or has routed it, or the update asks for
\* nothing: one to be ignored, of a kind nobody handles, or that wants no acknowledgement.  One that the host has
\* is not handed over again (channel-event-source.ts acknowledges before anything is processed).
HostHas(u) == (\E event \in waiting : event.update = u) \/ (\E r \in routes : r.update = u)
AsksForNothing(u) ==
    UpdateOf[u].ignored \/ UpdateOf[u].kind \notin SourceKinds \/ ~UpdateOf[u].asksAck
AcknowledgedIsKept ==
    \A u \in InUpdates : IF u \in unacknowledged THEN ~HostHas(u) ELSE HostHas(u) \/ AsksForNothing(u)

\* The two routers of the transport send a waiting text to the same binding, or both to none, whatever is bound and in
\* whatever order (topic-command-router-port.ts and telegram-inbound-topic-route.ts are written apart).
RoutersAgree ==
    \A event \in waiting : UpdateOf[event.update].command = NotGiven =>
        PrepareTopicRoute(event.update, {}, routeBindings, routeCommands).intent
            = RouteTopicCommand(event, {}, routeBindings, routeCommands).intent

\* However often they come, in whatever order, and whatever is bound meanwhile: of all the updates that are the
\* same message or callback, and of all the envelopes, exactly one is acted on once any is said to be taken or
\* known; other messages are not taken for it (the idempotency refs of safe-channel-event.ts, and the keys of
\* inbound-mapper.ts).
SameUpdate(u, v) ==
    /\ RouteKindOf[UpdateOf[u].kind] = RouteKindOf[UpdateOf[v].kind]
    /\ RoutePlace(u) = RoutePlace(v) /\ RouteId(UpdateOf[u].event) = RouteId(UpdateOf[v].event)
    /\ RouteKindOf[UpdateOf[u].kind] = "callback" => RouteId(UpdateOf[u].callback) = RouteId(UpdateOf[v].callback)
SameEnvelope(e, f) ==
    /\ EnvelopeOf[e].kind = EnvelopeOf[f].kind /\ TopicRefs(e) = TopicRefs(f)
    /\ \/ EnvelopeOf[e].kind = "message" /\ SafeId(EnvelopeOf[e].message) = SafeId(EnvelopeOf[f].message)
       \/ EnvelopeOf[e].kind = "callback" /\ SafeId(EnvelopeOf[e].callback) = SafeId(EnvelopeOf[f].callback)
Settled(result) == result.status \in {"routed", "callback-forwarded", "already-processed"}
OneActedOn(same, history) ==
    /\ \A x \in same : history[x].times <= 1
    /\ Cardinality({x \in same : history[x].times = 1}) = 1
ActedOnOnce ==
    /\ \A u \in DOMAIN prepared : (\E r \in prepared[u].said : Settled(r)) =>
        OneActedOn({v \in DOMAIN prepared : ProjectedEvents(v) # {} /\ SameUpdate(u, v)}, prepared)
    /\ \A e \in DOMAIN dispatched : (\E r \in dispatched[e].said : r.keys # {}) =>
        OneActedOn({f \in DOMAIN dispatched : SameEnvelope(e, f)}, dispatched)
=============================================================================
