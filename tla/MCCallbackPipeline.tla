-------------------------- MODULE MCCallbackPipeline --------------------------
(***************************************************************************)
(* Instances of CallbackPipeline, HostCommands and InboundRoutes for TLC:   *)
(* what is made of a callback, of the updates of the provider, and of the   *)
(* events that become commands.                                             *)
(***************************************************************************)
EXTENDS CallbackPipeline, HostCommands, InboundRoutes, TLC

VARIABLE part       \* which of the modules, and of their parts, a behaviour is about

Interchangeable == Permutations(Tokens) \cup Permutations(Callers)

\* An event of each kind, sound and not; a name that is long, one that two commands share.
MCEventOf ==
    LET event(kind, name, flaws) == [kind |-> kind, name |-> name, flaws |-> flaws]
    IN [hello     |-> event("message", "none", {}),
        files     |-> event("message", "none", {"attachments"}),
        help      |-> event("command", "help", {}),
        run       |-> event("command", "run", {}),
        long      |-> event("command", "long", {}),
        misnamed  |-> event("command", "help", {"name"}),
        button    |-> event("callback", "none", {}),
        badButton |-> event("callback", "none", {"resource"}),
        joined    |-> event("system", "none", {}),
        action    |-> event("host-action", "run", {}),
        intent    |-> event("user-intent", "run", {"data"})]
MCCommandEvents == DOMAIN MCEventOf

\* Two commands with an alias, two that share a name, one that is not known to its set.
MCCommandSets ==
    LET command(name, aliases) == [name |-> name, aliases |-> aliases, flaws |-> {}]
    IN {[commands |-> <<command("help", <<"h">>), command("run", <<>>)>>, default |-> {"h"}],
        [commands |-> <<command("help", <<"run">>), command("run", <<>>)>>, default |-> {}],
        [commands |-> <<command("help", <<>>)>>, default |-> {"run"}],
        [commands |-> <<command("long", <<>>)>>, default |-> {}],
        [commands |-> <<[command("run", <<>>) EXCEPT !.flaws = {"title"}]>>, default |-> {}]}

\* Numbers that differ in their sign, and the second of them as a text; an identifier that is not safe.
MCIdOf ==
    LET id(body, numeric, dashed, safe) == [body |-> body, numeric |-> numeric, dashed |-> dashed, safe |-> safe]
    IN [five |-> id("five", TRUE, FALSE, TRUE), minusFive |-> id("five", TRUE, TRUE, TRUE),
        dashFive |-> id("five", FALSE, TRUE, TRUE), six |-> id("six", TRUE, FALSE, TRUE), bad |-> id("bad", FALSE, FALSE, FALSE)]
MCTextOf ==
    LET text(slash, name, safe) == [slash |-> slash, name |-> name, safe |-> safe]
    IN [hello |-> text(FALSE, {}, TRUE), status |-> text(TRUE, {"status"}, TRUE), help |-> text(TRUE, {"help"}, TRUE),
        other |-> text(TRUE, {"other"}, TRUE), malformed |-> text(TRUE, {}, TRUE), unsafe |-> text(TRUE, {"status"}, FALSE)]

MCUpdateOf ==
    LET base == [kind |-> "message", channel |-> "five", chat |-> "five", thread |-> "six", message |-> "five",
                 event |-> "none", callback |-> "none", text |-> "status", command |-> "none", ignored |-> FALSE, asksAck |-> TRUE]
    IN [plain     |-> base,
        numbered  |-> [base EXCEPT !.event = "six"],
        next      |-> [base EXCEPT !.message = "six"],
        elsewhere |-> [base EXCEPT !.thread = "five"],
        negative  |-> [base EXCEPT !.chat = "minusFive"],
        dashed    |-> [base EXCEPT !.chat = "dashFive"],
        unthreaded |-> [base EXCEPT !.thread = "none"],
        unsafe    |-> [base EXCEPT !.text = "unsafe"],
        malformed |-> [base EXCEPT !.text = "malformed"],
        hello     |-> [base EXCEPT !.text = "hello"],
        asksHelp  |-> [base EXCEPT !.text = "help"],
        asksOther |-> [base EXCEPT !.text = "other"],
        explicit  |-> [base EXCEPT !.text = "malformed", !.command = "status"],
        renamed   |-> [base EXCEPT !.kind = "text_message"],
        button    |-> [base EXCEPT !.kind = "callback", !.callback = "six"],
        button2   |-> [base EXCEPT !.kind = "callback", !.callback = "five"],
        unnamedButton |-> [base EXCEPT !.kind = "callback"],
        topic     |-> [base EXCEPT !.kind = "system"],
        unknown   |-> [base EXCEPT !.kind = "poll"],
        nothing   |-> [base EXCEPT !.kind = "not-an-object"],
        dropped   |-> [base EXCEPT !.ignored = TRUE],
        unasked   |-> [base EXCEPT !.asksAck = FALSE, !.message = "bad"]]
MCInUpdates == DOMAIN MCUpdateOf

MCEnvelopeOf ==
    LET base == [kind |-> "message", flaws |-> {}, channel |-> <<"five">>, chat |-> <<"none", "five">>, thread |-> <<"none">>,
                 messageThread |-> <<"none">>, topThread |-> <<"six">>, message |-> <<"five">>, callback |-> <<"none">>,
                 text |-> "some", attachments |-> FALSE, payload |-> "none", systemKindKnown |-> TRUE]
        pressed == [base EXCEPT !.kind = "callback", !.callback = <<"five">>, !.payload = "token"]
    IN [said      |-> base,
        saidAgain |-> [base EXCEPT !.thread = <<"six">>, !.topThread = <<"five">>],
        saidLater |-> [base EXCEPT !.message = <<"six", "five">>],
        saidBelow |-> [base EXCEPT !.messageThread = <<"five">>],
        badFirst  |-> [base EXCEPT !.thread = <<"bad">>],
        empty     |-> [base EXCEPT !.text = "empty", !.attachments = TRUE],
        picture   |-> [base EXCEPT !.text = "none", !.attachments = TRUE],
        flawed    |-> [base EXCEPT !.flaws = {"actor"}],
        pressed   |-> pressed,
        pressed2  |-> [pressed EXCEPT !.callback = <<"six">>, !.message = <<"none">>],
        raw       |-> [pressed EXCEPT !.payload = "other"],
        badPlace  |-> [pressed EXCEPT !.message = <<"bad">>],
        joined    |-> [base EXCEPT !.kind = "system"],
        odd       |-> [base EXCEPT !.kind = "poll"]]
MCEnvelopes == DOMAIN MCEnvelopeOf

MCRouteBindingOf ==
    LET binding(topic, status, safe) == [topic |-> topic, status |-> status, safe |-> safe]
    IN [b1 |-> binding(<<"five", "five", "six">>, "active", TRUE), b2 |-> binding(<<"five", "five", "six">>, "disabled", TRUE),
        b3 |-> binding(<<"five", "five", "six">>, "active", FALSE), b4 |-> binding(<<"five", "five", "five">>, "active", TRUE)]
MCBindingLists == {<<>>, <<"b2", "b1">>, <<"b3", "b1", "b2">>, <<"b4">>}
MCCommandLists ==
    LET command(name, needsBinding, help, enabled) ==
            [name |-> name, needsBinding |-> needsBinding, help |-> help, enabled |-> enabled, safe |-> TRUE]
    IN {<<command("help", FALSE, TRUE, TRUE), command("status", TRUE, FALSE, TRUE)>>,
        <<command("help", TRUE, TRUE, TRUE), command("status", TRUE, FALSE, FALSE)>>}

\* An event at a time: events share nothing but the facade.  Two updates, or two envelopes, share what is remembered.
MCRouted ==
    {"plain", "numbered", "next", "elsewhere", "negative", "dashed", "hello", "renamed", "button", "button2", "unnamedButton"}
MCPairs(S, T) == {{x, y} : x \in S, y \in T}
MCParts ==
    {<<"callbacks">>, <<"runtime">>} \cup {<<"event", e>> : e \in CommandEvents} \cup {<<"source", u>> : u \in InUpdates}
        \cup {<<"route", p>> : p \in MCPairs({"plain", "button"}, MCRouted)} \cup {<<"map", p>> : p \in MCPairs({"said", "pressed"}, Envelopes)}
MCInit ==
    /\ part \in MCParts
    /\ Init /\ CommandsInit /\ RoutesInit
    /\ part[1] # "event" => coreMethods = {} /\ commandSet = {} /\ commandHost.readiness = "not-ready"
    /\ part[1] # "runtime" => runtimePort = FALSE
    /\ part[1] # "source" => sourceConfig = "missing"
    /\ part[1] # "source" => routeBindings = <<>>
    /\ part[1] # "source" => routeCommands = CHOOSE c \in CommandLists : TRUE
\* All dispatches may have been given as often as the bound allows.
ChangeNothing == UNCHANGED commandVars

MCRoutesNext ==
    \/ part[1] = "source" /\ SourceNext({part[2]})
    \/ part[1] = "route" /\ PrepareNext(part[2])
    \/ part[1] = "map" /\ MapNext(part[2])
    \/ part[1] \in {"route", "map"} /\ ChangeBindings

MCNext ==
    /\ \/ part[1] = "callbacks" /\ Next /\ UNCHANGED <<commandVars, routeVars>>
       \/ part[1] = "runtime" /\ (DispatchesNext \/ ChangeNothing) /\ UNCHANGED <<vars, routeVars>>
       \/ /\ part[1] = "event" /\ EventsNext /\ UNCHANGED <<vars, routeVars>>
          /\ \A e \in CommandEvents : commandCalls'[e] # commandCalls[e] => e = part[2]
       \/ MCRoutesNext /\ UNCHANGED <<vars, commandVars>>
    /\ UNCHANGED part
MCSpec == MCInit /\ [][MCNext]_<<vars, commandVars, routeVars, part>>
=============================================================================
