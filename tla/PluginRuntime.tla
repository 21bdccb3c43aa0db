---------------------------- MODULE PluginRuntime ----------------------------
(***************************************************************************)
(* The OpenClaw plugin runtime shell: the lifecycle of the plugin           *)
(* (lifecycle.ts), its tool and capability registries (tool-registry.ts,    *)
(* capability-registry.ts) and the composition descriptor made from them    *)
(* and from the host's bindings (composition.ts over readiness.ts).         *)
(*                                                                          *)
(* The code is synchronous; one action is one call of the package.  Texts,  *)
(* refs of reports and diagnostics are left out: a report is its kind, its  *)
(* status and whether it is required.  An operator marked "Faulty" is a     *)
(* variant with a bug, used by no specification.                            *)
(***************************************************************************)
EXTENDS Naturals

CONSTANTS
    ToolRefs,           \* the segment after "hazeteam." of each tool ref offered
    CapabilityRefs,
    BindingLists,       \* the sets of bindings a host may compose with
    MaxRevision,        \* bound: lifecycle revisions
    None                \* the undefined of the source

ASSUME PluginAssumption ==
    /\ MaxRevision \in Nat
    /\ None \notin CapabilityRefs

-----------------------------------------------------------------------------
(* lifecycle.ts                                                             *)

States == {"declared", "configured", "initialized", "started", "ready",
           "degraded", "stopping", "stopped", "failed"}
Events == {"configure", "initialize", "start", "mark-ready", "degrade",
           "begin-stop", "stop", "fail"}

\* The state an event leads to, for the transitions that change the state.
Transitions ==
    {<<"configure", "declared", "configured">>,
     <<"initialize", "configured", "initialized">>,
     <<"start", "initialized", "started">>,
     <<"mark-ready", "started", "ready">>, <<"mark-ready", "degraded", "ready">>,
     <<"degrade", "started", "degraded">>, <<"degrade", "ready", "degraded">>,
     <<"stop", "stopping", "stopped">>}
    \cup {<<"begin-stop", s, "stopping">> : s \in States \ {"stopping", "stopped"}}
    \cup {<<"fail", s, "failed">> : s \in States \ {"failed", "stopped"}}

\* describePluginLifecycleSnapshot: whether the plugin takes work.
AcceptsWork(s) == s \in {"ready", "degraded"}

Snapshots == [state : States, revision : 0..MaxRevision,
              degradation : BOOLEAN, failure : BOOLEAN]

InitialSnapshot ==
    [state |-> "declared", revision |-> 0, degradation |-> FALSE, failure |-> FALSE]

-----------------------------------------------------------------------------
(* tool-registry.ts, capability-registry.ts                                 *)

Postures   == {"available", "disabled", "dry-run", "not-ready"}
Categories == {"core", "adapter", "domain", "capability", "diagnostic"}
Effects    == {"none", "read", "state-change", "external-effect"}

\* The second segment that TOOL_REF_PATTERN admits.
ToolSegments == {"core", "adapter", "agent", "workspace", "oca", "diagnostics"}

CategoryMatchesToolRef(category, segment) ==
    \/ category = "domain" /\ segment \in {"agent", "workspace"}
    \/ category = "diagnostic" /\ segment = "diagnostics"
    \/ category \notin {"domain", "diagnostic"} /\ segment = category

CapabilityStates == {"not-configured", "disabled", "ready-dry-run", "ready-fake",
                     "degraded", "failed"}
Capabilities == [readinessState : CapabilityStates, requirement : {"required", "optional"}]

Registered(registry) == {registry[c] : c \in CapabilityRefs} \ {None}

Blocking(capability) ==
    /\ capability.requirement = "required"
    /\ capability.readinessState \notin {"ready-dry-run", "ready-fake"}

-----------------------------------------------------------------------------
(* readiness.ts                                                             *)

Kinds == {"plugin-lifecycle", "core-facade", "adapter-foundation", "transport",
          "capability", "config", "stores", "tools"}

ProfileRequiredKinds(profile) ==
    CASE profile \in {"fake", "dry-run"} -> Kinds \ {"capability", "tools"}
      [] profile \in {"secret-gated-smoke", "real-edge"} ->
            Kinds \ {"capability", "tools", "stores"}
      [] profile = "production-candidate" -> Kinds

\* Faulty: a required kind that nobody reported goes unreported.
ReportsOfPresent(components, required) ==
    {[kind |-> c.kind, status |-> c.status,
      required |-> c.required \/ c.kind \in required] : c \in components}

\* Reports on the components, with one for each required kind nobody reported.
Reports(components, required) ==
    {[kind |-> c.kind, status |-> c.status,
      required |-> c.required \/ c.kind \in required] : c \in components}
    \cup {[kind |-> k, status |-> "missing", required |-> TRUE] :
            k \in required \ {c.kind : c \in components}}

RequiredUnavailable(reports) ==
    {r \in reports : r.required /\ r.status \in {"missing", "not-ready", "disabled", "unknown"}}

OptionalDegraded(reports) ==
    {r \in reports : ~r.required /\ r.status \notin {"ready", "disabled"}}

AggregateStatus(reports) ==
    IF \E r \in reports : r.required /\ r.status = "failed" THEN "failed"
    ELSE IF RequiredUnavailable(reports) # {} THEN "not-ready"
    ELSE IF OptionalDegraded(reports) # {} THEN "degraded"
    ELSE "ready"

-----------------------------------------------------------------------------
(* composition.ts                                                           *)

Profiles == {"fake", "dry-run", "secret-gated-smoke", "real-edge", "production-candidate"}
BindingKinds == {"core-facade", "adapter-foundation", "transport", "store", "config",
                 "approval-token", "observability", "credential-resolver", "fake-evidence",
                 "no-leak-evidence", "optional-overlay"}
BindingStatuses == {"ready", "not-ready", "disabled", "blocked", "degraded", "failed-safe"}
Bindings == [kind : BindingKinds, status : BindingStatuses, required : BOOLEAN]

\* describeOpenClawRuntimeProfile: a gate is "runtime-value" or "real-network".
Gates == {"runtime-value-gate-closed", "real-network-gate-closed"}

ProfileBlockedReasons(profile, closed) ==
    CASE profile \in {"fake", "dry-run"}     -> {}
      [] profile = "secret-gated-smoke"      -> closed
      [] profile = "real-edge"               -> {"real-edge-not-implemented"}
      [] profile = "production-candidate"    -> {"production-runtime-not-implemented"}

DefaultRequiredBindingKinds(profile) ==
    {"core-facade", "adapter-foundation", "transport", "config"}
    \cup (IF profile = "secret-gated-smoke" THEN {} ELSE {"store"})
    \cup (IF profile \in {"fake", "dry-run"} THEN {} ELSE {"credential-resolver"})

\* What is not recognised becomes an overlay, or not ready.
NormalBinding(b, profile) ==
    LET kind == IF b.kind \in BindingKinds THEN b.kind ELSE "optional-overlay" IN
    [kind |-> kind,
     status |-> IF b.status \in BindingStatuses THEN b.status ELSE "not-ready",
     required |-> b.required \/ kind \in DefaultRequiredBindingKinds(profile)]

\* The component a binding stands for, None if it is not reported.
ComponentKind(kind) ==
    CASE kind \in {"core-facade", "transport"} -> kind
      [] kind = "store" -> "stores"
      [] kind \in {"config", "credential-resolver"} -> "config"
      [] kind \in {"adapter-foundation", "fake-evidence", "no-leak-evidence"} ->
            "adapter-foundation"
      [] kind \in {"approval-token", "observability", "optional-overlay"} -> None

ComponentStatus(status) ==
    CASE status \in {"ready", "disabled", "degraded"} -> status
      [] status = "failed-safe" -> "failed"
      [] status \in {"blocked", "not-ready"} -> "not-ready"

Component(kind, ready, required) ==
    [kind |-> kind, status |-> IF ready THEN "ready" ELSE "not-ready", required |-> required]

CompositionComponents(lifecycle, bindings, posture, registered) ==
    {Component("plugin-lifecycle", AcceptsWork(lifecycle.state), TRUE),
     Component("tools", posture # "not-ready", FALSE),
     Component("capability", \A c \in registered : ~Blocking(c), FALSE)}
    \cup {[kind |-> ComponentKind(b.kind), status |-> ComponentStatus(b.status),
           required |-> b.required] : b \in {x \in bindings : ComponentKind(x.kind) # None}}

ReadinessBlockedReasons(reports) ==
    (IF RequiredUnavailable(reports) # {} THEN {"missing-required-binding"} ELSE {})
    \cup (CASE AggregateStatus(reports) = "failed"    -> {"readiness-aggregate-failed"}
            [] AggregateStatus(reports) = "not-ready" -> {"readiness-aggregate-not-ready"}
            [] OTHER -> {})

CompositionStatus(profile, aggregate, reasons) ==
    IF aggregate = "failed" THEN "failed-safe"
    ELSE IF reasons \cap {"real-edge-not-implemented", "production-runtime-not-implemented"} # {}
         THEN "blocked"
    ELSE IF reasons # {}
         THEN IF profile = "secret-gated-smoke" THEN "profile-gated" ELSE "not-ready"
    ELSE IF aggregate = "degraded" THEN "degraded"
    ELSE IF aggregate # "ready" THEN "not-ready"
    ELSE IF profile = "dry-run" THEN "dry-run-ready" ELSE "fake-ready"

NextSteps(reasons) ==
    LET steps ==
        {s \in {"provide-required-runtime-bindings", "keep-secret-gated-edge-explicitly-blocked",
                "defer-real-edge-runtime-to-assigned-slice",
                "defer-production-runtime-to-future-gate"} :
            \/ s = "provide-required-runtime-bindings" /\ "missing-required-binding" \in reasons
            \/ s = "keep-secret-gated-edge-explicitly-blocked" /\ Gates \cap reasons # {}
            \/ s = "defer-real-edge-runtime-to-assigned-slice"
                  /\ "real-edge-not-implemented" \in reasons
            \/ s = "defer-production-runtime-to-future-gate"
                  /\ "production-runtime-not-implemented" \in reasons}
    IN IF steps = {} THEN {"continue-fake-e2e-acceptance-evidence"} ELSE steps

\* composeOpenClawRuntime: the descriptor of a composition.
Composition(named, closed, given, lifecycle, registry, registered) ==
    LET profile  == IF named \in Profiles THEN named ELSE "fake"
        bindings == {NormalBinding(b, profile) : b \in given}
        reports  == Reports(CompositionComponents(lifecycle, bindings, registry.posture,
                                                  Registered(registered)),
                            ProfileRequiredKinds(profile))
        reasons  == ProfileBlockedReasons(profile, closed) \cup ReadinessBlockedReasons(reports)
        status   == CompositionStatus(profile, AggregateStatus(reports), reasons)
    IN [profile |-> profile, lifecycle |-> lifecycle, bindings |-> bindings,
        toolRegistry |-> registry, capabilities |-> registered,
        status |-> status, blockedReasons |-> reasons, nextSteps |-> NextSteps(reasons),
        fakeE2eCompatible |-> profile = "fake" /\ status = "fake-ready" /\ reasons = {}]

-----------------------------------------------------------------------------
VARIABLES
    snapshot,       \* the lifecycle snapshot; of its history only the two last reasons
    toolRegistry,   \* its default posture, and category and effect of each tool registered
    capabilities,   \* the registered capabilities, None if unknown
    composition     \* the last composition descriptor, None before the first

vars == <<snapshot, toolRegistry, capabilities, composition>>

ToolRegistry(posture) == [posture |-> posture, tools |-> [t \in ToolRefs |-> None]]
NoCapabilities        == [c \in CapabilityRefs |-> None]

Init ==
    /\ snapshot = InitialSnapshot
    /\ \E posture \in Postures : toolRegistry = ToolRegistry(posture)
    /\ capabilities = NoCapabilities
    /\ composition = None

\* Faulty: a degradation does not count as a revision.
MovedSilently(from, event, to) ==
    [state |-> to, revision |-> from.revision + (IF event = "degrade" THEN 0 ELSE 1),
     degradation |-> event = "degrade" \/ (event # "mark-ready" /\ from.degradation),
     failure |-> event = "fail" \/ from.failure]

\* transitionTo: the reason of a degradation is dropped when the plugin is ready again,
\* the reason of a failure never.
Moved(from, event, to) ==
    [state |-> to, revision |-> from.revision + 1,
     degradation |-> event = "degrade" \/ (event # "mark-ready" /\ from.degradation),
     failure |-> event = "fail" \/ from.failure]

\* Any other event is rejected, or accepted and changes nothing.
ApplyTransition(event) ==
    /\ snapshot.revision < MaxRevision
    /\ \E to \in States :
          /\ <<event, snapshot.state, to>> \in Transitions
          /\ snapshot' = Moved(snapshot, event, to)
    /\ UNCHANGED <<toolRegistry, capabilities, composition>>

\* registerToolDescriptor: a descriptor that is not valid, or whose ref is taken, is rejected.
RegisterToolDescriptor(ref) ==
    /\ ref.segment \in ToolSegments
    /\ toolRegistry.tools[ref] = None
    /\ \E category \in Categories, effect \in Effects :
          /\ CategoryMatchesToolRef(category, ref.segment)
          /\ toolRegistry' = [toolRegistry EXCEPT !.tools[ref] =
                                 [category |-> category, effect |-> effect]]
    /\ UNCHANGED <<snapshot, capabilities, composition>>

\* register: a descriptor that is not valid, or whose ref is taken, is rejected.
RegisterCapability(ref) ==
    /\ capabilities[ref] = None
    /\ \E capability \in Capabilities :
          capabilities' = [capabilities EXCEPT ![ref] = capability]
    /\ UNCHANGED <<snapshot, toolRegistry, composition>>

\* A lifecycle or a registry that is not passed is the initial, or the empty one.
ComposeOpenClawRuntime(named, closed, given) ==
    /\ \E lifecycle \in {snapshot, InitialSnapshot},
          registry \in {toolRegistry, ToolRegistry("not-ready")},
          registered \in {capabilities, NoCapabilities} :
          composition' = Composition(named, closed, given, lifecycle, registry, registered)
    /\ UNCHANGED <<snapshot, toolRegistry, capabilities>>

Next ==
    \/ \E event \in Events : ApplyTransition(event)
    \/ \E ref \in ToolRefs : RegisterToolDescriptor(ref)
    \/ \E ref \in CapabilityRefs : RegisterCapability(ref)
    \/ \E named \in Profiles \cup {"unrecognised"}, closed \in SUBSET Gates, given \in BindingLists :
          ComposeOpenClawRuntime(named, closed, given)

Spec == Init /\ [][Next]_vars
-----------------------------------------------------------------------------
Composed == composition # None
Claims   == {"fake-ready", "dry-run-ready", "degraded"}

\* Every variable has its type: lifecycle.ts, the registries and the descriptor of
\* composition.ts hold only the values their declarations name.
TypeOK ==
    /\ snapshot \in Snapshots
    /\ toolRegistry \in [posture : Postures,
                         tools : [ToolRefs -> [category : Categories, effect : Effects] \cup {None}]]
    /\ capabilities \in [CapabilityRefs -> Capabilities \cup {None}]
    /\ Composed =>
          /\ composition.profile \in Profiles
          /\ composition.lifecycle \in Snapshots
          /\ composition.bindings \subseteq Bindings
          /\ composition.status \in Claims \cup {"not-ready", "blocked", "failed-safe", "profile-gated"}

\* Shutdown is one way: a plugin that is stopping, stopped or failed never accepts work again.
ShutdownIsOneWay ==
    [][snapshot.state \in {"stopping", "stopped", "failed"} =>
          snapshot'.state \in {"stopping", "stopped", "failed"}]_vars

\* A descriptor's lifecycle revision tells whether it is stale: one that carries the
\* plugin's revision carries the plugin's lifecycle, and none is ahead of it.
RevisionIdentifiesSnapshot ==
    Composed =>
        /\ composition.lifecycle.revision <= snapshot.revision
        /\ composition.lifecycle.revision = snapshot.revision => composition.lifecycle = snapshot

\* What a descriptor listed as registered stays registered, with the same description.
RegistrationsStand ==
    Composed =>
        /\ \A t \in ToolRefs : composition.toolRegistry.tools[t] \in {None, toolRegistry.tools[t]}
        /\ \A c \in CapabilityRefs : composition.capabilities[c] \in {None, capabilities[c]}

\* A claim to be ready is earned: the lifecycle accepts work, the profile's gates are open,
\* nothing required is blocked or absent; unless it says degraded, the tools are
\* available and no capability blocks.
ReadyClaimIsEarned ==
    Composed /\ composition.status \in Claims =>
        /\ AcceptsWork(composition.lifecycle.state)
        /\ composition.profile \in {"fake", "dry-run", "secret-gated-smoke"}
        /\ composition.blockedReasons = {}
        /\ \A b \in composition.bindings :
              b.required /\ ComponentKind(b.kind) # None => b.status \in {"ready", "degraded"}
        /\ {"core-facade", "transport"} \subseteq {b.kind : b \in composition.bindings}
        /\ composition.status # "degraded" =>
              /\ composition.toolRegistry.posture # "not-ready"
              /\ \A c \in Registered(composition.capabilities) : ~Blocking(c)

\* "missing required runtime bindings produce safe not-ready evidence, not a readiness
\* claim" (runtime-composition.test.mjs:193), of the bindings a profile requires by default.
\* It does not hold: a report is by component, and two bindings can stand for one component.
MissingBindingIsNotReady ==
    Composed /\ composition.status \in Claims =>
        DefaultRequiredBindingKinds(composition.profile)
            \subseteq {b.kind : b \in composition.bindings}
=============================================================================
