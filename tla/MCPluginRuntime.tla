---------------------------- MODULE MCPluginRuntime ----------------------------
(***************************************************************************)
(* An instance of PluginRuntime for TLC.  MCSpec bounds a behaviour in one  *)
(* of two ways: "steps" composes with ready bindings only, between any      *)
(* lifecycle events and registrations; "inputs" composes once, after four   *)
(* lifecycle events, with every list of bindings, profile and gate.         *)
(***************************************************************************)
EXTENDS PluginRuntime, OutboundDelivery

VARIABLE scope      \* bound: "steps" or "inputs" of the runtime, or "outbound"

mcvars == <<vars, outboundVars, scope>>

Tool(segment) == [segment |-> segment]
MCToolRefs == {Tool("core"), Tool("oca")}

Binding(kind, status) == [kind |-> kind, status |-> status, required |-> FALSE]
AllReady == {Binding(k, "ready") : k \in BindingKinds}

\* All bindings ready, but for one or two that are absent or one that is not ready;
\* and an input that is not recognised.
MCBindingLists ==
    {AllReady \ {Binding(k, "ready"), Binding(l, "ready")} : k, l \in BindingKinds}
    \cup {(AllReady \ {Binding(k, "ready")}) \cup {Binding(k, s)} :
            k \in BindingKinds, s \in BindingStatuses \cup {"elsewhere"}}
    \cup {AllReady, {}, AllReady \cup {Binding("elsewhere", "failed-safe")},
          AllReady \cup {[Binding("optional-overlay", "failed-safe") EXCEPT !.required = TRUE]}}

\* Requests that are sound, or unsafe in one place.
MCOutboundRequests ==
    {r \in Requests :
        \/ /\ r.targetRef = "safe" /\ r.content = "safe" /\ r.idempotencyRef = {}
           /\ r.deliveryRef = "safe" \/ r.required
        \/ /\ r.deliveryRef = "safe" /\ r.required
           /\ \/ r.targetRef = "loose" /\ r.content = "safe" /\ r.idempotencyRef = {}
              \/ r.targetRef = "safe" /\ r.idempotencyRef = {}
              \/ r.targetRef = "safe" /\ r.content = "safe"}

\* All there, or one thing missing.
MCOptionSets ==
    {o \in Options :
        /\ o.credentialStatus \in {"redacted", "missing"}
        /\ \/ o.enabled /\ o.port = {"deliver", "acknowledgeCallback"}
           \/ ~o.enabled /\ o.port # {} /\ o.credentialStatus = "redacted"
           \/ o.enabled /\ o.port # {"deliver"} /\ o.credentialStatus = "redacted"}

MCInit ==
    /\ Init /\ OutboundInit /\ scope \in {"steps", "inputs", "outbound"}
    /\ \/ scope = "outbound" /\ toolRegistry.posture = "available"
       \/ scope # "outbound" /\ boundary = "pump" /\ options = CHOOSE o \in OptionSets : TRUE

\* Capabilities by what the composition asks of them.
Simple == {c \in Capabilities : c.readinessState \in {"ready-fake", "failed"}}

Steps ==
    \/ \E event \in Events : ApplyTransition(event)
    \/ \E ref \in ToolRefs : RegisterToolDescriptor(ref)
    \/ \E ref \in CapabilityRefs : RegisterCapability(ref)
    \/ ComposeOpenClawRuntime("fake", {}, AllReady)

Inputs ==
    /\ composition = None
    /\ toolRegistry.posture \in {"available", "not-ready"}
    /\ \/ snapshot.revision < 4 /\ Steps /\ composition' = None /\ UNCHANGED toolRegistry
       \/ snapshot.revision = 4 /\ Next /\ composition' # None

MCNext ==
    /\ \/ /\ \/ scope = "steps" /\ Steps
             \/ scope = "inputs" /\ Inputs
          /\ Registered(capabilities') \subseteq Simple
          /\ UNCHANGED outboundVars
       \/ scope = "outbound" /\ OutboundNext /\ UNCHANGED vars
    /\ UNCHANGED scope

MCSpec == MCInit /\ [][MCNext]_mcvars /\ OutboundFairness
=============================================================================
