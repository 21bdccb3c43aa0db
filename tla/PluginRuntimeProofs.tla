------------------------- MODULE PluginRuntimeProofs -------------------------
(***************************************************************************)
(* Proofs about the parts that keep what they are told in memory.           *)
(* PluginRuntime, for every set of tools, capabilities and bindings: a      *)
(* composition descriptor may be stale but never lies about it, its claim   *)
(* to be ready is earned, and shutdown is one way. OutboundDelivery, for    *)
(* any messages, requests and configurations: what is told of a delivery is *)
(* true. OcaSessions, OcaApprovals and ApprovalBridges, for any sessions,   *)
(* requests, checksums and callers: what is stored is found and shown, and  *)
(* what has an effect was granted.                                          *)
(***************************************************************************)
EXTENDS PluginRuntime, OutboundDelivery, OcaSessions, OcaApprovals, ApprovalBridges, TLAPS

-----------------------------------------------------------------------------
(* The lifecycle and the descriptor                                        *)

USE PluginAssumption

\* What the invariant needs of the types.
SoundTypes ==
    /\ snapshot \in Snapshots
    /\ toolRegistry \in [posture : Postures,
                         tools : [ToolRefs -> [category : Categories, effect : Effects] \cup {None}]]
    /\ capabilities \in [CapabilityRefs -> Capabilities \cup {None}]
    /\ Composed => composition.lifecycle \in Snapshots

\* Revision 0 is the initial snapshot: a descriptor made without a lifecycle is not ahead of it.
InitialIsFirst == snapshot.revision = 0 => snapshot = InitialSnapshot

IInv == SoundTypes /\ InitialIsFirst /\ RevisionIdentifiesSnapshot /\ RegistrationsStand

\* A descriptor carries the lifecycle and the registries it was composed from.
LEMMA CompositionCarries ==
    ASSUME NEW named, NEW closed, NEW given, NEW lifecycle, NEW registry, NEW registered
    PROVE  LET d == Composition(named, closed, given, lifecycle, registry, registered)
           IN d.lifecycle = lifecycle /\ d.toolRegistry = registry /\ d.capabilities = registered
BY DEF Composition

LEMMA EmptyRegistries ==
    /\ ToolRegistry("not-ready") \in
         [posture : Postures, tools : [ToolRefs -> [category : Categories, effect : Effects] \cup {None}]]
    /\ NoCapabilities \in [CapabilityRefs -> Capabilities \cup {None}]
    /\ \A t \in ToolRefs : ToolRegistry("not-ready").tools[t] = None
    /\ \A c \in CapabilityRefs : NoCapabilities[c] = None
BY DEF ToolRegistry, NoCapabilities, Postures

LEMMA InitialHolds == Init => IInv
<1> SUFFICES ASSUME Init PROVE IInv
  OBVIOUS
<1>1. SoundTypes
  BY DEF Init, SoundTypes, InitialSnapshot, Snapshots, States, ToolRegistry, NoCapabilities, Composed
<1> QED
  BY <1>1 DEF Init, IInv, InitialIsFirst, RevisionIdentifiesSnapshot, RegistrationsStand, Composed

\* A transition makes a snapshot of the next revision.
LEMMA TransitionStep ==
    ASSUME NEW event \in Events, SoundTypes, ApplyTransition(event)
    PROVE  snapshot' \in Snapshots /\ snapshot'.revision = snapshot.revision + 1
<1> PICK to \in States : snapshot' = Moved(snapshot, event, to)
  BY DEF ApplyTransition
<1>1. snapshot.revision \in 0..MaxRevision /\ snapshot.revision < MaxRevision
  BY DEF SoundTypes, Snapshots, ApplyTransition
<1>2. snapshot.degradation \in BOOLEAN /\ snapshot.failure \in BOOLEAN
  BY DEF SoundTypes, Snapshots
<1>3. snapshot.revision + 1 \in 0..MaxRevision
  BY <1>1
<1>4. (event = "degrade" \/ (event # "mark-ready" /\ snapshot.degradation)) \in BOOLEAN
      /\ (event = "fail" \/ snapshot.failure) \in BOOLEAN
  OBVIOUS
<1> QED
  BY <1>3, <1>4, Zenon DEF Moved, Snapshots

\* Every step keeps the invariant.
LEMMA Inductive == IInv /\ [Next]_vars => IInv'
<1> SUFFICES ASSUME IInv, [Next]_vars PROVE IInv'
  OBVIOUS
<1> USE DEF IInv
<1>1. ASSUME NEW event \in Events, ApplyTransition(event) PROVE IInv'
  <2>1. snapshot' \in Snapshots /\ snapshot'.revision = snapshot.revision + 1
    BY <1>1, TransitionStep
  <2>2. snapshot.revision \in Nat
    BY DEF SoundTypes, Snapshots
  <2>3. UNCHANGED <<toolRegistry, capabilities, composition>>
    BY <1>1 DEF ApplyTransition
  <2>4. SoundTypes' /\ RegistrationsStand'
    BY <2>1, <2>3, Zenon DEF SoundTypes, RegistrationsStand, Composed
  <2>5. InitialIsFirst'
    BY <2>1, <2>2 DEF InitialIsFirst
  <2>6. RevisionIdentifiesSnapshot'
    <3>1. Composed => composition.lifecycle.revision \in Nat
                      /\ composition.lifecycle.revision <= snapshot.revision
      BY DEF SoundTypes, Snapshots, RevisionIdentifiesSnapshot
    <3>2. Composed => composition.lifecycle.revision < snapshot'.revision
      BY <2>1, <2>2, <3>1
    <3> QED
      BY <2>1, <2>2, <2>3, <3>1, <3>2 DEF RevisionIdentifiesSnapshot, Composed
  <2> QED
    BY <2>4, <2>5, <2>6
<1>2. ASSUME NEW ref \in ToolRefs, RegisterToolDescriptor(ref) PROVE IInv'
  <2> PICK category \in Categories, effect \in Effects :
        toolRegistry' = [toolRegistry EXCEPT !.tools[ref] = [category |-> category, effect |-> effect]]
    BY <1>2 DEF RegisterToolDescriptor
  <2>1. toolRegistry.tools[ref] = None /\ UNCHANGED <<snapshot, capabilities, composition>>
    BY <1>2 DEF RegisterToolDescriptor
  <2>2. SoundTypes' /\ InitialIsFirst' /\ RevisionIdentifiesSnapshot'
    BY <2>1 DEF SoundTypes, InitialIsFirst, RevisionIdentifiesSnapshot, Composed
  <2>3. \A t \in ToolRefs : toolRegistry.tools[t] \in {None, toolRegistry'.tools[t]}
    BY <2>1 DEF SoundTypes
  <2>4. RegistrationsStand'
    BY <2>1, <2>3 DEF RegistrationsStand, Composed
  <2> QED
    BY <2>2, <2>4
<1>3. ASSUME NEW ref \in CapabilityRefs, RegisterCapability(ref) PROVE IInv'
  <2> PICK capability \in Capabilities : capabilities' = [capabilities EXCEPT ![ref] = capability]
    BY <1>3 DEF RegisterCapability
  <2>1. capabilities[ref] = None /\ UNCHANGED <<snapshot, toolRegistry, composition>>
    BY <1>3 DEF RegisterCapability
  <2>2. SoundTypes' /\ InitialIsFirst' /\ RevisionIdentifiesSnapshot'
    BY <2>1 DEF SoundTypes, InitialIsFirst, RevisionIdentifiesSnapshot, Composed
  <2>3. \A c \in CapabilityRefs : capabilities[c] \in {None, capabilities'[c]}
    BY <2>1 DEF SoundTypes
  <2>4. RegistrationsStand'
    BY <2>1, <2>3 DEF RegistrationsStand, Composed
  <2> QED
    BY <2>2, <2>4
<1>4. ASSUME NEW named, NEW closed, NEW given, ComposeOpenClawRuntime(named, closed, given)
      PROVE  IInv'
  <2>1. UNCHANGED <<snapshot, toolRegistry, capabilities>>
    BY <1>4 DEF ComposeOpenClawRuntime
  <2>2. /\ composition'.lifecycle \in {snapshot, InitialSnapshot}
        /\ composition'.toolRegistry \in {toolRegistry, ToolRegistry("not-ready")}
        /\ composition'.capabilities \in {capabilities, NoCapabilities}
    BY <1>4, CompositionCarries DEF ComposeOpenClawRuntime
  <2>3. SoundTypes' /\ InitialIsFirst'
    <3>1. InitialSnapshot \in Snapshots
      BY DEF InitialSnapshot, Snapshots, States
    <3> QED
      BY <2>1, <2>2, <3>1 DEF SoundTypes, InitialIsFirst
  <2>4. RevisionIdentifiesSnapshot'
    <3>1. snapshot.revision \in Nat
      BY DEF SoundTypes, Snapshots
    <3>2. InitialSnapshot.revision = 0
      BY DEF InitialSnapshot
    <3> QED
      BY <2>1, <2>2, <3>1, <3>2 DEF RevisionIdentifiesSnapshot, InitialIsFirst
  <2>5. RegistrationsStand'
    BY <2>1, <2>2, EmptyRegistries DEF RegistrationsStand
  <2> QED
    BY <2>3, <2>4, <2>5
<1>5. CASE UNCHANGED vars
  BY <1>5 DEF vars, SoundTypes, InitialIsFirst, RevisionIdentifiesSnapshot, RegistrationsStand, Composed
<1> QED
  BY <1>1, <1>2, <1>3, <1>4, <1>5 DEF Next

THEOREM AlwaysSound == Spec => []IInv
BY InitialHolds, Inductive, PTL DEF Spec

\* A descriptor that carries the plugin's lifecycle revision carries its lifecycle.
THEOREM StaleIsVisible == Spec => []RevisionIdentifiesSnapshot
<1>1. IInv => RevisionIdentifiesSnapshot
  BY DEF IInv
<1> QED
  BY AlwaysSound, <1>1, PTL

\* What a descriptor lists as registered is registered, unchanged, ever after.
THEOREM RegistrationIsFinal == Spec => []RegistrationsStand
<1>1. IInv => RegistrationsStand
  BY DEF IInv
<1> QED
  BY AlwaysSound, <1>1, PTL

\* No transition leads from shutdown or failure back to work.
LEMMA ShutdownStep ==
    [Next]_vars =>
        (snapshot.state \in {"stopping", "stopped", "failed"} =>
            snapshot'.state \in {"stopping", "stopped", "failed"})
<1> SUFFICES ASSUME [Next]_vars, snapshot.state \in {"stopping", "stopped", "failed"}
             PROVE  snapshot'.state \in {"stopping", "stopped", "failed"}
  OBVIOUS
<1>1. ASSUME NEW event \in Events, ApplyTransition(event)
      PROVE  snapshot'.state \in {"stopping", "stopped", "failed"}
  <2> PICK to \in States : /\ <<event, snapshot.state, to>> \in Transitions
                           /\ snapshot' = Moved(snapshot, event, to)
    BY <1>1 DEF ApplyTransition
  <2>1. to \in {"stopping", "stopped", "failed"}
    BY DEF Transitions
  <2> QED
    BY <2>1 DEF Moved
<1>2. CASE UNCHANGED snapshot
  BY <1>2
<1> QED
  BY <1>1, <1>2 DEF Next, vars, RegisterToolDescriptor, RegisterCapability, ComposeOpenClawRuntime

\* A plugin that is stopping, stopped or failed never accepts work again.
THEOREM ShutdownIsFinal == Spec => ShutdownIsOneWay
<1>1. [Next]_vars =>
        [snapshot.state \in {"stopping", "stopped", "failed"} =>
            snapshot'.state \in {"stopping", "stopped", "failed"}]_vars
  BY ShutdownStep
<1> QED
  BY <1>1, PTL DEF Spec, ShutdownIsOneWay

-----------------------------------------------------------------------------
(* What a claim to be ready takes                                           *)

\* A composition that claims to be ready has no reason against it.
LEMMA ClaimsAreUnblocked ==
    ASSUME NEW profile, NEW reports, NEW reasons,
           CompositionStatus(profile, AggregateStatus(reports), reasons) \in Claims
    PROVE  /\ reasons = {}
           /\ AggregateStatus(reports) \in {"ready", "degraded"}
           /\ CompositionStatus(profile, AggregateStatus(reports), reasons) # "degraded"
                => AggregateStatus(reports) = "ready"
BY DEF CompositionStatus, Claims, AggregateStatus

LEMMA ClaimsAreClean ==
    ASSUME NEW reports, AggregateStatus(reports) \in {"ready", "degraded"}
    PROVE  /\ \A r \in reports : r.required =>
                 r.status \notin {"failed", "missing", "not-ready", "disabled", "unknown"}
           /\ AggregateStatus(reports) = "ready" =>
                 \A r \in reports : r.status \in {"ready", "disabled"} \/ r.required
BY DEF AggregateStatus, RequiredUnavailable, OptionalDegraded

\* Each component is reported, and each required kind that none is of is reported missing.
LEMMA ComponentIsReported ==
    ASSUME NEW components, NEW required, NEW c \in components
    PROVE  \E r \in Reports(components, required) :
              /\ r.status = c.status
              /\ c.required => r.required
<1> DEFINE needed == c.required \/ c.kind \in required
           report == [kind |-> c.kind, status |-> c.status, required |-> needed]
<1>1. report \in Reports(components, required)
  BY Zenon DEF Reports
<1>2. c.required => needed
  OBVIOUS
<1> HIDE DEF needed
<1>3. report.status = c.status /\ report.required = needed
  OBVIOUS
<1> HIDE DEF report
<1> QED
  BY <1>1, <1>2, <1>3

LEMMA RequiredKindIsReported ==
    ASSUME NEW components, NEW required,
           NEW k \in required, k \notin {c.kind : c \in components}
    PROVE  \E r \in Reports(components, required) : r.status = "missing" /\ r.required
<1> DEFINE report == [kind |-> k, status |-> "missing", required |-> TRUE]
<1>1. report \in Reports(components, required)
  BY Zenon DEF Reports
<1>2. report.status = "missing" /\ report.required = TRUE
  OBVIOUS
<1> HIDE DEF report
<1> QED
  BY <1>1, <1>2

LEMMA NormalBindings ==
    ASSUME NEW b, NEW profile
    PROVE  NormalBinding(b, profile).kind \in BindingKinds
           /\ NormalBinding(b, profile).status \in BindingStatuses
BY DEF NormalBinding, BindingKinds, BindingStatuses

\* Only the core facade and the transport stand for themselves.
LEMMA KindStandsForItself ==
    ASSUME NEW kind \in BindingKinds, NEW k \in {"core-facade", "transport"},
           ComponentKind(kind) = k, ComponentKind(kind) # None
    PROVE  kind = k
BY DEF ComponentKind, BindingKinds

\* What the descriptor of a composition shows of a claim: the claim is earned.
Earned(d) ==
    /\ AcceptsWork(d.lifecycle.state)
    /\ d.profile \in {"fake", "dry-run", "secret-gated-smoke"}
    /\ d.blockedReasons = {}
    /\ \A b \in d.bindings :
          b.required /\ ComponentKind(b.kind) # None => b.status \in {"ready", "degraded"}
    /\ {"core-facade", "transport"} \subseteq {b.kind : b \in d.bindings}
    /\ d.status # "degraded" =>
          /\ d.toolRegistry.posture # "not-ready"
          /\ \A c \in Registered(d.capabilities) : ~Blocking(c)

LEMMA ClaimsAreEarned ==
    ASSUME NEW named, NEW closed, NEW given, NEW lifecycle, NEW registry, NEW registered,
           Composition(named, closed, given, lifecycle, registry, registered).status \in Claims
    PROVE  Earned(Composition(named, closed, given, lifecycle, registry, registered))
<1> DEFINE profile    == IF named \in Profiles THEN named ELSE "fake"
           bindings   == {NormalBinding(b, profile) : b \in given}
           components == CompositionComponents(lifecycle, bindings, registry.posture,
                                               Registered(registered))
           reports    == Reports(components, ProfileRequiredKinds(profile))
           gated      == ProfileBlockedReasons(profile, closed)
           reasons    == gated \cup ReadinessBlockedReasons(reports)
           status     == CompositionStatus(profile, AggregateStatus(reports), reasons)
           d          == Composition(named, closed, given, lifecycle, registry, registered)
<1>1. /\ d.profile = profile /\ d.lifecycle = lifecycle /\ d.bindings = bindings
      /\ d.toolRegistry = registry /\ d.capabilities = registered
      /\ d.status = status /\ d.blockedReasons = reasons
  BY DEF Composition
<1>2. status \in Claims
  BY <1>1
<1>3. profile \in Profiles
  BY DEF Profiles
<1>4. \A b \in bindings : b.kind \in BindingKinds /\ b.status \in BindingStatuses
  <2> HIDE DEF profile
  <2> QED
    BY NormalBindings
<1> HIDE DEF d, profile, bindings
<1>5. /\ reasons = {}
      /\ AggregateStatus(reports) \in {"ready", "degraded"}
      /\ status # "degraded" => AggregateStatus(reports) = "ready"
  BY <1>2, ClaimsAreUnblocked
<1>6. profile \in {"fake", "dry-run", "secret-gated-smoke"}
  BY <1>3, <1>5 DEF Profiles, ProfileBlockedReasons
<1> HIDE DEF reasons, status
<1>7. /\ \A r \in reports : r.required =>
            r.status \notin {"failed", "missing", "not-ready", "disabled", "unknown"}
      /\ status # "degraded" => \A r \in reports : r.status \in {"ready", "disabled"} \/ r.required
  BY <1>5, ClaimsAreClean
<1>8. \A c \in components :
         /\ c.required => c.status \notin {"failed", "missing", "not-ready", "disabled", "unknown"}
         /\ status # "degraded" => c.status # "not-ready"
  BY <1>7, ComponentIsReported
<1>9. \A k \in ProfileRequiredKinds(profile) : \E c \in components : c.kind = k
  BY <1>7, RequiredKindIsReported
<1> HIDE DEF reports
<1>10. Component("plugin-lifecycle", AcceptsWork(lifecycle.state), TRUE) \in components
       /\ Component("tools", registry.posture # "not-ready", FALSE) \in components
       /\ Component("capability", \A c \in Registered(registered) : ~Blocking(c), FALSE) \in components
  BY DEF CompositionComponents
<1>11. \A b \in bindings : ComponentKind(b.kind) # None =>
          [kind |-> ComponentKind(b.kind), status |-> ComponentStatus(b.status),
           required |-> b.required] \in components
  BY DEF CompositionComponents
<1>12. \A c \in components :
          \/ c.kind \in {"plugin-lifecycle", "tools", "capability"}
          \/ \E b \in bindings : ComponentKind(b.kind) # None /\ c.kind = ComponentKind(b.kind)
  BY DEF CompositionComponents, Component
<1> HIDE DEF components
<1>13. AcceptsWork(lifecycle.state)
  BY <1>8, <1>10 DEF Component
<1>14. status # "degraded" =>
          registry.posture # "not-ready" /\ \A c \in Registered(registered) : ~Blocking(c)
  <2> DEFINE tools    == Component("tools", registry.posture # "not-ready", FALSE)
             unblocks == \A c \in Registered(registered) : ~Blocking(c)
             offers   == Component("capability", unblocks, FALSE)
  <2>1. /\ tools.status = IF registry.posture # "not-ready" THEN "ready" ELSE "not-ready"
        /\ offers.status = IF unblocks THEN "ready" ELSE "not-ready"
    BY DEF Component
  <2>2. tools \in components /\ offers \in components
    BY <1>10
  <2> HIDE DEF tools, offers
  <2>3. status # "degraded" => tools.status # "not-ready" /\ offers.status # "not-ready"
    BY <1>8, <2>2
  <2> QED
    BY <2>1, <2>3
<1>15. ASSUME NEW b \in bindings, b.required, ComponentKind(b.kind) # None
       PROVE  b.status \in {"ready", "degraded"}
  <2> DEFINE c == [kind |-> ComponentKind(b.kind), status |-> ComponentStatus(b.status),
                   required |-> b.required]
  <2>1. c \in components /\ c.required = b.required /\ c.status = ComponentStatus(b.status)
    BY <1>11, <1>15
  <2> HIDE DEF c
  <2>2. ComponentStatus(b.status) \notin {"failed", "not-ready", "disabled"}
    BY <1>8, <1>15, <2>1
  <2> QED
    BY <1>4, <2>2 DEF ComponentStatus, BindingStatuses
<1>16. ASSUME NEW k \in {"core-facade", "transport"}
       PROVE  k \in {b.kind : b \in bindings}
  <2>1. k \in ProfileRequiredKinds(profile)
    BY <1>3 DEF ProfileRequiredKinds, Kinds, Profiles
  <2>2. PICK b \in bindings : ComponentKind(b.kind) # None /\ ComponentKind(b.kind) = k
    BY <1>9, <1>12, <2>1
  <2> QED
    BY <1>4, <2>2, KindStandsForItself
<1>17. Earned(d)
  BY <1>1, <1>5, <1>6, <1>13, <1>14, <1>15, <1>16 DEF Earned
<1> QED
  BY <1>17 DEF d
\* The descriptor of the last composition is one that was composed.
LEMMA AlwaysEarned == Spec => [](Composed /\ composition.status \in Claims => Earned(composition))
<1> DEFINE Inv == Composed /\ composition.status \in Claims => Earned(composition)
<1>1. Init => Inv
  BY DEF Init, Composed
<1>2. Inv /\ [Next]_vars => Inv'
  <2> SUFFICES ASSUME Inv, [Next]_vars, composition' # composition
               PROVE  Inv'
    BY DEF Composed, Earned
  <2>1. PICK named, closed, given : ComposeOpenClawRuntime(named, closed, given)
    BY DEF Next, vars, ApplyTransition, RegisterToolDescriptor, RegisterCapability
  <2>2. PICK lifecycle, registry, registered :
            composition' = Composition(named, closed, given, lifecycle, registry, registered)
    BY <2>1 DEF ComposeOpenClawRuntime
  <2>3. composition'.status \in Claims => Earned(composition')
    BY <2>2, ClaimsAreEarned
  <2> QED
    BY <2>3 DEF Earned
<1> QED
  BY <1>1, <1>2, PTL DEF Spec

\* For any bindings, profile, gates, tools and capabilities: a descriptor that claims to be
\* ready was composed under a lifecycle that takes work, open gates, bindings none of which is
\* required and blocked, a core facade and a transport.  composition.ts over readiness.ts.
THEOREM ReadyClaims == Spec => []ReadyClaimIsEarned
<1>1. (Composed /\ composition.status \in Claims => Earned(composition)) => ReadyClaimIsEarned
  BY DEF Earned, ReadyClaimIsEarned
<1> QED
  BY <1>1, AlwaysEarned, PTL

-----------------------------------------------------------------------------
(* Outbound delivery                                                        *)

\* While a message may be sent again, or is being sent, each of its posts is in doubt: this
\* is what keeps an acknowledged message from being sent again.
SentAgainInDoubt ==
    \A m \in Messages : answer[m].retryable \/ m \in inFlight => posted[m] <= doubts[m]

OutboundInv ==
    /\ boundary \in Boundaries /\ inFlight \subseteq Messages
    /\ DOMAIN answer = Messages /\ DOMAIN outcome = Messages
    /\ posted \in [Messages -> Nat] /\ doubts \in [Messages -> Nat]
    /\ SentAgainInDoubt
    /\ PostsAreAccountedFor

\* What a provider does.
LEMMA OutcomesAre ==
    ASSUME NEW o \in Outcomes
    PROVE  /\ o.kind \in {"ok", "odd", "malformed", "threw", "refused"}
           /\ o.posted \in BOOLEAN
           /\ o.kind = "ok" => o.posted
           /\ o.kind = "refused" => ~o.posted
<1> DEFINE Outcome(k, p) == [kind |-> k, posted |-> p, reason |-> "none", retryable |-> {}]
           Refused(r, said) ==
               [kind |-> "refused", posted |-> FALSE, reason |-> r, retryable |-> said]
           reasons == {"provider-rejected", "rate-limited", "elsewhere"}
           words   == (SUBSET BOOLEAN) \ {BOOLEAN}
<1>1. \/ o \in {Outcome("ok", TRUE), Outcome("odd", TRUE)}
      \/ o \in {Outcome(k, p) : k \in {"malformed", "threw"}, p \in BOOLEAN}
      \/ o \in {Refused(r, said) : r \in reasons, said \in words}
  BY DEF Outcomes
<1>2. CASE o = Outcome("ok", TRUE) \/ o = Outcome("odd", TRUE)
  <2>1. o.kind \in {"ok", "odd"} /\ o.posted = TRUE
    BY <1>2
  <2> QED
    BY <2>1
<1>3. CASE o \in {Outcome(k, p) : k \in {"malformed", "threw"}, p \in BOOLEAN}
  BY <1>3
<1>4. CASE o \in {Refused(r, said) : r \in reasons, said \in words}
  <2>1. PICK r \in reasons, said \in words : o = Refused(r, said)
    BY <1>4
  <2>2. o.kind = "refused" /\ o.posted = FALSE
    BY <2>1
  <2> QED
    BY <2>2
<1> QED
  BY <1>1, <1>2, <1>3, <1>4

\* In the words of every boundary: a success is an acknowledgement, a post that is not
\* acknowledged may be sent again, and none is told as not attempted.
Telling(told, o) ==
    /\ o.kind = "ok" => told.status = "provider-acknowledged" /\ ~told.retryable
    /\ o.posted => told.status = "provider-acknowledged" \/ told.retryable
    /\ told.status # "not-attempted"
    /\ told.detail \notin {"invalid-input", "dependency-missing"}

LEMMA WordsAreTrue ==
    ASSUME NEW o \in Outcomes
    PROVE  /\ o.kind \in {"ok", "odd"} => Telling(ProviderAcknowledged, o)
           /\ \A detail \in {"malformed-provider-result", "provider-threw", "invalid-provider-ack",
                             "provider-unavailable"} :
                 o.kind # "ok" => Telling(ProviderRejected(detail, TRUE), o)
           /\ \A again :
                 o.kind = "refused" => Telling(ProviderRejected("provider-returned-failure", again), o)
           /\ o.kind # "ok" => Telling(AdapterError("dependency-failed", TRUE), o)
BY OutcomesAre DEF Telling, ProviderAcknowledged, ProviderRejected, AdapterError

LEMMA AnswersAreTrue ==
    ASSUME NEW o \in Outcomes, boundary \in Boundaries
    PROVE  Telling(After(o), o)
<1> USE OutcomesAre, WordsAreTrue
<1>1. CASE boundary = "client"
  BY <1>1 DEF After, CallProviderDelivery, NormalizeDeliveryRawResult
<1>2. CASE boundary = "callback"
  BY <1>2
  DEF After, AcknowledgeProviderCallback, NormalizeCallbackRawResult, NormalizeDeliveryRawResult
<1>3. CASE boundary = "port"
  BY <1>3 DEF After, DeliverRenderedRequest, NormalizeAcknowledgement
<1>4. CASE boundary = "pipeline"
  BY <1>4 DEF After, DeliverTelegramOutboundRequest, NormalizeProviderAcknowledgement
<1>5. CASE boundary = "pump"
  BY <1>5 DEF After, PumpTelegramDeliveryRequest, NormalizeSinkResult, Matches
<1>6. CASE boundary = "openclaw"
  BY <1>6
  DEF After, SendOpenClawDeliveryRequest, NormalizePortResult, NormalizeSinkResult, Matches
<1> QED
  BY <1>1, <1>2, <1>3, <1>4, <1>5, <1>6 DEF Boundaries
\* What settles a call counts its post, and as a doubt one that was not said.
LEMMA SettledMoves ==
    ASSUME NEW m \in Messages, NEW o \in Outcomes, OutboundInv, Settled(m, o)
    PROVE  /\ answer' = [answer EXCEPT ![m] = After(o)]
           /\ outcome' = [outcome EXCEPT ![m] = {o}]
           /\ posted' \in [Messages -> Nat] /\ doubts' \in [Messages -> Nat]
           /\ \A n \in Messages \ {m} : posted'[n] = posted[n] /\ doubts'[n] = doubts[n]
           /\ posted[m] <= doubts[m] => posted'[m] <= doubts'[m] + 1
           /\ posted[m] <= doubts[m] /\ o.kind # "ok" => posted'[m] <= doubts'[m]
<1>1. /\ posted \in [Messages -> Nat] /\ doubts \in [Messages -> Nat]
      /\ posted' = IF o.posted THEN [posted EXCEPT ![m] = @ + 1] ELSE posted
      /\ doubts' = IF o.posted /\ o.kind # "ok" THEN [doubts EXCEPT ![m] = @ + 1] ELSE doubts
  BY DEF Settled, OutboundInv
<1>2. o.posted \in BOOLEAN
  BY OutcomesAre
<1>3. CASE ~o.posted
  BY <1>1, <1>3 DEF Settled
<1>4. CASE o.posted
  BY <1>1, <1>4 DEF Settled
<1> QED
  BY <1>2, <1>3, <1>4

\* A call that settles stands, whatever the provider did.
LEMMA SettledStands ==
    ASSUME NEW m \in Messages, NEW o \in Outcomes, OutboundInv, Settled(m, o),
           posted[m] <= doubts[m], UNCHANGED boundary,
           inFlight' = inFlight \/ inFlight' = inFlight \ {m}, m \notin inFlight'
    PROVE  OutboundInv'
<1>1. Telling(After(o), o)
  BY AnswersAreTrue DEF OutboundInv
<1>2. /\ answer'[m] = After(o) /\ outcome'[m] = {o}
      /\ DOMAIN answer' = Messages /\ DOMAIN outcome' = Messages
      /\ \A n \in Messages \ {m} : answer'[n] = answer[n] /\ outcome'[n] = outcome[n]
  BY SettledMoves DEF OutboundInv
<1>3. SentAgainInDoubt'
  <2> SUFFICES ASSUME NEW n \in Messages, answer'[n].retryable \/ n \in inFlight'
               PROVE  posted'[n] <= doubts'[n]
    BY DEF SentAgainInDoubt
  <2>1. CASE n = m
    BY <2>1, <1>1, <1>2, SettledMoves DEF Telling
  <2>2. CASE n # m
    BY <2>2, <1>2, SettledMoves DEF OutboundInv, SentAgainInDoubt
  <2> QED
    BY <2>1, <2>2
<1>4. PostedAgainOnlyInDoubt'
  BY SettledMoves DEF OutboundInv, PostsAreAccountedFor, PostedAgainOnlyInDoubt
<1>5. FinalFailuresWereNotPosted'
  <2> SUFFICES ASSUME NEW n \in Messages \ inFlight'
               PROVE  /\ answer'[n].status # "provider-acknowledged" /\ ~answer'[n].retryable
                           => Unposted(n)'
                      /\ \/ answer'[n].status = "not-attempted"
                         \/ answer'[n].detail \in {"invalid-input", "dependency-missing"}
                         => outcome'[n] = {}
    BY DEF FinalFailuresWereNotPosted
  <2>1. CASE n = m
    BY <2>1, <1>1, <1>2 DEF Telling, Unposted
  <2>2. CASE n # m
    BY <2>2, <1>2
    DEF OutboundInv, PostsAreAccountedFor, FinalFailuresWereNotPosted, Unposted
  <2> QED
    BY <2>1, <2>2
<1>6. boundary' \in Boundaries /\ inFlight' \subseteq Messages
  BY DEF OutboundInv
<1> QED
  BY <1>2, <1>3, <1>4, <1>5, <1>6, SettledMoves DEF OutboundInv, PostsAreAccountedFor

\* What is answered without the provider leaves the posts as they are.
LEMMA BlockStands ==
    ASSUME NEW m \in Messages, OutboundInv, Block(m)
    PROVE  OutboundInv'
<1>1. posted[m] <= doubts[m] /\ m \notin inFlight
  BY DEF Block, MaySend, OutboundInv, SentAgainInDoubt
<1>2. PICK a : answer' = [answer EXCEPT ![m] = a]
  BY DEF Block
<1>3. outcome' = [outcome EXCEPT ![m] = {}]
      /\ UNCHANGED <<boundary, inFlight, posted, doubts>>
  BY DEF Block
<1>4. /\ DOMAIN answer' = Messages /\ DOMAIN outcome' = Messages /\ outcome'[m] = {}
      /\ \A n \in Messages \ {m} : answer'[n] = answer[n] /\ outcome'[n] = outcome[n]
  BY <1>2, <1>3 DEF OutboundInv
<1>5. SentAgainInDoubt'
  BY <1>1, <1>3, <1>4 DEF OutboundInv, SentAgainInDoubt
<1>6. PostsAreAccountedFor'
  BY <1>3, <1>4
  DEF OutboundInv, PostsAreAccountedFor, PostedAgainOnlyInDoubt, FinalFailuresWereNotPosted,
      Unposted
<1> QED
  BY <1>3, <1>4, <1>5, <1>6 DEF OutboundInv

LEMMA CallStands ==
    ASSUME NEW m \in Messages, OutboundInv, Call(m)
    PROVE  OutboundInv'
<1>1. posted[m] <= doubts[m]
  BY DEF Call, MaySend, OutboundInv, SentAgainInDoubt
<1>2. inFlight' = inFlight \cup {m} /\ UNCHANGED <<boundary, answer, outcome, posted, doubts>>
  BY DEF Call
<1> QED
  BY <1>1, <1>2
  DEF OutboundInv, SentAgainInDoubt, PostsAreAccountedFor, PostedAgainOnlyInDoubt,
      FinalFailuresWereNotPosted, Unposted

LEMMA OutboundInductive == OutboundInv /\ [OutboundNext]_outboundVars => OutboundInv'
<1> SUFFICES ASSUME OutboundInv, [OutboundNext]_outboundVars
             PROVE  OutboundInv'
  OBVIOUS
<1>1. ASSUME UNCHANGED <<boundary, inFlight, answer, outcome, posted, doubts>>
      PROVE  OutboundInv'
  BY <1>1
  DEF OutboundInv, SentAgainInDoubt, PostsAreAccountedFor, PostedAgainOnlyInDoubt,
      FinalFailuresWereNotPosted, Unposted
<1>2. ASSUME NEW m \in Messages, NEW r \in OutboundRequests, Ask(m, r)
      PROVE  OutboundInv'
  BY <1>1, <1>2 DEF Ask
<1>3. ASSUME NEW m \in Messages, Block(m)
      PROVE  OutboundInv'
  BY <1>3, BlockStands
<1>4. ASSUME NEW m \in Messages, Call(m)
      PROVE  OutboundInv'
  BY <1>4, CallStands
<1>5. ASSUME NEW m \in Messages, Settle(m)
      PROVE  OutboundInv'
  <2>1. PICK o \in Outcomes : Settled(m, o)
    BY <1>5 DEF Settle
  <2>2. posted[m] <= doubts[m]
    BY <1>5 DEF Settle, OutboundInv, SentAgainInDoubt
  <2>3. inFlight' = inFlight \ {m} /\ UNCHANGED boundary
    BY <1>5 DEF Settle
  <2> QED
    BY <2>1, <2>2, <2>3, SettledStands
<1>6. ASSUME NEW m \in Messages, Submit(m)
      PROVE  OutboundInv'
  <2>1. PICK o \in Outcomes : Settled(m, o)
    BY <1>6 DEF Submit
  <2>2. posted[m] <= doubts[m] /\ m \notin inFlight
    BY <1>6 DEF Submit, MaySend, OutboundInv, SentAgainInDoubt
  <2>3. inFlight' = inFlight /\ UNCHANGED boundary
    BY <1>6 DEF Submit
  <2> QED
    BY <2>1, <2>2, <2>3, SettledStands
<1>7. CASE Reconfigure
  BY <1>1, <1>7 DEF Reconfigure
<1>8. CASE UNCHANGED outboundVars
  BY <1>1, <1>8 DEF outboundVars
<1> QED
  BY <1>2, <1>3, <1>4, <1>5, <1>6, <1>7, <1>8 DEF OutboundNext

LEMMA AlwaysOutbound == OutboundSpec => []OutboundInv
<1>1. OutboundInit => OutboundInv
  BY DEF OutboundInit, OutboundInv, SentAgainInDoubt, PostsAreAccountedFor,
         PostedAgainOnlyInDoubt, FinalFailuresWereNotPosted, Unposted, NoAnswer
<1> QED
  BY <1>1, OutboundInductive, PTL DEF OutboundSpec

\* For any messages, requests and configurations, through each of the six boundaries and
\* whatever the provider does: a message is posted again only when no word of its last post
\* could be read, and what is told as final or as not attempted is true.
\* provider-client-port.ts 738-796, delivery-port.ts 560-580, outbound-delivery-pipeline.ts
\* 297-330, delivery-pump.ts 606-686.
THEOREM PostsAccountedFor == OutboundSpec => []PostsAreAccountedFor
<1>1. OutboundInv => PostsAreAccountedFor
  BY DEF OutboundInv
<1> QED
  BY <1>1, AlwaysOutbound, PTL

-----------------------------------------------------------------------------
(* The session store                                                        *)

\* A stored session claims the status that its state implies with no flag set: what both the
\* session model and the cards ask of it.
StatusesAreDerived ==
    \A ref \in DOMAIN sessionsByRef :
        sessionsByRef[ref].derivedStatus = DeriveStatus(sessionsByRef[ref].lifecycleState, {})

\* The keys of the two maps are the refs that the stored sessions carry.
SessionsInv == KeysAndSessionsAgree /\ StatusesAreDerived

\* A call that leaves both maps alone disturbs nothing.
SessionMapsKept == UNCHANGED <<sessionsByRef, sessionsByKey>>

LEMMA KeptSessionsStand == SessionsInv /\ SessionMapsKept => SessionsInv'
BY DEF SessionsInv, SessionMapsKept, KeysAndSessionsAgree, StatusesAreDerived

\* A session that is made has the status of its state, and the refs of its input.
LEMMA NormalizedIsDerived ==
    ASSUME NEW input, Normalizes(input)
    PROVE  /\ Normalized(input).derivedStatus
                = DeriveStatus(Normalized(input).lifecycleState, {})
           /\ Normalized(input).idempotencyRef = input.idempotencyRef
           /\ Normalized(input).lifecycleState = input.lifecycleState
BY DEF Normalizes, StatusIsDerived, Normalized

LEMMA FreshSessionStands ==
    ASSUME NEW key, NEW input, SessionsInv, CreateFresh(key, input)
    PROVE  SessionsInv'
<1>1. CASE input.sessionRef \in DOMAIN sessionsByRef
  BY <1>1, KeptSessionsStand DEF CreateFresh, SessionMapsKept
<1>2. CASE input.sessionRef \notin DOMAIN sessionsByRef
  <2> DEFINE session == Normalized(input)
             record  == [sessionRef |-> input.sessionRef, input |-> session]
  <2>1. Normalizes(input) /\ input.idempotencyRef = key /\ key \notin DOMAIN sessionsByKey
    BY DEF CreateFresh, CreateInputError
  <2>2. session.derivedStatus = DeriveStatus(session.lifecycleState, {})
        /\ session.idempotencyRef = key
    BY <2>1, NormalizedIsDerived
  <2>3. sessionsByRef' = Put(sessionsByRef, input.sessionRef, session)
        /\ sessionsByKey' = Put(sessionsByKey, key, record)
    BY <1>2 DEF CreateFresh, StoreSession
  <2>4. record.sessionRef = input.sessionRef
    OBVIOUS
  <2> HIDE DEF session, record
  <2>5. /\ DOMAIN sessionsByRef' = DOMAIN sessionsByRef \cup {input.sessionRef}
        /\ sessionsByRef'[input.sessionRef] = session
        /\ \A r \in DOMAIN sessionsByRef : sessionsByRef'[r] = sessionsByRef[r]
    BY <2>3, <1>2 DEF Put
  <2>6. /\ DOMAIN sessionsByKey' = DOMAIN sessionsByKey \cup {key}
        /\ sessionsByKey'[key] = record
        /\ \A k \in DOMAIN sessionsByKey : sessionsByKey'[k] = sessionsByKey[k]
    BY <2>3, <2>1 DEF Put
  <2>7. StatusesAreDerived'
    BY <2>2, <2>5 DEF SessionsInv, StatusesAreDerived
  <2>8. KeysAndSessionsAgree'
    BY <2>2, <2>4, <2>5, <2>6 DEF SessionsInv, KeysAndSessionsAgree
  <2> QED
    BY <2>7, <2>8 DEF SessionsInv
<1> QED
  BY <1>1, <1>2

\* What a transition makes of a session: its refs stay, its status is derived.
LEMMA TransitionMakes ==
    ASSUME NEW session, NEW to, NEW flags, Normalizes(TransitionCandidate(session, to, flags))
    PROVE  LET moved == Normalized(TransitionCandidate(session, to, flags))
           IN /\ moved.derivedStatus = DeriveStatus(moved.lifecycleState, {})
              /\ moved.idempotencyRef = session.idempotencyRef
              /\ moved.lifecycleState = to
<1> DEFINE candidate == TransitionCandidate(session, to, flags)
<1>1. candidate.idempotencyRef = session.idempotencyRef /\ candidate.lifecycleState = to
  BY DEF TransitionCandidate, AsInput
<1> HIDE DEF candidate
<1>2. Normalizes(candidate)
  BY DEF candidate
<1>3. /\ Normalized(candidate).derivedStatus
           = DeriveStatus(Normalized(candidate).lifecycleState, {})
      /\ Normalized(candidate).idempotencyRef = candidate.idempotencyRef
      /\ Normalized(candidate).lifecycleState = candidate.lifecycleState
  BY <1>2, NormalizedIsDerived
<1> QED
  BY <1>1, <1>3 DEF candidate

\* A transition that is made replaces one session, by one that its state may lead to.
LEMMA TransitionMoves ==
    ASSUME NEW ref, NEW to, NEW flags, TransitionStamped(ref, to, flags)
    PROVE  /\ sessionsByKey' = sessionsByKey
           /\ \/ sessionsByRef' = sessionsByRef
              \/ \E moved :
                    /\ ref \in DOMAIN sessionsByRef
                    /\ sessionsByRef' = [sessionsByRef EXCEPT ![ref] = moved]
                    /\ moved.derivedStatus = DeriveStatus(moved.lifecycleState, {})
                    /\ moved.idempotencyRef = sessionsByRef[ref].idempotencyRef
                    /\ CanTransition(sessionsByRef[ref].lifecycleState, moved.lifecycleState)
<1> DEFINE moved == Normalized(TransitionCandidate(sessionsByRef[ref], to, flags))
<1>1. /\ ref \in DOMAIN sessionsByRef
      /\ CanTransition(sessionsByRef[ref].lifecycleState, to)
      /\ Normalizes(TransitionCandidate(sessionsByRef[ref], to, flags))
  BY DEF TransitionStamped, TransitionError
<1>2. /\ moved.derivedStatus = DeriveStatus(moved.lifecycleState, {})
      /\ moved.idempotencyRef = sessionsByRef[ref].idempotencyRef
      /\ moved.lifecycleState = to
  BY <1>1, TransitionMakes
<1>3. /\ sessionsByKey' = sessionsByKey
      /\ sessionsByRef' = [sessionsByRef EXCEPT ![ref] = moved] \/ sessionsByRef' = sessionsByRef
  BY DEF TransitionStamped
<1> HIDE DEF moved
<1> QED
  BY <1>1, <1>2, <1>3

LEMMA TransitionStands ==
    ASSUME NEW ref, NEW to, NEW flags, SessionsInv, TransitionStamped(ref, to, flags)
    PROVE  SessionsInv'
<1>1. CASE sessionsByRef' = sessionsByRef
  BY <1>1, TransitionMoves, KeptSessionsStand DEF SessionMapsKept
<1>2. CASE sessionsByRef' # sessionsByRef
  <2>1. sessionsByKey' = sessionsByKey
    BY TransitionMoves
  <2>2. PICK moved :
            /\ ref \in DOMAIN sessionsByRef
            /\ sessionsByRef' = [sessionsByRef EXCEPT ![ref] = moved]
            /\ moved.derivedStatus = DeriveStatus(moved.lifecycleState, {})
            /\ moved.idempotencyRef = sessionsByRef[ref].idempotencyRef
    BY <1>2, TransitionMoves
  <2>3. /\ DOMAIN sessionsByRef' = DOMAIN sessionsByRef
        /\ sessionsByRef'[ref] = moved
        /\ \A r \in DOMAIN sessionsByRef : r # ref => sessionsByRef'[r] = sessionsByRef[r]
    BY <2>2
  <2>4. StatusesAreDerived'
    BY <2>2, <2>3 DEF SessionsInv, StatusesAreDerived
  <2>5. KeysAndSessionsAgree'
    BY <2>1, <2>2, <2>3 DEF SessionsInv, KeysAndSessionsAgree
  <2> QED
    BY <2>4, <2>5 DEF SessionsInv
<1> QED
  BY <1>1, <1>2

LEMMA SessionsInductive == SessionsInv /\ [OcaSessionsNext]_ocaSessionVars => SessionsInv'
<1> SUFFICES ASSUME SessionsInv, [OcaSessionsNext]_ocaSessionVars
             PROVE  SessionsInv'
  OBVIOUS
<1>1. ASSUME NEW key \in SessionKeys, NEW input \in CreateInputs,
             CreateRejected(key, input) \/ CreateReplayed(key, input)
      PROVE  SessionsInv'
  BY <1>1, KeptSessionsStand DEF CreateRejected, CreateReplayed, SessionMapsKept
<1>2. ASSUME NEW key \in SessionKeys, NEW input \in CreateInputs, CreateFresh(key, input)
      PROVE  SessionsInv'
  BY <1>2, FreshSessionStands
<1>3. CASE RefuseRequest \/ ShowPanel
  BY <1>3, KeptSessionsStand DEF RefuseRequest, ShowPanel, SessionMapsKept
<1>4. ASSUME NEW ref \in SessionRefs, ReadExistingSession(ref)
      PROVE  SessionsInv'
  BY <1>4, KeptSessionsStand DEF ReadExistingSession, SessionMapsKept
<1>5. ASSUME NEW limit \in 1..MaxListLimit, ListSessions(limit)
      PROVE  SessionsInv'
  BY <1>5, KeptSessionsStand DEF ListSessions, SessionMapsKept
<1>6. ASSUME NEW ref \in SessionRefs, NEW to \in LifecycleStates, NEW flags \in StatusFlags,
             TransitionRefused(ref, to, flags)
      PROVE  SessionsInv'
  BY <1>6, KeptSessionsStand DEF TransitionRefused, SessionMapsKept
<1>7. ASSUME NEW ref \in SessionRefs, NEW to \in LifecycleStates, NEW flags \in StatusFlags,
             TransitionStamped(ref, to, flags)
      PROVE  SessionsInv'
  BY <1>7, TransitionStands
<1>8. CASE UNCHANGED ocaSessionVars
  BY <1>8, KeptSessionsStand DEF ocaSessionVars, SessionMapsKept
<1> QED
  BY <1>1, <1>2, <1>3, <1>4, <1>5, <1>6, <1>7, <1>8 DEF OcaSessionsNext

LEMMA AlwaysSessions == OcaSessionsSpec => []SessionsInv
<1>1. OcaSessionsInit => SessionsInv
  BY DEF OcaSessionsInit, SessionsInv, KeysAndSessionsAgree, StatusesAreDerived
<1> QED
  BY <1>1, SessionsInductive, PTL DEF OcaSessionsSpec

\* For any sessions, keys and limits, and by any sequence of creates, replays, transitions and
\* readings: what the store keeps is found under its keys, and whatever flags its transitions
\* came with, it has a card.  session-store.ts 143-236, presentation.ts 223-262.
THEOREM SessionsSound == OcaSessionsSpec => []SessionsAreSound
<1>1. SessionsInv => SessionsAreSound
  <2> SUFFICES ASSUME SessionsInv, NEW ref \in DOMAIN sessionsByRef,
                      sessionsByRef[ref].detail \notin UnshownDetails
               PROVE  CardError(sessionsByRef[ref]) = "none"
    BY DEF SessionsInv, SessionsAreSound, StoredSessionsAreShown
  <2> DEFINE input == AsInput(sessionsByRef[ref])
  <2>1. input.derivedStatus = DeriveStatus(input.lifecycleState, {}) /\ input.flaws = {}
    BY DEF SessionsInv, StatusesAreDerived, AsInput
  <2> HIDE DEF input
  <2>2. Normalizes(input)
    BY <2>1 DEF Normalizes, RefsAreSafe, ListsAreSafe, TextsAreSafe, IssuesAreSafe, StatusIsDerived
  <2> QED
    BY <2>2 DEF CardError, input
<1> QED
  BY <1>1, AlwaysSessions, PTL

\* A terminal session has only its archive to go to.
LEMMA TerminalIsLeftForArchive ==
    ASSUME NEW from \in TerminalStates, NEW to, CanTransition(from, to)
    PROVE  to = "archived"
BY DEF CanTransition, LifecycleTransitions, TerminalStates

\* Whatever a session went through, one that ended is archived at most, and none is removed.
\* canTransitionOcaSessionLifecycle.
THEOREM EndedStayEnded == OcaSessionsSpec => EndedSessionsStayEnded
<1> DEFINE Kept(ref) ==
      /\ ref \in DOMAIN sessionsByRef'
      /\ \/ sessionsByRef[ref].lifecycleState \notin TerminalStates
         \/ sessionsByRef'[ref].lifecycleState \in {sessionsByRef[ref].lifecycleState, "archived"}
<1>1. ASSUME [OcaSessionsNext]_ocaSessionVars, NEW ref \in DOMAIN sessionsByRef
      PROVE  Kept(ref)
  <2>1. CASE sessionsByRef' = sessionsByRef
    BY <2>1
  <2>2. ASSUME NEW key \in SessionKeys, NEW input \in CreateInputs, CreateFresh(key, input)
        PROVE  Kept(ref)
    <3>1. CASE input.sessionRef \notin DOMAIN sessionsByRef
      <4>1. /\ DOMAIN sessionsByRef' = DOMAIN sessionsByRef \cup {input.sessionRef}
            /\ \A r \in DOMAIN sessionsByRef : sessionsByRef'[r] = sessionsByRef[r]
        BY <2>2, <3>1 DEF CreateFresh, StoreSession, Put
      <4> QED
        BY <4>1
    <3> QED
      BY <2>1, <2>2, <3>1 DEF CreateFresh
  <2>3. ASSUME NEW r \in SessionRefs, NEW to \in LifecycleStates, NEW flags \in StatusFlags,
               TransitionStamped(r, to, flags)
        PROVE  Kept(ref)
    <3>1. CASE sessionsByRef' # sessionsByRef
      <4>1. PICK moved :
                /\ r \in DOMAIN sessionsByRef
                /\ sessionsByRef' = [sessionsByRef EXCEPT ![r] = moved]
                /\ CanTransition(sessionsByRef[r].lifecycleState, moved.lifecycleState)
        BY <2>3, <3>1, TransitionMoves
      <4> QED
        BY <4>1, TerminalIsLeftForArchive
    <3> QED
      BY <2>1, <3>1
  <2> QED
    BY <1>1, <2>1, <2>2, <2>3
    DEF OcaSessionsNext, ocaSessionVars, CreateRejected, CreateReplayed, RefuseRequest,
        ReadExistingSession, ListSessions, TransitionRefused, ShowPanel
<1>2. [OcaSessionsNext]_ocaSessionVars
        => [\A ref \in DOMAIN sessionsByRef : Kept(ref)]_ocaSessionVars
  BY <1>1
<1> QED
  BY <1>2, PTL DEF OcaSessionsSpec, EndedSessionsStayEnded

-----------------------------------------------------------------------------
(* The approval runtime of the OCA wrapper                                  *)

\* An operator only grants requirements that the host was given.
ApprovalsInv ==
    /\ requirements \subseteq OcaRequests
    /\ granted \subseteq {Requirement(q) : q \in requirements}
    /\ runs \in [OcaRequests -> Nat]
    /\ EffectsWereGranted

\* A decision that lets an effect through is the one that grants this very requirement.
LEMMA EffectNeedsDecision ==
    ASSUME NEW r \in OcaRequests, NEW decision, Refusal(r, decision) = "none",
           Effect(r.operation) # "read-only"
    PROVE  decision # NoDecision /\ decision = Requirement(r)
BY OcaApprovalsAssumption DEF Refusal, AcceptsDecision

LEMMA RequirementIsNotMalformed ==
    ASSUME NEW r
    PROVE  Requirement(r) # Malformed /\ Requirement(r) # NoDecision
BY DEF Requirement, Malformed, NoDecision

\* What two requests with one requirement have in common.
LEMMA SameRequirement ==
    ASSUME NEW q, NEW r, Requirement(q) = Requirement(r)
    PROVE  /\ q.operation = r.operation
           /\ q.idempotencyRef = r.idempotencyRef /\ q.requestRef = r.requestRef
           /\ Checksum(q) = Checksum(r)
BY DEF Requirement

\* A request that runs is like one whose requirement was granted.
LEMMA ExecuteNeedsGrant ==
    ASSUME NEW r \in OcaRequests, NEW decision \in granted \cup {NoDecision, Malformed},
           ApprovalsInv, Execute(r, decision), Effect(r.operation) # "read-only"
    PROVE  \E q \in requirements :
              /\ Requirement(q) \in granted
              /\ q.operation = r.operation
              /\ q.idempotencyRef = r.idempotencyRef /\ q.requestRef = r.requestRef
              /\ Checksum(q) = Checksum(r)
<1>1. decision = Requirement(r) /\ decision # NoDecision
  BY EffectNeedsDecision DEF Execute
<1>2. decision \in granted
  BY <1>1, RequirementIsNotMalformed
<1>3. PICK q \in requirements : decision = Requirement(q)
  BY <1>2 DEF ApprovalsInv
<1> QED
  BY <1>1, <1>2, <1>3, SameRequirement

LEMMA ApprovalsInductive == ApprovalsInv /\ [OcaApprovalsNext]_ocaApprovalVars => ApprovalsInv'
<1> SUFFICES ASSUME ApprovalsInv, [OcaApprovalsNext]_ocaApprovalVars
             PROVE  ApprovalsInv'
  OBVIOUS
<1>1. ASSUME NEW r \in OcaRequests, NEW decision \in granted \cup {NoDecision, Malformed},
             Refuse(r, decision)
      PROVE  ApprovalsInv'
  <2>1. requirements \subseteq requirements' /\ requirements' \subseteq OcaRequests
        /\ granted' = granted /\ runs' = runs
    BY <1>1 DEF Refuse, ApprovalsInv
  <2> QED
    BY <2>1 DEF ApprovalsInv, EffectsWereGranted
<1>2. ASSUME NEW r \in OcaRequests, NEW decision \in granted \cup {NoDecision, Malformed},
             Execute(r, decision)
      PROVE  ApprovalsInv'
  <2>1. /\ runs' = [runs EXCEPT ![r] = @ + 1]
        /\ requirements' = requirements /\ granted' = granted
    BY <1>2 DEF Execute
  <2>2. runs' \in [OcaRequests -> Nat]
    BY <2>1 DEF ApprovalsInv
  <2>3. EffectsWereGranted'
    <3> SUFFICES ASSUME NEW p \in OcaRequests, runs'[p] > 0, Effect(p.operation) # "read-only"
                 PROVE  \E q \in requirements :
                           /\ Requirement(q) \in granted
                           /\ q.operation = p.operation
                           /\ q.idempotencyRef = p.idempotencyRef /\ q.requestRef = p.requestRef
                           /\ Checksum(q) = Checksum(p)
      BY <2>1 DEF EffectsWereGranted
    <3>1. CASE p = r
      BY <3>1, <1>2, ExecuteNeedsGrant
    <3>2. CASE p # r
      <4>1. runs[p] > 0
        BY <3>2, <2>1 DEF ApprovalsInv
      <4> QED
        BY <4>1 DEF ApprovalsInv, EffectsWereGranted
    <3> QED
      BY <3>1, <3>2
  <2> QED
    BY <2>1, <2>2, <2>3 DEF ApprovalsInv
<1>3. ASSUME NEW r \in OcaRequests, Grant(r)
      PROVE  ApprovalsInv'
  <2>1. r \in requirements /\ granted' = granted \cup {Requirement(r)}
        /\ requirements' = requirements /\ runs' = runs
    BY <1>3 DEF Grant
  <2> QED
    BY <2>1 DEF ApprovalsInv, EffectsWereGranted
<1>4. CASE UNCHANGED ocaApprovalVars
  BY <1>4 DEF ocaApprovalVars, ApprovalsInv, EffectsWereGranted
<1> QED
  BY <1>1, <1>2, <1>3, <1>4 DEF OcaApprovalsNext

LEMMA AlwaysApprovals == OcaApprovalsSpec => []ApprovalsInv
<1>1. OcaApprovalsInit => ApprovalsInv
  BY DEF OcaApprovalsInit, ApprovalsInv, EffectsWereGranted
<1> QED
  BY <1>1, ApprovalsInductive, PTL DEF OcaApprovalsSpec

\* Whatever the requests, the checksums and the order of calls and grants: an operation with
\* an effect only ran for a request whose like an operator was shown and granted.
\* approval-runtime.ts 178-195, 294-335.
THEOREM EffectsGranted == OcaApprovalsSpec => []EffectsWereGranted
<1>1. ApprovalsInv => EffectsWereGranted
  BY DEF ApprovalsInv
<1> QED
  BY <1>1, AlwaysApprovals, PTL

-----------------------------------------------------------------------------
(* The approval bridges                                                     *)

\* A call that may reach its boundary: it has the permission it needs, and the composed one a
\* grant for this very approval.
MayResolve(call) ==
    call.operation = "resolve" =>
        /\ \E p \in call.permission : p.allowed
        /\ call.bridge = "composed" =>
              \E grant \in call.held :
                  /\ grant.action = "resolve-approval" /\ grant.kind = "approval"
                  /\ "resourceRef" \in DOMAIN grant.scope =>
                         grant.scope.resourceRef = call.input.approvalRef

\* What was taken, and what may yet be, was let through; what was told is true.
BridgeCallStands(call, boundaries) ==
    /\ call.taken \in BOOLEAN
    /\ call.taken \/ call.answer = Waiting => MayResolve(call)
    /\ call.answer.code = "ok" => call.taken
    /\ call.taken => call.answer.code \in {"ok", "waiting"} \/ call.answer.retryable = "yes"
    /\ call.answer = Waiting => call.operation # "readiness"
    /\ call.operation = "readiness" /\ call.answer.code = "pass" =>
           {"submit", "resolve"} \subseteq boundaries

ApprovalInv ==
    /\ DOMAIN approvalCalls = BridgeCallers
    /\ \A c \in BridgeCallers : BridgeCallStands(approvalCalls[c], wired)

\* A default requirement is for the approval of the decision, whatever the context says.
LEMMA DefaultNamesApproval ==
    ASSUME NEW input, NEW context
    PROVE  LET r == EffectiveRequirement(DefaultRequirement(input, context), context)
           IN /\ r.action = "resolve-approval" /\ r.kind = "approval"
              /\ "resourceRef" \in DOMAIN r.scope
              /\ r.scope["resourceRef"] = input.approvalRef
<1> DEFINE requirement == DefaultRequirement(input, context)
           rest  == Over(context.actor, Over(context.topic, context.scope))
           r     == EffectiveRequirement(requirement, context)
<1>1. /\ requirement.action = "resolve-approval" /\ requirement.kind = "approval"
      /\ "resourceRef" \in DOMAIN requirement.scope
      /\ requirement.scope["resourceRef"] = input.approvalRef
      /\ requirement = [action |-> requirement.action, kind |-> requirement.kind, scope |-> requirement.scope]
  BY DEF DefaultRequirement, Over
<1> HIDE DEF requirement, rest
<1>2. r = [requirement EXCEPT !.scope = Over(@, rest)]
  BY DEF EffectiveRequirement, rest
<1>3. r.action = requirement.action /\ r.kind = requirement.kind /\ r.scope = Over(requirement.scope, rest)
  BY <1>1, <1>2
<1>4. "resourceRef" \in DOMAIN Over(requirement.scope, rest)
      /\ Over(requirement.scope, rest)["resourceRef"] = requirement.scope["resourceRef"]
  BY <1>1 DEF Over
<1> HIDE DEF r
<1> QED
  BY <1>1, <1>3, <1>4 DEF r, requirement

\* The evaluator allows the default requirement only under a grant to resolve this approval.
LEMMA AllowedByGrant ==
    ASSUME NEW input, NEW context, NEW grants,
           EvaluatePermission(DefaultRequirement(input, context), context, grants).allowed
    PROVE  \E grant \in grants :
               /\ grant.action = "resolve-approval" /\ grant.kind = "approval"
               /\ "resourceRef" \in DOMAIN grant.scope =>
                      grant.scope.resourceRef = input.approvalRef
<1> DEFINE r == EffectiveRequirement(DefaultRequirement(input, context), context)
<1>1. PICK grant \in grants : GrantMatches(grant, r)
  BY DEF EvaluatePermission
<1>2. /\ r.action = "resolve-approval" /\ r.kind = "approval"
      /\ r.scope["resourceRef"] = input.approvalRef
  BY DefaultNamesApproval
<1> HIDE DEF r
<1> QED
  BY <1>1, <1>2 DEF GrantMatches

\* No answer of a failure is the one of a call that waits or was served.
LEMMA AnswersDiffer ==
    /\ Waiting.code = "waiting"
    /\ TryAgain.code = "dependency-failed" /\ TryAgain.retryable = "yes"
    /\ \A code, retryable, state :
          /\ BridgeAnswer(code, retryable, state).code = code
          /\ BridgeAnswer(code, retryable, state).retryable = retryable
    /\ \A code : Final(code).code = code
BY DEF Waiting, TryAgain, BridgeAnswer, Final

LEMMA RefusalCodes ==
    ASSUME NEW operation, NEW input, NEW permission, NEW sound
    PROVE  /\ BridgeRefusal(operation, input, permission, sound)
                \in {"invalid-input", "dependency-missing", "forbidden", "none"}
           /\ BridgeRefusal(operation, input, permission, sound) = "none"
                /\ operation = "resolve" => \E p \in permission : p.allowed
<1> USE DEF BridgeRefusal
<1>1. CASE ~sound
  BY <1>1
<1>2. CASE sound /\ ~HasBoundary(operation)
  BY <1>2
<1>3. CASE sound /\ HasBoundary(operation)
  BY <1>3
<1> QED
  BY <1>1, <1>2, <1>3

\* A refused call was not served, and its caller is told nothing else.
LEMMA RefusedStands ==
    ASSUME NEW bridge, NEW operation \in {"submit", "resolve"}, NEW input, NEW permission,
           NEW held, NEW reply, reply.code \notin {"ok", "waiting"}, NEW boundaries
    PROVE  BridgeCallStands(Answered(Begun(bridge, operation, input, permission, held), reply),
                      boundaries)
<1> DEFINE told == Answered(Begun(bridge, operation, input, permission, held), reply)
<1>1. told.answer = reply /\ told.taken = FALSE /\ told.operation = operation
  BY DEF Begun, Answered
<1>2. reply # Waiting
  BY AnswersDiffer
<1> HIDE DEF told
<1>3. told.taken \in BOOLEAN /\ ~told.taken
  BY <1>1
<1> QED
  BY <1>1, <1>2, <1>3 DEF BridgeCallStands, told

\* A call of the awaited boundary: it waits only when it is let through.
LEMMA AwaitStands ==
    ASSUME NEW bridge, NEW operation \in {"submit", "resolve"}, NEW input, NEW permission,
           NEW held, NEW sound \in BOOLEAN, NEW boundaries,
           bridge = "composed" => \E grant \in held :
               /\ grant.action = "resolve-approval" /\ grant.kind = "approval"
               /\ "resourceRef" \in DOMAIN grant.scope =>
                      grant.scope.resourceRef = input.approvalRef
    PROVE  BridgeCallStands(Await(Begun(bridge, operation, input, permission, held), sound),
                      boundaries)
<1> DEFINE call == Begun(bridge, operation, input, permission, held)
           refusal == BridgeRefusal(operation, input, permission, sound)
<1>1. /\ call.bridge = bridge /\ call.operation = operation /\ call.input = input
      /\ call.permission = permission /\ call.held = held
      /\ call.answer = Waiting /\ call.taken = FALSE
  BY DEF Begun
<1>2. refusal \in {"invalid-input", "dependency-missing", "forbidden", "none"}
      /\ (refusal = "none" /\ operation = "resolve" => \E p \in permission : p.allowed)
  BY RefusalCodes
<1>3. Await(call, sound) = IF refusal = "none" THEN call ELSE Answered(call, Final(refusal))
  BY <1>1 DEF Await
<1>4. CASE refusal # "none"
  <2>1. Final(refusal).code \notin {"ok", "waiting"}
    BY <1>2, <1>4, AnswersDiffer
  <2> QED
    BY <1>3, <1>4, <2>1, RefusedStands
<1>5. CASE refusal = "none"
  <2>1. Await(call, sound) = call
    BY <1>3, <1>5
  <2> HIDE DEF call, refusal
  <2>2. MayResolve(call)
    BY <1>1, <1>2, <1>5 DEF MayResolve
  <2>3. call.taken \in BOOLEAN /\ ~call.taken
    BY <1>1
  <2>4. BridgeCallStands(call, boundaries)
    BY <1>1, <2>2, <2>3, AnswersDiffer DEF BridgeCallStands
  <2> QED
    BY <2>1, <2>4 DEF call
<1> QED
  BY <1>4, <1>5

\* What the bridge tells of a port's result: ok only when the port took the call, and when it
\* took it and the result cannot be told, that the caller may try again.
LEMMA PortResultsAreTold ==
    ASSUME NEW input, NEW result \in PortResults,
           NEW t \in MayHaveTaken(result)
    PROVE  LET reply == NormalizeResolvePortResult(input, result)
           IN /\ reply.code = "ok" => t
              /\ t => reply.code = "ok" \/ reply.retryable = "yes"
              /\ reply.code # "waiting"
<1> DEFINE reply == NormalizeResolvePortResult(input, result)
<1>1. CASE PortResultIsSafe(result) /\ result.kind = "ok" /\ result.refMatches
           /\ PortState(input, result) \in StateStatuses
  <2>1. reply = BridgeAnswer("ok", "unstated", {PortState(input, result)})
    BY <1>1 DEF NormalizeResolvePortResult
  <2>2. reply.code = "ok"
    BY <2>1, AnswersDiffer
  <2> QED
    BY <1>1, <2>2 DEF MayHaveTaken
<1>2. CASE PortResultIsSafe(result) /\ result.kind = "failure" /\ result.refMatches
  <2>1. reply = NormalizePortFailure(result)
    BY <1>2 DEF NormalizeResolvePortResult
  <2>2. reply.code = MapApprovalPortFailureCode(result.code)
    BY <2>1, AnswersDiffer DEF NormalizePortFailure
  <2>3. MapApprovalPortFailureCode(result.code)
          \in {"dependency-missing", "dependency-failed", "conflict"}
    BY <1>2 DEF MapApprovalPortFailureCode, PortResults
  <2> QED
    BY <1>2, <2>2, <2>3 DEF MayHaveTaken
<1>3. CASE /\ ~(PortResultIsSafe(result) /\ result.kind = "ok" /\ result.refMatches
                /\ PortState(input, result) \in StateStatuses)
           /\ ~(PortResultIsSafe(result) /\ result.kind = "failure" /\ result.refMatches)
  <2>1. reply = TryAgain
    BY <1>3 DEF NormalizeResolvePortResult
  <2> QED
    BY <2>1, AnswersDiffer
<1> QED
  BY <1>1, <1>2, <1>3

\* A call of the port, which is over when it is told.
LEMMA PortStands ==
    ASSUME NEW operation \in {"submit", "resolve"}, NEW input, NEW permission, NEW held,
           NEW sound \in BOOLEAN, NEW boundaries,
           NEW s \in AskPort(Begun("openclaw", operation, input, permission, held), sound)
    PROVE  BridgeCallStands(s, boundaries)
<1> DEFINE call == Begun("openclaw", operation, input, permission, held)
           refusal == BridgeRefusal(operation, input, permission, sound)
<1>1. call.operation = operation /\ call.input = input /\ call.permission = permission
  BY DEF Begun
<1>2. refusal \in {"invalid-input", "dependency-missing", "forbidden", "none"}
      /\ (refusal = "none" /\ operation = "resolve" => \E p \in permission : p.allowed)
  BY RefusalCodes
<1>3. AskPort(call, sound) = IF refusal = "none" THEN PortCalls(call) \cup ThrownCalls(call)
                             ELSE {Answered(call, Final(refusal))}
  BY <1>1 DEF AskPort
<1>4. CASE refusal # "none"
  <2>1. Final(refusal).code \notin {"ok", "waiting"}
    BY <1>2, <1>4, AnswersDiffer
  <2>2. s = Answered(call, Final(refusal))
    BY <1>3, <1>4
  <2> QED
    BY <2>1, <2>2, RefusedStands
<1>5. CASE refusal = "none"
  <2>1. ASSUME NEW reply, NEW t \in BOOLEAN,
               s = [Answered(call, reply) EXCEPT !.taken = t],
               reply.code = "ok" => t,
               t => reply.code = "ok" \/ reply.retryable = "yes",
               reply.code # "waiting"
        PROVE  BridgeCallStands(s, boundaries)
    <3>1. /\ s.answer = reply /\ s.taken = t /\ s.operation = operation
          /\ s.bridge = "openclaw" /\ s.input = input
          /\ s.permission = permission /\ s.held = held
      BY <2>1 DEF Begun, Answered
    <3> HIDE DEF call, refusal
    <3>2. MayResolve(s)
      BY <1>2, <1>5, <3>1 DEF MayResolve
    <3>3. s.answer # Waiting
      BY <2>1, <3>1, AnswersDiffer
    <3> QED
      BY <2>1, <3>1, <3>2, <3>3 DEF BridgeCallStands
  <2>2. CASE s \in PortCalls(call)
    <3>1. PICK result \in PortResults : \E t \in MayHaveTaken(result) :
              s = [Answered(call, NormalizeResolvePortResult(call.input, result)) EXCEPT !.taken = t]
      BY <2>2 DEF PortCalls
    <3>2. PICK t \in MayHaveTaken(result) :
              s = [Answered(call, NormalizeResolvePortResult(call.input, result)) EXCEPT !.taken = t]
      BY <3>1
    <3>3. t \in BOOLEAN
      BY DEF MayHaveTaken
    <3> HIDE DEF call
    <3> QED
      BY <2>1, <3>2, <3>3, PortResultsAreTold
  <2>3. CASE s \in ThrownCalls(call)
    <3>1. PICK t \in BOOLEAN : s = [Answered(call, TryAgain) EXCEPT !.taken = t]
      BY <2>3 DEF ThrownCalls
    <3> HIDE DEF call
    <3> QED
      BY <2>1, <3>1, AnswersDiffer
  <2> QED
    BY <1>3, <1>5, <2>2, <2>3
<1> QED
  BY <1>4, <1>5

\* The call of one caller becomes one that stands.
LEMMA OneCallBecomes ==
    ASSUME NEW c \in BridgeCallers, NEW s, ApprovalInv, BridgeCallStands(s, wired),
           approvalCalls' = [approvalCalls EXCEPT ![c] = s], UNCHANGED wired
    PROVE  ApprovalInv'
BY DEF ApprovalInv

LEMMA SubmitStands ==
    ASSUME NEW c \in BridgeCallers, NEW input, NEW sound \in BOOLEAN, ApprovalInv,
           SubmitRequest(c, input, sound)
    PROVE  ApprovalInv'
<1>1. UNCHANGED wired
  BY DEF SubmitRequest
<1> DEFINE awaited == Await(Begun("adapter", "submit", input, {}, {}), sound)
<1>2. CASE approvalCalls' = [approvalCalls EXCEPT ![c] = awaited]
  <2>1. "adapter" # "composed"
    OBVIOUS
  <2>2. BridgeCallStands(awaited, wired)
    BY <2>1, AwaitStands, Zenon
  <2> HIDE DEF awaited
  <2> QED
    BY <1>1, <1>2, <2>2, OneCallBecomes
<1>3. ASSUME NEW s \in AskPort(Begun("openclaw", "submit", input, {}, {}), sound),
             approvalCalls' = [approvalCalls EXCEPT ![c] = s]
      PROVE  ApprovalInv'
  <2>1. BridgeCallStands(s, wired)
    BY PortStands
  <2> QED
    BY <1>1, <1>3, <2>1, OneCallBecomes
<1> QED
  BY <1>2, <1>3 DEF SubmitRequest

LEMMA ResolveStands ==
    ASSUME NEW c \in BridgeCallers, NEW input, NEW permission, NEW sound \in BOOLEAN,
           ApprovalInv, Resolve(c, input, permission, sound)
    PROVE  ApprovalInv'
<1>1. UNCHANGED wired
  BY DEF Resolve
<1> DEFINE awaited == Await(Begun("adapter", "resolve", input, permission, heldGrants), sound)
<1>2. CASE approvalCalls' = [approvalCalls EXCEPT ![c] = awaited]
  <2>1. "adapter" # "composed"
    OBVIOUS
  <2>2. BridgeCallStands(awaited, wired)
    BY <2>1, AwaitStands, Zenon
  <2> HIDE DEF awaited
  <2> QED
    BY <1>1, <1>2, <2>2, OneCallBecomes
<1>3. ASSUME NEW s \in AskPort(Begun("openclaw", "resolve", input, permission, heldGrants), sound),
             approvalCalls' = [approvalCalls EXCEPT ![c] = s]
      PROVE  ApprovalInv'
  <2>1. BridgeCallStands(s, wired)
    BY PortStands
  <2> QED
    BY <1>1, <1>3, <2>1, OneCallBecomes
<1> QED
  BY <1>2, <1>3 DEF Resolve

\* The default requirement, by the default evaluator, is allowed by a grant for this approval.
LEMMA VerdictByGrant ==
    ASSUME NEW input, NEW context,
           NEW verdict \in Verdicts("default", DefaultRequirement(input, context), context), verdict.allowed
    PROVE  \E grant \in heldGrants :
               /\ grant.action = "resolve-approval" /\ grant.kind = "approval"
               /\ "resourceRef" \in DOMAIN grant.scope =>
                      grant.scope.resourceRef = input.approvalRef
<1>1. verdict = EvaluatePermission(DefaultRequirement(input, context), context, heldGrants)
  BY DEF Verdicts
<1> QED
  BY <1>1, AllowedByGrant

LEMMA ComposedStands ==
    ASSUME NEW c \in BridgeCallers, NEW input, NEW context, NEW own, NEW evaluator, ApprovalInv,
           ResolveWithPermission(c, input, context, own, evaluator)
    PROVE  ApprovalInv'
<1> DEFINE bridge == IF own = {} /\ evaluator = "default" THEN "composed" ELSE "composed-own"
           call(given) == Begun(bridge, "resolve", input, given, heldGrants)
           needed == IF own = {} THEN {DefaultRequirement(input, context)} ELSE own
<1>1. UNCHANGED wired
  BY DEF ResolveWithPermission
<1>2. ASSUME NEW given, NEW reply, reply.code \notin {"ok", "waiting"},
             approvalCalls' = [approvalCalls EXCEPT ![c] = Answered(call(given), reply)]
      PROVE  ApprovalInv'
  <2> DEFINE begun == call(given)
  <2>1. BridgeCallStands(Answered(begun, reply), wired)
    <3> HIDE DEF bridge
    <3> QED
      BY <1>2, RefusedStands
  <2> HIDE DEF begun
  <2> QED
    BY <1>1, <1>2, <2>1, OneCallBecomes DEF begun
<1>3. ASSUME NEW r \in needed, NEW verdict \in Verdicts(evaluator, r, context), verdict.allowed,
             NEW sound \in BOOLEAN,
             approvalCalls' = [approvalCalls EXCEPT ![c] = Await(call({verdict}), sound)]
      PROVE  ApprovalInv'
  <2> DEFINE begun == call({verdict})
  <2>1. bridge = "composed" => evaluator = "default" /\ r = DefaultRequirement(input, context)
    BY <1>3
  <2>2. bridge = "composed" => \E grant \in heldGrants :
            /\ grant.action = "resolve-approval" /\ grant.kind = "approval"
            /\ "resourceRef" \in DOMAIN grant.scope =>
                   grant.scope.resourceRef = input.approvalRef
    BY <1>3, <2>1, VerdictByGrant
  <2>3. BridgeCallStands(Await(begun, sound), wired)
    <3> HIDE DEF bridge
    <3> QED
      BY <2>2, AwaitStands
  <2> HIDE DEF begun
  <2> QED
    BY <1>1, <1>3, <2>3, OneCallBecomes DEF begun
<1>4. ASSUME NEW code \in {"invalid-input", "dependency-missing", "rejected", "forbidden"}, NEW given,
             approvalCalls' = [approvalCalls EXCEPT ![c] = Answered(call(given), Final(code))]
      PROVE  ApprovalInv'
  <2>1. Final(code).code \notin {"ok", "waiting"}
    BY AnswersDiffer
  <2> QED
    BY <1>2, <1>4, <2>1
<1>5. ASSUME approvalCalls' = [approvalCalls EXCEPT
                ![c] = Answered(call({}), BridgeAnswer("dependency-failed", "no", {}))]
      PROVE  ApprovalInv'
  <2>1. BridgeAnswer("dependency-failed", "no", {}).code = "dependency-failed"
    BY AnswersDiffer
  <2> QED
    BY <1>2, <1>5, <2>1
<1>6. ASSUME NEW r \in needed, NEW verdict \in Verdicts(evaluator, r, context),
             \/ approvalCalls' = [approvalCalls EXCEPT
                    ![c] = Answered(call({verdict}), Final("forbidden"))]
             \/ /\ verdict.allowed
                /\ \E sound \in BOOLEAN :
                      approvalCalls' = [approvalCalls EXCEPT ![c] = Await(call({verdict}), sound)]
      PROVE  ApprovalInv'
  <2> HIDE DEF call, needed
  <2> QED
    BY <1>3, <1>4, <1>6
<1>7. \/ \E code \in {"invalid-input", "dependency-missing", "rejected"} :
            approvalCalls' = [approvalCalls EXCEPT ![c] = Answered(call({}), Final(code))]
      \/ approvalCalls' = [approvalCalls EXCEPT
             ![c] = Answered(call({}), BridgeAnswer("dependency-failed", "no", {}))]
      \/ \E r \in needed : \E verdict \in Verdicts(evaluator, r, context) :
            \/ approvalCalls' = [approvalCalls EXCEPT
                   ![c] = Answered(call({verdict}), Final("forbidden"))]
            \/ /\ verdict.allowed
               /\ \E sound \in BOOLEAN :
                     approvalCalls' = [approvalCalls EXCEPT ![c] = Await(call({verdict}), sound)]
  BY DEF ResolveWithPermission
<1> HIDE DEF call, needed
<1> QED
  BY <1>4, <1>5, <1>6, <1>7

\* What was let through is marked as taken.
LEMMA TakeStands ==
    ASSUME NEW c \in BridgeCallers, ApprovalInv, Take(c)
    PROVE  ApprovalInv'
<1> DEFINE call == approvalCalls[c]
           s    == [call EXCEPT !.taken = TRUE]
<1>1. approvalCalls' = [approvalCalls EXCEPT ![c] = s] /\ UNCHANGED wired
      /\ call.answer = Waiting
  BY DEF Take, Quiet
<1>2. BridgeCallStands(call, wired)
  BY DEF ApprovalInv
<1> HIDE DEF call
<1>3. /\ s.taken = TRUE /\ s.answer = call.answer /\ s.operation = call.operation
      /\ s.bridge = call.bridge /\ s.input = call.input /\ s.permission = call.permission
      /\ s.held = call.held
  OBVIOUS
<1> HIDE DEF s
<1>4. MayResolve(s)
  BY <1>1, <1>2, <1>3 DEF BridgeCallStands, MayResolve
<1>5. BridgeCallStands(s, wired)
  BY <1>1, <1>2, <1>3, <1>4, AnswersDiffer DEF BridgeCallStands
<1> QED
  BY <1>1, <1>5, OneCallBecomes

LEMMA SettleStands ==
    ASSUME NEW c \in BridgeCallers, ApprovalInv, SettleAwaited(c)
    PROVE  ApprovalInv'
<1> DEFINE call == approvalCalls[c]
<1>1. UNCHANGED wired /\ call.answer = Waiting
  BY DEF SettleAwaited, Quiet
<1>2. PICK s \in Settlements(call) : approvalCalls' = [approvalCalls EXCEPT ![c] = s]
  BY DEF SettleAwaited
<1>3. BridgeCallStands(call, wired)
  BY DEF ApprovalInv
<1> HIDE DEF call
<1>4. PICK reply :
         /\ s = Answered(call, reply)
         /\ reply = TryAgain \/ (call.taken /\ reply = BridgeAnswer("ok", "unstated", {}))
  <2>1. CASE s = Answered(call, TryAgain)
    BY <2>1
  <2>2. CASE call.taken /\ s = Answered(call, BridgeAnswer("ok", "unstated", {}))
    BY <2>2
  <2> QED
    BY <2>1, <2>2 DEF Settlements
<1>5. /\ s.answer = reply /\ s.taken = call.taken /\ s.operation = call.operation
      /\ s.bridge = call.bridge /\ s.input = call.input /\ s.permission = call.permission
      /\ s.held = call.held
  BY <1>4 DEF Answered
<1>6. MayResolve(s)
  BY <1>1, <1>3, <1>5 DEF BridgeCallStands, MayResolve
<1>7. BridgeCallStands(s, wired)
  BY <1>1, <1>3, <1>4, <1>5, <1>6, AnswersDiffer DEF BridgeCallStands
<1> QED
  BY <1>1, <1>2, <1>7, OneCallBecomes

\* A port that cannot be requirement for both is not told to pass.
LEMMA ReadinessStands ==
    ASSUME NEW c \in BridgeCallers, NEW reported, ApprovalInv, AskReadiness(c, reported)
    PROVE  ApprovalInv'
<1> DEFINE s == [operation |-> "readiness", answer |-> Final(PortReadiness(reported)),
                 taken |-> FALSE]
<1>1. approvalCalls' = [approvalCalls EXCEPT ![c] = s] /\ UNCHANGED wired
  BY DEF AskReadiness
<1>2. PortReadiness(reported) \in {"pass", "warn", "fail", "unknown"}
  BY DEF PortReadiness, CheckStatus
<1>3. PortReadiness(reported) = "pass" => {"submit", "resolve"} \subseteq wired
  BY DEF PortReadiness, HasBoundary
<1>4. s.answer.code = PortReadiness(reported)
  BY AnswersDiffer
<1>5. s.answer # Waiting
  BY <1>2, <1>4, AnswersDiffer
<1>6. BridgeCallStands(s, wired)
  BY <1>2, <1>3, <1>4, <1>5 DEF BridgeCallStands
<1> QED
  BY <1>1, <1>6, OneCallBecomes

LEMMA ApprovalInductive == ApprovalInv /\ [ApprovalNext]_approvalVars => ApprovalInv'
<1> SUFFICES ASSUME ApprovalInv, [ApprovalNext]_approvalVars
             PROVE  ApprovalInv'
  OBVIOUS
<1>1. ASSUME UNCHANGED <<wired, approvalCalls>>
      PROVE  ApprovalInv'
  BY <1>1 DEF ApprovalInv
<1>2. ASSUME NEW g \in PermissionGrants, ChangeGrants(g)
      PROVE  ApprovalInv'
  BY <1>1, <1>2 DEF ChangeGrants
<1>3. ASSUME NEW input \in BridgeInputs, NEW context \in EvaluationContexts, Evaluate(input, context)
      PROVE  ApprovalInv'
  BY <1>1, <1>3 DEF Evaluate
<1> QED
  BY <1>1, <1>2, <1>3, SubmitStands, ResolveStands, ComposedStands, TakeStands, SettleStands,
     ReadinessStands DEF ApprovalNext, approvalVars

LEMMA AlwaysApproval == ApprovalSpec => []ApprovalInv
<1>1. ApprovalInit => ApprovalInv
  <2> SUFFICES ASSUME ApprovalInit, NEW c \in BridgeCallers
               PROVE  BridgeCallStands(NoCall, wired)
    BY DEF ApprovalInit, ApprovalInv
  <2>1. NoCall.operation = "none" /\ NoCall.taken = FALSE /\ NoCall.answer.code = "none"
    BY AnswersDiffer DEF NoCall
  <2> QED
    BY <2>1, AnswersDiffer DEF BridgeCallStands
<1> QED
  BY <1>1, ApprovalInductive, PTL DEF ApprovalSpec

\* Whatever callers ask, of whichever bridge, and however its boundary answers: a resolution
\* reaches the resolver only as permitted, and the caller is told what became of it.
\* approval-bridge.ts 713-797, approval-composition.ts 176-215, openclaw-approval-bridge.ts
\* 636-858.
THEOREM ApprovalsTrue == ApprovalSpec => []ApprovalsAreTrue
<1>1. ApprovalInv => ApprovalsAreTrue
  BY DEF ApprovalInv, BridgeCallStands, MayResolve, ApprovalsAreTrue, ResolutionsWereGranted,
         ApprovalAnswersAreTrue
<1> QED
  BY <1>1, AlwaysApproval, PTL
=============================================================================
