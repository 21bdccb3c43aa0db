----------------------------- MODULE RuntimeModes -----------------------------
(***************************************************************************)
(* The runtime mode lifecycle port of the OpenClaw adapter,                 *)
(* runtime-mode/fake-inert-runtime-lifecycle-port.ts.                       *)
(*                                                                          *)
(* The port keeps nothing: a host gives it a mode, the gates of the mode    *)
(* and the lifecycle state it was last told, and asks for a transition.     *)
(* Between two requests gates open and shut and the start intent changes.   *)
(*                                                                          *)
(* An operator marked "Faulty" is a variant with a bug, used by no          *)
(* specification; it shows that a property can fail.                        *)
(***************************************************************************)
Gates == {"operator", "runtime-mode", "injected-port", "real-edge", "redaction", "safe-output"}

\* "shut" stands for missing, closed, blocked and unknown, which the port does not tell apart.
GateStatuses == {"open", "shut", "skipped"}
GivenStatuses == GateStatuses \cup {"not-given"}

StartIntents == {"descriptor-only", "ready-to-attempt", "ready-to-run"}

LifecycleStates == {"not-created", "described-only", "configured-redacted", "ready-to-attempt", "ready-to-run",
                    "start-requested", "stopping", "stopped", "blocked", "skipped", "failed-safe"}

VARIABLES
    modeGates,      \* the status the host gives each gate
    modeIntent,     \* what it says it wants to start
    modePosture,    \* how the mode is described
    modeTold,       \* the lifecycle state and readiness the host was last told, and by which call
    modeEarned,     \* history: every gate was open when it was told to be ready or started, and it kept that state
    modeFailed      \* history: the host was told failed-safe, and kept that state

modeVars == <<modeGates, modeIntent, modePosture, modeTold, modeEarned, modeFailed>>

-----------------------------------------------------------------------------
(* What the port makes of its input.                                        *)

\* A gate that is not given is open where the port itself sees to it, and missing where others must.
GateStatus(gate) ==
    IF modeGates[gate] \in GateStatuses THEN modeGates[gate]
    ELSE IF gate \in {"runtime-mode", "redaction", "safe-output"} THEN "open" ELSE "shut"

\* A claim to be running is not believed, nor is one of a state that is not known.
NormalLifecycle(claim) ==
    CASE claim \in LifecycleStates -> claim
      [] claim = "not-given" /\ modePosture = "descriptor-only" -> "described-only"
      [] claim = "not-given" /\ modePosture # "descriptor-only" -> "configured-redacted"
      [] claim = "not-believed" -> "failed-safe"

\* Faulty: a gate that is skipped blocks nothing.
PassesSkippedGates(intent) ==
    IF \E g \in Gates : GateStatus(g) = "shut" THEN "blocked"
    ELSE IF intent = "descriptor-only" THEN "not-eligible" ELSE intent

\* The first that applies; by which gate a start is blocked is not told apart.
StartEligibility(intent) ==
    IF \E g \in {"redaction", "safe-output"} : GateStatus(g) # "open" THEN "failed-safe"
    ELSE IF \E g \in Gates : GateStatus(g) = "shut" THEN "blocked"
    ELSE IF \E g \in Gates : GateStatus(g) = "skipped" THEN "skipped"
    ELSE IF intent = "descriptor-only" THEN "not-eligible" ELSE intent

Eligible == {"ready-to-attempt", "ready-to-run"}

Readiness(eligibility) ==
    IF eligibility = "not-eligible" THEN "descriptor-exists-not-ready" ELSE eligibility

\* Where a derivation or a start leads that the mode is not eligible for: what it is ready for instead, if anything.
NotEligibleFor(eligibility) == IF eligibility = "not-eligible" THEN "blocked" ELSE eligibility

Transitions == {"describe", "configure-redacted", "derive-ready-to-attempt", "derive-ready-to-run", "request-start",
                "request-stop", "complete-stop", "block", "skip", "fail-safe"}

TransitionTarget(transition, from, eligibility) ==
    CASE from = "failed-safe" -> "failed-safe"
      [] from # "failed-safe" /\ transition = "describe" -> "described-only"
      [] from # "failed-safe" /\ transition = "configure-redacted" -> "configured-redacted"
      [] from # "failed-safe" /\ transition \in {"derive-ready-to-attempt", "derive-ready-to-run"} ->
             NotEligibleFor(eligibility)
      [] from # "failed-safe" /\ transition = "request-start" ->
             IF eligibility \in Eligible THEN "start-requested" ELSE NotEligibleFor(eligibility)
      [] from # "failed-safe" /\ transition = "request-stop" ->
             IF from \in Eligible \cup {"start-requested"} THEN "stopping" ELSE "stopped"
      [] from # "failed-safe" /\ transition = "complete-stop" -> "stopped"
      [] from # "failed-safe" /\ transition = "block" -> "blocked"
      [] from # "failed-safe" /\ transition = "skip" -> "skipped"
      [] from # "failed-safe" /\ transition = "fail-safe" -> "failed-safe"

-----------------------------------------------------------------------------
(* The host.                                                                *)

ModesInit ==
    /\ modeGates \in {[g \in Gates |-> "not-given"],
                     [g \in Gates |-> IF g \in {"operator", "injected-port", "real-edge"} THEN "open" ELSE "not-given"]}
    /\ modeIntent \in StartIntents
    /\ modePosture \in {"descriptor-only", "fake-inert"}
    /\ modeTold = [by |-> "none", lifecycle |-> NormalLifecycle("not-given"), readiness |-> "not-ready"]
    /\ modeEarned = FALSE /\ modeFailed = FALSE

SetGate(gate, status) ==
    /\ modeGates' = [modeGates EXCEPT ![gate] = status]
    /\ UNCHANGED <<modeIntent, modePosture, modeTold, modeEarned, modeFailed>>

SetIntent(intent) ==
    /\ modeIntent' = intent
    /\ UNCHANGED <<modeGates, modePosture, modeTold, modeEarned, modeFailed>>

\* The state a host gives is the one it was told, or none, or one it made up.
Claims == {modeTold.lifecycle, "not-given", "not-believed"}
Kept(claim) == claim = modeTold.lifecycle

DescribeMode(claim) ==
    LET lifecycle == NormalLifecycle(claim)
    IN /\ modeTold' = [by |-> "describe", lifecycle |-> lifecycle, readiness |-> Readiness(StartEligibility(modeIntent))]
       /\ modeEarned' = (modeEarned /\ Kept(claim))
       /\ modeFailed' = ((modeFailed /\ Kept(claim)) \/ lifecycle = "failed-safe")
       /\ UNCHANGED <<modeGates, modeIntent, modePosture>>

ClassifyTransition(transition, claim) ==
    LET eligibility == StartEligibility(modeIntent)
        to == TransitionTarget(transition, NormalLifecycle(claim), eligibility)
    IN /\ modeTold' = [by |-> "transition", lifecycle |-> to, readiness |-> Readiness(eligibility)]
       /\ modeEarned' = \/ to \in Eligible \cup {"start-requested"} /\ \A g \in Gates : GateStatus(g) = "open"
                        \/ to = "stopping" /\ modeEarned /\ Kept(claim)
       /\ modeFailed' = ((modeFailed /\ Kept(claim)) \/ to = "failed-safe")
       /\ UNCHANGED <<modeGates, modeIntent, modePosture>>

\* The gates that a host changes.
ModesNext(changed) ==
    \/ \E gate \in changed, status \in GateStatuses : SetGate(gate, status)
    \/ \E intent \in StartIntents : SetIntent(intent)
    \/ \E claim \in Claims : DescribeMode(claim) \/ \E transition \in Transitions : ClassifyTransition(transition, claim)

ModesSpec == ModesInit /\ [][ModesNext(Gates)]_modeVars

-----------------------------------------------------------------------------
(* A mode that a host takes from one answer of the port to the next is      *)
(* ready, started or stopping only when every gate was open at the time it  *)
(* was told so, whatever became of the gates and the intent before and      *)
(* after; a transition to being ready or started is told with the same      *)
(* readiness; and a mode that failed safe stays so while its state is kept  *)
(* (classifyFakeInertRuntimeLifecycleTransition).                           *)
LifecycleIsEarned ==
    /\ modeTold.lifecycle \in Eligible \cup {"start-requested", "stopping"} => modeEarned
    /\ modeTold.by = "transition" /\ modeTold.lifecycle \in Eligible => modeTold.readiness = modeTold.lifecycle
    /\ modeTold.by = "transition" /\ modeTold.lifecycle = "start-requested" => modeTold.readiness \in Eligible
    /\ modeFailed => modeTold.lifecycle = "failed-safe"
=============================================================================
