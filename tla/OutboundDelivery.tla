--------------------------- MODULE OutboundDelivery ---------------------------
(***************************************************************************)
(* Outbound delivery: a host sends a message through one of the boundaries  *)
(* the packages give it, and sends it again while the answer says it may be *)
(* retried.  The boundaries are, in the transport, the provider client port *)
(* (callProviderDelivery, acknowledgeProviderCallback), the delivery port   *)
(* (deliverRenderedRequest) and the outbound pipeline                       *)
(* (deliverTelegramOutboundRequest); in the adapter, the delivery pump and  *)
(* the OpenClaw delivery adapter.                                           *)
(*                                                                          *)
(* Each checks the request, then its readiness, calls what was injected     *)
(* and puts the outcome in words of its own.  The provider is external: it  *)
(* may post the message and then throw, or answer what cannot be read.  A   *)
(* call has no timeout in the code.                                         *)
(***************************************************************************)
EXTENDS Naturals

CONSTANTS
    Messages,           \* deliveries, and callbacks to acknowledge
    OutboundRequests,   \* the requests hosts make
    OptionSets,         \* what a boundary may be configured with
    MaxFaults,          \* bound: outcomes that are no acknowledgement and no final refusal
    MaxChanges          \* bound: changes of the configuration

Boundaries == {"client", "callback", "port", "pipeline", "pump", "openclaw"}

\* A ref is safe as it is, safe once normalized, or unsafe.
RefForms == {"safe", "loose", "unsafe"}

Requests ==
    [deliveryRef : RefForms, targetRef : RefForms, content : {"safe", "sensitive", "broken"},
     idempotencyRef : {{}} \cup {{f} : f \in RefForms},
     required : BOOLEAN]        \* an acknowledgement: ack-required

CredentialStatuses == {"configured-redacted", "redacted", "missing", "invalid", "unavailable"}

\* What the host injects: the functions of the port, the credential's status, whether
\* the provider is enabled, and whether readiness was given at all.
Options == [enabled : BOOLEAN, port : SUBSET {"deliver", "acknowledgeCallback"},
            credentialStatus : CredentialStatuses, gated : BOOLEAN]

ASSUME OutboundAssumption ==
    /\ OutboundRequests \subseteq Requests /\ OptionSets \subseteq Options
    /\ MaxFaults \in Nat /\ MaxChanges \in Nat

VARIABLES
    boundary,   \* the boundary the host uses
    options,    \* its configuration
    asked,      \* the request of each message, {} before there is one
    gate,       \* the readiness that a rendered request carries, {} when none
    inFlight,   \* the messages whose provider call has not settled
    answer,     \* the last answer to each message
    outcome,    \* history: what the provider did in the last call, {} when not called
    posted,     \* how often the provider posted the message
    doubts,     \* history: calls that posted but were not acknowledged
    faults, changes

outboundVars == <<boundary, options, asked, gate, inFlight, answer, outcome,
                  posted, doubts, faults, changes>>

-----------------------------------------------------------------------------
(* Refs and texts                                                           *)

\* Trimmed, lower-cased, cut to length; what is still unsafe is dropped.
NormalizeOptionalSafeRef(form) == IF form = "unsafe" THEN {} ELSE {"safe"}
IsAlreadySafeRef(form) == NormalizeOptionalSafeRef(form) = {form}
IsSafeText(text) == text = "safe"

-----------------------------------------------------------------------------
(* Answers                                                                  *)

NotAttempted(detail, retryable) ==
    [status |-> "not-attempted", detail |-> detail, retryable |-> retryable]
ProviderRejected(detail, retryable) ==
    [status |-> "provider-rejected", detail |-> detail, retryable |-> retryable]
ProviderAcknowledged ==
    [status |-> "provider-acknowledged", detail |-> "acknowledged", retryable |-> FALSE]
\* An operation error of the adapter instead of a decision about the delivery.
AdapterError(code, retryable) ==
    [status |-> "adapter-error", detail |-> code, retryable |-> retryable]
NoAnswer == [status |-> "none", detail |-> "none", retryable |-> TRUE]

-----------------------------------------------------------------------------
(* The provider                                                             *)

ClientReasons == {"invalid-request", "missing-provider-port", "credential-blocked",
                  "provider-disabled", "provider-rejected", "rate-limited", "timeout",
                  "conflict", "internal"}
PortReasons == {"invalid-request", "target-not-found", "provider-unavailable",
                "provider-rejected", "rate-limited", "timeout", "conflict", "internal"}
PipelineReasons == {"invalid-request", "blocked-missing-provider-port",
                    "blocked-provider-disabled", "blocked-missing-secret",
                    "provider-unavailable", "provider-rejected", "rate-limited", "timeout",
                    "conflict", "invalid-provider-ack"}
SafeErrorCodes == PortReasons

\* It posts and says so; says so with fields that are unsafe or of another delivery;
\* refuses, with a reason and a word on retrying or without; answers what is no answer;
\* or throws, having posted the message or not.
Outcomes ==
    LET Outcome(k, p) == [kind |-> k, posted |-> p, reason |-> "none", retryable |-> {}]
    IN {Outcome("ok", TRUE), Outcome("odd", TRUE)}
       \cup {Outcome(k, p) : k \in {"malformed", "threw"}, p \in BOOLEAN}
       \cup {[kind |-> "refused", posted |-> FALSE, reason |-> r, retryable |-> said] :
                r \in {"provider-rejected", "rate-limited", "elsewhere"},
                said \in (SUBSET BOOLEAN) \ {BOOLEAN}}

-----------------------------------------------------------------------------
(* The provider client port of the transport                                *)

ValidateClientContent(r) == IsSafeText(r.content)

ValidateDeliveryRequest(r) ==
    /\ IsAlreadySafeRef(r.deliveryRef) /\ IsAlreadySafeRef(r.targetRef)
    /\ \A f \in r.idempotencyRef : IsAlreadySafeRef(f)
    /\ ValidateClientContent(r)

ValidateCallbackAcknowledgementRequest(r) == IsAlreadySafeRef(r.deliveryRef)

CredentialReady(status) == status \in {"configured-redacted", "redacted"}

ClientReadiness(o) ==
    IF ~o.enabled THEN "blocked-disabled"
    ELSE IF o.port = {} THEN "blocked-missing-port"
    ELSE IF ~CredentialReady(o.credentialStatus) THEN "blocked-missing-credential"
    ELSE "ready"

BlockedClientResult(readiness) == NotAttempted(readiness, readiness # "blocked-disabled")
BlockedDeliveryResult(readiness) == BlockedClientResult(readiness)
BlockedCallbackResult(readiness) == BlockedClientResult(readiness)

\* A provider that says nothing about retrying is asked again unless it rejected.
Retryable(o, reasons) ==
    IF o.retryable # {} THEN TRUE \in o.retryable
    ELSE o.reason \in reasons \ {"provider-rejected"}

NormalizeDeliveryRawResult(o) ==
    CASE o.kind = "malformed" -> ProviderRejected("malformed-provider-result", TRUE)
      [] o.kind = "refused" ->
            ProviderRejected("provider-returned-failure", Retryable(o, ClientReasons))
      [] o.kind \in {"ok", "odd"} -> ProviderAcknowledged

NormalizeCallbackRawResult(o) == NormalizeDeliveryRawResult(o)

\* The answer that needs no call; a port without the function is told as no port.
BeforeProviderDelivery(o, r) ==
    IF ~ValidateDeliveryRequest(r) THEN {NotAttempted("invalid-request", FALSE)}
    ELSE IF ClientReadiness(o) # "ready" THEN {BlockedDeliveryResult(ClientReadiness(o))}
    ELSE IF "deliver" \notin o.port THEN {BlockedDeliveryResult("blocked-missing-port")}
    ELSE {}

CallProviderDelivery(o) ==
    IF o.kind = "threw" THEN ProviderRejected("provider-threw", TRUE)
    ELSE NormalizeDeliveryRawResult(o)

BeforeCallbackAcknowledgement(o, r) ==
    IF ~ValidateCallbackAcknowledgementRequest(r) THEN {NotAttempted("invalid-request", FALSE)}
    ELSE IF ~r.required THEN {ProviderAcknowledged}
    ELSE IF ClientReadiness(o) # "ready" THEN {BlockedCallbackResult(ClientReadiness(o))}
    ELSE IF "acknowledgeCallback" \notin o.port THEN {BlockedCallbackResult("blocked-missing-port")}
    ELSE {}

AcknowledgeProviderCallback(o) ==
    IF o.kind = "threw" THEN ProviderRejected("provider-threw", TRUE)
    ELSE NormalizeCallbackRawResult(o)

-----------------------------------------------------------------------------
(* The delivery port of the transport                                       *)

ValidateRequest(r) ==
    IF ~IsAlreadySafeRef(r.deliveryRef) THEN {"invalid-rendered-content"}
    ELSE IF ~IsAlreadySafeRef(r.targetRef) THEN {"invalid-delivery-target"}
    ELSE IF ~IsSafeText(r.content) THEN {"invalid-rendered-content"}
    ELSE {}

\* The readiness of the request hides the one of the options.
ProviderGateFor(o, g) == IF g # {} THEN g ELSE IF o.gated THEN {o} ELSE {}

ClassifyReadinessGate(o, g) ==
    {IF ~p.enabled THEN "provider-disabled"
     ELSE IF ~CredentialReady(p.credentialStatus) THEN "missing-secret"
     ELSE IF p.port = {} THEN "provider-not-configured"
     ELSE "open" : p \in ProviderGateFor(o, g)} \ {"open"}

NormalizeAcknowledgement(o) ==
    CASE o.kind = "malformed" -> ProviderRejected("invalid-provider-ack", TRUE)
      [] o.kind = "refused" ->
            ProviderRejected("provider-returned-failure", Retryable(o, PortReasons))
      [] o.kind \in {"ok", "odd"} -> ProviderAcknowledged

\* A client that was not given is found out by the call, which throws.
BeforeRenderedDelivery(o, r, g) ==
    IF ValidateRequest(r) # {} THEN {NotAttempted(d, FALSE) : d \in ValidateRequest(r)}
    ELSE IF ClassifyReadinessGate(o, g) # {}
         THEN {NotAttempted(d, d # "provider-disabled") : d \in ClassifyReadinessGate(o, g)}
    ELSE IF "deliver" \notin o.port THEN {ProviderRejected("provider-threw", TRUE)}
    ELSE {}

DeliverRenderedRequest(o) ==
    IF o.kind = "threw" THEN ProviderRejected("provider-threw", TRUE)
    ELSE NormalizeAcknowledgement(o)

-----------------------------------------------------------------------------
(* The outbound pipeline of the transport                                   *)

\* The request as the transport builds it: refs normalized, an unsafe optional ref left
\* out; {} when something it needs is unsafe.
NormalizeTarget(target) == NormalizeOptionalSafeRef(target)
NormalizeContent(content) == {content} \cap {"safe"}
CreateTelegramOutboundDeliveryRequest(r) ==
    {[r EXCEPT !.deliveryRef = d, !.targetRef = t, !.content = c,
               !.idempotencyRef = UNION {NormalizeOptionalSafeRef(f) : f \in @}] :
        d \in NormalizeOptionalSafeRef(r.deliveryRef),
        t \in NormalizeTarget(r.targetRef), c \in NormalizeContent(r.content)}

\* A request is safe when it could be built again; its refs are passed on as they are.
IsSafeTelegramOutboundDeliveryRequest(r) == CreateTelegramOutboundDeliveryRequest(r) # {}

\* Faulty: no block is retryable.
BlockedByReadinessForGood(o) ==
    IF o.gated /\ ~(o.enabled /\ o.port # {} /\ CredentialReady(o.credentialStatus))
      THEN {NotAttempted("missing-secret", FALSE)}
    ELSE {}
BlockedByReadiness(o) ==
    IF ~o.gated THEN {}
    ELSE IF ~o.enabled THEN {NotAttempted("provider-disabled", FALSE)}
    ELSE IF o.port = {} THEN {NotAttempted("missing-provider-port", TRUE)}
    ELSE IF ~CredentialReady(o.credentialStatus) THEN {NotAttempted("missing-secret", TRUE)}
    ELSE {}

NormalizeProviderAcknowledgement(o) ==
    CASE o.kind = "malformed" -> ProviderRejected("invalid-provider-ack", TRUE)
      [] o.kind = "refused" ->
            ProviderRejected("provider-returned-failure", Retryable(o, PipelineReasons))
      [] o.kind \in {"ok", "odd"} -> ProviderAcknowledged

BeforeOutboundDelivery(o, r) ==
    IF ~IsSafeTelegramOutboundDeliveryRequest(r)
      THEN {NotAttempted("invalid-delivery-request", FALSE)}
    ELSE IF BlockedByReadiness(o) # {} THEN BlockedByReadiness(o)
    ELSE IF "deliver" \notin o.port THEN {NotAttempted("missing-provider-port", TRUE)}
    ELSE {}

DeliverTelegramOutboundRequest(o) ==
    IF o.kind = "threw" THEN ProviderRejected("provider-threw", TRUE)
    ELSE NormalizeProviderAcknowledgement(o)

-----------------------------------------------------------------------------
(* The delivery pump and the OpenClaw delivery adapter                      *)

\* Adapter refs are read as they are, target refs are trimmed first; sensitive text is
\* redacted and sent; anything else that is unsafe throws.
NormalizeDeliveryTarget(target) == NormalizeOptionalSafeRef(target)
CreateTelegramRenderFragment(content) ==
    CASE content = "broken" -> {} [] content = "sensitive" -> {"redacted"} [] OTHER -> {content}

CreateTelegramDeliveryPumpRequest(r) ==
    /\ IsAlreadySafeRef(r.deliveryRef)
    /\ NormalizeDeliveryTarget(r.targetRef) # {}
    /\ CreateTelegramRenderFragment(r.content) # {}

NormalizeOpenClawTarget(target) == NormalizeOptionalSafeRef(target)
NormalizeDeliveryContent(content) == CreateTelegramRenderFragment(content)

NormalizeTelegramDeliveryRequest(r) ==
    /\ IsAlreadySafeRef(r.deliveryRef)
    /\ NormalizeOpenClawTarget(r.targetRef) # {}
    /\ NormalizeDeliveryContent(r.content) # {}

\* What was injected, of the one function it has.
BeforeAdapterCall(o, valid) ==
    IF ~valid THEN {AdapterError("invalid-input", FALSE)}
    ELSE IF "deliver" \notin o.port THEN {AdapterError("dependency-missing", TRUE)}
    ELSE {}
BeforeSubmit(o, r) == BeforeAdapterCall(o, CreateTelegramDeliveryPumpRequest(r))
BeforeSendMessage(o, r) == BeforeAdapterCall(o, NormalizeTelegramDeliveryRequest(r))

\* A failure is retried only when the sink says so; a result that does not match the
\* request, has unsafe fields or a reason that is not known is no result.
\* Faulty: the reason is checked on a success as well.
MatchesByReason(o) == o.kind \in {"ok", "refused"} /\ o.reason \in SafeErrorCodes
Matches(o) ==
    \/ o.kind = "ok"
    \/ o.kind = "refused" /\ o.reason \in SafeErrorCodes

NormalizeSinkResult(o) ==
    IF o.kind = "ok" THEN ProviderAcknowledged
    ELSE ProviderRejected("provider-returned-failure", TRUE \in o.retryable)
NormalizePortResult(o) == NormalizeSinkResult(o)

PumpTelegramDeliveryRequest(o) ==
    IF o.kind = "threw" THEN ProviderRejected("provider-unavailable", TRUE)
    ELSE IF Matches(o) THEN NormalizeSinkResult(o)
    ELSE AdapterError("dependency-failed", TRUE)

SendOpenClawDeliveryRequest(o) ==
    IF o.kind = "threw" THEN ProviderRejected("provider-unavailable", TRUE)
    ELSE IF Matches(o) THEN NormalizePortResult(o)
    ELSE AdapterError("dependency-failed", TRUE)

-----------------------------------------------------------------------------
(* The host                                                                 *)

Before(r, g) ==
    CASE boundary = "client"   -> BeforeProviderDelivery(options, r)
      [] boundary = "callback" -> BeforeCallbackAcknowledgement(options, r)
      [] boundary = "port"     -> BeforeRenderedDelivery(options, r, g)
      [] boundary = "pipeline" -> BeforeOutboundDelivery(options, r)
      [] boundary = "pump"     -> BeforeSubmit(options, r)
      [] boundary = "openclaw" -> BeforeSendMessage(options, r)

After(o) ==
    CASE boundary = "client"   -> CallProviderDelivery(o)
      [] boundary = "callback" -> AcknowledgeProviderCallback(o)
      [] boundary = "port"     -> DeliverRenderedRequest(o)
      [] boundary = "pipeline" -> DeliverTelegramOutboundRequest(o)
      [] boundary = "pump"     -> PumpTelegramDeliveryRequest(o)
      [] boundary = "openclaw" -> SendOpenClawDeliveryRequest(o)

OutboundInit ==
    /\ boundary \in Boundaries /\ options \in OptionSets
    /\ asked = [m \in Messages |-> {}] /\ gate = [m \in Messages |-> {}]
    /\ inFlight = {}
    /\ answer = [m \in Messages |-> NoAnswer] /\ outcome = [m \in Messages |-> {}]
    /\ posted = [m \in Messages |-> 0] /\ doubts = [m \in Messages |-> 0]
    /\ faults = 0 /\ changes = 0

\* The host makes a request; for the pipeline it may build it with the transport; a
\* rendered request may carry the readiness of the moment.
Ask(m, r) ==
    /\ asked[m] = {}
    /\ \/ asked' = [asked EXCEPT ![m] = {r}]
       \/ /\ boundary = "pipeline"
          /\ CreateTelegramOutboundDeliveryRequest(r) # {}
          /\ asked' = [asked EXCEPT ![m] = CreateTelegramOutboundDeliveryRequest(r)]
    /\ \/ gate' = gate
       \/ boundary = "port" /\ gate' = [gate EXCEPT ![m] = {options}]
    /\ UNCHANGED <<boundary, options, inFlight, answer, outcome, posted, doubts,
                   faults, changes>>

\* An outcome that leaves the delivery open counts against the bound on faults.
Leaves(o) == o.kind \notin {"ok", "refused"} \/ After(o).retryable

Settled(m, o) ==
    /\ Leaves(o) => faults < MaxFaults
    /\ faults' = IF Leaves(o) THEN faults + 1 ELSE faults
    /\ answer' = [answer EXCEPT ![m] = After(o)]
    /\ outcome' = [outcome EXCEPT ![m] = {o}]
    /\ posted' = IF o.posted THEN [posted EXCEPT ![m] = @ + 1] ELSE posted
    /\ doubts' = IF o.posted /\ o.kind # "ok" THEN [doubts EXCEPT ![m] = @ + 1] ELSE doubts

\* The host sends a request that has no answer yet or may be retried.
MaySend(m) == asked[m] # {} /\ m \notin inFlight /\ answer[m].retryable

\* A call that is answered without the provider.
Block(m) ==
    /\ MaySend(m)
    /\ \E r \in asked[m] : \E a \in Before(r, gate[m]) :
            answer' = [answer EXCEPT ![m] = a]
    /\ outcome' = [outcome EXCEPT ![m] = {}]
    /\ UNCHANGED <<boundary, options, asked, gate, inFlight, posted, doubts, faults, changes>>

\* A call that reaches the provider; it waits as long as the provider does.
Call(m) ==
    /\ MaySend(m) /\ boundary # "pump"
    /\ \E r \in asked[m] : Before(r, gate[m]) = {}
    /\ inFlight' = inFlight \cup {m}
    /\ UNCHANGED <<boundary, options, asked, gate, answer, outcome, posted, doubts,
                   faults, changes>>

Settle(m) ==
    /\ m \in inFlight
    /\ \E o \in Outcomes : Settled(m, o)
    /\ inFlight' = inFlight \ {m}
    /\ UNCHANGED <<boundary, options, asked, gate, changes>>

\* The pump's sink answers at once.
Submit(m) ==
    /\ MaySend(m) /\ boundary = "pump"
    /\ \E r \in asked[m] : Before(r, gate[m]) = {}
    /\ \E o \in Outcomes : Settled(m, o)
    /\ UNCHANGED <<boundary, options, asked, gate, inFlight, changes>>

\* The host configures the boundary anew.
Reconfigure ==
    /\ changes < MaxChanges /\ changes' = changes + 1
    /\ options' \in OptionSets \ {options}
    /\ UNCHANGED <<boundary, asked, gate, inFlight, answer, outcome, posted, doubts, faults>>

Send(m) == Block(m) \/ Call(m) \/ Submit(m)

OutboundNext ==
    \/ \E m \in Messages, r \in OutboundRequests : Ask(m, r)
    \/ \E m \in Messages : Block(m) \/ Call(m) \/ Settle(m) \/ Submit(m)
    \/ Reconfigure

\* The provider settles every call, by an answer or by throwing, and the host keeps
\* sending what may be retried.
OutboundFairness == \A m \in Messages : WF_outboundVars(Settle(m)) /\ WF_outboundVars(Send(m))

OutboundSpec == OutboundInit /\ [][OutboundNext]_outboundVars /\ OutboundFairness

-----------------------------------------------------------------------------
(* Properties                                                               *)

\* A provider posts a message twice only when it gave no readable word of the first time:
\* a host that does what retryable says sends nothing again that was acknowledged.
\* provider-client-port.ts 738-796, delivery-port.ts 560-580,
\* outbound-delivery-pipeline.ts 297-330, delivery-pump.ts 626-686.
PostedAgainOnlyInDoubt == \A m \in Messages : posted[m] <= doubts[m] + 1

\* A failure that is told as final was not a message that got posted, whatever the
\* provider did after it, and an answer that nothing was attempted is true.
\* provider-client-port.ts 784, delivery-pump.ts 606-624.
Unposted(m) == \A o \in outcome[m] : ~o.posted
FinalFailuresWereNotPosted ==
    \A m \in Messages \ inFlight :
        /\ answer[m].status # "provider-acknowledged" /\ ~answer[m].retryable => Unposted(m)
        /\ \/ answer[m].status = "not-attempted"
           \/ answer[m].detail \in {"invalid-input", "dependency-missing"}
           => outcome[m] = {}

\* The host is told enough of what was posted to post it once.
PostsAreAccountedFor == PostedAgainOnlyInDoubt /\ FinalFailuresWereNotPosted

\* Once its boundary is and stays open, each message that was asked for is acknowledged,
\* refused by the provider for good or found invalid: neither a fault of the provider nor
\* a port or credential that was missing for a time ends it.  A rendered request that
\* carries the readiness of an earlier moment is left out, for it is blocked by it for
\* ever, though it is told as retryable.  delivery-port.ts 317-362.
Open ==
    /\ options.enabled /\ CredentialReady(options.credentialStatus)
    /\ {"deliver", "acknowledgeCallback"} \subseteq options.port
ForATime == {"blocked-missing-port", "blocked-missing-credential", "provider-not-configured",
             "missing-provider-port", "missing-secret", "dependency-missing"}
Ended(m) ==
    /\ ~answer[m].retryable /\ answer[m].detail \notin ForATime
    /\ \A o \in outcome[m] : o.kind \in {"ok", "odd", "refused"}
DeliveriesEnd ==
    <>[]Open => \A m \in Messages : asked[m] # {} /\ gate[m] = {} ~> Ended(m)
=============================================================================
