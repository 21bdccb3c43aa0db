# Verification of the OpenClaw adapter

This directory keeps TLA+ models of the code under `packages/`, the TLC
configurations that check them on small instances, and proofs of their main
properties for every instance. Paths below are relative to the repository; code
is named by file and function.

Contents: [the system](#the-system), [inventory](#inventory),
[how the code is modelled](#how-the-code-is-modelled), [the modules](#the-modules),
[the runs](#the-runs), [where code and documents disagree](#where-code-and-documents-disagree),
[the proofs](#the-proofs), [what is not modelled](#what-is-not-modelled),
[plan](#plan).

## The system

`hazeteam-openclaw` is a set of TypeScript packages that adapt an external core
(sessions, action tokens, outbox) to chat providers, with Telegram as the
reference transport. Nothing in it listens, polls or schedules: a host calls it.
It is a library on one JavaScript event loop. Its synchronous parts are atomic;
its asynchronous parts talk to injected boundaries (a record store, a permission
port, a token port, a provider client) through `await`. Three things happen at
an `await`, and they are what most of the code is exposed to:

- another call of the same store or pipeline runs in between;
- the boundary rejects, before or after it did its work;
- the process stops, and the rest of the call never happens.

No store has a lock, a compare-and-swap or a transaction: every durable operation
is a read of a record, a decision and a write of a whole record.

## Inventory

| Component | State it keeps | Operations that change state | Talks to |
|---|---|---|---|
| durable delivery store, `openclaw-adapter/src/storage/delivery` | attempt, result, external message per delivery; index from idempotency key to delivery | registerAttempt, markDelivered, markFailed, recordPumpDecision | five awaited record calls |
| delivery attempt store, `storage/delivery-attempts` | attempt, acknowledgement, business result; index by key | registerAttempt, recordProviderAcknowledgement, recordBusinessResult | awaited record calls |
| callback token records, `callback-tokens`, `storage/callback-tokens` | record ref per handle, record per ref, counters, stages | issue, verify, consume, deny, fail | synchronous |
| callback boundary, `openclaw-telegram-transport/src/callback-handler-port.ts`; token flow, `openclaw-adapter/src/callbacks` | none of its own | processCallbackBoundary; the synchronous flow | permission, verifyToken and consumeToken ports, awaited |
| callback permission pipeline, `openclaw-telegram-transport/src/callbacks` | none of its own | one decision per callback | permission port, host token port |
| core store adapters, `storage/core` | action tokens, session bindings, presentation outbox | get, put, consumeActionTokenRecord | awaited record calls |
| durable callback token store, `storage/callbacks` | one lifecycle record per token | recordVerified, recordDenied, recordConsumed, recordFailed, delete | awaited get, put, delete |
| inbound idempotency store, `storage/inbound-idempotency` | one record per idempotency ref | reserve, markCompleted, markFailed | awaited get and put |
| durable idempotency store, `storage/idempotency` | one record per key | reserve, markCompleted, markFailed, delete | awaited get, put, delete |
| plugin runtime, `openclaw-plugin-runtime` | lifecycle snapshot, tool registry, capability registry | applyTransition, registrations, composition | synchronous; the host's bindings |
| topic binding stores, `storage/topic-binding`, `storage/topic-bindings` | bindings by ref and by topic, with versions | upsert, delete | awaited record calls |
| OCA sessions, `oca-wrapper/src/session-store.ts` | sessions by ref and by idempotency ref | create, resume, transition | synchronous |
| OCA approval runtime, `oca-wrapper/src/approval-runtime.ts` | none | one request, with or without a decision | the OCA client |
| approval bridges, `approvals`, `openclaw/approval` | none | submit, resolve, readiness | source, resolver or port; the permission evaluator |
| outbound delivery: provider client port, delivery port and pipeline (transport); delivery pump, OpenClaw delivery adapter | none | one delivery or one submit | awaited provider; synchronous sink |
| command facade, core host, runtime bridges, `commands`, `host`, `runtime`, `openclaw/runtime` | what the facade had when the host was made | one event, intent or dispatch | core facade, runtime port |
| channel event source, topic router and route (transport); channel adapter, inbound mapper (adapter) | none | one update or envelope | the host's bindings and commands |
| adapter state store and replay boundary, `durable-state` | one map of records under safe refs, an index of three kinds | put, delete, reserve, complete, cursor, attempt, restart | synchronous |
| runtime mode lifecycle port, `runtime-mode` | none | describe, classify a transition | the host, which carries the state |
| listener, migration-backup-restore, sidecar, LifeOS, credentials, observability | none | descriptors and validation | nothing |

`PROJECT.json` lists them all with their files and status.

What makes each of them correct, and what is hard about it:

- *Delivery stores*: an operation is delivered for one caller per idempotency
  key; what a reply promises is on disk; a delivered status has its evidence; an
  acknowledgement of the provider is not a business success. Hard: four writes
  that nothing ties together, a lost call between any two of them, late and
  contradicting reports.
- *Callback tokens*: a button press is acted on once, only for a token that was
  verified, never after a denial; a retry is told what happened. Hard: two presses
  at once, the host that issues, denies and expires tokens at any time, an answer
  that is lost after the token was consumed.
- *Idempotency stores*: one caller is handed a key, a reservation survives a
  restart, a final outcome stands. Hard: overlapping operations, a write that
  took effect and is reported as failed, late failures.
- *Plugin runtime*: a readiness claim is earned, a refusal is explained, what was
  shut down stays down, and a descriptor that is out of date can be told from one
  that is not. Hard: the order of many early returns over many inputs, and
  descriptors that are copies.
- *Topic bindings*: one binding per topic, versions only grow. Hard: two reads and
  one write, and a port that keeps an index of its own.
- *OCA sessions*: a create is idempotent even when the session has moved on, and what
  ended stays ended. Hard: replays that meet the session at any later moment.
- *Approvals*: an effect needs a granted decision, a resolution needs a permission, and
  who asked is told what was taken. Hard: decisions that a host keeps and gives again.
- *Outbound delivery*: a message is sent again only when nobody can know that it was
  sent, and every delivery ends. Hard: a provider that did its work and then failed,
  and six boundaries that each put the outcome in words of their own.
- *Commands and dispatches*: a host that follows what it is told has nothing done twice.
- *Inbound routes*: no update is lost by its acknowledgement, and copies of one are acted
  on once. Hard: two ways through the transport that were written apart, and bindings
  that change in between.
- *Adapter state*: an effect is signalled once. Hard: one map for all kinds of records.
- *Runtime mode*: it is started only by gates that were open when it was.

The hazards of the code, each at its line and with the properties that cover it,
are in `PROJECT.json` under `hazards`.

## How the code is modelled

**One action per boundary call.** An action is one awaited call with the
synchronous code that follows it up to the next `await`: guards and early
returns are its guards, the record it builds is its new value, and local copies
that live across an `await` are fields of `call[c]`, the record of the call that
caller `c` has in flight. `pc` names the await it is at, `reply` what it last
answered. `Started`, `Goto`, `Return` and `Ended` build these records. Synchronous
components have one action per operation.

**Data.** References, keys, targets and events are model values. A record keeps
the fields that a guard or a property tells apart; texts, times, digests and
redaction are left out. Every rejection by a normalizer is one action,
`RejectInput`, that answers and changes nothing. A stored record that its
normalizer refuses is `Unreadable`: the delivery store reads it as undefined.
`None` is the `undefined` or `null` of the code.

**Failures.** A boundary call may reject before or after it took effect
(`ReadFails`, `WriteFails`, `PortRejects`), or a call may stop at any `await` for
ever (`Abandon`, which is a crash as well, since nothing but the records
survives). They are counted by `failures`, `lost` or `abandoned`, and bounded by a
constant.

**Overlap.** Several promises of the stores hold only as long as two operations
on the same key or token do not overlap, because nothing but the await order
separates the read of one from the write of the other. The history variable
`overlapped` (`topicOverlapped`, `stale`) records where they did: the keys or tokens,
or for the durable delivery store whether any two calls have. A property says `\ overlapped` when
the promise is lost there, and says nothing of overlap when it is kept there.
Operations on other keys, retries, lost answers and rejections are always allowed.
What overlap then does:

| Where | Broken by two overlapping calls |
|---|---|
| `DurableDeliveryStore` | two registrations of one key, or of one delivery, are both answered created; a mark restores an older attempt; result and attempt disagree |
| `DeliveryAttemptStore` | both are told to execute the delivery; the first evidence is replaced; an acknowledgement recorded in between is erased from the attempt |
| `CallbackPipeline` | both callbacks are authorized |
| `DurableCallbackTokenStore` | a consumed record is overwritten by a failure, denial or verification |
| `InboundIdempotencyStore` | the event is dispatched twice; a completed record becomes reserved again |
| `DurableIdempotencyStore` | two callers are handed the key; a completed record becomes failed |
| `DurableCoreStores` | a token that was revoked or deleted is consumed, and two consumers are told ok |
| `TopicBindings` | the older of two versions is written last; an index entry is left behind by a ref that moved |

`CallbackBoundary` needs no such condition: over a token store whose operations
are synchronous it keeps every promise whatever overlaps.

**Histories.** `granted`, `dispatched`, `reserved`, `accepted`, `authorized` and
`fresh` count what callers were told, up to 2; `verified` keeps the tokens that
were ever recorded as verified; `posted`, `doubts`, `done`, `taken`, `signalled` and
`completed` what the other side did. They guard nothing.

**Hosts.** Many components keep nothing and do one thing when they are called. Their
models have a host that calls them as their answers allow: it gives again what was told
to be retryable, carries a state from one answer to the next, keeps decisions. What a
host may do is mapped as external; the promise is about what it is told.

**Fairness.** Most specifications are `Init /\ [][Next]_vars`. A call ends when
its boundary promise settles, and nothing in this code makes it settle: there is
no timer, no retry and no cancellation. `OutboundDelivery` alone states fairness, and it
is of the two things outside the code that a delivery cannot do without: a provider
settles each call (weak fairness of `Settle(m)`), and a host keeps sending what it is told
may be retried (weak fairness of `Send(m)`). `DeliveriesEnd` says that the code then ends
every delivery, once its boundary stays open; the faults of the provider are bounded by
`MaxFaults`, as no code could end a delivery whose provider always fails.

**Faulty operators.** An operator commented *Faulty* is the next definition with
a plausible bug (a dropped guard, a swapped order, a lost reset). No
specification uses it; put in the place of that definition it violates the
property named for it under `mutants` in `PROJECT.json`. It shows that the property can fail.

## The modules

**`DurableDeliveryStore`** models `durable-delivery-store.ts`. `attempt`, `result`,
`external` and `index` are its four kinds of record. registerAttempt is
`BeginRegister`, `RegReadAttempt`, `RegReadIndex`, `RegReadIndexed`,
`RegWriteAttempt`, `RegWriteIndex`; markDelivered and markFailed are `BeginMark`,
`ResolveKey` (when called with a key), and the `Del...` and `Fail...` actions;
recordPumpDecision calls the two. The store may start over unreadable records.

**`DeliveryAttemptStore`** models `delivery-attempt-store.ts` with the record
constructors: `Reg...`, `Ack...` (recordProviderAcknowledgement) and `Biz...`
(recordBusinessResult). `NewAttempt`, `AttemptAfterAck` and `AttemptAfterResult`
are the updates of the attempt.

**`CallbackTokenRecords`** models the token records and their store, one action per
operation. `stamps` is the set of stages whose timestamp is set.

**`CallbackBoundary`** extends it: processCallbackBoundary as `Receive`,
`CheckPermission`, `VerifyToken`, `ConsumeToken` with their refusals, the
synchronous token flow (`RunFlow`, `RunFlowFails`), and the host, which issues,
denies and fails tokens (`HostStep`). The token port of the boundary is the store.

**`CallbackPipeline`** models the permission pipeline over the action token store of
`durable-core-store-adapters.ts`: consumeActionTokenRecord is `ConsumeGet` and
`ConsumePut`. The repository leaves the glue between the two to the host: how its
token port answers the pipeline from the store's results, and that it issues a
token once and expires or revokes only open ones, are read from the types of the
port and from the tests, and marked external.

**`DurableCoreStores`** models the three adapters themselves: session bindings,
presentation outbox and action tokens, with get, put, delete, list, listPending and
consume over one boundary each. A boundary call acts at one step and is answered at a
later one; stored records may be ones that do not normalize. A list takes all that match or as
many as it was asked for, whatever the boundary filtered or cut itself; a consumption
without an operation ref keeps the one that is there (`ConsumedBy`).

**`DurableCallbackTokenStore`** models `durable-callback-token-store.ts`: four reads
(`ReadVerified`, `ReadDenied`, `ReadConsumed`, `ReadFailed`) that decide, and one
`WriteRecord`.

**`IdempotencyLedger`** is the abstract specification of an idempotency store: a
key is reserved for one caller, settled, and a final outcome stands until the key
is forgotten. The stores state that they implement it as `ImplementsLedger`, with
`Final` the outcomes that stand.

**`InboundIdempotencyStore`** models `inbound-idempotency-store.ts`. A duplicate
writes too (`SeenWrite`), which is why overlap can undo an outcome. For the ledger
a failure is final as well.

**`DurableIdempotencyStore`** models `durable-idempotency-store.ts`. A failed key may
be completed or fail again, so only a completion is final; `Delete` forgets a key.

**`PluginRuntime`** models `lifecycle.ts`, `tool-registry.ts`,
`capability-registry.ts`, `composition.ts` and `readiness.ts`. `ApplyTransition`,
`RegisterToolDescriptor` and `RegisterCapability` change the plugin;
`ComposeOpenClawRuntime` stores a descriptor of it as it is then, which is why a
descriptor can be stale. `Composition` is the pure function, from the bindings
to reports, to the aggregate, to the status and its reasons, in the order of the
early returns. Behaviour worth knowing that the model keeps: a required component that is
degraded aggregates to ready; secret-gated-smoke with open gates is called
fake-ready; a profile that is not recognised becomes fake; a tool of the
capability or oca segment has no category and cannot be registered.

**`OcaSessions`** models `session-store.ts` with the lifecycle of `session-model.ts`: the
two maps as functions, `create` as its replay, conflict and fresh cases, resume and
transition with any flags, and from `presentation.ts` whether a session has a card.

**`OcaApprovals`** models `approval-runtime.ts` over the operation policies: `Refusal` is
every early return in its order, `Execute` the call of the client. The operator
(`Grant`) and the decisions a host keeps are the environment. `Checksum` is a
parameter, since two requests may share one.

**`ApprovalBridges`** models `approval-bridge.ts`, `openclaw-approval-bridge.ts` and
`approval-composition.ts` with `permission-evaluator.ts`: what is checked before the call,
the awaited source, resolver or port, and the answer that is made of it. A host may give the
composition a requirement or an evaluator of its own; an injected one allows or denies as it
likes, throws, answers nothing, or is no function (`Verdicts`). What `ApprovalsAreTrue` says of
the grant behind a composed resolution is said of the default requirement and evaluator.

**`OutboundDelivery`** models the six boundaries that send a message. `Before` is what
stands before the call in each of them, `Settled` the outcome in its own words, and
`Send` the host that sends again. A provider posts or not, and answers, refuses, throws
or answers nonsense independently of it.

**`HostCommands`** models the descriptor sets, the composition of an intent, the command
facade, the core host and both runtime bridges.

**`InboundRoutes`** models the three ways of an update: `channel-event-source.ts` with
`topic-command-router-port.ts`, `safe-channel-event.ts` with
`telegram-inbound-topic-route.ts`, and the OpenClaw channel adapter with
`inbound-mapper.ts`.

**`TopicBindings`** models the versioned record store, whose upsert is two awaited reads and
a put, over the port of the testkit, and the synchronous snapshot store.

**`AdapterState`** models the adapter state store and the replay boundary in front of it:
one map for all kinds of records, an index for three of them, hosts that write records
themselves, and restarts from a snapshot.

**`RuntimeModes`** models the runtime mode lifecycle port: the gates in their order, the
eligibility they give, and the transitions of a host that carries the state along.

Components that share nothing are checked side by side in one MC module, where a
behaviour chooses at its start, with `part` or `scope`, which of them it is about.

Behaviour worth knowing that these models keep:

- *OCA*: the status flags of a transition can never take effect
  (`session-store.ts:225`). A granted decision runs the request as often as it is given,
  and also a request that differs in its summary alone; approval-gated-once is a
  label that nothing enforces. The requirement ref holds a 16-bit checksum. A client whose
  answer is unsafe is told as not called after it ran (`approval-runtime.ts:627`).
- *Approvals*: the bridge alone does not compare the permission decision with the approval
  it resolves; an actor given with a decision wins over the one of the context in the
  default requirement; a resolver that recorded and threw is told as retryable; an injected
  evaluator that answers nothing makes the composition reject instead of answering
  (`approval-composition.ts:191`).
- *Outbound*: an unknown reason code or an answer that does not match is retryable for
  ever; a delivery port without a client answers provider-threw; a request that carries a
  readiness hides the current one (`delivery-port.ts:317`); an acknowledgement may name
  another delivery's refs in the pipeline; no call has a timeout.
- *Core stores*: outbox claims exclude nobody; one record that does not normalize fails a
  whole list.
- *Commands*: a core that answers no status, or an unknown one, is told as accepted; the
  facade checks no permission.
- *Inbound*: identifiers lose the sign of a number and their case, so chats 5 and -5 are one
  topic; an update is acknowledged before it is processed; an update that
  is never acknowledged comes for ever; the mapper does not compare the chat with the binding.
- *Topic bindings*: a ref made from a topic can collide with another's, and an index entry
  can name a record that is gone after overlapping upserts.
- *Adapter state*: the throw for a conflicting idempotency ref is unreachable; an upsert
  deletes the old record before the new one is checked, so a refused one loses it; a
  later attempt outcome overwrites an earlier; a restart from a stale snapshot forgets reservations.
- *Runtime mode*: describing a mode repeats the lifecycle state it is given beside a
  blocked readiness; three of the gates are open by default; a state of running is never
  believed.

## The runs

| Run | Instance | Shows |
|---|---|---|
| `delivery_store` | 2 deliveries, keys, targets, callers; 1 lost call | an index never dangles, a delivered attempt has its evidence and a reply is durable, whatever overlaps (`IndexNeverDangles`, `DeliveredIsEvidenced`, `ReplyIsDurable`); without overlap an attempt is never registered again, and agrees with its result and its index when no call was lost (`AttemptNeverReregistered`, `SettledStoreAgrees`) |
| `delivery_attempts` | 2 attempts, deliveries, keys, callers; 1 lost call | an acknowledgement never passes for a business result (`EvidenceIsTold`), a grant is never forgotten and without overlap is given once per key (`GrantsStand`), and the first evidence stands |
| `callback_boundary` | 2 tokens, records, callbacks; 2 consumptions counted; 1 lost answer | consumed once, accepted once, only after verification, and a refusal is final, whatever overlaps |
| `pipeline` | 2 tokens, 2 callbacks, 2 failures; one event or dispatch given 3 times; two of 11 updates or of 14 envelopes, handed over twice | what was authorized stays consumed and without overlap is authorized once (`AuthorizationStands`); commands and dispatches are done once by a host that does as it is told, which is told the truth (`CommandAnswersAreTrue`); updates are not lost by their acknowledgement, go the same way by both routers and are acted on once |
| `callback_store` | 2 tokens, 1 key, 2 operations, 1 failure; 2 safe refs, 5 calls of the adapter state | nothing is consumed that was never verified; without overlap a consumption stands; the effect of an inbound event is signalled once, and the index of the adapter state is sound |
| `inbound` | 2 keys, events, operations; 2 failures; 2 topics, refs and upserts, 1 failure; pairs of gates that change | what may be dispatched is remembered, without overlap it is dispatched once, and the store implements the ledger; a topic is bound once and found, its versions grow without overlap; a mode is started by open gates only |
| `durable_idempotency` | 2 keys, 2 operations, 1 operation ref, 1 failure; 2 core callers and records, lists of all or of 1, 1 failure | a key that was handed out is remembered, and without overlap the store implements the ledger; an answer of the core stores tells what was written or held, and only a consumption that overlaps overwrites a closed token |
| `plugin_runtime` | 2 tools, 1 capability, 6 lifecycle revisions; all bindings ready, up to 2 absent, or 1 in any other status; 1 message, 2 faults, 1 reconfiguration | a stale descriptor tells so and a claim is earned; a message is posted again only in doubt and a final failure was not posted (`PostsAreAccountedFor`), and every delivery ends (`DeliveriesEnd`) |
| `oca` | 2 sessions, keys and details; 13 requests, 2 calls of the client; 5 inputs of an approval, 3 contexts, 2 grants, the default evaluator with and without a requirement of the host, and two others | the maps of the session store agree and its sessions are shown (`SessionsAreSound`), what ended stays ended; an effect ran on a granted decision; a resolution was permitted and who asked is told what was taken (`ApprovalsAreTrue`) |
| `delivery_store_crash`, `pipeline_overlap`, `plugin_bindings` | the smallest instance | the disagreements below |

Bounds. Two callers are enough for the hazards of this code: each is a pair of
operations, one that read and one that wrote. Two keys, tokens or deliveries show
what one does to another. One lost call or failure is enough to separate two
writes of one operation; the runs whose operations write once allow two where
TLC can afford it. A host that gives something three times can be told "again" twice.
Two faults of a provider allow a message that was posted twice, one in doubt. Inputs with many fields are
enumerated as sound ones and ones with a single flaw, since each early return looks at
one; the pairs of updates and envelopes hold those that differ in one identifier, and those
whose identifiers become equal. Two safe refs and five calls of the adapter state are a
reservation, a completion, a snapshot, a foreign write or move, and a restart.

`MCDurableDeliveryStore`, `MCDeliveryAttemptStore` and `MCPluginRuntime` add a
variable `scope` that a behaviour chooses at its start: either both callers
contend for one key (and target), or one caller at a time uses all of them; in
`MCPluginRuntime`, either any order of events and registrations with ready
bindings, or one composition after four events with any bindings, profile and gates, or
an outbound delivery. The scopes keep the runs short; what falls outside both (two
overlapping calls on different keys) is covered, for the properties that are proved, by
the proofs. The other MC modules with several components add `part` in the same way.

Symmetry: references, keys, tokens and callers are interchangeable in every
MC module that declares `Interchangeable`; nothing orders or chooses among them, and
only invariants, action properties and a safety refinement are checked with it.
`MCPluginRuntime`, which checks liveness, has none. Deadlock is checked, except in
`MCPluginRuntime`, whose bounded number of revisions, compositions and faults stops it.

## Where code and documents disagree

| Run | The document or test | The code |
|---|---|---|
| `delivery_store_crash` | `docs/adapter-authoring/core-boundary-and-ownership.md:93`: durable packages must preserve idempotency uniqueness | registerAttempt writes the attempt and its index in two awaits. A process that stops in between leaves an attempt no key leads to; a second delivery takes the key and is answered created |
| `pipeline_overlap` | `docs/adapter-authoring/reference-openclaw-telegram-state-and-storage.md:373`: two callbacks cannot both consume the same token successfully | consumeActionTokenRecord gets, then puts the whole record: two overlapping callbacks both read an open token and are both authorized |
| `plugin_bindings` | `packages/openclaw-plugin-runtime/tests/unit/runtime-composition.test.mjs:193`: missing required bindings produce not-ready evidence, not a readiness claim | readiness is reported by component and several bindings stand for one; a required binding that is absent is masked by another of its component |

The first two are not repaired by the code around them: a retry of the registration
that was lost is answered duplicate and leaves the index missing, and the
pipeline has no state of its own.

## The proofs

Each theorem holds for every value of the constants that satisfies the named
assumptions of its module. Those of the stores say that `None` (and `Unreadable`) are none
of the values they stand beside, and that bounds are natural numbers; the bounds only guard
the failures, so a theorem covers any number of them. The others say what the environment
may give: requests, records and grants have the fields of their types, an update names its
place by raw identifiers (`InboundRoutesAssumption`), a record that a host writes has a
kind and a safe ref (`AdapterStateAssumption`). Every state property of every passing
run, every action property and both refinements are stated by a theorem.

| Module | Theorem | States |
|---|---|---|
| `DurableDeliveryStoreProofs` | `TypeCorrect`, `NoDanglingIndex`, `DeliveredEvidence`, `DurableReplies` | `TypeOK`, `IndexNeverDangles`, `DeliveredIsEvidenced`, `ReplyIsDurable`, whatever overlaps or is lost |
| | `SettledAgrees`, `NeverReregistered` | `SettledStoreAgrees`, `AttemptNeverReregistered`, as long as no two calls have overlapped |
| `DeliveryAttemptStoreProofs` | `TypeCorrect`, `HandedOutOnce`, `StatusIsTrue`, `FirstReportStands` | `TypeOK`, `GrantsStand`, `EvidenceIsTold`, `FirstEvidenceStands` |
| `CallbackBoundaryProofs` | `TypeCorrect`, `OwnRecords`, `ConsumeOnce`, `CleanConsumption`, `FinalOutcome` | `TypeOK`, `HandlesOwnRecords`, `ConsumedOnce`, `ConsumedIsClean`, `OutcomeIsFinal` of the token store alone |
| | `BoundaryTypeCorrect`, `AcceptOnce`, `AcceptConsumed` | `BoundaryTypeOK`, `AcceptedOnce`, `AcceptedIsConsumed`, whatever overlaps |
| `CallbackPipelineProofs` | `TypeCorrect`, `Authorizations` | `TypeOK`, `AuthorizationStands` |
| | `CommandAnswersTrue` | `CommandAnswersAreTrue` of the commands and dispatches |
| | `NothingIsLost`, `RoutersSendAlike`, `OneOfTheSame` | `AcknowledgedIsKept`, `RoutersAgree`, `ActedOnOnce` of the inbound routes |
| `DurableCallbackTokenStoreProofs` | `TypeCorrect`, `VerifiedFirst`, `ConsumptionStands`, `RefusalIsFinal`, `VerificationStands` | `TypeOK`, `ConsumedAfterVerified`, `ConsumedStands`, `RefusalStands`, `VerifiedIsNotDenied` |
| | `EffectsOnce`, `IndexIsSound` | `EffectsAreSignalledOnce`, `StateIndexIsSound` of the adapter state |
| `InboundIdempotencyStoreProofs` | `TypeCorrect`, `Remembered`, `DispatchesOnce`, `ImplementsTheLedger` | `TypeOK`, `DispatchIsRemembered`, `DispatchedOnce`, the refinement of `IdempotencyLedger` |
| | `TopicsFound`, `VersionsGrow` | `TopicsAreFound`, `TopicVersionsGrow` of both binding stores |
| | `LifecycleEarned` | `LifecycleIsEarned` of the runtime modes |
| `DurableIdempotencyStoreProofs` | `TypeCorrect`, `Remembered`, `ImplementsTheLedger` | `TypeOK`, `ReservationIsRemembered`, the refinement of `IdempotencyLedger` |
| | `CoreAnswersTrue`, `OverwritesOverlap` | `CoreAnswersAreTrue`, `OnlyOverlapsOverwrite` of the core stores |
| `PluginRuntimeProofs` | `StaleIsVisible`, `RegistrationIsFinal`, `ShutdownIsFinal`, `ReadyClaims` | `RevisionIdentifiesSnapshot`, `RegistrationsStand`, `ShutdownIsOneWay`, `ReadyClaimIsEarned` |
| | `PostsAccountedFor` | `PostsAreAccountedFor` of the outbound boundaries |
| | `SessionsSound`, `EndedStayEnded`, `EffectsGranted` | `SessionsAreSound`, `EndedSessionsStayEnded`, `EffectsWereGranted` of the OCA wrapper |
| | `ApprovalsTrue` | `ApprovalsAreTrue` of the approval bridges |

Each proof module has one section per component. A theorem is about the specification
of its component alone, which is also what the run composes side by side with the others.

A property that is proved need not be checked by a run as well: the type invariants,
`ConsumedIsClean`, `RefusalStands`, `VerifiedIsNotDenied`, `RegistrationsStand` and
`ShutdownIsOneWay` hold by their theorems alone. A property of a run that is a conjunction
(`SettledStoreAgrees`, `GrantsStand` and the like) has a named part for each of its claims.

The arguments, by what makes the property inductive:

- *What a reply promises* (delivery). `IInv` adds to the properties what a call in
  flight knows: `CallShape`, which arguments it holds at each `pc`, and
  `WritesBehind`, which of its writes are done there. Records appear and are replaced, but never become absent or
  unreadable (`StoreGrows`), so what a call left behind stays true while
  others run.
- *A delivery store without overlap*. `DInv` adds that the running call is the only one,
  that what it has read is still so (`Knows`), and that attempt, result and index fit but for
  the writes that this call is about to make (`Fits`). A call that was lost breaks `Fits` and
  nothing else, so `AttemptNeverReregistered` does not need it.
- *Grants and evidence* (delivery attempts). `IInv` holds whatever overlaps: the index is
  backed by attempts and a status by its evidence (`IndexIsBacked`, `StatusIsEvidenced`), and
  a call by what it wrote (`Backed`). `AloneInv` adds, for the keys and refs that no two calls overlapped
  on, that what a call has read still stands (`Alone`).
- *Consumed once* (callback tokens). `RecordsSound` says what the stages of a
  record tell of its status; every operation either leaves the tokens alone,
  issues a fresh record, or replaces one by a record it `MayBecome`.
- *Accepted once* (callback boundary). A callback is accepted only by the step that the store
  answers as fresh, so acceptances are bounded by fresh answers
  (`AcceptedWasFresh`), and `ConsumedOnce` bounds those by one. The proof reuses
  the invariant of the store.
- *Authorized once* (callback pipeline). A callback about to write the consumption of a token
  that is not in `overlapped` is the only one in flight on it (`Apart`), and nobody was authorized before
  (`PutIsFirst`).
- *Without overlap* (durable callback tokens, both idempotency stores). As long as the key is not
  in `overlapped` at most one operation is in flight on it (`Apart`), so the
  record it read is still the stored one (`Current`): its write is a legal
  move from the record of today. `StartReaches`, `StepIsAside` and `StaysApart` show
  that a step on one key leaves this of the others alone.
- *Refinement* (both idempotency stores). `StepsOne`: a step changes the record of one key.
  `StepsLedger`: given `Apart` and `Current`, it is a step of the ledger on that key, or leaves
  the ledger alone.
- *What the core stores tell*. A boundary acts at one step and is answered at a
  later one: `AnswerIsTrue` says at each of them whether the write was done or what a list is of
  (`ListOf`), and `ReadStands`
  that a consumption which nobody outdated has read what is stored.
- *Topics*. `TopicsAlone`: what an upsert has read of a ref that no other overlaps on is still
  stored, unless it was deleted, so the version it `Decided` on is greater, and the index
  (`TopicIndexAgrees`) names a ref that still has the topic, but for refs that overlapped.
- *Runtime modes*. `EligibleIsOpen`: the chain of early returns lets a mode through only when each
  gate is open; the lifecycle a host carries was given by such an answer.
- *A stale descriptor tells so* (plugin runtime). An event that changes the
  plugin increases the revision, any other event changes nothing; `InitialIsFirst` is needed
  because a descriptor composed without a lifecycle carries the initial one. A claim of
  readiness is `Earned`: lemmas on the reports and on their aggregate lead back
  through the early returns of the composition.
- *Outbound*. While a message may be sent again, or is being sent, each of its posts was in doubt
  (`SentAgainInDoubt`); `AnswersAreTrue` shows of every boundary that it tells a success as
  acknowledged and no post as final that it did not acknowledge (`Telling`).
- *OCA*. `SessionsInv`: the two maps name each other, and a status is the one its lifecycle derives.
  `ApprovalsInv`: what was granted is the requirement of a request that was told it needs approval.
- *Approval bridges*. `BridgeCallStands`: a call that may reach its boundary holds the permission it
  needs (`MayResolve`), and what it is told follows what was taken. The permission evaluator is
  inverted by lemmas on its requirements.
- *Commands*. `CallStands` and `StatusStands`: what was done of a call was taken since it was
  last given, and nothing was when it may be given again.
- *Inbound routes*. An acknowledged update waits in normal form until it is routed (`RoutesInv`). That two
  copies are acted on once needs that a ref tells an update from every other one that is not
  the same (`RefsTellApart`, `KeysTellApart`), though its parts may be absent and identifiers may
  become equal.
- *Adapter state*. `KeysAreSound`: a key leads to the only record that answers for it, but for
  those of refs that a host overruled; `AdapterInv` says it of the snapshot as well
  (`PlacesAreSound`), so that a restart keeps it.

Only model-checked: that every delivery ends (`DeliveriesEnd`), since liveness under fairness
and `ENABLED` are out of the prover's reach. So is induction over data. It is avoided where a proof
would need it: a restart of the adapter state loads its records one by one, and
`Reloaded` says what that comes to; TLC compares the two on the instance of
`MCDurableCallbackTokenStore` for every order of the records. The three disagreements above are
counterexamples of TLC.

## What is not modelled

- *Migration, backup and restore, OCA sidecar, LifeOS, listener and webhook
  descriptors*: inert; they validate one input and answer with a descriptor of it.
  Nothing is migrated, backed up or listened to, and nothing is kept between two calls.
- *Normalizers, redaction, fingerprints, rendering, readiness projections of other
  packages, credentials, configuration, observability*: functions of one input; each model
  keeps their outcome, accepted or not.
- *Listing and get operations* of the stores, where they only read one record or pass on
  what they read. Where a list decides something (the outbox, the panel of sessions), it is
  modelled.
- *The in-memory topic binding store*, a map with the operations of the durable one, and the
  *inert provider client port*, which calls nothing.
- *The core, the provider, the OpenClaw runtime and the host*: outside the repository. They are the
  environment of the models.
- *Time*: no code here measures it, but for expiry stamps that hosts set and read.

## Plan

1. Done: the stores, the callback and delivery paths, the plugin runtime, the OCA wrapper,
   the approval bridges, commands, inbound routes, topic bindings, adapter state and
   runtime modes; liveness of outbound deliveries; the proofs above.
2. To prove next: typing theorems for the modules whose invariants so far type only what
   their properties need (`OutboundDelivery`, `HostCommands`, `InboundRoutes`, `AdapterState`), and
   lemmas on `CompositionStatus` that say which reasons a blocked runtime gives.
3. To model, should the code grow: an abstract delivery ledger that both delivery stores
   implement, and a delivery that goes through an outbound boundary and the attempt store in
   one composition; the repository leaves that composition to the host.
