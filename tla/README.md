# FEN triadic synthesis: TLA+ models and proofs

The repository is a pipeline that brings entity annotations to a community for
validation, writes the outcome back into an RDF store and shows it on web
pages. This directory holds TLA+ models of it, the configurations TLC checks
them with, and proofs checked by TLAPS. Source paths below are relative to the
repository root.

## 1. The system

| Part | Source | State | Operations |
|---|---|---|---|
| Kafka wrappers | `services/common/kafka_io.py` | log, committed offset and fetch position of a consumer group; a producer's unacknowledged records | `make_consumer`, `poll_batch_with_offsets`, `commit_offsets`, `make_producer`, `send` |
| FEN Bridge outbound | `services/fen_bridge/outbound.py`, `fen_client.py` | the polled batch, the attempt number | `run`, `submit_candidates`, `main` |
| FEN Bridge webhook | `services/fen_bridge/webhook.py` | a lazily made producer | `receive_decision`, `readyz` |
| Validation Result Consumer | `services/validation_consumer/` | the batch in memory; the named graphs in the store | `process_cycle`, `handle_message`, `handle_decision`, `apply_update`, `main` |
| Mock FEN API (the DAO) | `mock_fen_api/main.py`, `delegation.py` | candidates with votes, delegations, status and decision; counters; reputation; a thread pool of deliveries | `submit_candidates`, `cast_vote`, `delegate_vote`, `_deliver_decision_after_delay`, `_set_status`, `_apply_reputation` |
| Event bus of the Mock FEN API | `mock_fen_api/main.py` | subscribers, each with a bounded queue | `_broadcast`, `_subscribe`, `_unsubscribe`, `/events`, `list_candidates` |
| Voting arithmetic | `mock_fen_api/qv_voting.py` | none | `majority_outcome`, `quorum_total`, `qv_scores`, `qv_decide` |
| Status API | `services/status_api/main.py` | per stream the last payload | `get_status`, `_status_stream`, `export_annotation` |
| Web | `web/shared/live.js`, `web/widget`, `web/portal` | what is shown, an EventSource, a fallback ticker, fetches under way | `start`, `stop`, `_load`, `_onSseStatus`, `loadCandidates` |
| Messages, PIDs, ontology, LLM judge, metrics | `services/common` | none | parsing and formatting |

How they interact:

    extraction --(pending topic)--> outbound --HTTP--> DAO --HTTP--> webhook
        --(decisions topic)--> validation consumer --SPARQL--> store
                                       |                         ^
                                       +--(validated topic)      +-- Status API --SSE--> widget
    DAO --events--> portal, triadic view

What is hard in it: at-least-once delivery by committing after processing
(crashes, rebalances, failing commits, failing cycles without a seek), a
producer that acknowledges later than `send` returns, retries whose first
attempt did get through, answers that come after the sender gave up, votes and
delegations that race with the claim of a proposal and with its delivery, a
bounded pool, a DAO whose memory is lost in a restart while the topic and the
store are not, and live views whose fetches, event frames, error frames and
tickers overtake each other.

What makes each part correct:

* **Consumer and outbound**: a committed offset covers only records that were
  processed, apart from a loss that can be stated exactly; commits never move
  back; redelivery is bounded and harmless to the store; a confirmation follows
  its update; a clean stop leaves nothing behind; nothing stops the loop.
* **Webhook**: nothing its model class rejects and nothing the DAO did not decide
  reaches the topic; what the DAO takes for delivered is on the topic or lost in one known
  way; repeated posts do no harm behind it.
* **DAO**: a proposal is decided once, by the ballots on record; a name
  counts once; what is shown as decided was accepted by the webhook; reputation
  is what the recorded rewards amount to; a delivery task always ends.
* **Status API and widget**: a widget that has come to rest shows the store's
  record, never another annotation's, and it does come to rest.
* **Event bus and pages**: a page at rest shows the registry as it is; streams
  that are over leave no subscriber behind.

## 2. Modules

| Module | What it is |
|---|---|
| `KafkaGroup` | one member of a consumer group: broker log and committed offset, client position, the batch in memory. Base of the two processes that consume |
| `OffsetLedger` | abstract: what a process that reads a topic with manual commits owes its group |
| `ValidationConsumer` | the Validation Result Consumer on top of `KafkaGroup`, with the store and its own producer |
| `DecisionPipeline` | the DAO's delivery tasks, the webhook and its producer in front of `ValidationConsumer`, whose steps it takes over |
| `Outbound` | FEN Bridge outbound on top of `KafkaGroup`, with the HTTP client's retries |
| `QvVoting` | the voting arithmetic as operators |
| `MockDao` | the DAO: registry, voting modes, delegation, delivery pool, reputation |
| `GovernanceRecord` | abstract: what the DAO promises of a proposal put to the vote |
| `LiveUpdates` | the browser's half of a live view: EventSource, ticker, fetches under way. Base of the two views |
| `StatusView` | the Status API over the store, and the widget |
| `PortalView` | the event bus, the registry endpoint and the pages that listen |
| `MC...` | constants of the checked instances |
| `KafkaGroupProofs`, `ValidationConsumerProofs`, `DecisionPipelineProofs`, `OutboundProofs`, `MockDaoProofs`, `StatusViewProofs`, `PortalViewProofs`, `DataLemmas` | invariants, lemmas and theorems, section 4 |

Operators whose comment calls them a mutant are not part of the specification:
each is a plausible error in the definition that follows it, kept to show that
the named property notices it. Variables marked "history" are read by no guard.

### KafkaGroup

Three cursors per partition are kept apart because the code's guarantees depend
on their difference: `committed` (broker, survives), `position` (the client's
fetch position) and `next` (the record of the current batch to be processed).
`Poll` is `poll_batch_with_offsets`: between one and `BatchSize` records, in
offset order per partition; the loop then stays in one partition until its
records are used up (`IsNext`). A poll that returns nothing or raises gives the
caller an empty batch and is no step. `CommitOffsets` sends offset + 1 of the
processed records. `Abandon` is what a failed cycle amounts to: `process_cycle`
and `run` return, the batch is garbage, and nothing seeks back, so `next` jumps
to `position`. `Join` resolves the positions to `committed`, or to the end of
the log where there is none (`auto_offset_reset="latest"`). `Leave` is
`close()`, a crash, or a revoked assignment.

### OffsetLedger

What the rest of the group, and whoever resumes from its offsets, may rely on:
the records of a partition are settled in order and without gaps, only records
that have arrived are, what is settled stays so, and the committed offset moves
forward only, over records that were settled before. `ValidationConsumer` and
`Outbound` both implement it (`LedgerImplemented`): arrived is the end of the
log, settled is what was handled (received by the API), dropped by a failed
cycle or passed over by a missing offset, and committed is itself. The step of
the ledger says nothing of *how* a record is settled; that a dropped one counts
is the loss described in section 3, and which records those are is the affair of
`CommittedAccounted`.

### ValidationConsumer

| Action | Code |
|---|---|
| `Start`, `Assign` | `main()`: new consumer and producer; first poll |
| `PollBatch` | the poll at the head of `process_cycle` |
| `ApplyUpdate` / `HandleFails` | `handle_decision` returns / raises: a malformed decision before any request, a failed request with or without effect on the store |
| `Publish` / `PublishFails` | `kafka_io.send` hands the confirmation to the producer / raises |
| `Commit` / `CommitFails` | `commit_offsets([record])` / raises out of `process_cycle`, whether or not the broker recorded it |
| `Deliver` / `DeliverFails` | the producer's I/O thread: the success callback / the errback |
| `StopRequested`, `Close` | SIGTERM seen between cycles; `flush()` then `close()` |
| `Crash`, `Rebalance` | any time / inside poll |
| `DecisionArrives` | the webhook's keyless `send` |

The store maps an entry (named graph, annotation) to the record whose triples
it holds: `build_update_query` deletes all five governance triples of the
annotation in one graph and inserts the new ones, so the record identifies the
content. `Malformed` stands for the payloads `handle_decision` raises for: those
`GovernanceDecision` rejects and those it accepts with a `decision_id` or a
`reputation_snapshot_id` that `int()` rejects (`sparql_updater.py:38-39`). A process holds at most one batch, so the SIGTERM test between cycles
is the state `idle`.

### DecisionPipeline

| Action | Code |
|---|---|
| `Decide`, `Post` | a delivery task of the DAO sends attempt number `attempt` |
| `PostRefused`, `TimedOut`, `Retry` | no connection; the request's timeout; the `for attempt in range(...)` loop of `_deliver_decision_after_delay` |
| `receive_decision` | the payload passes `GovernanceDecision.model_validate`, `send()` returns: 202, although the record is only in the producer's memory |
| `Reject` | 401; 422 for what `model_validate` rejects (`Invalid`); 503 |
| `Flush`, `FlushFails` | the producer's I/O thread: written to the topic, or given up |
| `WebhookCrash` | requests and buffer are gone; nothing flushes the producer on the way out |
| `ConsumerStep` | `OwnStep`: everything the consumer does except receiving arrivals |

A request in a handler does not know whether somebody still waits for its
answer: `handlers` holds pairs of decision and attempt, and the answer counts
only if the sender is still at that attempt. So a decision may be published
twice, or published and counted as given up. The two identifiers are
plain strings to the model class (`messages.py:52,56`), so the webhook takes in
what the consumer cannot read: `Invalid` is a part of `Malformed`, the rest of it
`Unreadable`. The mock DAO makes up identifiers that parse (`main.py:339-343`),
a DAO in its place need not. `ValidationConsumer` alone lets any value arrive at any time; here it arrives through `Flush` only.

### Outbound

`submit_candidates` makes at most `MaxRetries + 1` attempts (`PostRetried`,
`PostGivenUp`, `PostAccepted`); a failed one may have been taken in by the API.
`CommitBatch` commits the whole batch.

### MockDao, QvVoting and GovernanceRecord

Each handler changes state inside one acquisition of `_state_lock` and is one
action. `submit_candidates` takes the lock twice; what it reads the second time
(the recommendation) never changes once recorded. `cast_vote` schedules after
releasing the lock; in between nothing but a restart can tell, and a restart
after the scheduling has the same effect. A delivery is a task that goes
through `queued`, `sleeping`, `posting`, `delivered`, `recorded`: the pool, the
delay, the attempts, `_set_status` and `_apply_reputation` are separate steps,
so votes, other deliveries and restarts come between. `Restart` forgets
everything but the topic; a graceful shutdown, which waits for the pool, is the
case in which it happens with no task left. `decisionCounter` also stands for
`_reputation_counter`, which is read in the same place only. `qv_scores` counts
unit weights instead of looping over the votes. The default voter names
`validator_n` are the constant `ValidatorName`; in the checked instance one of
them is also a name somebody gives explicitly.

`GovernanceRecord` is what a client of the DAO may rely on: a proposal is
proposed, claimed with one verdict, the verdict and nothing else is published,
only then is it on record, and only a validated one is rewarded, once; a
restart forgets all but what was published. `MockDao!GovernanceImplemented`
maps to it: the phase is read off the status, the rewards are the reputation
history, the published verdicts are the outcomes on the topic, and the verdict
is **recomputed from the ballots at every moment** (`BallotResult`). A vote or a
delegation that changed the ballots of a claimed proposal would therefore
change the verdict, which the abstract specification allows in no step.

### LiveUpdates, StatusView, PortalView

`LiveUpdates` keeps four things: the EventSource's state, the frames between
the server's yield and the browser (`wire`, in order), the fallback ticker, and
the fetches under way. A fetch is sent, answered from the server's state at one
moment, and arrives at a later one; fetches overtake each other and the stream.

| StatusView | Code |
|---|---|
| `Written`, `StoreFails`, `StoreRecovers` | the validation consumer's update; the store goes away and comes back |
| `_status_stream` | one poll of the server's generator: push what differs from the last push, push an error if the query failed |
| `get_status` | the REST answer, computed now |
| `connectedCallback`, `disconnectedCallback`, `attributeChangedCallback`, `liveChanged` | the element's callbacks with the `_load` and `_startLive` they make |
| `onopen`, `onerror`, `_onSseStatus`, `_onSseError` | the EventSource's handlers |
| `Loaded`, `Tick`, `retry` | an answer is rendered, the 15 s interval, the retry button |

The server's error frame is named `error`, so the browser calls `onerror` for
it as well as `_onSseError`: that starts the ticker, the only reason, apart
from the retry button, why a widget gets rid of an error if the record did not
change during the outage (the stream then pushes nothing). `newest` and `cause`
are history: they say whether what is shown came from a frame, a fetch, a
failed fetch, or a fetch overtaken by something newer.

| PortalView | Code |
|---|---|
| `Change`, `_set_status`, `_apply_reputation` | handlers change the registry under the lock; a delivery does it twice |
| `_broadcast` | after the lock: into every queue, evicting subscribers whose queue is full |
| `events`, `StreamStarts`, `StreamYields`, `StreamEnds` | a request of `/events`: registered at once, its generator runs later or never, its `finally` only if it ran |
| `_public_state`, `list_candidates` | the two halves of `GET /candidates`, under two acquisitions of the lock |
| `startLiveUpdates`, `stopLiveUpdates`, `refresh`, `onOpen`, `onerror`, `onEvent`, `fallback`, `loadCandidates`, `loadFails` | the page |

Events carry nothing the page uses: it fetches everything again after each of
them. So a lost event matters only if no later event or fetch follows it.

## 3. Runs

Deadlock is not checked in any of them: logs, votes, submissions, restarts,
writes and user actions are bounded, so the models do stop.

| Run | Instance | Result |
|---|---|---|
| `VC_accounting` | 2 partitions, one without a committed offset, 2 records each, batches of 2, one good and one malformed payload, all faults, 1 restart | `TypeOK`, `CommittedAccounted`, `ConfirmationAfterUpdate`, `LedgerImplemented` hold |
| `VC_live` | 1 partition without an offset, 3 records, one payload malformed, failing cycles, 2 stops or rebalances, fair | `CleanStopConfirms`, `EveryRecordSettles` hold |
| `PL_delivery` | 1 partition, 2 records, batches of 2; two decisions out of a good one, an invalid one and one with an identifier that does not parse; 2 attempts, every fault of sender and webhook, 1 webhook crash, 1 crash or rebalance of the consumer, lost confirmations, fair | `PipelineTypeOK`, `OnlyDecisionsPublished`, `DeliveredIsAccounted`, `UnappliedIsTraced`, `OneRecordRedelivered`, `StoreNotBehindCommit`, `DeliveredSettles` hold |
| `OB_accounting` | 2 partitions, one without an offset, 2 records each, all faults, 2 restarts, fair | `TypeOK`, `PostingEnds`, `EveryCandidateSettles`, `LedgerImplemented` hold |
| `OB_crash` | 1 partition, 4 records, 3 crashes, stops or rebalances | `ForwardedBeforeCommit`, `RedeliveryWithinBatch` hold |
| `DAO_qv` | 1 proposal, 4 people, threshold 4, intensities 1 and 2, at most 3 votes, delegations, lost and failed posts | `TypeOK`, `DecisionIsBallotResult`, `ReputationBacked`, `ScoresCountPeople`, `GovernanceImplemented`, `VoteNeverHurtsItsOutcome`, `VotesDecide` hold |
| `DAO_community` | 2 proposals, quorum 3, 1 worker, 3 attempts, lost and failed posts, 1 restart, fair | `QuorumExact`, `OneDecisionPerProposal`, `GovernanceImplemented`, `EveryTaskEnds`, `EveryClaimIsDecided` hold |
| `DAO_auto` | 2 annotations, 3 submissions, 2 workers, lost and failed posts | `DecidedWasAccepted` holds |
| `SV_widget` | 2 annotations, 1 write, 1 outage, 1 lost stream, 3 user actions, 2 fetches and 2 frames under way, browsers with and without EventSource, fair | `TypeOK`, `RestIsFresh`, `ForeignRecordIsReplaced`, `EventuallyFresh` hold |
| `PV_portal` | 2 changes, one of them a rewarded decision, queues of 1, 2 requests of `/events`, 1 failure, stop or refresh, 2 fetches and 1 frame under way, fair | `TypeOK`, `RestIsCurrent`, `LeakIsUnstarted`, `EventuallyCurrent` hold |
| `PL_claim_uncommitted` | 1 partition, two decisions the webhook takes in, one with an identifier that does not parse; nothing fails | `FailedStaysUncommitted` violated |
| `PV_claim_evicted` | 3 changes, 1 request, queue of 1, nothing fails, fair | `EvictedRefreshes` violated |

What the two violations show:

* `process_cycle` leaves a failed batch without seeking back, so the next poll
  continues behind the failed record and the commit of a later one covers it;
  `services/validation_consumer/main.py:82-84` says the record stays uncommitted
  and is redelivered. The run takes a failure no call has to make: a decision with
  an identifier that does not parse, which the webhook answers by 202 and whose
  loss nobody is told of. `webhook.py:52-53` says the webhook "returns 422 on a
  malformed payload rather than silently dropping it", and that is true only of
  what the model class rejects; `UnappliedIsTraced` states the rest. A store that
  fails has the same effect. `Outbound.run` is built the same way and loses a refused
  batch likewise (`outbound.py:39-41`). `CommittedAccounted` states the loss
  exactly.
* `_broadcast` discards a subscriber whose queue is full, and nothing ends its
  stream: the page behind it stays connected to a generator that waits for ever,
  no error starts its ticker, and it never fetches again. The comment at
  `mock_fen_api/main.py:134-135` says a slow consumer "just misses events, the
  UI re-polls/refreshes". Dropping the event and keeping the subscriber would be
  harmless, since events carry no content and the queue is full of others.

Seen while modelling and not the subject of a run:

* `auto_offset_reset="latest"` makes a group that crashes before its first
  commit skip what it had polled (`kafka_io.py:51`, against `:12-14`); `passed`
  in `CommittedAccounted`.
* A delegation can carry a score to the threshold without deciding anything,
  since only `cast_vote` runs `qv_decide` (`main.py:563`, against
  `web/api.md:72`). `VotesDecide` states what does hold: the next vote weighs it.
* When the webhook refuses every attempt the proposal stays claimed for good
  (`main.py:384`, against `:466`); hence the premise of `EveryClaimIsDecided`.
* A committed record's confirmation is lost with the producer's buffer in a
  crash, since `send` does not wait for the broker (the exception
  `CleanStopConfirms` makes).
* Auto mode decides and rewards a resubmitted candidate again; a restarted DAO
  numbers its decisions from one again.
* A widget with `live="off"` neither streams nor polls; changing an attribute of
  a detached widget opens its stream again; a catch-up fetch that fails while
  the stream is healthy is not repeated (the exception `RestIsFresh` makes).

**Bounds.** A batch of two is the least in which a failure leaves a record
behind it; three records (`VC_live`) let a third be committed past a failed one. Two
partitions are needed for the cut of a batch across partitions and for a
committed and an uncommitted partition side by side; what is said of one
partition does not get harder with more records. One restart suffices for the
accounting, since a restart forgets all but `committed`; `OB_crash` takes three
stops of any kind. `PL_delivery` bounds the decisions the DAO takes
(`MaxDecisions`) and the consumer to one partition: batches over several
partitions are in `VC_accounting`, and the six invariants of the run are theorems
for any number of partitions and decisions. Two attempts are the least with which
an answer can be late for one and in time for the next; `DAO_community` has three,
so that a claim is decided after a failed post and before the last one. Two proposals and one worker make deliveries
queue; three votes and a threshold of four let a decision come from intensity,
from delegation, and from a sum of the two. Two annotations and two fetches let
a foreign or an older answer overtake the right one; one write with one outage
lets the record change before, during, after or not at all. A queue of one is
full with the event before last, and a second request of `/events` is what
follows an abandoned one. Where a theorem of section 4 states the same property
the bound does not matter.

**Fairness.** Weak fairness on the processes' own steps only. The consumers'
`main` loops until stopped, catches every exception of a cycle, and each call
it makes has a timeout (10 s for HTTP, kafka-python's own for Kafka); the
deployment restarts the container (`docker-compose.yml`, `k8s/`), which is the
fairness of `Start`; a producer resolves each record it holds, by the success
callback or the errback. A DAO task runs in a thread of the pool and its
request has a timeout; the webhook's handlers are requests being served. The
status stream polls every few seconds, a broadcasting handler and an event
generator run, a browser connects, dispatches events, delivers answers and
fires its interval. That a store, an API or a webhook ever answers well is not
assumed, nor are arrivals, votes, writes, user actions, stops, crashes or
rebalances. What `EveryClaimIsDecided` needs of the webhook, an answer before
the last attempt, and what `EventuallyFresh` needs of the store, that it is up
for good at last, are premises of the properties.

## 4. Proofs

Every theorem is for all values of the constants that meet the named
assumptions of the module it is about: any set of partitions, people or
annotations, any batch size, number of workers, retries, faults and restarts.

**Consumer** (`KafkaGroupProofs`, `ValidationConsumerProofs`):

| Theorem | Statement |
|---|---|
| `Invariance`, `TypeCorrect` | `Spec => []IInv`, `[]TypeOK` |
| `AccountingCorrect` | `Spec => []CommittedAccounted` |
| `AtLeastOnceCorrect` | `Spec => []AtLeastOnce` |
| `CommitsMoveForward` | `Spec => CommittedMonotone` |
| `LedgerCorrect` | `Spec => LedgerImplemented` |
| `LoopNeverStands` | `Spec => []LoopReady` |
| `ConfirmationCorrect` | `Spec => []ConfirmationAfterUpdate` |
| `RedeliveryBounded` | `Spec => []OneRecordRedelivered` |
| `CleanStopCorrect` | `Spec => []CleanStopConfirms` |
| `StoreCorrect` | `Spec => []StoreNotBehindCommit` |
| `DropsCorrect` | `Spec => []DropsTraced` |

`CommittedAccounted` is not inductive: `Commit` moves the offset over the
record in hand, which has to be known to be handled, and nothing is known of
what lies between `committed` and `next`, which a later commit will cover.
`IInv` adds

* `CursorsOK`: `committed <= next <= position <= LogEnd` while the member is
  assigned, no position otherwise, and `next = position` between cycles;
* `CurrentOK`: while publishing or committing there is a current record, in
  the partition the loop serves, and when committing it is handled;
* `FrontierAccounted`: everything below `next` (below `committed` while not
  assigned) has been disposed of, which is the accounting in inductive form;
* `LossesExplained`: only failed cycles drop, only a missing offset skips.

`NextIInv` has one step per action. What several actions share is a lemma:
`UntouchedCursors` (steps that move no cursor), `FailedCycle` (the three ways a
cycle fails), `LostAssignment` (stop, crash, rebalance). `CommitsMoveForward`
is an action property and follows from `committed <= next`. The others take a
further invariant each on top of `IInv`: `AppliedBeforePublish`, `CommitsKeepUp`
(an assigned member stands at its committed offset, and has handled at most the
record there), `ConfirmationsKept` (what was handled is in the producer or on
the topic, and the producer of a process that is down is empty), `StoreInv`
(updates happen in offset order per partition, and each entry holds the newest
one of the partition that wrote it last). `DropsTraced` says what a malformed
record costs when no call fails: everything dropped fell in one cycle with such a
record, in its own partition less than `BatchSize` offsets behind it. It needs
`BatchBounded`, that a process never holds more than a batch of one partition,
which rests on a count of what `Poll` returns (`PollBounded`).

`LedgerCorrect` maps every action to a step of `OffsetLedger` or a stutter. Four
kinds of step touch the ledger: an arrival, a cycle that handles
or drops records, a missing offset that passes records over, a commit. That the
settled records stay without gaps is `FrontierAccounted` again: everything below
`next` is settled, so handling the record at `next`, or dropping all from `next`
to `position`, extends the settled stretch at its end (`StretchExtended`). That
a commit runs over settled records only is `CurrentOK` with the same.
`CommittedMonotone` follows from the ledger and is no property of a run of its
own any more. `LoopReady` says that the loop never stands on nothing: between
cycles the batch is used up, so that the next poll may go, and within a cycle
there is a record to go on with. Its invariant is `BatchLeft`, that a cycle
which handles its batch has a record left.

**Pipeline** (`DecisionPipelineProofs`): `PipelineImplements` is
`PipelineSpec => Spec`, that sender, webhook, producer and consumer together
are a refinement of the consumer as specified alone, so that all theorems above
hold in the composition. `StepImplements` shows it step by step: `Flush` is
`DecisionArrives`, `ConsumerStep` is `OwnStep`, the rest stutters.
`PipelineTypeCorrect`, `PublishedCorrect` (`OnlyDecisionsPublished`) and
`DeliveredCorrect` (`DeliveredIsAccounted`) rest on `PInv`, which adds to `IInv`
that every request in a handler is of a decided value. `PipelineTraced`
(`UnappliedIsTraced`) puts them together. What a committed offset covers was
handled, dropped or passed over (`CommittedAccounted`); handled is applied
(`AppliedBeforePublish`), passed over is excluded with `Fresh`, and what was
dropped fell with a malformed record (`DropsTraced`), which is on the topic and
therefore passed the webhook (`OnlyDecisionsPublished`): its identifiers do not
parse. At-least-once does not hold behind this webhook, then, unless they always
do: that is `PipelineAtLeastOnce`, whose premises are `Unreadable = {}` and that no
call of the consumer's fails, while invalid payloads may be posted at will.
`PipelineLedger` takes `LedgerImplemented` over to the composition the same way,
two refinements in a row.

**Outbound** (`OutboundProofs`): `Invariance`, `TypeCorrect`,
`AccountingCorrect`, `ForwardingCorrect` (`ForwardedBeforeCommit`) and
`RedeliveryBounded` (`RedeliveryWithinBatch`). The invariant has the shape of
the consumer's, with `BatchReceived` (what is about to be committed was taken
in) in the place of `CurrentOK`; the last theorem adds `BatchInHand` (an
assigned member stands at its committed offset and holds at most a batch).
`LedgerCorrect` is `Spec => LedgerImplemented`: a batch the API takes in, or a
cycle that gives up, settles everything up to `position` at once
(`BatchSettled`), and `BatchReceived` is what lets the commit of the whole batch
follow.

**DAO** (`MockDaoProofs`, with `DataLemmas` on greatest and least elements and
on sums over finite sets):

| Theorem | Statement |
|---|---|
| `DaoInvariance`, `DaoTypeCorrect` | `Spec => []DInv`, `[]TypeOK` |
| `DecidedCorrect` | `Spec => []DecidedWasAccepted` |
| `OneDecisionCorrect` | `Spec => []OneDecisionPerProposal` |
| `QuorumCorrect` | `Spec => []QuorumExact` |
| `BallotsCorrect` | `Spec => []DecisionIsBallotResult` |
| `GovernanceCorrect` | `VotingMode => (Spec => GovernanceImplemented)` |
| `VotesDecideCorrect` | `Spec => VotesDecide` |
| `VotesNeverHurtCorrect` | `Spec => VoteNeverHurtsItsOutcome` |
| `ReputationCorrect` | `Spec => []ReputationBacked` |
| `PeopleCountOnce` | `Spec => []ScoresCountPeople` |
| `PoolCorrect` | `Spec => []PoolSound` |
| `TasksMoveOnCorrect` | `Spec => TasksMoveOn` |
| `OrphansCorrect` | `Spec => OnlyLastAttemptOrphans` |

`DInv` adds to types and properties `ClaimsOK` (in the voting modes a task
carries the result of the ballots on record of a claimed proposal that has not
been rewarded, and is the only task of that proposal), `DeliveredOK` (a
delivered task's decision is on the topic) and `TopicOK` (the topic holds
nothing but ballot results of claimed proposals, with the number of the task
that is still delivering it). `GovernanceCorrect` then maps every action to a
step of `GovernanceRecord` or a stutter: a vote that decides is `Claim`, a post
the webhook takes in is `Publish`, `_set_status` is `RecordVerdict`,
`_apply_reputation` is `GiveReward` or nothing, and all others leave the mapped
state alone, for which the ballots of a claimed proposal must not move.
`VotesNeverHurtCorrect` compares the scores before and after a vote: the voter's
delegated unit goes, at most one from one outcome, and the vote's intensity, at
least one, comes. It needs the first vote of a voter, the least of a set of
indices.

`ReputationCorrect` and `PeopleCountOnce` are about sums over sets, which the
model writes as folds. A fold is a recursive function chosen by `CHOOSE`, and no
induction theorem of the library can be cited for it; `DataLemmas` proves the
one it needs, `SubsetInduction` (a family has every subset of a finite set
if it has each that it has without any one of its elements), by looking at the
least cardinality of a counterexample: the family is a set, so that no operator
parameter is needed. On it rest `SumsExist` and `FoldSums` (the fold
has the value its recursion says), `SumSplit` (any element can be split off,
whatever order `CHOOSE` takes), `SumAdds` (the sum of two functions) and
`CountedByKey` (a set split by a key counts
as the sum of its parts). `ReputationCorrect` then needs `BackedInv`: the
rewarded proposals are finitely many, each rewarded once and validated, and
everybody's reputation is the sum of his rewards over them. A step keeps the sum
because the ballots of a validated proposal do not move, and
`_apply_reputation` adds one summand, of a proposal that was not in the set. For
`PeopleCountOnce` each of the units `qv_scores` adds up is traced to one person:
by `BoxesOnce`, that nobody is in a ballot box twice, a voter owns the units of
his one vote and a delegator who did not vote owns one
(`Share`), and nobody else owns any.

The last three are the safety part of what the liveness properties say of the
pool. `EveryTaskEnds` and the fairness of `FairSpec` quantify over the numbers
`1 .. MaxSubmissions`; `PoolSound` says that every task has one of them, alone,
so that none escapes the quantifier, that no more deliveries run than there are
workers, and that while there is a task some task can take its next step. Its
invariant `PoolInv` has to show that a proposal is claimed once per submission:
tasks scheduled and proposals still open together never exceed the submissions.
`TasksMoveOn` says that a task goes forward through its stages and attempts with
every step it takes, so that it takes a bounded number of them.
`OnlyLastAttemptOrphans` says that in the voting modes a claimed proposal loses
its delivery only to a post that was its last attempt, the one case
`EveryClaimIsDecided` excepts. What is missing to the liveness properties is the
fairness argument alone.

**Widget** (`StatusViewProofs`): `StatusTypeCorrect`, `ForeignCorrect`
(`ForeignRecordIsReplaced`, inductive with the types) and `RestCorrect`
(`RestIsFresh`). The last is about a state in which nothing is under way; what
carries over from step to step is `StreamOK`: the last record pushed on the open
stream is still in the wire with nothing but errors behind it, or it was
rendered, and what was rendered since is no older, a failure, or an overtaken
answer, with the ticker running if an error is on display. That the record at
rest is the store's needs a bound from the other side, `Bounded`: no answer,
frame or rendering is newer than the record in the store. That a fetch
which returns leaves the others in their order is `ElementRemoved`
(`DataLemmas`).

**Portal** (`PortalViewProofs`): `PortalTypeCorrect`, `PortalLeakOnlyUnstarted`
(`LeakIsUnstarted`) and `PortalRestCorrect` (`RestIsCurrent`). The types are
inductive with two counts, `reputation + rewarding <= MaxDecisions` and
`announcing + rewarding <= candidates`. `PortalLeakOnlyUnstarted` adds that a
generator that ran streams or is over (`StartedOK`). Events have no content, so
`PortalRestCorrect` does not follow a value but the latest change (`CurrentInv`):
a listening page has something `Pending` (an announcement to come, a queue or a
wire that is not empty), or its last fetch has read nothing but the registry of
now (`LastIsFresh`), or the last fetch is back and the page is current, failed or
overtaken (`LastIsBack`). At rest nothing is pending and no fetch is under way,
so only the third is left.

Only model-checked: liveness (`EveryRecordSettles`, `DeliveredSettles`,
`PostingEnds`, `EveryCandidateSettles`, `EveryTaskEnds`, `EveryClaimIsDecided`,
`EventuallyFresh`, `EventuallyCurrent`), since the prover handles neither
fairness nor `ENABLED`. Every other property that a passing run checks is a
theorem, and `LoopNeverStands`, `PoolCorrect`, `TasksMoveOnCorrect` and
`OrphansCorrect` state for all constants what those eight rest on in the
consumer and the DAO.

## 5. Not modelled, and why

* A record that is not JSON: the deserializer would raise in every poll. The
  repository's own producers cannot write one.
* Two members of one group (a zombie during a rolling update), and an update
  request that the store executes after the consumer has given it up: the
  program has no guard against either and promises nothing.
* The unsynchronised creation of the executor (two pools instead of one) and the
  graceful shutdown of the DAO.
* The merge of the bindings of two named graphs into one status record
  (`_status_payload`): `StatusView` takes a record as one value.
* RDF export, `qv_cost`, the scaffold helper, schemas, PIDs, ontology, metrics,
  logging, deployment, the scripts: no state, or nothing acts on it.
* The language model's call while `_state_lock` is held: it takes time, which
  the models do not have; that nothing else can happen meanwhile is what makes
  the handler one action.
* Backoff and delays: they bound only time.

## 6. What is left

1. The widget over `ValidationConsumer`'s store instead of `Written`, with two
   graphs per annotation, so that the merge of `_status_payload` is covered.
2. A second member of the consumer group.
3. For the two views, what `LoopNeverStands` and `PoolCorrect` are for the
   consumer and the DAO: that a view which is not at rest has a step to take.
