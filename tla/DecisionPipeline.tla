---------------------------- MODULE DecisionPipeline ----------------------------
(***************************************************************************)
(* The way of a decision from the DAO to the graph: the DAO's delivery     *)
(* task posts it to the bridge's webhook, services/fen_bridge/webhook.py   *)
(* validates it and hands it to its Kafka producer, the producer's I/O     *)
(* thread writes it to the topic ValidationConsumer reads.                 *)
(*                                                                         *)
(* ValidationConsumer lets any decision appear on the topic at any time;   *)
(* here decisions appear as these processes deliver them, and the consumer *)
(* takes its own steps.  The sender gives every request a timeout, the     *)
(* request handler does not know of it: an answer may be late, and what a  *)
(* request that was given up does is not undone.                           *)
(***************************************************************************)
EXTENDS ValidationConsumer

CONSTANTS
    Invalid,             \* payloads GovernanceDecision rejects
    WEBHOOK_MAX_RETRIES, \* attempts the sender makes in all
    PipelineFaults,      \* which faults occur, see PipelineFaultKinds
    MaxDecisions,        \* bound: decisions the DAO takes
    MaxWebhookCrashes    \* bound: deaths of the webhook process

\* A request times out or its answer is lost; the webhook refuses it (no
\* connection, wrong token, Kafka not available); the webhook dies; its producer
\* gives a record up.
PipelineFaultKinds == {"timeout", "refused", "crash", "terminal"}

\* Both validate against one model class, so that the consumer fails on whatever the
\* webhook refuses.  To that class the PIDs are plain strings: the consumer parses
\* two of them besides, and fails where they do not parse.
ASSUME DecisionPipelineAssumption ==
    /\ Invalid \subseteq Malformed
    /\ WEBHOOK_MAX_RETRIES \in Nat \ {0}
    /\ PipelineFaults \subseteq PipelineFaultKinds
    /\ MaxDecisions \in Nat
    /\ MaxWebhookCrashes \in Nat

VARIABLES
    delivery,     \* the sender's task for each decision
    handlers,     \* requests in receive_decision: <<decision, attempt>>
    outbox,       \* the webhook's producer: records of each partition, in order
    lost,         \* history: decisions that left the outbox for nowhere
    webhookCrashes

pipelineVars == <<delivery, handlers, outbox, lost, webhookCrashes>>
consumerVars == <<pc, store, applied, handled, buffer, validated, leaves>>

\* Payloads that pass as decisions and cannot be applied: a PID does not parse.
Unreadable == Malformed \ Invalid

NotDecided == [stage |-> "not_decided", attempt |-> 0]
Decided == {v \in Values : delivery[v] # NotDecided}
Task(stage, attempt) == [stage |-> stage, attempt |-> attempt]
SetTask(v, t) == delivery' = [delivery EXCEPT ![v] = t]
Waiting(h) == delivery[h[1]] = Task("waiting", h[2])
OnTopic(v) == \E p \in Partitions : \E i \in DOMAIN log[p] : log[p][i] = v
InOutbox(v) == \E p \in Partitions : \E i \in DOMAIN outbox[p] : outbox[p][i] = v
Buffered == {v \in Values : InOutbox(v)}

PipelineInit ==
    /\ Init
    /\ delivery = [v \in Values |-> NotDecided]
    /\ handlers = {}
    /\ outbox = [p \in Partitions |-> << >>]
    /\ lost = {}
    /\ webhookCrashes = 0

-------------------------------------------------------------------------------
\* The DAO decides, the task begins.
Decide(v) ==
    /\ delivery[v] = NotDecided
    /\ Cardinality(Decided) < MaxDecisions
    /\ SetTask(v, Task("posting", 0))
    /\ UNCHANGED <<vars, handlers, outbox, lost, webhookCrashes>>

\* The request reaches the webhook.
Post(v) ==
    /\ delivery[v].stage = "posting"
    /\ SetTask(v, Task("waiting", delivery[v].attempt))
    /\ handlers' = handlers \cup {<<v, delivery[v].attempt>>}
    /\ UNCHANGED <<vars, outbox, lost, webhookCrashes>>

\* Mutant of Retry: range(WEBHOOK_MAX_RETRIES + 1).
RetryOnceMore(v) ==
    SetTask(v, IF delivery[v].attempt < WEBHOOK_MAX_RETRIES
               THEN Task("posting", delivery[v].attempt + 1)
               ELSE Task("given_up", delivery[v].attempt))

\* An attempt has failed: the next one, until they are used up.
Retry(v) ==
    SetTask(v, IF delivery[v].attempt + 1 < WEBHOOK_MAX_RETRIES
               THEN Task("posting", delivery[v].attempt + 1)
               ELSE Task("given_up", delivery[v].attempt))

\* The request does not get through.
PostRefused(v) ==
    /\ "refused" \in PipelineFaults
    /\ delivery[v].stage = "posting"
    /\ Retry(v)
    /\ UNCHANGED <<vars, handlers, outbox, lost, webhookCrashes>>

\* The sender stops waiting, because of its timeout or because the webhook died.
TimedOut(v) ==
    /\ delivery[v].stage = "waiting"
    /\ "timeout" \in PipelineFaults \/ <<v, delivery[v].attempt>> \notin handlers
    /\ Retry(v)
    /\ UNCHANGED <<vars, handlers, outbox, lost, webhookCrashes>>

\* The handler answers 202 when send() returns, which is when the producer has
\* the record in memory.  Somebody may or may not be waiting for the answer.
Accept(h, p) ==
    /\ outbox' = [outbox EXCEPT ![p] = Append(@, h[1])]
    /\ IF Waiting(h) THEN SetTask(h[1], Task("delivered", h[2])) ELSE UNCHANGED delivery

\* Mutant of receive_decision: the payload goes to Kafka unvalidated.
receive_unvalidated(h, p) ==
    /\ h \in handlers
    /\ handlers' = handlers \ {h}
    /\ Accept(h, p)
    /\ UNCHANGED <<vars, lost, webhookCrashes>>

\* POST /webhook/decision, valid as far as the model class looks: the partition is
\* the producer's choice, there is no key.
receive_decision(h, p) ==
    /\ h \in handlers
    /\ h[1] \notin Invalid
    /\ handlers' = handlers \ {h}
    /\ Accept(h, p)
    /\ UNCHANGED <<vars, lost, webhookCrashes>>

\* Mutant of Reject: a failing send() is logged and answered by 202.
RejectSwallowed(h) ==
    /\ h \in handlers
    /\ h[1] \in Invalid \/ "refused" \in PipelineFaults
    /\ handlers' = handlers \ {h}
    /\ IF Waiting(h) THEN SetTask(h[1], Task("delivered", h[2])) ELSE UNCHANGED delivery
    /\ UNCHANGED <<vars, outbox, lost, webhookCrashes>>

\* 401, 422 or 503: nothing was sent, the sender counts a failed attempt.
Reject(h) ==
    /\ h \in handlers
    /\ h[1] \in Invalid \/ "refused" \in PipelineFaults
    /\ handlers' = handlers \ {h}
    /\ IF Waiting(h) THEN Retry(h[1]) ELSE UNCHANGED delivery
    /\ UNCHANGED <<vars, outbox, lost, webhookCrashes>>

\* The producer is idempotent: the records of a partition are written in order
\* and once each.
Flush(p) ==
    /\ outbox[p] # << >>
    /\ DecisionArrives(p, Head(outbox[p]))
    /\ outbox' = [outbox EXCEPT ![p] = Tail(@)]
    /\ UNCHANGED <<delivery, handlers, lost, webhookCrashes>>

\* Its retries are used up: the errback logs it and the record is gone.
FlushFails(p) ==
    /\ "terminal" \in PipelineFaults
    /\ outbox[p] # << >>
    /\ outbox' = [outbox EXCEPT ![p] = Tail(@)]
    /\ lost' = lost \cup {Head(outbox[p])}
    /\ UNCHANGED <<vars, delivery, handlers, webhookCrashes>>

\* The process dies or is stopped, and is restarted: requests and buffer die with
\* it, as nothing flushes the producer on the way out.
WebhookCrash ==
    /\ "crash" \in PipelineFaults
    /\ webhookCrashes < MaxWebhookCrashes
    /\ webhookCrashes' = webhookCrashes + 1
    /\ handlers' = {}
    /\ outbox' = [p \in Partitions |-> << >>]
    /\ lost' = lost \cup Buffered
    /\ UNCHANGED <<vars, delivery>>

ConsumerStep == OwnStep /\ UNCHANGED pipelineVars

-------------------------------------------------------------------------------
PipelineNext ==
    \/ ConsumerStep
    \/ \E v \in Values : Decide(v) \/ Post(v) \/ PostRefused(v) \/ TimedOut(v)
    \/ \E h \in handlers :
        \/ Reject(h)
        \/ \E p \in Partitions : receive_decision(h, p)
    \/ \E p \in Partitions : Flush(p) \/ FlushFails(p)
    \/ WebhookCrash

PipelineSpec == PipelineInit /\ [][PipelineNext]_<<vars, pipelineVars>>

\* The sender's threads, the webhook's handlers and its producer run; that the
\* DAO decides, and any fault, is not promised.
PipelineFairSpec ==
    /\ PipelineSpec
    /\ Fairness
    /\ \A v \in Values :
        /\ WF_<<vars, pipelineVars>>(Post(v))
        /\ WF_<<vars, pipelineVars>>(TimedOut(v))
    /\ WF_<<vars, pipelineVars>>(\E h \in handlers :
            Reject(h) \/ \E p \in Partitions : receive_decision(h, p))
    /\ \A p \in Partitions : WF_<<vars, pipelineVars>>(Flush(p) \/ FlushFails(p))

-------------------------------------------------------------------------------
Stages == {"not_decided", "posting", "waiting", "delivered", "given_up"}

PipelineTypeOK ==
    /\ TypeOK
    /\ delivery \in [Values -> [stage : Stages, attempt : 0 .. WEBHOOK_MAX_RETRIES - 1]]
    /\ handlers \subseteq Values \X (0 .. WEBHOOK_MAX_RETRIES - 1)
    /\ outbox \in [Partitions -> Seq(Values)]
    /\ lost \subseteq Values
    /\ webhookCrashes \in Nat

\* What reaches the topic was decided by the DAO and passed the model class: the
\* webhook is the one point where an invalid payload is refused, and it is refused
\* for good.  That its PIDs parse is not looked at before the consumer does.
OnlyDecisionsPublished ==
    \A v \in Values : InOutbox(v) \/ OnTopic(v) =>
        v \notin Invalid /\ delivery[v] # NotDecided

\* A decision the DAO takes for delivered is on the topic, or about to be, or
\* died in the webhook's memory: retries, late answers and other decisions on
\* their way take nothing away.
DeliveredIsAccounted ==
    \A v \in Values : delivery[v].stage = "delivered" =>
        InOutbox(v) \/ OnTopic(v) \/ v \in lost

\* The record at offset o of p was in a batch that an unreadable decision ended,
\* and if that one lies in the same partition, it or one of the next in its batch.
FellWithUnreadable(p, o) ==
    /\ o \in dropped[p]
    /\ \E q \in Partitions : \E f \in dropped[q] :
        /\ f < LogEnd(q) /\ Record(q, f) \in Unreadable
        /\ q = p => o \in f .. f + BatchSize - 1

\* From the DAO to the graph, when no call of the consumer's fails: a committed
\* offset covers only decisions that were applied and confirmed, but for those
\* that fell in one batch with a decision the webhook took in and the consumer
\* could not read.  Invalid payloads, however often posted, cost nothing.
UnappliedIsTraced ==
    Faults \cap {"update", "publish", "commit"} = {} =>
        \A p \in Partitions \ Fresh : \A o \in 0 .. committed[p] - 1 :
            \/ o \in handled[p] /\ o \in applied[p]
            \/ FellWithUnreadable(p, o)

\* A delivered decision is in the end processed, dropped by a failed cycle,
\* skipped by a reset, or was lost in the webhook: nothing waits for ever.
DeliveredSettles ==
    \A v \in Values :
        (delivery[v].stage = "delivered") ~>
            \/ v \in lost
            \/ \E p \in Partitions : \E o \in handled[p] \cup dropped[p] \cup passed[p] :
                    o < LogEnd(p) /\ Record(p, o) = v
===============================================================================
