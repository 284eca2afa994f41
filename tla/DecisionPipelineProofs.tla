------------------------- MODULE DecisionPipelineProofs -------------------------
(***************************************************************************)
(* Proofs about DecisionPipeline: the composition implements the consumer  *)
(* as it was specified on its own, so everything proved of the consumer    *)
(* holds in it; and what the webhook adds, that invalid payloads never     *)
(* reach the topic, leaves the decisions whose identifiers do not parse as *)
(* the one thing by which a consumer whose calls succeed can lose a record.*)
(***************************************************************************)
EXTENDS DecisionPipeline, ValidationConsumerProofs

allVars == <<vars, pipelineVars>>

\* A step of the composition is a step of the consumer and its environment, or
\* none: a flush is the arrival of a decision.
LEMMA StepImplements == PipelineTypeOK /\ [PipelineNext]_allVars => [Next]_vars
<1> SUFFICES ASSUME PipelineTypeOK, [PipelineNext]_allVars PROVE [Next]_vars
  OBVIOUS
<1>1. CASE ConsumerStep
  BY <1>1 DEF ConsumerStep, Next
<1>2. ASSUME NEW p \in Partitions, Flush(p) PROVE Next
  <2>1. Head(outbox[p]) \in Values
    BY <1>2 DEF Flush, PipelineTypeOK
  <2> QED
    BY <1>2, <2>1 DEF Flush, Next
<1>3. ASSUME NEW v \in Values, Decide(v) \/ Post(v) \/ PostRefused(v) \/ TimedOut(v)
      PROVE  UNCHANGED vars
  BY <1>3 DEF Decide, Post, PostRefused, TimedOut
<1>4. ASSUME NEW h \in handlers, Reject(h) \/ \E p \in Partitions : receive_decision(h, p)
      PROVE  UNCHANGED vars
  BY <1>4 DEF Reject, receive_decision
<1>5. CASE (\E p \in Partitions : FlushFails(p)) \/ WebhookCrash \/ UNCHANGED allVars
  BY <1>5 DEF FlushFails, WebhookCrash, allVars
<1> QED
  BY <1>1, <1>2, <1>3, <1>4, <1>5 DEF PipelineNext

\* A request is in the webhook only for a decision the DAO has taken.
HandlersDecided == \A h \in handlers : delivery[h[1]] # NotDecided

\* The inductive invariant: the consumer's own, the types, and where each decision
\* is.
PInv ==
    /\ IInv
    /\ PipelineTypeOK
    /\ HandlersDecided
    /\ OnlyDecisionsPublished
    /\ DeliveredIsAccounted

\* An entry of the sender's table is replaced by another task, and only there.
LEMMA SetTaskTyped ==
    ASSUME PipelineTypeOK, NEW v \in Values,
           NEW t \in [stage : Stages, attempt : 0 .. WEBHOOK_MAX_RETRIES - 1], SetTask(v, t)
    PROVE  /\ delivery' \in [Values -> [stage : Stages, attempt : 0 .. WEBHOOK_MAX_RETRIES - 1]]
           /\ delivery'[v] = t
           /\ \A w \in Values \ {v} : delivery'[w] = delivery[w]
  BY DEF PipelineTypeOK, SetTask

\* A failed attempt leaves a task that is neither absent nor delivered.
LEMMA RetryTyped ==
    ASSUME PipelineTypeOK, NEW v \in Values, Retry(v)
    PROVE  /\ delivery' \in [Values -> [stage : Stages, attempt : 0 .. WEBHOOK_MAX_RETRIES - 1]]
           /\ delivery'[v].stage \in {"posting", "given_up"}
           /\ \A w \in Values \ {v} : delivery'[w] = delivery[w]
<1>1. delivery[v].attempt \in 0 .. WEBHOOK_MAX_RETRIES - 1 /\ WEBHOOK_MAX_RETRIES \in Nat
  BY DecisionPipelineAssumption DEF PipelineTypeOK
<1>2. PICK t \in [stage : Stages, attempt : 0 .. WEBHOOK_MAX_RETRIES - 1] :
        SetTask(v, t) /\ t.stage \in {"posting", "given_up"}
  <2>1. CASE delivery[v].attempt + 1 < WEBHOOK_MAX_RETRIES
    BY <1>1, <2>1 DEF Retry, Task, Stages
  <2>2. CASE ~(delivery[v].attempt + 1 < WEBHOOK_MAX_RETRIES)
    BY <1>1, <2>2 DEF Retry, Task, Stages
  <2> QED
    BY <2>1, <2>2
<1> QED
  BY <1>2, SetTaskTyped

\* The invariant holds before anything has been decided.
LEMMA InitPInv == PipelineInit => PInv
<1> SUFFICES ASSUME PipelineInit PROVE PInv
  OBVIOUS
<1>1. IInv
  BY InitIInv DEF PipelineInit
<1>2. PipelineTypeOK
  BY <1>1, DecisionPipelineAssumption DEF IInv, PipelineInit, PipelineTypeOK, NotDecided, Stages
<1>3. \A v \in Values : ~InOutbox(v) /\ ~OnTopic(v) /\ delivery[v].stage # "delivered"
  BY DEF PipelineInit, Init, GroupInit, InOutbox, OnTopic, NotDecided
<1> QED
  BY <1>1, <1>2, <1>3
     DEF PInv, HandlersDecided, OnlyDecisionsPublished, DeliveredIsAccounted, PipelineInit

\* Steps in which no record moves: they can disturb the invariant only by what
\* they make of the sender's tasks and of the requests.
LEMMA NoRecordMoves ==
    ASSUME PInv, IInv', UNCHANGED <<log, outbox, lost>>, webhookCrashes' \in Nat,
           handlers' \subseteq Values \X (0 .. WEBHOOK_MAX_RETRIES - 1),
           delivery' \in [Values -> [stage : Stages, attempt : 0 .. WEBHOOK_MAX_RETRIES - 1]],
           \A w \in Values : delivery[w] # NotDecided => delivery'[w] # NotDecided,
           \A w \in Values : delivery'[w].stage = "delivered" => delivery[w].stage = "delivered",
           \A h \in handlers' : delivery'[h[1]] # NotDecided
    PROVE  PInv'
<1>1. \A v \in Values : (InOutbox(v)' <=> InOutbox(v)) /\ (OnTopic(v)' <=> OnTopic(v))
  BY DEF InOutbox, OnTopic
<1>2. PipelineTypeOK'
  BY DEF PInv, IInv, PipelineTypeOK
<1>3. OnlyDecisionsPublished'
  BY <1>1 DEF PInv, OnlyDecisionsPublished
<1>4. DeliveredIsAccounted'
  BY <1>1 DEF PInv, DeliveredIsAccounted
<1> QED
  BY <1>2, <1>3, <1>4 DEF PInv, HandlersDecided

\* A record that is appended to a partition's outbox is in the outbox, with those
\* that were.
LEMMA OutboxAppended ==
    ASSUME outbox \in [Partitions -> Seq(Values)], NEW p \in Partitions, NEW v \in Values,
           outbox' = [outbox EXCEPT ![p] = Append(@, v)]
    PROVE  /\ outbox' \in [Partitions -> Seq(Values)]
           /\ \A w \in Values : InOutbox(w)' <=> (InOutbox(w) \/ w = v)
<1>1. /\ outbox' \in [Partitions -> Seq(Values)]
      /\ outbox'[p] = Append(outbox[p], v)
      /\ \A q \in Partitions \ {p} : outbox'[q] = outbox[q]
  OBVIOUS
<1>2. /\ Len(outbox[p]) \in Nat
      /\ DOMAIN outbox[p] = 1 .. Len(outbox[p])
      /\ DOMAIN outbox'[p] = 1 .. Len(outbox[p]) + 1
      /\ outbox'[p][Len(outbox[p]) + 1] = v
      /\ \A i \in DOMAIN outbox[p] : outbox'[p][i] = outbox[p][i]
  BY <1>1
<1>3. ASSUME NEW w \in Values, InOutbox(w) \/ w = v PROVE InOutbox(w)'
  <2>1. CASE w = v
    <3>1. Len(outbox[p]) + 1 \in DOMAIN outbox'[p] /\ outbox'[p][Len(outbox[p]) + 1] = w
      BY <1>2, <2>1
    <3> QED
      BY <3>1 DEF InOutbox
  <2>2. ASSUME NEW q \in Partitions, NEW i \in DOMAIN outbox[q], outbox[q][i] = w
        PROVE  i \in DOMAIN outbox'[q] /\ outbox'[q][i] = w
    BY <1>1, <1>2, <2>2
  <2> QED
    BY <1>3, <2>1, <2>2 DEF InOutbox
<1>4. ASSUME NEW w \in Values, InOutbox(w)' PROVE InOutbox(w) \/ w = v
  <2>0. PICK q \in Partitions : \E i \in DOMAIN outbox'[q] : outbox'[q][i] = w
    BY <1>4 DEF InOutbox
  <2>1. PICK i \in DOMAIN outbox'[q] : outbox'[q][i] = w
    BY <2>0
  <2>2. CASE q = p /\ i = Len(outbox[p]) + 1
    BY <1>2, <2>1, <2>2
  <2>3. CASE q = p /\ i # Len(outbox[p]) + 1
    BY <1>2, <2>1, <2>3 DEF InOutbox
  <2>4. CASE q # p
    BY <1>1, <2>1, <2>4 DEF InOutbox
  <2> QED
    BY <2>2, <2>3, <2>4
<1> QED
  BY <1>1, <1>3, <1>4

\* Taking the first record off a partition's outbox removes at most that one.
LEMMA OutboxTaken ==
    ASSUME outbox \in [Partitions -> Seq(Values)], NEW p \in Partitions, outbox[p] # << >>,
           outbox' = [outbox EXCEPT ![p] = Tail(@)]
    PROVE  /\ outbox' \in [Partitions -> Seq(Values)]
           /\ Head(outbox[p]) \in Values /\ InOutbox(Head(outbox[p]))
           /\ \A w \in Values : InOutbox(w)' => InOutbox(w)
           /\ \A w \in Values : InOutbox(w) => InOutbox(w)' \/ w = Head(outbox[p])
<1>1. /\ outbox' \in [Partitions -> Seq(Values)]
      /\ outbox'[p] = Tail(outbox[p])
      /\ \A q \in Partitions \ {p} : outbox'[q] = outbox[q]
  OBVIOUS
<1>2. /\ Len(outbox[p]) \in Nat \ {0}
      /\ DOMAIN outbox[p] = 1 .. Len(outbox[p])
      /\ DOMAIN outbox'[p] = 1 .. Len(outbox[p]) - 1
      /\ Head(outbox[p]) = outbox[p][1] /\ outbox[p][1] \in Values
      /\ \A i \in DOMAIN outbox'[p] : outbox'[p][i] = outbox[p][i + 1]
  BY <1>1
<1>3. InOutbox(Head(outbox[p]))
  BY <1>2 DEF InOutbox
<1>4. ASSUME NEW w \in Values, InOutbox(w)' PROVE InOutbox(w)
  <2>0. PICK q \in Partitions : \E i \in DOMAIN outbox'[q] : outbox'[q][i] = w
    BY <1>4 DEF InOutbox
  <2>1. PICK i \in DOMAIN outbox'[q] : outbox'[q][i] = w
    BY <2>0
  <2>2. CASE q = p
    <3>1. i + 1 \in DOMAIN outbox[p] /\ outbox[p][i + 1] = w
      BY <1>2, <2>1, <2>2
    <3> QED
      BY <3>1 DEF InOutbox
  <2>3. CASE q # p
    BY <1>1, <2>1, <2>3 DEF InOutbox
  <2> QED
    BY <2>2, <2>3
<1>5. ASSUME NEW w \in Values, InOutbox(w), w # Head(outbox[p]) PROVE InOutbox(w)'
  <2>0. PICK q \in Partitions : \E i \in DOMAIN outbox[q] : outbox[q][i] = w
    BY <1>5 DEF InOutbox
  <2>1. PICK i \in DOMAIN outbox[q] : outbox[q][i] = w
    BY <2>0
  <2>2. CASE q = p
    <3>1. i - 1 \in DOMAIN outbox'[p] /\ outbox'[p][i - 1] = w
      BY <1>2, <1>5, <2>1, <2>2
    <3> QED
      BY <3>1 DEF InOutbox
  <2>3. CASE q # p
    BY <1>1, <2>1, <2>3 DEF InOutbox
  <2> QED
    BY <2>2, <2>3
<1> QED
  BY <1>1, <1>2, <1>3, <1>4, <1>5

\* Steps of the sender and of the webhook's handlers that send nothing.
LEMMA SenderSteps ==
    ASSUME PInv, IInv', NEW v \in Values, Decide(v) \/ Post(v) \/ PostRefused(v) \/ TimedOut(v)
    PROVE  PInv'
<1>0. PipelineTypeOK /\ HandlersDecided /\ delivery[v].attempt \in 0 .. WEBHOOK_MAX_RETRIES - 1
  BY DEF PInv, PipelineTypeOK
<1>1. \A h \in handlers : h[1] \in Values
  BY <1>0 DEF PipelineTypeOK
<1>2. CASE Decide(v)
  <2>1. Task("posting", 0) \in [stage : Stages, attempt : 0 .. WEBHOOK_MAX_RETRIES - 1]
    BY DecisionPipelineAssumption DEF Task, Stages
  <2>2. UNCHANGED <<log, outbox, lost, handlers, webhookCrashes>> /\ SetTask(v, Task("posting", 0))
    BY <1>2 DEF Decide, vars, groupVars
  <2>3. /\ delivery' \in [Values -> [stage : Stages, attempt : 0 .. WEBHOOK_MAX_RETRIES - 1]]
        /\ delivery'[v] = Task("posting", 0)
        /\ \A w \in Values \ {v} : delivery'[w] = delivery[w]
    BY <1>0, <2>1, <2>2, SetTaskTyped
  <2>4. delivery'[v] # NotDecided /\ delivery'[v].stage # "delivered"
    BY <2>3 DEF Task, NotDecided
  <2> QED
    BY <1>0, <1>1, <2>2, <2>3, <2>4, NoRecordMoves DEF PipelineTypeOK, HandlersDecided
<1>3. CASE Post(v)
  <2>1. Task("waiting", delivery[v].attempt)
            \in [stage : Stages, attempt : 0 .. WEBHOOK_MAX_RETRIES - 1]
    BY <1>0 DEF Task, Stages
  <2>2. /\ UNCHANGED <<log, outbox, lost, webhookCrashes>>
        /\ SetTask(v, Task("waiting", delivery[v].attempt))
        /\ handlers' = handlers \cup {<<v, delivery[v].attempt>>}
    BY <1>3 DEF Post, vars, groupVars
  <2>3. /\ delivery' \in [Values -> [stage : Stages, attempt : 0 .. WEBHOOK_MAX_RETRIES - 1]]
        /\ delivery'[v] = Task("waiting", delivery[v].attempt)
        /\ \A w \in Values \ {v} : delivery'[w] = delivery[w]
    BY <1>0, <2>1, <2>2, SetTaskTyped
  <2>4. delivery'[v] # NotDecided /\ delivery'[v].stage # "delivered"
    BY <2>3 DEF Task, NotDecided
  <2> QED
    BY <1>0, <1>1, <2>2, <2>3, <2>4, NoRecordMoves DEF PipelineTypeOK, HandlersDecided
<1>4. CASE PostRefused(v) \/ TimedOut(v)
  <2>1. UNCHANGED <<log, outbox, lost, handlers, webhookCrashes>> /\ Retry(v)
    BY <1>4 DEF PostRefused, TimedOut, vars, groupVars
  <2>2. /\ delivery' \in [Values -> [stage : Stages, attempt : 0 .. WEBHOOK_MAX_RETRIES - 1]]
        /\ delivery'[v].stage \in {"posting", "given_up"}
        /\ \A w \in Values \ {v} : delivery'[w] = delivery[w]
    BY <1>0, <2>1, RetryTyped
  <2>3. delivery'[v] # NotDecided /\ delivery'[v].stage # "delivered"
    BY <2>2 DEF NotDecided
  <2> QED
    BY <1>0, <1>1, <2>1, <2>2, <2>3, NoRecordMoves DEF PipelineTypeOK, HandlersDecided
<1> QED
  BY <1>2, <1>3, <1>4

\* A refused request: the sender, if it still waits, counts a failed attempt.
LEMMA RejectStep ==
    ASSUME PInv, IInv', NEW h \in handlers, Reject(h) PROVE PInv'
<1>0. PipelineTypeOK /\ HandlersDecided /\ h[1] \in Values /\ \A g \in handlers : g[1] \in Values
  BY DEF PInv, PipelineTypeOK
<1>1. UNCHANGED <<log, outbox, lost, webhookCrashes>> /\ handlers' = handlers \ {h}
  BY DEF Reject, vars, groupVars
<1>2. Retry(h[1]) \/ UNCHANGED delivery
  BY DEF Reject
<1>3. CASE Retry(h[1])
  <2>1. /\ delivery' \in [Values -> [stage : Stages, attempt : 0 .. WEBHOOK_MAX_RETRIES - 1]]
        /\ delivery'[h[1]].stage \in {"posting", "given_up"}
        /\ \A w \in Values \ {h[1]} : delivery'[w] = delivery[w]
    BY <1>0, <1>3, RetryTyped
  <2>2. delivery'[h[1]] # NotDecided /\ delivery'[h[1]].stage # "delivered"
    BY <2>1 DEF NotDecided
  <2> QED
    BY <1>0, <1>1, <2>1, <2>2, NoRecordMoves DEF PipelineTypeOK, HandlersDecided
<1>4. CASE UNCHANGED delivery
  BY <1>0, <1>1, <1>4, NoRecordMoves DEF PipelineTypeOK, HandlersDecided
<1> QED
  BY <1>2, <1>3, <1>4

\* An accepted request: its decision passes the model class, was taken, and is now in the outbox,
\* which is what the sender is told.
LEMMA AcceptStep ==
    ASSUME PInv, IInv', NEW h \in handlers, NEW p \in Partitions, receive_decision(h, p)
    PROVE  PInv'
<1>0. /\ PipelineTypeOK /\ HandlersDecided /\ OnlyDecisionsPublished /\ DeliveredIsAccounted
      /\ h[1] \in Values /\ h[2] \in 0 .. WEBHOOK_MAX_RETRIES - 1
      /\ outbox \in [Partitions -> Seq(Values)]
      /\ \A g \in handlers : g[1] \in Values
  BY DEF PInv, PipelineTypeOK
<1>1. /\ UNCHANGED <<log, lost, webhookCrashes>> /\ handlers' = handlers \ {h}
      /\ h[1] \notin Invalid /\ delivery[h[1]] # NotDecided
      /\ outbox' = [outbox EXCEPT ![p] = Append(@, h[1])]
  BY <1>0 DEF receive_decision, Accept, HandlersDecided, vars, groupVars
<1>2. /\ outbox' \in [Partitions -> Seq(Values)]
      /\ \A w \in Values : InOutbox(w)' <=> (InOutbox(w) \/ w = h[1])
  BY <1>0, <1>1, OutboxAppended
<1>3. \A w \in Values : OnTopic(w)' <=> OnTopic(w)
  BY <1>1 DEF OnTopic
<1>4. /\ delivery' \in [Values -> [stage : Stages, attempt : 0 .. WEBHOOK_MAX_RETRIES - 1]]
      /\ \A w \in Values \ {h[1]} : delivery'[w] = delivery[w]
      /\ delivery'[h[1]] # NotDecided
  <2>1. CASE SetTask(h[1], Task("delivered", h[2]))
    <3>1. Task("delivered", h[2]) \in [stage : Stages, attempt : 0 .. WEBHOOK_MAX_RETRIES - 1]
      BY <1>0 DEF Task, Stages
    <3>2. Task("delivered", h[2]) # NotDecided
      BY DEF Task, NotDecided
    <3> QED
      BY <1>0, <2>1, <3>1, <3>2, SetTaskTyped
  <2>2. CASE UNCHANGED delivery
    BY <1>0, <1>1, <2>2 DEF PipelineTypeOK
  <2> QED
    BY <2>1, <2>2 DEF receive_decision, Accept
<1>5. PipelineTypeOK'
  BY <1>0, <1>1, <1>2, <1>4 DEF PipelineTypeOK, IInv
<1>6. OnlyDecisionsPublished'
  BY <1>0, <1>1, <1>2, <1>3, <1>4 DEF OnlyDecisionsPublished
<1>7. DeliveredIsAccounted'
  BY <1>0, <1>1, <1>2, <1>3, <1>4 DEF DeliveredIsAccounted
<1>8. HandlersDecided'
  BY <1>0, <1>1, <1>4 DEF HandlersDecided
<1> QED
  BY <1>5, <1>6, <1>7, <1>8 DEF PInv

\* A record written to the topic is on the topic, with those that were.
LEMMA LogAppended ==
    ASSUME log \in [Partitions -> Seq(Values)], NEW p \in Partitions, NEW v \in Values,
           Produce(p, v)
    PROVE  \A w \in Values : OnTopic(w)' <=> (OnTopic(w) \/ w = v)
<1>1. /\ log'[p] = Append(log[p], v)
      /\ \A q \in Partitions \ {p} : log'[q] = log[q]
  BY DEF Produce
<1>2. /\ Len(log[p]) \in Nat
      /\ DOMAIN log[p] = 1 .. Len(log[p])
      /\ DOMAIN log'[p] = 1 .. Len(log[p]) + 1
      /\ log'[p][Len(log[p]) + 1] = v
      /\ \A i \in DOMAIN log[p] : log'[p][i] = log[p][i]
  BY <1>1
<1>3. ASSUME NEW w \in Values, OnTopic(w) \/ w = v PROVE OnTopic(w)'
  <2>1. CASE w = v
    <3>1. Len(log[p]) + 1 \in DOMAIN log'[p] /\ log'[p][Len(log[p]) + 1] = w
      BY <1>2, <2>1
    <3> QED
      BY <3>1 DEF OnTopic
  <2>2. ASSUME NEW q \in Partitions, NEW i \in DOMAIN log[q], log[q][i] = w
        PROVE  i \in DOMAIN log'[q] /\ log'[q][i] = w
    BY <1>1, <1>2, <2>2
  <2> QED
    BY <1>3, <2>1, <2>2 DEF OnTopic
<1>4. ASSUME NEW w \in Values, OnTopic(w)' PROVE OnTopic(w) \/ w = v
  <2>0. PICK q \in Partitions : \E i \in DOMAIN log'[q] : log'[q][i] = w
    BY <1>4 DEF OnTopic
  <2>1. PICK i \in DOMAIN log'[q] : log'[q][i] = w
    BY <2>0
  <2>2. CASE q = p /\ i = Len(log[p]) + 1
    BY <1>2, <2>1, <2>2
  <2>3. CASE q = p /\ i # Len(log[p]) + 1
    BY <1>2, <2>1, <2>3 DEF OnTopic
  <2>4. CASE q # p
    BY <1>1, <2>1, <2>4 DEF OnTopic
  <2> QED
    BY <2>2, <2>3, <2>4
<1> QED
  BY <1>3, <1>4

\* The producer's thread: the head of an outbox goes to the topic, or nowhere.
LEMMA ProducerSteps ==
    ASSUME PInv, IInv', NEW p \in Partitions, Flush(p) \/ FlushFails(p) PROVE PInv'
<1>0. /\ PipelineTypeOK /\ HandlersDecided /\ OnlyDecisionsPublished /\ DeliveredIsAccounted
      /\ outbox \in [Partitions -> Seq(Values)] /\ log \in [Partitions -> Seq(Values)]
      /\ lost \subseteq Values
  BY DEF PInv, PipelineTypeOK, TypeOK, GroupTypeOK
<1>1. /\ outbox[p] # << >> /\ outbox' = [outbox EXCEPT ![p] = Tail(@)]
      /\ UNCHANGED <<delivery, handlers, webhookCrashes>>
  BY DEF Flush, FlushFails
<1> DEFINE first == Head(outbox[p])
<1>2. /\ outbox' \in [Partitions -> Seq(Values)]
      /\ first \in Values /\ InOutbox(first)
      /\ \A w \in Values : InOutbox(w)' => InOutbox(w)
      /\ \A w \in Values : InOutbox(w) => InOutbox(w)' \/ w = first
  BY <1>0, <1>1, OutboxTaken
<1> HIDE DEF first
<1>3. CASE Flush(p)
  <2>1. lost' = lost /\ \A w \in Values : OnTopic(w)' <=> (OnTopic(w) \/ w = first)
    BY <1>0, <1>2, <1>3, LogAppended DEF Flush, DecisionArrives, first
  <2>2. PipelineTypeOK'
    BY <1>0, <1>1, <1>2, <2>1 DEF PipelineTypeOK, IInv
  <2>3. OnlyDecisionsPublished'
    BY <1>0, <1>1, <1>2, <2>1 DEF OnlyDecisionsPublished
  <2>4. DeliveredIsAccounted'
    BY <1>0, <1>1, <1>2, <2>1 DEF DeliveredIsAccounted
  <2> QED
    BY <1>0, <1>1, <2>2, <2>3, <2>4 DEF PInv, HandlersDecided
<1>4. CASE FlushFails(p)
  <2>1. lost' = lost \cup {first} /\ \A w \in Values : OnTopic(w)' <=> OnTopic(w)
    BY <1>4 DEF FlushFails, OnTopic, vars, groupVars, first
  <2>2. PipelineTypeOK'
    BY <1>0, <1>1, <1>2, <2>1 DEF PipelineTypeOK, IInv
  <2>3. OnlyDecisionsPublished'
    BY <1>0, <1>1, <1>2, <2>1 DEF OnlyDecisionsPublished
  <2>4. DeliveredIsAccounted'
    BY <1>0, <1>1, <1>2, <2>1 DEF DeliveredIsAccounted
  <2> QED
    BY <1>0, <1>1, <2>2, <2>3, <2>4 DEF PInv, HandlersDecided
<1> QED
  BY <1>3, <1>4

\* A death of the webhook: what was in its outbox counts as lost.
LEMMA CrashStep ==
    ASSUME PInv, IInv', WebhookCrash PROVE PInv'
<1>0. /\ PipelineTypeOK /\ OnlyDecisionsPublished /\ DeliveredIsAccounted
      /\ lost \subseteq Values /\ webhookCrashes \in Nat
  BY DEF PInv, PipelineTypeOK
<1>1. /\ handlers' = {} /\ outbox' = [q \in Partitions |-> << >>]
      /\ lost' = lost \cup Buffered /\ UNCHANGED <<delivery, log>>
      /\ webhookCrashes' \in Nat
  BY <1>0 DEF WebhookCrash, vars, groupVars
<1>2. \A w \in Values : ~InOutbox(w)' /\ (OnTopic(w)' <=> OnTopic(w))
  BY <1>1 DEF InOutbox, OnTopic
<1>3. \A w \in Values : InOutbox(w) => w \in lost'
  BY <1>1 DEF Buffered
<1>4. lost' \subseteq Values /\ outbox' \in [Partitions -> Seq(Values)]
  BY <1>0, <1>1 DEF Buffered
<1>5. PipelineTypeOK'
  BY <1>0, <1>1, <1>4 DEF PipelineTypeOK, IInv
<1>6. OnlyDecisionsPublished'
  BY <1>0, <1>1, <1>2 DEF OnlyDecisionsPublished
<1>7. DeliveredIsAccounted'
  BY <1>0, <1>1, <1>2, <1>3 DEF DeliveredIsAccounted
<1> QED
  BY <1>1, <1>5, <1>6, <1>7 DEF PInv, HandlersDecided

\* Every step keeps the invariant.
LEMMA NextPInv == PInv /\ [PipelineNext]_allVars => PInv'
<1> SUFFICES ASSUME PInv, [PipelineNext]_allVars PROVE PInv'
  OBVIOUS
<1>1. IInv'
  BY StepImplements, NextIInv DEF PInv
<1>2. CASE ConsumerStep
  <2>1. UNCHANGED log
    BY <1>2 DEF ConsumerStep, OwnStep, groupVars, historyVars, Start, Assign, Join, PollBatch,
           Poll, HandleStep, ApplyUpdate, HandleFails, PublishStep, Publish, PublishFails,
           CommitStep, Commit, CommitOffsets, CommitFails, Abandon, DeliverStep, Deliver,
           DeliverFails, StopRequested, Close, Crash, Rebalance, Leave
  <2>2. UNCHANGED pipelineVars
    BY <1>2 DEF ConsumerStep
  <2> QED
    BY <1>1, <2>1, <2>2, NoRecordMoves DEF PInv, PipelineTypeOK, HandlersDecided, pipelineVars
<1>3. CASE UNCHANGED allVars
  BY <1>1, <1>3, NoRecordMoves
     DEF PInv, PipelineTypeOK, HandlersDecided, allVars, vars, groupVars, pipelineVars
<1> QED
  BY <1>1, <1>2, <1>3, SenderSteps, RejectStep, AcceptStep, ProducerSteps, CrashStep
     DEF PipelineNext

LEMMA PipelineInvariance == PipelineSpec => []PInv
<1> QED
  BY InitPInv, NextPInv, PTL DEF PipelineSpec, allVars

\* The composition implements the consumer's specification: every behaviour of
\* DAO, webhook, producer and consumer together is one of the consumer fed by an
\* arbitrary producer, so no assumption made there about arrivals was too narrow.
THEOREM PipelineImplements == PipelineSpec => Spec
<1>1. PipelineInit => Init
  BY DEF PipelineInit
<1>2. PInv /\ [PipelineNext]_<<vars, pipelineVars>> => [Next]_vars
  BY StepImplements DEF PInv, allVars
<1> QED
  BY <1>1, <1>2, PipelineInvariance, PTL DEF PipelineSpec, Spec

\* Type correctness of the composition.
THEOREM PipelineTypeCorrect == PipelineSpec => []PipelineTypeOK
<1>1. PInv => PipelineTypeOK
  BY DEF PInv
<1> QED
  BY <1>1, PipelineInvariance, PTL

\* The webhook's validation is the gate: whatever is posted, however often and
\* however late, what the model class rejects reaches neither the producer nor the
\* topic, and nothing does that the DAO has not taken (webhook.py:64-73).
THEOREM PublishedCorrect == PipelineSpec => []OnlyDecisionsPublished
<1>1. PInv => OnlyDecisionsPublished
  BY DEF PInv
<1> QED
  BY <1>1, PipelineInvariance, PTL

\* A decision the DAO was told is delivered is on the topic, in the producer, or
\* died with it.
THEOREM DeliveredCorrect == PipelineSpec => []DeliveredIsAccounted
<1>1. PInv => DeliveredIsAccounted
  BY DEF PInv
<1> QED
  BY <1>1, PipelineInvariance, PTL

\* A malformed record that fell is one the webhook let through: its identifiers do
\* not parse.
LEMMA FellUnreadable ==
    ASSUME PInv, NEW p \in Partitions, NEW o \in dropped[p], FellWithMalformed(p, o)
    PROVE  FellWithUnreadable(p, o)
<1>1. PICK q \in Partitions : \E f \in dropped[q] :
        /\ f < LogEnd(q) /\ Record(q, f) \in Malformed
        /\ q = p => o \in f .. f + BatchSize - 1
  BY DEF FellWithMalformed
<1>2. PICK f \in dropped[q] :
        /\ f < LogEnd(q) /\ Record(q, f) \in Malformed
        /\ q = p => o \in f .. f + BatchSize - 1
  BY <1>1
<1>3. f + 1 \in DOMAIN log[q] /\ log[q][f + 1] \in Values
  <2>1. log[q] \in Seq(Values) /\ f \in Nat
    BY DEF PInv, IInv, TypeOK, GroupTypeOK
  <2> QED
    BY <1>2, <2>1 DEF LogEnd
<1>4. Record(q, f) \notin Invalid
  BY <1>3 DEF PInv, OnlyDecisionsPublished, OnTopic, Record
<1> QED
  BY <1>2, <1>4 DEF FellWithUnreadable, Unreadable

\* End to end: when no call of the consumer's fails, a committed offset of a
\* partition the group had an offset for covers a decision the graph holds and that
\* was confirmed, or one that fell in one batch with a decision whose identifiers do
\* not parse (webhook.py:64-73, sparql_updater.py:38-39, main.py:86-103).
THEOREM PipelineTraced == PipelineSpec => []UnappliedIsTraced
<1>1. PInv /\ CommittedAccounted /\ AppliedBeforePublish /\ DropsTraced => UnappliedIsTraced
  <2> SUFFICES ASSUME PInv, CommittedAccounted, AppliedBeforePublish, DropsTraced,
                      Faults \cap {"update", "publish", "commit"} = {},
                      NEW p \in Partitions \ Fresh, NEW o \in 0 .. committed[p] - 1
               PROVE  (o \in handled[p] /\ o \in applied[p]) \/ FellWithUnreadable(p, o)
    BY DEF UnappliedIsTraced
  <2>1. o \in handled[p] \cup dropped[p]
    BY DEF CommittedAccounted, PInv, IInv, LossesExplained
  <2>2. CASE o \in handled[p]
    BY <2>2 DEF AppliedBeforePublish
  <2>3. CASE o \in dropped[p]
    BY <2>3, FellUnreadable DEF DropsTraced
  <2> QED
    BY <2>1, <2>2, <2>3
<1> QED
  BY <1>1, PipelineInvariance, PipelineImplements, AccountingCorrect, AppliedInvariance,
     DropsCorrect, PTL

\* What kafka_io.py promises, for the pipeline as a whole.
CommittedIsApplied ==
    \A p \in Partitions \ Fresh : \A o \in 0 .. committed[p] - 1 :
        o \in handled[p] /\ o \in applied[p]

\* For a DAO whose identifiers parse, as those do that main.py:339-343 makes up, the
\* webhook refuses all the consumer could fail on: invalid payloads may be posted
\* without end, and nothing is committed that the graph does not hold, unless a call
\* of the consumer's fails.
THEOREM PipelineAtLeastOnce ==
    ASSUME Unreadable = {}, Faults \cap {"update", "publish", "commit"} = {}
    PROVE  PipelineSpec => []CommittedIsApplied
<1>1. UnappliedIsTraced => CommittedIsApplied
  BY DEF UnappliedIsTraced, CommittedIsApplied, FellWithUnreadable
<1> QED
  BY <1>1, PipelineTraced, PTL

\* And it keeps the ledger of offsets, whatever is posted, lost or sent twice.
THEOREM PipelineLedger == PipelineSpec => LedgerImplemented
  BY PipelineImplements, LedgerCorrect, PTL
===============================================================================
