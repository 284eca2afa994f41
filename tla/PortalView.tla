------------------------------- MODULE PortalView -------------------------------
(***************************************************************************)
(* mock_fen_api's event bus and the pages that listen to it (the portal    *)
(* and the triadic view).  A handler changes the registry under            *)
(* _state_lock and broadcasts an event afterwards; each /events stream has *)
(* a bounded queue of its own and is evicted when it is full; a page       *)
(* answers every event by fetching the whole registry again.               *)
(*                                                                         *)
(* The registry is two counters: how often the candidates have changed and *)
(* how often reputation has.  A decision changes one, then the other.      *)
(***************************************************************************)
EXTENDS LiveUpdates

CONSTANTS
    MaxQueue,       \* maxsize of a subscriber's queue, 100 in the code
    MaxChanges,     \* bound: changes of the candidates, ...
    MaxDecisions,   \* bound: ... those among them that are deliveries
    MaxConnections, \* bound: requests of /events
    MaxUpsets       \* bound: failures, stops of the live updates, refreshes

ASSUME PortalViewAssumption ==
    /\ MaxQueue \in Nat \ {0}
    /\ MaxChanges \in Nat /\ MaxDecisions \in 0 .. MaxChanges
    /\ MaxConnections \in Nat /\ MaxUpsets \in Nat

VARIABLES
    candidates,   \* _candidates
    reputation,   \* _reputation and _reputation_history
    rewarding,    \* deliveries between _set_status and _apply_reputation
    announcing,   \* handlers that have still to broadcast
    subscribers,  \* _event_subscribers
    queue,        \* the queue of each subscriber
    stream,       \* the generator of each request of /events
    connection,   \* the request behind the page's EventSource, 0 if none
    shown,        \* what the page has rendered
    cause,        \* history: how the last fetch to return had fared
    late,         \* history: the first so many fetches have a later one that is back
    started,      \* history: generators that ran
    upsets

registryVars == <<candidates, reputation, rewarding, announcing>>
busVars == <<subscribers, queue, stream, started>>
pageVars == <<shown, cause, late>>
vars == <<liveVars, registryVars, busVars, connection, pageVars, upsets>>

Connections == 1 .. MaxConnections
Event == "event"
Everything == "candidates"
Registry(c, r) == [candidates |-> c, reputation |-> r]
Reading(c) == [stage |-> "reading", candidates |-> c]

Upset ==
    /\ upsets < MaxUpsets
    /\ upsets' = upsets + 1

\* The page has just been loaded: it has sent its first fetch and started the
\* live updates.
Init ==
    /\ source = "connecting"
    /\ wire = << >>
    /\ ticker = FALSE
    /\ fetches = <<Sent(Everything)>>
    /\ candidates = 0 /\ reputation = 0
    /\ rewarding = 0 /\ announcing = 0
    /\ subscribers = {}
    /\ queue = [c \in Connections |-> << >>]
    /\ stream = [c \in Connections |-> "unused"]
    /\ connection = 0
    /\ shown = Registry(0, 0)
    /\ cause = "nothing" /\ late = 0
    /\ started = {}
    /\ upsets = 0

-------------------------------------------------------------------------------
\* POST /candidates, .../vote, .../delegate, a delivery that rewards nobody: a
\* change under the lock, announced after it.
Change ==
    /\ candidates < MaxChanges
    /\ candidates' = candidates + 1
    /\ announcing' = announcing + 1
    /\ UNCHANGED <<liveVars, reputation, rewarding, busVars, connection, pageVars, upsets>>

\* A delivery that rewards somebody: the decision is recorded, ...
_set_status ==
    /\ candidates < MaxChanges
    /\ reputation + rewarding < MaxDecisions
    /\ candidates' = candidates + 1
    /\ rewarding' = rewarding + 1
    /\ UNCHANGED <<liveVars, reputation, announcing, busVars, connection, pageVars, upsets>>

\* ... then rewarded, under another acquisition of the lock, and then announced.
_apply_reputation ==
    /\ rewarding > 0
    /\ rewarding' = rewarding - 1
    /\ reputation' = reputation + 1
    /\ announcing' = announcing + 1
    /\ UNCHANGED <<liveVars, candidates, busVars, connection, pageVars, upsets>>

\* Mutant of Enqueue: a queue without a maxsize.
EnqueueUnbounded ==
    /\ queue' = [c \in Connections |->
                    IF c \in subscribers THEN Append(queue[c], Event) ELSE queue[c]]
    /\ UNCHANGED subscribers

\* put_nowait into every queue; a subscriber whose queue is full leaves the set.
Enqueue ==
    LET full == {c \in subscribers : Len(queue[c]) = MaxQueue}
    IN  /\ queue' = [c \in Connections |->
                        IF c \in subscribers \ full THEN Append(queue[c], Event) ELSE queue[c]]
        /\ subscribers' = subscribers \ full

_broadcast ==
    /\ announcing > 0
    /\ announcing' = announcing - 1
    /\ Enqueue
    /\ UNCHANGED <<liveVars, candidates, reputation, rewarding, stream, started,
                   connection, pageVars, upsets>>

-------------------------------------------------------------------------------
_subscribe(c) == subscribers' = subscribers \cup {c}
_unsubscribe(c) == subscribers' = subscribers \ {c}

\* GET /events: the queue is registered before the generator exists.
events(c) ==
    /\ source = "connecting"
    /\ connection = 0
    /\ stream[c] = "unused"
    /\ \A d \in 1 .. c - 1 : stream[d] # "unused"
    /\ connection' = c
    /\ stream' = [stream EXCEPT ![c] = "subscribed"]
    /\ _subscribe(c)
    /\ UNCHANGED <<liveVars, registryVars, queue, started, pageVars, upsets>>

\* The generator runs for the first time ("ready").
StreamStarts(c) ==
    /\ stream[c] = "subscribed"
    /\ stream' = [stream EXCEPT ![c] = "streaming"]
    /\ started' = started \cup {c}
    /\ UNCHANGED <<liveVars, registryVars, subscribers, queue, connection, pageVars, upsets>>

\* The loop takes an event off the queue and yields it, as far as the browser
\* takes frames; a slow one holds the generator at the yield.
StreamYields ==
    /\ connection # 0
    /\ stream[connection] = "streaming"
    /\ queue[connection] # << >>
    /\ Yield(Head(queue[connection]))
    /\ queue' = [queue EXCEPT ![connection] = Tail(@)]
    /\ UNCHANGED <<ticker, fetches, registryVars, subscribers, stream, started, connection,
                   pageVars, upsets>>

\* Mutant of StreamEnds: no finally.
StreamEndsSubscribed(c) ==
    /\ c # connection
    /\ stream[c] \in {"subscribed", "streaming"}
    /\ stream' = [stream EXCEPT ![c] = "ended"]
    /\ UNCHANGED <<liveVars, registryVars, subscribers, queue, started, connection, pageVars, upsets>>

\* The server notices that the client has gone and cancels the response: the
\* finally of a generator that runs unsubscribes; one that never ran has none.
StreamEnds(c) ==
    /\ c # connection
    /\ stream[c] \in {"subscribed", "streaming"}
    /\ stream' = [stream EXCEPT ![c] = "ended"]
    /\ IF stream[c] = "streaming"
       THEN _unsubscribe(c) /\ queue' = [queue EXCEPT ![c] = << >>]
       ELSE UNCHANGED <<subscribers, queue>>
    /\ UNCHANGED <<liveVars, registryVars, started, connection, pageVars, upsets>>

\* GET /candidates reads the candidates, releases the lock and takes it again
\* for the reputation.
_public_state(s) ==
    /\ IsSent(s)
    /\ fetches' = [fetches EXCEPT ![s] = Reading(candidates)]
    /\ UNCHANGED <<source, wire, ticker, registryVars, busVars, connection, pageVars, upsets>>

list_candidates(s) ==
    /\ s \in DOMAIN fetches
    /\ fetches[s].stage = "reading"
    /\ fetches' = [fetches EXCEPT ![s] =
                        Answered(Everything, Registry(@.candidates, reputation))]
    /\ UNCHANGED <<source, wire, ticker, registryVars, busVars, connection, pageVars, upsets>>

-------------------------------------------------------------------------------
\* The "Live updates" button.
startLiveUpdates ==
    /\ source = "none"
    /\ Start(TRUE)
    /\ connection' = 0
    /\ UNCHANGED <<fetches, registryVars, busVars, pageVars, upsets>>

stopLiveUpdates ==
    /\ Upset
    /\ source # "none"
    /\ Stop
    /\ connection' = 0
    /\ UNCHANGED <<fetches, registryVars, busVars, pageVars>>

\* loadCandidates(), load(): on refresh and after a submission or a vote of
\* one's own.
refresh ==
    /\ Upset
    /\ Fetch(Everything)
    /\ UNCHANGED <<source, wire, ticker, registryVars, busVars, connection, pageVars>>

\* Mutant of onOpen: the stream is trusted to tell.
onOpen_only ==
    /\ connection # 0
    /\ Opened
    /\ UNCHANGED <<fetches, registryVars, busVars, connection, pageVars, upsets>>

\* The response reaches the browser: stop the ticker and catch up.
onOpen ==
    /\ connection # 0
    /\ Opened
    /\ Fetch(Everything)
    /\ UNCHANGED <<registryVars, busVars, connection, pageVars, upsets>>

\* The transport fails: the request behind the EventSource is abandoned.
onerror ==
    /\ Upset
    /\ \E state \in {"connecting", "closed"} : Broken(state)
    /\ connection' = 0
    /\ UNCHANGED <<registryVars, busVars, pageVars>>

\* Any event: stop the ticker and fetch everything.
onEvent ==
    /\ Dispatched
    /\ ticker' = FALSE
    /\ Fetch(Everything)
    /\ UNCHANGED <<registryVars, busVars, connection, pageVars, upsets>>

fallback ==
    /\ ticker
    /\ Fetch(Everything)
    /\ UNCHANGED <<source, wire, ticker, registryVars, busVars, connection, pageVars, upsets>>

\* A fetch returns; late counts the fetches that a later one has overtaken.
Returned(s, how) ==
    /\ cause' = IF s <= late /\ how = "fetch" THEN "overtaken" ELSE how
    /\ late' = IF s <= late THEN late - 1 ELSE s - 1
    /\ UNCHANGED <<registryVars, busVars, connection>>

\* What a fetch brings is rendered, even if a later one is back already.
loadCandidates(s) ==
    /\ Arrive(s)
    /\ shown' = fetches[s].answer
    /\ Returned(s, "fetch")
    /\ UNCHANGED upsets

\* A failed fetch leaves the page as it is, but for a note.
loadFails(s) ==
    /\ IsSent(s)
    /\ Upset
    /\ fetches' = Seqs!RemoveAt(fetches, s)
    /\ Returned(s, "failed")
    /\ UNCHANGED <<source, wire, ticker, shown>>

-------------------------------------------------------------------------------
Next ==
    \/ Change \/ _set_status \/ _apply_reputation \/ _broadcast
    \/ \E c \in Connections : events(c) \/ StreamStarts(c) \/ StreamEnds(c)
    \/ StreamYields
    \/ \E s \in Slots : _public_state(s) \/ list_candidates(s) \/ loadCandidates(s)
                            \/ loadFails(s)
    \/ startLiveUpdates \/ stopLiveUpdates \/ refresh
    \/ onOpen \/ onerror \/ onEvent \/ fallback

Spec == Init /\ [][Next]_vars

\* Threads and the event loop run, the browser connects, dispatches and ticks.
\* Changes, failures and the user are not promised.
FairSpec ==
    /\ Spec
    /\ WF_vars(_apply_reputation) /\ WF_vars(_broadcast) /\ WF_vars(StreamYields)
    /\ \A c \in Connections : WF_vars(events(c)) /\ WF_vars(StreamStarts(c))
    /\ \A s \in Slots :
        WF_vars(_public_state(s)) /\ WF_vars(list_candidates(s)) /\ WF_vars(loadCandidates(s))
    /\ WF_vars(onOpen) /\ WF_vars(onEvent) /\ WF_vars(fallback)

-------------------------------------------------------------------------------
Versions == 0 .. MaxChanges
Registries == [candidates : Versions, reputation : Versions]

TypeOK ==
    /\ source \in {"none", "connecting", "open", "closed"}
    /\ wire \in Seq({Event})
    /\ ticker \in BOOLEAN
    /\ fetches \in Seq({Sent(Everything)} \cup {Reading(c) : c \in Versions}
                        \cup {Answered(Everything, r) : r \in Registries})
    /\ late \in 0 .. Len(fetches)
    /\ candidates \in Versions /\ reputation \in Versions
    /\ rewarding \in Versions /\ announcing \in Versions
    /\ subscribers \subseteq Connections
    /\ \A c \in Connections : queue[c] \in Seq({Event}) /\ Len(queue[c]) <= MaxQueue
    /\ stream \in [Connections -> {"unused", "subscribed", "streaming", "ended"}]
    /\ connection \in Connections \cup {0}
    /\ shown \in Registries
    /\ cause \in {"nothing", "fetch", "failed", "overtaken"}
    /\ started \subseteq Connections
    /\ upsets \in 0 .. MaxUpsets

Current == shown = Registry(candidates, reputation)
Evicted == connection # 0 /\ connection \notin subscribers

\* Handlers have announced what they did, the open stream has nothing left to
\* deliver and the page neither fetches nor polls.
AtRest ==
    /\ rewarding = 0 /\ announcing = 0
    /\ source = "open" /\ wire = << >> /\ queue[connection] = << >>
    /\ fetches = << >> /\ ~ticker

\* A page at rest shows candidates and reputation as they are, although it
\* learns of changes by events without content, reads the two parts apart and
\* may have been disconnected.  The exceptions: its last fetch failed or was
\* overtaken by a newer one, or its stream was evicted, which nobody tells it.
RestIsCurrent ==
    AtRest => Current \/ cause \in {"failed", "overtaken"} \/ Evicted

\* Only a request that was given up before its generator ran leaves a queue
\* behind; every stream that did run is unsubscribed once it is over.
LeakIsUnstarted ==
    \A c \in subscribers : stream[c] = "ended" => c \notin started

\* Under the same reservations a page that listens ends up current.
EventuallyCurrent ==
    <>[](source # "none") => <>[](Current \/ cause \in {"failed", "overtaken"} \/ Evicted)

\* main.py:134-135: "a slow consumer just misses events, the UI
\* re-polls/refreshes": an evicted page still gets to see the registry.
EvictedRefreshes == [](Evicted => <>(Current \/ ~Evicted))
===============================================================================
