------------------------------- MODULE StatusView -------------------------------
(***************************************************************************)
(* services/status_api and web/widget: what an embedded <fen-status> shows *)
(* of an annotation's governance record.  The Status API answers REST      *)
(* requests from the store and, per connected client, polls the store and  *)
(* pushes a frame when the record differs from the last one it pushed.     *)
(* The widget renders whatever arrives last: pushed frames, answers of its *)
(* own fetches, errors.                                                    *)
(*                                                                         *)
(* A record is identified by the number of the write that made it, zero    *)
(* meaning that there is none ("found": false).                            *)
(***************************************************************************)
EXTENDS LiveUpdates
Sets == INSTANCE FiniteSetsExt

CONSTANTS
    Annotations,  \* annotation ids
    NoId,         \* the attribute is absent
    EventSourceExists, \* outcomes of new EventSource: subset of BOOLEAN
    MaxWrites,    \* bound: updates of the store
    MaxOutages,   \* bound: outages of the store
    MaxBreaks,    \* bound: transport failures of a stream
    MaxUserSteps  \* bound: attribute changes, insertions and removals

ASSUME StatusViewAssumption ==
    /\ NoId \notin Annotations
    /\ EventSourceExists \subseteq BOOLEAN
    /\ MaxWrites \in Nat /\ MaxOutages \in Nat /\ MaxBreaks \in Nat
    /\ MaxUserSteps \in Nat

VARIABLES
    store,        \* RDF store: the record of each annotation
    up,           \* whether the store answers
    outages, breaks, userSteps,
    last,         \* last_canonical of the stream, NothingPushed at its start
    attached,     \* the element is in a document
    annotationId, \* attribute annotation-id
    live,         \* attribute live is not "off"
    shown,        \* _data
    error,        \* _error: "none", "missing", "live" or "fetch"
    newest,       \* history: newest record rendered for this annotation id
    cause         \* history: what the last rendering came from

serverVars == <<store, up, outages, last>>
viewVars == <<shown, error, newest, cause>>
elementVars == <<attached, annotationId, live>>
vars == <<liveVars, serverVars, breaks, userSteps, elementVars, viewVars>>

NothingPushed == -1
Failure == -2
NoData == [of |-> NoId, record |-> 0]
Data(a, r) == [of |-> a, record |-> r]
LatestWrite == Sets!Max({store[a] : a \in Annotations})
Newer(r, q) == IF r > q THEN r ELSE q
StatusFrame(r) == [event |-> "status", record |-> r]
ErrorFrame == [event |-> "error", record |-> 0]

\* The record an answer would carry now: the query's bindings, or the error of
\* a store that does not respond (503 over REST, an error frame in a stream).
_query_sparql(a) == IF up THEN store[a] ELSE Failure

Init ==
    /\ LiveInit
    /\ store = [a \in Annotations |-> 0]
    /\ up = TRUE
    /\ outages = 0 /\ breaks = 0 /\ userSteps = 0
    /\ last = NothingPushed
    /\ attached = FALSE
    /\ annotationId = NoId
    /\ live = TRUE
    /\ shown = NoData
    /\ error = "none"
    /\ newest = 0
    /\ cause = "nothing"

-------------------------------------------------------------------------------
\* The store: the validation consumer writes, and the store goes away and
\* comes back.
Written(a) ==
    /\ LatestWrite < MaxWrites
    /\ up
    /\ store' = [store EXCEPT ![a] = LatestWrite + 1]
    /\ UNCHANGED <<liveVars, up, outages, last, breaks, userSteps, elementVars, viewVars>>

StoreFails ==
    /\ up
    /\ outages < MaxOutages
    /\ outages' = outages + 1
    /\ up' = FALSE
    /\ UNCHANGED <<liveVars, store, last, breaks, userSteps, elementVars, viewVars>>

StoreRecovers ==
    /\ ~up
    /\ up' = TRUE
    /\ UNCHANGED <<liveVars, store, outages, last, breaks, userSteps, elementVars, viewVars>>

\* Mutant of _status_stream: the failure is remembered like a payload.
_status_stream_remembering_failures ==
    /\ source = "open"
    /\ last # _query_sparql(annotationId)
    /\ last' = _query_sparql(annotationId)
    /\ Yield(IF last' = Failure THEN ErrorFrame ELSE StatusFrame(last'))
    /\ UNCHANGED <<ticker, fetches, store, up, outages, breaks, userSteps, elementVars, viewVars>>

\* GET /api/v1/events/{id}: each request has a generator of its own, which has
\* pushed nothing yet.
status_events == last' = NothingPushed

\* One poll tick of the stream of the connected client: a changed record is
\* pushed and remembered; a failed query pushes an error and leaves the memory
\* alone; an unchanged record pushes nothing.
_status_stream ==
    /\ source = "open"
    /\ IF _query_sparql(annotationId) = Failure
       THEN Yield(ErrorFrame) /\ UNCHANGED last
       ELSE /\ last # store[annotationId]
            /\ last' = store[annotationId]
            /\ Yield(StatusFrame(store[annotationId]))
    /\ UNCHANGED <<ticker, fetches, store, up, outages, breaks, userSteps, elementVars, viewVars>>

\* GET /api/v1/status/{id}.  A request that the network loses is one that meets
\* a short outage.
get_status(s) ==
    /\ Answer(s, _query_sparql(fetches[s].of))
    /\ UNCHANGED <<serverVars, breaks, userSteps, elementVars, viewVars>>

-------------------------------------------------------------------------------
\* _load(): fetch the record of id a; without an id only say so.
_load(a) ==
    IF a = NoId
    THEN error' = "missing" /\ UNCHANGED <<fetches, shown, newest, cause>>
    ELSE Fetch(a) /\ UNCHANGED viewVars

\* _startLive(): returns at once unless live; reconnects otherwise.  A new
\* stream knows nothing of what an older one pushed.
_startLive(a, on) ==
    IF ~on
    THEN UNCHANGED <<source, wire, ticker, last>>
    ELSE IF a = NoId
    THEN Stop /\ UNCHANGED last
    ELSE /\ \E exists \in EventSourceExists : Start(exists)
         /\ status_events

UserStep ==
    /\ userSteps < MaxUserSteps
    /\ userSteps' = userSteps + 1
    /\ UNCHANGED <<store, up, outages, breaks>>

connectedCallback ==
    /\ ~attached
    /\ attached' = TRUE
    /\ _load(annotationId)
    /\ _startLive(annotationId, live)
    /\ UserStep
    /\ UNCHANGED <<annotationId, live>>

disconnectedCallback ==
    /\ attached
    /\ attached' = FALSE
    /\ Stop
    /\ UserStep
    /\ UNCHANGED <<fetches, last, annotationId, live, viewVars>>

\* Mutant of attributeChangedCallback: the stream is reconnected, the record
\* is left to it.
attributeChangedCallback_lazy(a) ==
    /\ annotationId' = a
    /\ newest' = 0
    /\ _startLive(a, live)
    /\ UserStep
    /\ UNCHANGED <<attached, live, fetches, shown, error, cause>>

\* annotation-id, api-base or theme set (to the same value, too), attached or
\* not: fetch and reconnect.  What was shown stays until something arrives.
attributeChangedCallback(a) ==
    /\ annotationId' = a
    /\ newest' = IF a = annotationId THEN newest ELSE 0
    /\ IF a = NoId
       THEN error' = "missing" /\ UNCHANGED fetches
       ELSE Fetch(a) /\ UNCHANGED error
    /\ _startLive(a, live)
    /\ UserStep
    /\ UNCHANGED <<attached, live, shown, cause>>

\* Attribute live.
liveChanged(on) ==
    /\ live' = on
    /\ IF on THEN _startLive(annotationId, TRUE) ELSE Stop /\ UNCHANGED last
    /\ UserStep
    /\ UNCHANGED <<fetches, attached, annotationId, viewVars>>

-------------------------------------------------------------------------------
\* onopen: the ticker stops and a fetch catches up.
onopen ==
    /\ Opened
    /\ Fetch(annotationId)
    /\ status_events
    /\ UNCHANGED <<store, up, outages, breaks, userSteps, elementVars, viewVars>>

\* A transport failure reaches both handlers of "error": _onSseError, which
\* finds no payload and shows its default, and onerror.
onerror ==
    /\ breaks < MaxBreaks
    /\ breaks' = breaks + 1
    /\ \E state \in {"connecting", "closed"} : Broken(state)
    /\ error' = "live"
    /\ UNCHANGED <<serverVars, userSteps, elementVars, shown, newest, cause>>

\* A pushed record is rendered and the ticker stops.
_onSseStatus ==
    /\ Dispatched
    /\ Head(wire).event = "status"
    /\ ticker' = FALSE
    /\ shown' = Data(annotationId, Head(wire).record)
    /\ error' = "none"
    /\ newest' = Newer(newest, Head(wire).record)
    /\ cause' = "frame"
    /\ UNCHANGED <<fetches, serverVars, breaks, userSteps, elementVars>>

\* Mutant of _onSseError: the frame is not also an "error" of the EventSource,
\* so onerror does not start the ticker.
_onSseError_only ==
    /\ Dispatched
    /\ Head(wire).event = "error"
    /\ error' = "live"
    /\ UNCHANGED <<ticker, fetches, serverVars, breaks, userSteps, elementVars,
                   shown, newest, cause>>

\* A pushed error: the message is shown; as the frame's name is "error" the
\* browser calls onerror for it as well, which starts the ticker.
_onSseError ==
    /\ Dispatched
    /\ Head(wire).event = "error"
    /\ error' = "live"
    /\ ticker' = TRUE
    /\ UNCHANGED <<fetches, serverVars, breaks, userSteps, elementVars,
                   shown, newest, cause>>

\* The rest of _load: whatever arrives is rendered, without regard to what has
\* been rendered since the fetch was answered.
Loaded(s) ==
    /\ Arrive(s)
    /\ LET of == fetches[s].of
           record == fetches[s].answer
       IN  IF record = Failure
           THEN /\ shown' = NoData
                /\ error' = "fetch"
                /\ cause' = "failed"
                /\ UNCHANGED newest
           ELSE /\ shown' = Data(of, record)
                /\ error' = "none"
                /\ cause' = IF of # annotationId \/ record < newest THEN "overtaken" ELSE "fetch"
                /\ newest' = IF of = annotationId THEN Newer(newest, record) ELSE newest
    /\ UNCHANGED <<serverVars, breaks, userSteps, elementVars>>

\* The fallback interval, every 15 s; the retry button under an error.
Tick ==
    /\ ticker
    /\ _load(annotationId)
    /\ UNCHANGED <<source, wire, ticker, serverVars, breaks, userSteps, elementVars>>

retry ==
    /\ error # "none"
    /\ _load(annotationId)
    /\ UNCHANGED <<source, wire, ticker, serverVars, breaks, userSteps, elementVars>>

-------------------------------------------------------------------------------
Next ==
    \/ \E a \in Annotations : Written(a)
    \/ StoreFails
    \/ StoreRecovers
    \/ _status_stream
    \/ \E s \in Slots : get_status(s) \/ Loaded(s)
    \/ connectedCallback
    \/ disconnectedCallback
    \/ \E a \in Annotations \cup {NoId} : attributeChangedCallback(a)
    \/ \E on \in BOOLEAN : liveChanged(on)
    \/ onopen
    \/ onerror
    \/ _onSseStatus
    \/ _onSseError
    \/ Tick
    \/ retry

Spec == Init /\ [][Next]_vars

\* The server polls and answers, the browser connects, dispatches and ticks.
\* Writes, outages, transport failures, the user and a store that recovers are
\* not promised.
FairSpec ==
    /\ Spec
    /\ WF_vars(_status_stream)
    /\ \A s \in Slots : WF_vars(get_status(s)) /\ WF_vars(Loaded(s))
    /\ WF_vars(onopen)
    /\ WF_vars(_onSseStatus)
    /\ WF_vars(_onSseError)
    /\ WF_vars(Tick)

-------------------------------------------------------------------------------
Records == 0 .. MaxWrites

TypeOK ==
    /\ LiveTypeOK({ErrorFrame} \cup {StatusFrame(r) : r \in Records},
                  Annotations, Records \cup {Failure})
    /\ store \in [Annotations -> Records]
    /\ up \in BOOLEAN
    /\ outages \in 0 .. MaxOutages /\ breaks \in 0 .. MaxBreaks
    /\ userSteps \in 0 .. MaxUserSteps
    /\ last \in Records \cup {NothingPushed}
    /\ attached \in BOOLEAN
    /\ annotationId \in Annotations \cup {NoId}
    /\ live \in BOOLEAN
    /\ shown \in [of : Annotations, record : Records] \cup {NoData}
    /\ error \in {"none", "missing", "live", "fetch"}
    /\ newest \in Records
    /\ cause \in {"nothing", "frame", "fetch", "failed", "overtaken"}

Watching == attached /\ live /\ annotationId # NoId
Fresh == annotationId # NoId /\ shown = Data(annotationId, store[annotationId]) /\ error = "none"

\* Nothing is under way and nothing will come by itself: the stream is open,
\* has pushed the current record and the widget does not poll.
AtRest ==
    /\ Watching
    /\ source = "open" /\ wire = << >> /\ last = store[annotationId]
    /\ fetches = << >> /\ ~ticker

\* The one way in which a widget at rest does not show the store's record: a
\* fetch arrived last, which had failed or was computed before the record that
\* it replaced.  Outages, error frames, lost streams and changes of the
\* annotation leave no trace otherwise, although the stream pushes nothing when
\* the record is what it was before the outage.
RestIsFresh ==
    AtRest => Fresh \/ cause \in {"failed", "overtaken"}

\* The record of another annotation is on display only until the fetch started
\* with the new id returns, unless an older fetch returns after it.
ForeignRecordIsReplaced ==
    (annotationId # NoId /\ shown.of \notin {NoId, annotationId}) =>
        \/ cause = "overtaken"
        \/ \E i \in DOMAIN fetches : fetches[i].of = annotationId

\* Under the same reservation a watching widget ends up showing the record,
\* whatever was lost, as soon as the store stays up; also when the browser has
\* given the stream up and only the ticker is left.
EventuallyFresh ==
    <>[](up /\ Watching) => <>[](Fresh \/ cause \in {"failed", "overtaken"})
===============================================================================
