--------------------------- MODULE StatusViewProofs ---------------------------
(***************************************************************************)
(* The widget at rest shows the store's record, or its last fetch failed   *)
(* or was overtaken: for any number of annotations, writes, outages, lost  *)
(* streams, user actions, frames and fetches under way.                    *)
(*                                                                         *)
(* The argument follows the last record pushed on the open stream: it is   *)
(* in the wire with nothing but errors behind it, or it was rendered and   *)
(* what has been rendered since is no older (StreamOK).  That it is the    *)
(* store's needs a bound from above: no answer, frame or rendering is      *)
(* newer than the record in the store (Bounded).                           *)
(***************************************************************************)
EXTENDS StatusView, DataLemmas, TLAPS

\* A stream belongs to a live widget with an annotation id, and only an open one
\* has frames under way.
SourceOK ==
    /\ source # "none" => live /\ annotationId \in Annotations
    /\ wire # << >> => source = "open"

TInv == TypeOK /\ SourceOK

FrameSet == {ErrorFrame} \cup {StatusFrame(r) : r \in Records}
FetchSet == {Sent(a) : a \in Annotations}
                \cup {Answered(a, r) : a \in Annotations, r \in Records \cup {Failure}}

-------------------------------------------------------------------------------
\* What the types say of one fetch and of one frame.
LEMMA FetchTyped ==
    ASSUME TypeOK, NEW i \in DOMAIN fetches
    PROVE  /\ fetches[i] \in FetchSet /\ fetches[i].of \in Annotations
           /\ fetches[i].stage \in {"sent", "answered"}
           /\ fetches[i].stage = "answered" => fetches[i].answer \in Records \cup {Failure}
<1>1. fetches \in Seq(FetchSet)
  BY DEF TypeOK, LiveTypeOK, FetchSet
<1>2. fetches[i] \in FetchSet
  BY <1>1
<1> QED
  BY <1>2 DEF FetchSet, Sent, Answered

LEMMA FrameTyped ==
    ASSUME TypeOK, NEW i \in DOMAIN wire
    PROVE  /\ wire[i].event \in {"status", "error"} /\ wire[i].record \in Records
           /\ wire[i].event = "status" => wire[i] = StatusFrame(wire[i].record)
<1>1. wire \in Seq(FrameSet)
  BY DEF TypeOK, LiveTypeOK, FrameSet
<1>2. wire[i] \in FrameSet
  BY <1>1
<1>3. 0 \in Records
  BY StatusViewAssumption DEF Records
<1> QED
  BY <1>2, <1>3 DEF FrameSet, ErrorFrame, StatusFrame

\* The steps of the browser's half on the sequences it keeps.
LEMMA FetchSends ==
    ASSUME TypeOK, NEW a \in Annotations, Fetch(a)
    PROVE  /\ fetches' \in Seq(FetchSet)
           /\ DOMAIN fetches' = DOMAIN fetches \cup {Len(fetches) + 1}
           /\ \A i \in DOMAIN fetches : fetches'[i] = fetches[i]
           /\ fetches'[Len(fetches) + 1] = Sent(a)
<1>1. fetches \in Seq(FetchSet) /\ Sent(a) \in FetchSet /\ fetches' = Append(fetches, Sent(a))
  BY DEF TypeOK, LiveTypeOK, FetchSet, Fetch
<1> DEFINE e == Sent(a)
<1> HIDE DEF e
<1> QED
  BY <1>1 DEF e

LEMMA AnswerGiven ==
    ASSUME TypeOK, NEW s, NEW r \in Records \cup {Failure}, Answer(s, r)
    PROVE  /\ fetches' \in Seq(FetchSet) /\ DOMAIN fetches' = DOMAIN fetches
           /\ s \in DOMAIN fetches
           /\ \A i \in DOMAIN fetches \ {s} : fetches'[i] = fetches[i]
           /\ fetches'[s] = Answered(fetches[s].of, r)
<1>1. fetches \in Seq(FetchSet) /\ s \in DOMAIN fetches
  BY DEF TypeOK, LiveTypeOK, FetchSet, Answer, IsSent
<1>2. Answered(fetches[s].of, r) \in FetchSet
  BY <1>1, FetchTyped DEF FetchSet
<1>3. fetches' = [fetches EXCEPT ![s] = Answered(fetches[s].of, r)]
  BY DEF Answer
<1> DEFINE e == Answered(fetches[s].of, r)
<1> HIDE DEF e
<1> QED
  BY <1>1, <1>2, <1>3 DEF e

LEMMA ArrivalTakes ==
    ASSUME TypeOK, NEW s, Arrive(s)
    PROVE  /\ fetches' \in Seq(FetchSet)
           /\ s \in DOMAIN fetches /\ fetches[s].stage = "answered"
           /\ \A j \in DOMAIN fetches' : \E k \in DOMAIN fetches : fetches[k] = fetches'[j]
           /\ \A k \in DOMAIN fetches \ {s} : \E j \in DOMAIN fetches' : fetches[k] = fetches'[j]
<1>1. fetches \in Seq(FetchSet) /\ s \in DOMAIN fetches /\ fetches[s].stage = "answered"
  BY DEF TypeOK, LiveTypeOK, FetchSet, Arrive, IsAnswered
<1>2. fetches' = Without(fetches, s)
  BY DEF Arrive, Seqs!RemoveAt, Without
<1> QED
  BY <1>1, <1>2, ElementRemoved

LEMMA FrameYielded ==
    ASSUME TypeOK, NEW f \in FrameSet, Yield(f)
    PROVE  /\ wire' \in Seq(FrameSet) /\ DOMAIN wire' = DOMAIN wire \cup {Len(wire) + 1}
           /\ Len(wire') = Len(wire) + 1 /\ Len(wire) \in Nat /\ DOMAIN wire = 1 .. Len(wire)
           /\ \A i \in DOMAIN wire : wire'[i] = wire[i]
           /\ wire'[Len(wire) + 1] = f
           /\ source = "open" /\ source' = source
<1>1. wire \in Seq(FrameSet) /\ wire' = Append(wire, f) /\ source = "open" /\ source' = source
  BY DEF TypeOK, LiveTypeOK, FrameSet, Yield
<1> HIDE DEF FrameSet
<1> QED
  BY <1>1

LEMMA FrameDispatched ==
    ASSUME TypeOK, Dispatched
    PROVE  /\ wire' \in Seq(FrameSet) /\ Len(wire) \in Nat /\ Len(wire) > 0
           /\ DOMAIN wire = 1 .. Len(wire) /\ DOMAIN wire' = 1 .. Len(wire) - 1
           /\ Len(wire') = Len(wire) - 1
           /\ \A i \in 1 .. Len(wire) - 1 : wire'[i] = wire[i + 1]
           /\ Head(wire) = wire[1] /\ wire # << >> /\ source' = source
<1>1. wire \in Seq(FrameSet) /\ wire # << >> /\ wire' = Tail(wire) /\ source' = source
  BY DEF TypeOK, LiveTypeOK, FrameSet, Dispatched
<1> HIDE DEF FrameSet
<1> QED
  BY <1>1

\* A write gets a number above all others.
LEMMA WriteIsNewest ==
    ASSUME TypeOK, NEW a \in Annotations, Written(a)
    PROVE  /\ store' \in [Annotations -> Records]
           /\ \A b \in Annotations : store[b] <= store'[b]
<1> DEFINE S == {store[b] : b \in Annotations}
<1>1. MaxWrites \in Nat /\ \A b \in Annotations : store[b] \in 0 .. MaxWrites
  BY StatusViewAssumption DEF TypeOK, Records
<1>2. S \in SUBSET (0 .. MaxWrites) /\ S # {}
  BY <1>1
<1>3. LatestWrite \in S /\ \A k \in S : LatestWrite >= k
  <2>1. \E m \in S : \A k \in S : m >= k
    <3> HIDE DEF S
    <3> QED
      BY <1>1, <1>2, GreatestNumber
  <2>2. LatestWrite = CHOOSE x \in S : \A y \in S : x >= y
    BY DEF LatestWrite, Sets!Max
  <2> HIDE DEF S
  <2> QED
    BY <2>1, <2>2
<1>4. /\ LatestWrite < MaxWrites /\ store' = [store EXCEPT ![a] = LatestWrite + 1]
      /\ store \in [Annotations -> Records]
  BY DEF Written, TypeOK
<1>5. LatestWrite + 1 \in Records /\ store[a] <= LatestWrite + 1
  <2>1. LatestWrite \in 0 .. MaxWrites /\ store[a] \in S
    BY <1>2, <1>3
  <2>2. LatestWrite >= store[a] /\ store[a] \in 0 .. MaxWrites
    BY <2>1, <1>1, <1>3
  <2> HIDE DEF S
  <2> QED
    BY <1>1, <1>4, <2>1, <2>2 DEF Records
<1> HIDE DEF S
<1>6. store' \in [Annotations -> Records]
  BY <1>4, <1>5
<1>7. ASSUME NEW b \in Annotations PROVE store[b] <= store'[b]
  <2>1. store[b] \in 0 .. MaxWrites
    BY <1>1
  <2>2. b # a => store'[b] = store[b]
    BY <1>4
  <2>3. store'[a] = LatestWrite + 1
    BY <1>4
  <2> QED
    BY <2>1, <2>2, <2>3, <1>5
<1> QED
  BY <1>6, <1>7

\* The types in two halves: what the browser and the stream keep, and the rest.
LiveOK ==
    /\ source \in {"none", "connecting", "open", "closed"}
    /\ wire \in Seq(FrameSet)
    /\ ticker \in BOOLEAN
    /\ fetches \in Seq(FetchSet)

RestOK ==
    /\ store \in [Annotations -> Records]
    /\ up \in BOOLEAN
    /\ outages \in 0 .. MaxOutages /\ breaks \in 0 .. MaxBreaks
    /\ userSteps \in 0 .. MaxUserSteps
    /\ last \in Records \cup {NothingPushed}
    /\ attached \in BOOLEAN
    /\ annotationId \in Annotations \cup {NoId}
    /\ live \in BOOLEAN
    /\ shown \in [of : Annotations, record : Records] \cup {NoData}
    /\ error \in {"none", "missing", "live", "fetch"}
    /\ newest \in Records
    /\ cause \in {"nothing", "frame", "fetch", "failed", "overtaken"}

LEMMA Halves == TypeOK <=> LiveOK /\ RestOK
  BY DEF TypeOK, LiveTypeOK, LiveOK, RestOK, FrameSet, FetchSet

LEMMA HalvesPrimed == TypeOK' <=> LiveOK' /\ RestOK'
  BY DEF TypeOK, LiveTypeOK, LiveOK, RestOK, FrameSet, FetchSet, ErrorFrame, StatusFrame,
         Sent, Answered, Records, NoData, NothingPushed, Failure

\* Fetching and reconnecting, the two halves of every user action.
LEMMA LoadTyped ==
    ASSUME TInv, NEW a \in Annotations \cup {NoId}, _load(a)
    PROVE  /\ fetches' \in Seq(FetchSet)
           /\ error' \in {"none", "missing", "live", "fetch"}
           /\ UNCHANGED <<shown, newest, cause>>
           /\ a # NoId => error' = error
<1>0. fetches \in Seq(FetchSet) /\ error \in {"none", "missing", "live", "fetch"}
  BY Halves DEF TInv, LiveOK, RestOK
<1>1. CASE a = NoId
  BY <1>0, <1>1 DEF _load
<1>2. CASE a # NoId
  <2>1. a \in Annotations /\ Fetch(a) /\ UNCHANGED viewVars
    BY <1>2 DEF _load
  <2>2. fetches' \in Seq(FetchSet)
    BY <2>1, FetchSends DEF TInv
  <2> QED
    BY <1>0, <1>2, <2>1, <2>2 DEF viewVars
<1> QED
  BY <1>1, <1>2

LEMMA StartTyped ==
    ASSUME TInv, NEW a \in Annotations \cup {NoId}, NEW on \in BOOLEAN,
           ~on => source = "none", _startLive(a, on)
    PROVE  /\ source' \in {"none", "connecting"} /\ wire' = << >>
           /\ ticker' \in BOOLEAN /\ last' \in Records \cup {NothingPushed}
           /\ source' # "none" => on /\ a \in Annotations
<1>1. /\ ticker \in BOOLEAN /\ last \in Records \cup {NothingPushed}
      /\ wire # << >> => source = "open"
  BY Halves DEF TInv, LiveOK, RestOK, SourceOK
<1>2. CASE ~on
  BY <1>1, <1>2 DEF _startLive
<1>3. CASE on /\ a = NoId
  BY <1>1, <1>3 DEF _startLive, Stop
<1>4. CASE on /\ a # NoId
  BY <1>1, <1>4, StatusViewAssumption DEF _startLive, Start, status_events
<1> QED
  BY <1>2, <1>3, <1>4

LEMMA UserStepTyped ==
    ASSUME TInv, UserStep
    PROVE  /\ userSteps' \in 0 .. MaxUserSteps
           /\ UNCHANGED <<store, up, outages, breaks>>
  BY Halves, StatusViewAssumption DEF TInv, RestOK, UserStep

LEMMA InitTyped == Init => TInv
<1> SUFFICES ASSUME Init PROVE TInv
  OBVIOUS
<1>1. 0 \in Records
  BY StatusViewAssumption DEF Records
<1>2. LiveOK
  <2>1. source = "none" /\ wire = << >> /\ ticker = FALSE /\ fetches = << >>
    BY DEF Init, LiveInit
  <2>2. << >> \in Seq(FrameSet) /\ << >> \in Seq(FetchSet)
    OBVIOUS
  <2> QED
    BY <2>1, <2>2, Zenon DEF LiveOK
<1>3. RestOK
  <2>1. store \in [Annotations -> Records] /\ newest \in Records
    BY <1>1 DEF Init
  <2>2. outages \in 0 .. MaxOutages /\ breaks \in 0 .. MaxBreaks /\ userSteps \in 0 .. MaxUserSteps
    BY StatusViewAssumption DEF Init
  <2> QED
    BY <2>1, <2>2, Zenon DEF Init, RestOK
<1> QED
  BY <1>2, <1>3, Halves DEF TInv, SourceOK, Init, LiveInit

-------------------------------------------------------------------------------
LEMMA NextTyped == TInv /\ [Next]_vars => TInv'
<1> SUFFICES ASSUME TInv, [Next]_vars PROVE LiveOK' /\ RestOK' /\ SourceOK'
  BY HalvesPrimed DEF TInv
<1>0. LiveOK /\ RestOK /\ SourceOK /\ TypeOK
  BY Halves DEF TInv
<1>s. annotationId \in Annotations => store[annotationId] \in Records
  BY <1>0 DEF RestOK
<1>z. 0 \in Records
  BY StatusViewAssumption DEF Records
<1>f. \A r \in Records : StatusFrame(r) \in FrameSet
  BY DEF FrameSet
<1>e. ErrorFrame \in FrameSet
  BY DEF FrameSet
<1>1. ASSUME NEW a \in Annotations, Written(a) PROVE LiveOK' /\ RestOK' /\ SourceOK'
  <2>1. store' \in [Annotations -> Records]
    BY <1>0, <1>1, WriteIsNewest
  <2>2. /\ UNCHANGED <<liveVars, up, outages, last, breaks, userSteps, elementVars, viewVars>>
    BY <1>1 DEF Written
  <2> QED
    BY <1>0, <2>1, <2>2 DEF LiveOK, RestOK, SourceOK, liveVars, elementVars, viewVars
<1>2. CASE StoreFails
  <2>1. /\ outages < MaxOutages /\ outages' = outages + 1 /\ up' = FALSE
        /\ UNCHANGED <<liveVars, store, last, breaks, userSteps, elementVars, viewVars>>
    BY <1>2 DEF StoreFails
  <2>2. outages' \in 0 .. MaxOutages
    BY <1>0, <2>1, StatusViewAssumption DEF RestOK
  <2> QED
    BY <1>0, <2>1, <2>2 DEF LiveOK, RestOK, SourceOK, liveVars, elementVars, viewVars
<1>3. CASE StoreRecovers
  BY <1>0, <1>3 DEF StoreRecovers, LiveOK, RestOK, SourceOK, liveVars, elementVars, viewVars
<1>4. CASE _status_stream
  <2>1. UNCHANGED <<ticker, fetches, store, up, outages, breaks, userSteps, elementVars, viewVars>>
    BY <1>4 DEF _status_stream
  <2>2. source = "open" /\ annotationId \in Annotations /\ live
    BY <1>0, <1>4 DEF _status_stream, SourceOK
  <2>3. \/ Yield(ErrorFrame) /\ last' = last
        \/ last' = store[annotationId] /\ Yield(StatusFrame(store[annotationId]))
    BY <1>4 DEF _status_stream
  <2>4. last' \in Records \cup {NothingPushed}
    BY <1>0, <1>s, <2>2, <2>3 DEF RestOK
  <2>5. \E f \in FrameSet : Yield(f)
    BY <1>s, <1>f, <1>e, <2>2, <2>3
  <2>6. wire' \in Seq(FrameSet) /\ source' = "open"
    BY <1>0, <2>5, FrameYielded
  <2> QED
    BY <1>0, <2>1, <2>2, <2>4, <2>6 DEF LiveOK, RestOK, SourceOK, elementVars, viewVars
<1>5. ASSUME NEW s \in Slots, get_status(s) PROVE LiveOK' /\ RestOK' /\ SourceOK'
  <2>1. /\ UNCHANGED <<serverVars, breaks, userSteps, elementVars, viewVars>>
        /\ UNCHANGED <<source, wire, ticker>>
        /\ Answer(s, _query_sparql(fetches[s].of))
    BY <1>5 DEF get_status, Answer
  <2>2. s \in DOMAIN fetches
    BY <2>1 DEF Answer, IsSent
  <2>3. _query_sparql(fetches[s].of) \in Records \cup {Failure}
    BY <1>0, <2>2, FetchTyped DEF _query_sparql, RestOK
  <2>4. fetches' \in Seq(FetchSet)
    <3> DEFINE r == _query_sparql(fetches[s].of)
    <3> HIDE DEF r
    <3>1. r \in Records \cup {Failure} /\ Answer(s, r)
      BY <2>1, <2>3 DEF r
    <3> QED
      BY <1>0, <3>1, AnswerGiven
  <2> QED
    BY <1>0, <2>1, <2>4 DEF LiveOK, RestOK, SourceOK, serverVars, elementVars, viewVars
<1>6. ASSUME NEW s \in Slots, Loaded(s) PROVE LiveOK' /\ RestOK' /\ SourceOK'
  <2>1. /\ UNCHANGED <<serverVars, breaks, userSteps, elementVars>> /\ UNCHANGED <<source, wire, ticker>>
        /\ Arrive(s)
    BY <1>6 DEF Loaded, Arrive
  <2>2. /\ fetches' \in Seq(FetchSet) /\ s \in DOMAIN fetches /\ fetches[s].stage = "answered"
    BY <1>0, <2>1, ArrivalTakes
  <2>3. fetches[s].of \in Annotations /\ fetches[s].answer \in Records \cup {Failure}
    BY <1>0, <2>2, FetchTyped
  <2>4. /\ shown' \in [of : Annotations, record : Records] \cup {NoData}
        /\ error' \in {"none", "missing", "live", "fetch"}
        /\ newest' \in Records
        /\ cause' \in {"nothing", "frame", "fetch", "failed", "overtaken"}
    <3>1. CASE fetches[s].answer = Failure
      BY <1>0, <1>6, <3>1 DEF Loaded, RestOK
    <3>2. CASE fetches[s].answer # Failure
      <4>1. /\ shown' = Data(fetches[s].of, fetches[s].answer) /\ error' = "none"
            /\ cause' \in {"fetch", "overtaken"}
            /\ newest' \in {newest, Newer(newest, fetches[s].answer)}
        BY <1>6, <3>2 DEF Loaded
      <4>2. fetches[s].answer \in Records /\ newest \in Records
        BY <1>0, <2>3, <3>2 DEF RestOK
      <4> QED
        BY <2>3, <4>1, <4>2 DEF Data, Newer
    <3> QED
      BY <3>1, <3>2
  <2> QED
    BY <1>0, <2>1, <2>2, <2>4 DEF LiveOK, RestOK, SourceOK, serverVars, elementVars
<1>7. CASE connectedCallback
  <2>1. /\ _load(annotationId) /\ _startLive(annotationId, live) /\ UserStep
        /\ attached' = TRUE /\ UNCHANGED <<annotationId, live>>
    BY <1>7 DEF connectedCallback
  <2>2. annotationId \in Annotations \cup {NoId} /\ live \in BOOLEAN /\ (~live => source = "none")
    BY <1>0 DEF RestOK, SourceOK
  <2>3. /\ fetches' \in Seq(FetchSet) /\ error' \in {"none", "missing", "live", "fetch"}
        /\ UNCHANGED <<shown, newest, cause>>
    BY <2>1, <2>2, LoadTyped
  <2>4. /\ source' \in {"none", "connecting"} /\ wire' = << >>
        /\ ticker' \in BOOLEAN /\ last' \in Records \cup {NothingPushed}
        /\ source' # "none" => live /\ annotationId \in Annotations
    BY <2>1, <2>2, StartTyped
  <2>5. userSteps' \in 0 .. MaxUserSteps /\ UNCHANGED <<store, up, outages, breaks>>
    BY <2>1, UserStepTyped
  <2> QED
    BY <1>0, <2>1, <2>3, <2>4, <2>5 DEF LiveOK, RestOK, SourceOK
<1>8. CASE disconnectedCallback
  <2>1. userSteps' \in 0 .. MaxUserSteps /\ UNCHANGED <<store, up, outages, breaks>>
    BY <1>8, UserStepTyped DEF disconnectedCallback
  <2>2. /\ attached' = FALSE /\ source' = "none" /\ wire' = << >> /\ ticker' = FALSE
        /\ UNCHANGED <<fetches, last, annotationId, live, viewVars>>
    BY <1>8 DEF disconnectedCallback, Stop
  <2>3. wire' \in Seq(FrameSet)
    BY <2>2
  <2> QED
    BY <1>0, <2>1, <2>2, <2>3 DEF LiveOK, RestOK, SourceOK, viewVars
<1>9. ASSUME NEW a \in Annotations \cup {NoId}, attributeChangedCallback(a)
      PROVE LiveOK' /\ RestOK' /\ SourceOK'
  <2>1. /\ annotationId' = a /\ newest' \in {newest, 0}
        /\ \/ a = NoId /\ error' = "missing" /\ fetches' = fetches
           \/ a \in Annotations /\ Fetch(a) /\ error' = error
        /\ _startLive(a, live) /\ UserStep
        /\ UNCHANGED <<attached, live, shown, cause>>
    BY <1>9 DEF attributeChangedCallback
  <2>2. live \in BOOLEAN /\ (~live => source = "none")
    BY <1>0 DEF RestOK, SourceOK
  <2>3. /\ fetches' \in Seq(FetchSet) /\ error' \in {"none", "missing", "live", "fetch"}
    BY <1>0, <2>1, FetchSends DEF LiveOK, RestOK
  <2>4. /\ source' \in {"none", "connecting"} /\ wire' = << >>
        /\ ticker' \in BOOLEAN /\ last' \in Records \cup {NothingPushed}
        /\ source' # "none" => live /\ a \in Annotations
    BY <2>1, <2>2, StartTyped
  <2>5. userSteps' \in 0 .. MaxUserSteps /\ UNCHANGED <<store, up, outages, breaks>>
    BY <2>1, UserStepTyped
  <2>6. newest' \in Records
    BY <1>0, <1>z, <2>1 DEF RestOK
  <2> QED
    BY <1>0, <2>1, <2>3, <2>4, <2>5, <2>6 DEF LiveOK, RestOK, SourceOK
<1>10. ASSUME NEW on \in BOOLEAN, liveChanged(on) PROVE LiveOK' /\ RestOK' /\ SourceOK'
  <2>1. userSteps' \in 0 .. MaxUserSteps /\ UNCHANGED <<store, up, outages, breaks>>
    BY <1>10, UserStepTyped DEF liveChanged
  <2>2. live' = on /\ UNCHANGED <<fetches, attached, annotationId, viewVars>>
    BY <1>10 DEF liveChanged
  <2>3. /\ source' \in {"none", "connecting"} /\ wire' = << >>
        /\ ticker' \in BOOLEAN /\ last' \in Records \cup {NothingPushed}
        /\ source' # "none" => on /\ annotationId \in Annotations
    <3>1. CASE on
      <4>1. _startLive(annotationId, TRUE) /\ annotationId \in Annotations \cup {NoId}
        BY <1>0, <1>10, <3>1 DEF liveChanged, RestOK
      <4> QED
        BY <3>1, <4>1, StartTyped
    <3>2. CASE ~on
      BY <1>0, <1>10, <3>2 DEF liveChanged, Stop, RestOK
    <3> QED
      BY <3>1, <3>2
  <2> QED
    BY <1>0, <2>1, <2>2, <2>3 DEF LiveOK, RestOK, SourceOK, viewVars
<1>11. CASE onopen
  <2>1. /\ source = "connecting" /\ source' = "open" /\ wire' = << >> /\ ticker' = FALSE
        /\ Fetch(annotationId) /\ last' = NothingPushed
        /\ UNCHANGED <<store, up, outages, breaks, userSteps, elementVars, viewVars>>
    BY <1>11 DEF onopen, Opened, status_events
  <2>2. annotationId \in Annotations /\ live
    BY <1>0, <2>1 DEF SourceOK
  <2>3. fetches' \in Seq(FetchSet)
    BY <1>0, <2>1, <2>2, FetchSends
  <2>4. wire' \in Seq(FrameSet)
    BY <2>1
  <2> QED
    BY <1>0, <2>1, <2>2, <2>3, <2>4 DEF LiveOK, RestOK, SourceOK, elementVars, viewVars
<1>12. CASE onerror
  <2>1. /\ source \in {"connecting", "open"} /\ source' \in {"connecting", "closed"}
        /\ wire' = << >> /\ ticker' = TRUE /\ fetches' = fetches
        /\ breaks < MaxBreaks /\ breaks' = breaks + 1 /\ error' = "live"
        /\ UNCHANGED <<serverVars, userSteps, elementVars, shown, newest, cause>>
    BY <1>12 DEF onerror, Broken
  <2>2. breaks' \in 0 .. MaxBreaks
    BY <1>0, <2>1, StatusViewAssumption DEF RestOK
  <2>3. wire' \in Seq(FrameSet)
    BY <2>1
  <2> QED
    BY <1>0, <2>1, <2>2, <2>3 DEF LiveOK, RestOK, SourceOK, serverVars, elementVars
<1>13. CASE _onSseStatus
  <2>1. /\ Dispatched /\ ticker' = FALSE /\ shown' = Data(annotationId, Head(wire).record)
        /\ error' = "none" /\ newest' = Newer(newest, Head(wire).record) /\ cause' = "frame"
        /\ UNCHANGED <<fetches, serverVars, breaks, userSteps, elementVars>>
    BY <1>13 DEF _onSseStatus
  <2>2. /\ wire' \in Seq(FrameSet) /\ 1 \in DOMAIN wire /\ Head(wire) = wire[1]
        /\ wire # << >> /\ source' = source
    BY <1>0, <2>1, FrameDispatched
  <2>3. Head(wire).record \in Records /\ source = "open" /\ annotationId \in Annotations /\ live
    BY <1>0, <2>2, FrameTyped DEF SourceOK
  <2>4. newest' \in Records /\ shown' \in [of : Annotations, record : Records]
    BY <1>0, <2>1, <2>3 DEF RestOK, Newer, Data
  <2> QED
    BY <1>0, <2>1, <2>2, <2>3, <2>4 DEF LiveOK, RestOK, SourceOK, serverVars, elementVars
<1>14. CASE _onSseError
  <2>1. /\ Dispatched /\ ticker' = TRUE /\ error' = "live"
        /\ UNCHANGED <<fetches, serverVars, breaks, userSteps, elementVars, shown, newest, cause>>
    BY <1>14 DEF _onSseError
  <2>2. wire' \in Seq(FrameSet) /\ wire # << >> /\ source' = source
    BY <1>0, <2>1, FrameDispatched
  <2> QED
    BY <1>0, <2>1, <2>2 DEF LiveOK, RestOK, SourceOK, serverVars, elementVars
<1>15. CASE Tick \/ retry
  <2>1. /\ _load(annotationId) /\ annotationId \in Annotations \cup {NoId}
        /\ UNCHANGED <<source, wire, ticker, serverVars, breaks, userSteps, elementVars>>
    BY <1>0, <1>15 DEF Tick, retry, RestOK
  <2>2. /\ fetches' \in Seq(FetchSet) /\ error' \in {"none", "missing", "live", "fetch"}
        /\ UNCHANGED <<shown, newest, cause>>
    BY <2>1, LoadTyped
  <2> QED
    BY <1>0, <2>1, <2>2 DEF LiveOK, RestOK, SourceOK, serverVars, elementVars
<1>16. CASE UNCHANGED vars
  BY <1>0, <1>16 DEF vars, liveVars, serverVars, elementVars, viewVars, LiveOK, RestOK, SourceOK
<1> QED
  BY <1>1, <1>2, <1>3, <1>4, <1>5, <1>6, <1>7, <1>8, <1>9, <1>10, <1>11, <1>12, <1>13,
     <1>14, <1>15, <1>16 DEF Next

\* Every variable keeps its type: in particular _status_stream remembers records
\* only, never a failure, so that a store that comes back unchanged is told from
\* one that changed.
THEOREM StatusTypeCorrect == Spec => []TypeOK
<1>1. Spec => []TInv
  BY InitTyped, NextTyped, PTL DEF Spec
<1> QED
  BY <1>1, PTL DEF TInv

-------------------------------------------------------------------------------
\* A fetch under way stays under way, for the same annotation.
Kept == \A i \in DOMAIN fetches : \E j \in DOMAIN fetches' : fetches'[j].of = fetches[i].of

LEMMA LoadKeeps ==
    ASSUME TInv, NEW a \in Annotations \cup {NoId}, _load(a)
    PROVE  Kept
<1>1. CASE a = NoId
  BY <1>1 DEF _load, Kept
<1>2. CASE a # NoId
  <2>1. a \in Annotations /\ Fetch(a)
    BY <1>2 DEF _load
  <2> QED
    BY <2>1, FetchSends DEF TInv, Kept
<1> QED
  BY <1>1, <1>2

LEMMA AnswerKeeps ==
    ASSUME TInv, NEW s, get_status(s)
    PROVE  Kept
<1>1. s \in DOMAIN fetches
  BY DEF get_status, Answer, IsSent
<1>2. _query_sparql(fetches[s].of) \in Records \cup {Failure}
  BY <1>1, Halves, FetchTyped DEF TInv, _query_sparql, RestOK
<1> DEFINE r == _query_sparql(fetches[s].of)
<1>3. Answer(s, r)
  BY DEF get_status
<1> HIDE DEF r
<1>4. /\ DOMAIN fetches' = DOMAIN fetches
      /\ \A i \in DOMAIN fetches \ {s} : fetches'[i] = fetches[i]
      /\ fetches'[s] = Answered(fetches[s].of, r)
  BY <1>2, <1>3, AnswerGiven DEF TInv, r
<1> QED
  BY <1>1, <1>4 DEF Kept, Answered

\* The record of another annotation is on display only while a fetch of the
\* right one is under way, or after an older fetch came in last.
THEOREM ForeignCorrect == Spec => []ForeignRecordIsReplaced
<1>1. Init => ForeignRecordIsReplaced
  BY DEF Init, ForeignRecordIsReplaced
<1>2. TInv /\ ForeignRecordIsReplaced /\ [Next]_vars => ForeignRecordIsReplaced'
  <2> SUFFICES ASSUME TInv, ForeignRecordIsReplaced, [Next]_vars PROVE ForeignRecordIsReplaced'
    OBVIOUS
  <2>0. annotationId \in Annotations \cup {NoId} /\ NoId \notin Annotations
    BY Halves, StatusViewAssumption DEF TInv, RestOK
  <2>1. ASSUME Kept, UNCHANGED <<annotationId, shown, cause>> PROVE ForeignRecordIsReplaced'
    BY <2>1 DEF ForeignRecordIsReplaced, Kept
  <2>2. ASSUME UNCHANGED fetches PROVE Kept
    BY <2>2 DEF Kept
  <2>3. CASE \/ \E a \in Annotations : Written(a)
             \/ StoreFails \/ StoreRecovers \/ _status_stream \/ disconnectedCallback
             \/ onerror \/ _onSseError \/ (\E on \in BOOLEAN : liveChanged(on))
             \/ UNCHANGED vars
    <3>1. UNCHANGED fetches /\ UNCHANGED <<annotationId, shown, cause>>
      BY <2>3 DEF Written, StoreFails, StoreRecovers, _status_stream, disconnectedCallback,
           onerror, Broken, _onSseError, liveChanged, vars, liveVars, elementVars, viewVars
    <3> QED
      BY <2>1, <2>2, <3>1
  <2>4. ASSUME NEW s \in Slots, get_status(s) PROVE ForeignRecordIsReplaced'
    BY <2>1, <2>4, AnswerKeeps DEF get_status, elementVars, viewVars
  <2>5. CASE connectedCallback \/ Tick \/ retry
    <3>1. _load(annotationId) /\ annotationId' = annotationId
      BY <2>5 DEF connectedCallback, Tick, retry, elementVars
    <3> QED
      BY <2>0, <2>1, <3>1, LoadKeeps, LoadTyped
  <2>6. CASE onopen
    <3>1. source # "none" /\ Fetch(annotationId) /\ UNCHANGED <<annotationId, shown, cause>>
      BY <2>6 DEF onopen, Opened, elementVars, viewVars
    <3>2. annotationId \in Annotations
      BY <3>1 DEF TInv, SourceOK
    <3> QED
      BY <2>1, <3>1, <3>2, FetchSends DEF TInv, Kept
  <2>7. ASSUME NEW a \in Annotations \cup {NoId}, attributeChangedCallback(a)
        PROVE ForeignRecordIsReplaced'
    <3>1. annotationId' = a /\ (a # NoId => Fetch(a))
      BY <2>7 DEF attributeChangedCallback
    <3>2. CASE a = NoId
      BY <3>1, <3>2 DEF ForeignRecordIsReplaced
    <3>3. CASE a # NoId
      <4>1. /\ DOMAIN fetches' = DOMAIN fetches \cup {Len(fetches) + 1}
            /\ fetches'[Len(fetches) + 1] = Sent(a)
        BY <3>1, <3>3, FetchSends DEF TInv
      <4> QED
        BY <3>1, <4>1 DEF ForeignRecordIsReplaced, Sent
    <3> QED
      BY <3>2, <3>3
  <2>8. CASE _onSseStatus
    BY <2>8 DEF _onSseStatus, ForeignRecordIsReplaced, Data, elementVars
  <2>9. ASSUME NEW s \in Slots, Loaded(s) PROVE ForeignRecordIsReplaced'
    <3>1. annotationId' = annotationId
      BY <2>9 DEF Loaded, elementVars
    <3>2. CASE fetches[s].answer = Failure
      BY <2>9, <3>2 DEF Loaded, ForeignRecordIsReplaced, NoData
    <3>3. CASE fetches[s].answer # Failure
      BY <2>9, <3>1, <3>3 DEF Loaded, ForeignRecordIsReplaced, Data
    <3> QED
      BY <3>2, <3>3
  <2> QED
    BY <2>3, <2>4, <2>5, <2>6, <2>7, <2>8, <2>9 DEF Next
<1> QED
  BY <1>1, <1>2, InitTyped, NextTyped, PTL DEF Spec

-------------------------------------------------------------------------------
\* Nothing that is under way or on display is newer than the store's record.
AnswersBounded ==
    \A i \in DOMAIN fetches :
        fetches[i].stage = "answered" /\ fetches[i].answer # Failure =>
            fetches[i].answer <= store[fetches[i].of]
NewestBounded == annotationId \in Annotations => newest <= store[annotationId]
FramesBounded == \A i \in DOMAIN wire : wire[i].record <= store[annotationId]

Bounded == AnswersBounded /\ NewestBounded /\ FramesBounded

LEMMA StoreGrows ==
    ASSUME TInv, [Next]_vars
    PROVE  \A b \in Annotations : store[b] \in Nat /\ store'[b] \in Nat /\ store[b] <= store'[b]
<1>1. store \in [Annotations -> Records] /\ Records \subseteq Nat
  BY Halves, StatusViewAssumption DEF TInv, RestOK, Records
<1>2. ASSUME NEW a \in Annotations, Written(a)
      PROVE \A b \in Annotations : store[b] \in Nat /\ store'[b] \in Nat /\ store[b] <= store'[b]
  <2>1. store' \in [Annotations -> Records] /\ \A b \in Annotations : store[b] <= store'[b]
    BY <1>2, WriteIsNewest DEF TInv
  <2> QED
    BY <1>1, <2>1
<1>3. CASE UNCHANGED store
  <2>1. ASSUME NEW b \in Annotations PROVE store[b] \in Nat /\ store[b] <= store[b]
    <3>1. store[b] \in Records
      BY <1>1
    <3> QED
      BY <3>1, StatusViewAssumption DEF Records
  <2> QED
    BY <1>3, <2>1
<1>4. (\E a \in Annotations : Written(a)) \/ UNCHANGED store
  BY DEF Next, StoreFails, StoreRecovers, _status_stream, get_status, Loaded, connectedCallback,
         disconnectedCallback, attributeChangedCallback, liveChanged, onopen, onerror,
         _onSseStatus, _onSseError, Tick, retry, UserStep, vars, serverVars
<1> QED
  BY <1>2, <1>3, <1>4

LEMMA AnswersStayBounded ==
    ASSUME TInv, AnswersBounded, [Next]_vars,
           \A j \in DOMAIN fetches' :
               \/ \E k \in DOMAIN fetches : fetches[k] = fetches'[j]
               \/ fetches'[j].stage = "sent"
               \/ fetches'[j].answer \in {Failure, store'[fetches'[j].of]} /\ fetches'[j].of \in Annotations
    PROVE  AnswersBounded'
<1> SUFFICES ASSUME NEW j \in DOMAIN fetches', fetches'[j].stage = "answered",
                    fetches'[j].answer # Failure
             PROVE  fetches'[j].answer <= store'[fetches'[j].of]
  BY DEF AnswersBounded, Failure
<1>1. ASSUME NEW k \in DOMAIN fetches, fetches[k] = fetches'[j]
      PROVE fetches'[j].answer <= store'[fetches'[j].of]
  <2>1. fetches[k].of \in Annotations /\ fetches[k].answer \in Records \cup {Failure}
    BY <1>1, FetchTyped DEF TInv
  <2>2. fetches[k].answer <= store[fetches[k].of] /\ fetches[k].answer \in Nat
    BY <1>1, <2>1, StatusViewAssumption DEF AnswersBounded, Records
  <2>3. store[fetches[k].of] \in Nat /\ store'[fetches[k].of] \in Nat
        /\ store[fetches[k].of] <= store'[fetches[k].of]
    BY <2>1, StoreGrows
  <2> QED
    BY <1>1, <2>2, <2>3
<1>2. CASE fetches'[j].answer = store'[fetches'[j].of] /\ fetches'[j].of \in Annotations
  BY <1>2, StoreGrows
<1> QED
  BY <1>1, <1>2

LEMMA NextAnswers ==
    ASSUME TInv, AnswersBounded, [Next]_vars
    PROVE  AnswersBounded'
<1>1. CASE UNCHANGED fetches
  BY <1>1, AnswersStayBounded
<1>2. ASSUME NEW a \in Annotations, Fetch(a) PROVE AnswersBounded'
  <2>1. /\ DOMAIN fetches' = DOMAIN fetches \cup {Len(fetches) + 1}
        /\ \A i \in DOMAIN fetches : fetches'[i] = fetches[i]
        /\ fetches'[Len(fetches) + 1] = Sent(a)
    BY <1>2, FetchSends DEF TInv
  <2>2. fetches'[Len(fetches) + 1].stage = "sent"
    BY <2>1 DEF Sent
  <2> QED
    BY <2>1, <2>2, AnswersStayBounded
<1>3. ASSUME NEW s \in Slots, get_status(s) PROVE AnswersBounded'
  <2>1. s \in DOMAIN fetches /\ UNCHANGED store
    BY <1>3 DEF get_status, Answer, IsSent, serverVars
  <2>2. fetches[s].of \in Annotations /\ store \in [Annotations -> Records]
    BY <2>1, Halves, FetchTyped DEF TInv, RestOK
  <2> DEFINE r == _query_sparql(fetches[s].of)
  <2>3. Answer(s, r)
    BY <1>3 DEF get_status
  <2>4. r \in {Failure, store[fetches[s].of]} /\ r \in Records \cup {Failure}
    BY <2>2 DEF _query_sparql
  <2> HIDE DEF r
  <2>5. /\ DOMAIN fetches' = DOMAIN fetches
        /\ \A i \in DOMAIN fetches \ {s} : fetches'[i] = fetches[i]
        /\ fetches'[s] = Answered(fetches[s].of, r)
    BY <2>3, <2>4, AnswerGiven DEF TInv
  <2>6. fetches'[s].of = fetches[s].of /\ fetches'[s].answer = r
    BY <2>5 DEF Answered
  <2>7. fetches'[s].answer \in {Failure, store'[fetches'[s].of]} /\ fetches'[s].of \in Annotations
    BY <2>1, <2>2, <2>4, <2>6
  <2> QED
    BY <2>1, <2>5, <2>7, AnswersStayBounded
<1>4. ASSUME NEW s \in Slots, Loaded(s) PROVE AnswersBounded'
  BY <1>4, ArrivalTakes, AnswersStayBounded DEF TInv, Loaded
<1>5. ASSUME NEW a \in Annotations \cup {NoId}, _load(a) PROVE AnswersBounded'
  BY <1>1, <1>2, <1>5 DEF _load
<1>6. annotationId \in Annotations \cup {NoId} /\ (source # "none" => annotationId \in Annotations)
  BY Halves DEF TInv, RestOK, SourceOK
<1>7. \/ UNCHANGED fetches
      \/ \E a \in Annotations : Fetch(a)
      \/ \E a \in Annotations \cup {NoId} : _load(a)
      \/ \E s \in Slots : get_status(s) \/ Loaded(s)
  BY <1>6 DEF Next, Written, StoreFails, StoreRecovers, _status_stream, connectedCallback,
         disconnectedCallback, attributeChangedCallback, liveChanged, onopen, Opened, onerror,
         Broken, _onSseStatus, _onSseError, Tick, retry, vars, liveVars
<1> QED
  BY <1>1, <1>2, <1>3, <1>4, <1>5, <1>7

LEMMA NextBounded ==
    ASSUME TInv, Bounded, [Next]_vars
    PROVE  Bounded'
<1>0. /\ AnswersBounded /\ NewestBounded /\ FramesBounded
      /\ annotationId \in Annotations \cup {NoId} /\ NoId \notin Annotations
      /\ newest \in Nat
      /\ source # "none" => annotationId \in Annotations
      /\ wire # << >> => source = "open"
      /\ store \in [Annotations -> Records]
  BY Halves, StatusViewAssumption DEF TInv, RestOK, SourceOK, Bounded, Records
<1>1. AnswersBounded'
  BY <1>0, NextAnswers
<1>g. \A b \in Annotations : store[b] \in Nat /\ store'[b] \in Nat /\ store[b] <= store'[b]
  BY StoreGrows
<1>2. ASSUME UNCHANGED <<newest, annotationId>> PROVE NewestBounded'
  BY <1>0, <1>g, <1>2 DEF NewestBounded
<1>3. ASSUME UNCHANGED <<wire, annotationId>> PROVE FramesBounded'
  <2> SUFFICES ASSUME NEW i \in DOMAIN wire PROVE wire[i].record <= store'[annotationId]
    BY <1>3 DEF FramesBounded
  <2>1. wire # << >>
    BY Halves DEF TInv, LiveOK
  <2>2. wire[i].record \in Nat /\ wire[i].record <= store[annotationId]
    BY <1>0, FrameTyped, StatusViewAssumption DEF TInv, FramesBounded, Records
  <2> QED
    BY <1>0, <1>g, <2>1, <2>2
<1>4. ASSUME wire' = << >> PROVE FramesBounded'
  BY <1>4 DEF FramesBounded
<1>5. CASE \/ \E a \in Annotations : Written(a)
           \/ StoreFails \/ StoreRecovers \/ Tick \/ retry \/ UNCHANGED vars
           \/ \E s \in Slots : get_status(s)
  <2>1. /\ UNCHANGED <<wire, annotationId>>
        /\ newest' = newest
    BY <1>0, <1>5, LoadTyped DEF Written, StoreFails, StoreRecovers, get_status, Answer, Tick, retry,
       vars, liveVars, elementVars, viewVars
  <2> QED
    BY <1>1, <1>2, <1>3, <2>1 DEF Bounded
<1>6. CASE _status_stream
  <2>1. UNCHANGED <<newest, annotationId, store>> /\ source = "open"
    BY <1>6 DEF _status_stream, elementVars, viewVars
  <2>2. annotationId \in Annotations /\ store[annotationId] \in Records
    BY <1>0, <2>1
  <2>3. \E f \in FrameSet : Yield(f) /\ f.record \in {0, store[annotationId]}
    <3>1. \/ Yield(ErrorFrame)
          \/ Yield(StatusFrame(store[annotationId]))
      BY <1>6 DEF _status_stream
    <3>2. ErrorFrame \in FrameSet /\ StatusFrame(store[annotationId]) \in FrameSet
      BY <2>2 DEF FrameSet
    <3>3. ErrorFrame.record = 0 /\ StatusFrame(store[annotationId]).record = store[annotationId]
      BY DEF ErrorFrame, StatusFrame
    <3> QED
      BY <3>1, <3>2, <3>3
  <2>4. PICK f \in FrameSet : Yield(f) /\ f.record \in {0, store[annotationId]}
    BY <2>3
  <2>5. /\ DOMAIN wire' = DOMAIN wire \cup {Len(wire) + 1}
        /\ \A i \in DOMAIN wire : wire'[i] = wire[i]
        /\ wire'[Len(wire) + 1] = f
    BY <2>4, FrameYielded DEF TInv
  <2>6. f.record <= store[annotationId]
    BY <1>g, <2>2, <2>4
  <2>7. FramesBounded'
    BY <1>0, <2>1, <2>5, <2>6 DEF FramesBounded
  <2> QED
    BY <1>1, <1>2, <2>1, <2>7 DEF Bounded
<1>7. CASE connectedCallback \/ disconnectedCallback \/ (\E on \in BOOLEAN : liveChanged(on))
  <2>1. UNCHANGED <<newest, annotationId>>
    BY <1>0, <1>7, LoadTyped DEF connectedCallback, disconnectedCallback, liveChanged, viewVars
  <2>2. UNCHANGED wire \/ wire' = << >>
    BY <1>7 DEF connectedCallback, disconnectedCallback, liveChanged, _startLive, Start, Stop
  <2> QED
    BY <1>1, <1>2, <1>3, <1>4, <2>1, <2>2 DEF Bounded
<1>8. ASSUME NEW a \in Annotations \cup {NoId}, attributeChangedCallback(a) PROVE Bounded'
  <2>1. /\ annotationId' = a /\ UNCHANGED store
        /\ newest' = (IF a = annotationId THEN newest ELSE 0)
        /\ _startLive(a, live)
    BY <1>8 DEF attributeChangedCallback, UserStep
  <2>2. live \in BOOLEAN /\ (~live => source = "none")
    BY Halves DEF TInv, RestOK, SourceOK
  <2>3. wire' = << >>
    BY <2>1, <2>2, StartTyped
  <2>4. NewestBounded'
    BY <1>0, <1>g, <2>1 DEF NewestBounded
  <2> QED
    BY <1>1, <1>4, <2>3, <2>4 DEF Bounded
<1>9. CASE onopen \/ onerror
  <2>1. UNCHANGED <<newest, annotationId>> /\ wire' = << >>
    BY <1>9 DEF onopen, Opened, onerror, Broken, elementVars, viewVars
  <2> QED
    BY <1>1, <1>2, <1>4, <2>1 DEF Bounded
<1>10. CASE _onSseStatus \/ _onSseError
  <2>1. Dispatched /\ UNCHANGED <<annotationId, store>>
    BY <1>10 DEF _onSseStatus, _onSseError, serverVars, elementVars
  <2>2. /\ DOMAIN wire = 1 .. Len(wire) /\ DOMAIN wire' = 1 .. Len(wire) - 1 /\ Len(wire) \in Nat
        /\ \A i \in 1 .. Len(wire) - 1 : wire'[i] = wire[i + 1]
        /\ Head(wire) = wire[1] /\ wire # << >> /\ Len(wire) > 0
    BY <2>1, FrameDispatched DEF TInv
  <2>3. FramesBounded'
    <3> SUFFICES ASSUME NEW i \in 1 .. Len(wire) - 1 PROVE wire'[i].record <= store'[annotationId']
      BY <2>2 DEF FramesBounded
    <3>1. i + 1 \in DOMAIN wire
      BY <2>2
    <3> QED
      BY <1>0, <2>1, <2>2, <3>1 DEF FramesBounded
  <2>4. NewestBounded'
    <3>1. 1 \in DOMAIN wire /\ annotationId \in Annotations
      BY <1>0, <2>2
    <3>2. wire[1].record <= store[annotationId] /\ newest <= store[annotationId]
      BY <1>0, <3>1 DEF FramesBounded, NewestBounded
    <3>3. newest' \in {newest, Newer(newest, wire[1].record)}
      BY <1>10, <2>2 DEF _onSseStatus, _onSseError
    <3> QED
      BY <2>1, <3>2, <3>3 DEF NewestBounded, Newer
  <2> QED
    BY <1>1, <2>3, <2>4 DEF Bounded
<1>11. ASSUME NEW s \in Slots, Loaded(s) PROVE Bounded'
  <2>1. Arrive(s) /\ UNCHANGED <<wire, annotationId, store>>
    BY <1>11 DEF Loaded, Arrive, serverVars, elementVars
  <2>2. s \in DOMAIN fetches /\ fetches[s].stage = "answered"
    BY <2>1, ArrivalTakes DEF TInv
  <2>3. \/ newest' = newest
        \/ /\ fetches[s].answer # Failure /\ fetches[s].of = annotationId
           /\ newest' = Newer(newest, fetches[s].answer)
    BY <1>11 DEF Loaded
  <2>4. NewestBounded'
    <3>1. CASE newest' = newest
      BY <1>2, <2>1, <3>1
    <3>2. CASE /\ fetches[s].answer # Failure /\ fetches[s].of = annotationId
               /\ newest' = Newer(newest, fetches[s].answer)
      <4>1. fetches[s].answer <= store[annotationId]
        BY <1>0, <2>2, <3>2 DEF AnswersBounded
      <4> QED
        BY <1>0, <2>1, <3>2, <4>1 DEF NewestBounded, Newer
    <3> QED
      BY <2>3, <3>1, <3>2
  <2> QED
    BY <1>1, <1>3, <2>1, <2>4 DEF Bounded
<1> QED
  BY <1>5, <1>6, <1>7, <1>8, <1>9, <1>10, <1>11 DEF Next

-------------------------------------------------------------------------------
\* The last record pushed on the open stream: with errors at most behind it in
\* the wire, or rendered, and what was rendered since was no older, a failure,
\* or an overtaken answer.
Coming ==
    \E i \in DOMAIN wire :
        /\ wire[i] = StatusFrame(last)
        /\ \A j \in DOMAIN wire : j > i => wire[j].event = "error"
OnlyErrors == \A j \in DOMAIN wire : wire[j].event = "error"
Displayed ==
    /\ newest >= last
    /\ error # "none" => ticker \/ cause = "failed"
    /\ \/ cause \in {"failed", "overtaken"}
       \/ cause = "frame" /\ shown = Data(annotationId, last)
       \/ cause = "fetch" /\ shown = Data(annotationId, newest)

StreamOK ==
    source = "open" /\ last # NothingPushed =>
        last <= store[annotationId] /\ (Coming \/ (OnlyErrors /\ Displayed))

\* A step that leaves no open stream, or one that has pushed nothing.
LEMMA NewStream ==
    ASSUME TInv, \/ connectedCallback \/ disconnectedCallback \/ onopen \/ onerror
                 \/ \E a \in Annotations \cup {NoId} : attributeChangedCallback(a)
                 \/ \E on \in BOOLEAN : liveChanged(on)
    PROVE  source' # "open" \/ last' = NothingPushed
<1>0. /\ annotationId \in Annotations \cup {NoId} /\ live \in BOOLEAN
      /\ ~live => source = "none"
  BY Halves DEF TInv, RestOK, SourceOK
<1>1. CASE connectedCallback
  BY <1>0, <1>1, StartTyped DEF connectedCallback
<1>2. CASE disconnectedCallback
  BY <1>2 DEF disconnectedCallback, Stop
<1>3. CASE onopen
  BY <1>3 DEF onopen, status_events
<1>4. CASE onerror
  BY <1>4 DEF onerror, Broken
<1>5. ASSUME NEW a \in Annotations \cup {NoId}, attributeChangedCallback(a)
      PROVE source' # "open" \/ last' = NothingPushed
  BY <1>0, <1>5, StartTyped DEF attributeChangedCallback
<1>6. ASSUME NEW on \in BOOLEAN, liveChanged(on)
      PROVE source' # "open" \/ last' = NothingPushed
  <2>1. CASE on
    <3>1. _startLive(annotationId, TRUE)
      BY <1>6, <2>1 DEF liveChanged
    <3> QED
      BY <1>0, <3>1, StartTyped
  <2>2. CASE ~on
    BY <1>6, <2>2 DEF liveChanged, Stop
  <2> QED
    BY <2>1, <2>2
<1> QED
  BY <1>1, <1>2, <1>3, <1>4, <1>5, <1>6

LEMMA NextStream ==
    ASSUME TInv, Bounded, StreamOK, [Next]_vars
    PROVE  StreamOK'
<1> SUFFICES ASSUME source' = "open", last' # NothingPushed
             PROVE  last' <= store'[annotationId'] /\ (Coming' \/ (OnlyErrors' /\ Displayed'))
  BY DEF StreamOK, NothingPushed
<1>0. /\ source # "none" => annotationId \in Annotations
      /\ newest \in Nat /\ last \in Records \cup {NothingPushed} /\ Records \subseteq Nat
      /\ store \in [Annotations -> Records]
  BY Halves, StatusViewAssumption DEF TInv, RestOK, SourceOK, Records
<1>g. \A b \in Annotations : store[b] \in Nat /\ store'[b] \in Nat /\ store[b] <= store'[b]
  BY StoreGrows
<1>h. ASSUME source = "open", UNCHANGED <<last, annotationId>>
      PROVE  last' <= store'[annotationId'] /\ (Coming \/ (OnlyErrors /\ Displayed))
             /\ annotationId \in Annotations /\ last \in Nat
  BY <1>0, <1>g, <1>h DEF StreamOK
<1>1. CASE \/ connectedCallback \/ disconnectedCallback \/ onopen \/ onerror
           \/ \E a \in Annotations \cup {NoId} : attributeChangedCallback(a)
           \/ \E on \in BOOLEAN : liveChanged(on)
  BY <1>1, NewStream
<1>2. CASE \/ \E a \in Annotations : Written(a)
           \/ StoreFails \/ StoreRecovers \/ Tick \/ retry \/ UNCHANGED vars
           \/ \E s \in Slots : get_status(s)
  <2>1. UNCHANGED <<source, wire, ticker, last, annotationId>>
    BY <1>2 DEF Written, StoreFails, StoreRecovers, Tick, retry, get_status, Answer, vars,
       liveVars, serverVars, elementVars
  <2>2. annotationId # NoId
    BY <1>h, <2>1, StatusViewAssumption
  <2>3. UNCHANGED viewVars
    BY <1>2, <2>2 DEF Written, StoreFails, StoreRecovers, Tick, retry, _load, get_status, vars
  <2> QED
    BY <1>h, <2>1, <2>3 DEF Coming, OnlyErrors, Displayed, StatusFrame, Data, viewVars
<1>3. CASE _status_stream
  <2>1. /\ UNCHANGED <<ticker, store, elementVars, viewVars>> /\ source = "open"
    BY <1>3 DEF _status_stream
  <2>2. annotationId \in Annotations /\ annotationId' = annotationId
    BY <1>0, <2>1 DEF elementVars
  <2>3. CASE Yield(ErrorFrame) /\ last' = last
    <3>1. ErrorFrame \in FrameSet /\ ErrorFrame.event = "error"
      BY DEF FrameSet, ErrorFrame
    <3>2. /\ DOMAIN wire' = DOMAIN wire \cup {Len(wire) + 1}
          /\ \A i \in DOMAIN wire : wire'[i] = wire[i]
          /\ wire'[Len(wire) + 1].event = "error"
      BY <2>3, <3>1, FrameYielded DEF TInv
    <3>3. last' <= store'[annotationId'] /\ (Coming \/ (OnlyErrors /\ Displayed))
      BY <1>h, <2>1, <2>2, <2>3
    <3>4. CASE Coming
      BY <2>3, <3>2, <3>3, <3>4 DEF Coming, StatusFrame
    <3>5. CASE OnlyErrors /\ Displayed
      <4>1. OnlyErrors'
        BY <3>2, <3>5 DEF OnlyErrors
      <4>2. Displayed'
        BY <2>1, <2>2, <2>3, <3>5 DEF Displayed, Data, viewVars
      <4> QED
        BY <3>3, <4>1, <4>2
    <3> QED
      BY <3>3, <3>4, <3>5
  <2>4. CASE last' = store[annotationId] /\ Yield(StatusFrame(store[annotationId]))
    <3> DEFINE f == StatusFrame(store[annotationId])
    <3>1. f \in FrameSet /\ Yield(f)
      BY <1>0, <2>2, <2>4 DEF FrameSet
    <3>2. f = StatusFrame(last)'
      BY <2>4 DEF StatusFrame
    <3> HIDE DEF f
    <3>3. /\ DOMAIN wire' = DOMAIN wire \cup {Len(wire) + 1} /\ DOMAIN wire = 1 .. Len(wire)
          /\ wire'[Len(wire) + 1] = f /\ Len(wire) \in Nat
      BY <3>1, FrameYielded DEF TInv
    <3>4. \A j \in DOMAIN wire' : ~(j > Len(wire) + 1)
      BY <3>3
    <3>5. Coming'
      BY <3>2, <3>3, <3>4 DEF Coming
    <3>6. last' <= store'[annotationId']
      BY <1>g, <2>1, <2>2, <2>4
    <3> QED
      BY <3>5, <3>6
  <2> QED
    BY <1>3, <2>3, <2>4 DEF _status_stream
<1>4. CASE _onSseStatus \/ _onSseError
  <2>1. Dispatched /\ UNCHANGED <<annotationId, store, last>>
    BY <1>4 DEF _onSseStatus, _onSseError, serverVars, elementVars
  <2>2. /\ DOMAIN wire = 1 .. Len(wire) /\ DOMAIN wire' = 1 .. Len(wire) - 1 /\ Len(wire) \in Nat
        /\ \A i \in 1 .. Len(wire) - 1 : wire'[i] = wire[i + 1]
        /\ Head(wire) = wire[1] /\ wire # << >> /\ Len(wire) > 0 /\ source' = source
    BY <2>1, FrameDispatched DEF TInv
  <2>3. last' <= store'[annotationId'] /\ (Coming \/ (OnlyErrors /\ Displayed)) /\ last \in Nat
    BY <1>h, <2>1, <2>2
  <2>4. ASSUME NEW i \in DOMAIN wire, wire[i] = StatusFrame(last), i # 1,
               \A j \in DOMAIN wire : j > i => wire[j].event = "error"
        PROVE  Coming'
    <3>1. i - 1 \in DOMAIN wire' /\ wire'[i - 1] = wire[i]
      BY <2>2, <2>4
    <3>2. \A j \in DOMAIN wire' : j > i - 1 => wire'[j].event = "error"
      <4> SUFFICES ASSUME NEW j \in DOMAIN wire', j > i - 1 PROVE wire'[j].event = "error"
        OBVIOUS
      <4>1. j + 1 \in DOMAIN wire /\ j + 1 > i /\ wire'[j] = wire[j + 1]
        BY <2>2
      <4> QED
        BY <2>4, <4>1
    <3> QED
      BY <2>1, <2>4, <3>1, <3>2 DEF Coming, StatusFrame
  <2>5. ASSUME \A j \in DOMAIN wire : j > 1 => wire[j].event = "error"
        PROVE  OnlyErrors'
    <3> SUFFICES ASSUME NEW j \in DOMAIN wire' PROVE wire'[j].event = "error"
      BY DEF OnlyErrors
    <3>1. j + 1 \in DOMAIN wire /\ j + 1 > 1 /\ wire'[j] = wire[j + 1]
      BY <2>2
    <3> QED
      BY <2>5, <3>1
  <2>6. 1 \in DOMAIN wire
    BY <2>2
  <2>7. CASE _onSseStatus
    <3>1. /\ wire[1].event = "status" /\ error' = "none" /\ cause' = "frame"
          /\ newest' = Newer(newest, wire[1].record)
          /\ shown' = Data(annotationId, wire[1].record)
      BY <2>2, <2>7 DEF _onSseStatus
    <3>2. Coming
      BY <2>3, <2>6, <3>1 DEF OnlyErrors
    <3>3. PICK i \in DOMAIN wire : /\ wire[i] = StatusFrame(last)
                                   /\ \A j \in DOMAIN wire : j > i => wire[j].event = "error"
      BY <3>2 DEF Coming
    <3>4. CASE i # 1
      BY <2>3, <2>4, <3>3, <3>4
    <3>5. CASE i = 1
      <4>1. wire[1].record = last
        BY <3>3, <3>5 DEF StatusFrame
      <4>2. Displayed'
        BY <1>0, <2>1, <2>3, <3>1, <4>1 DEF Displayed, Newer, Data
      <4> QED
        BY <2>3, <2>5, <3>3, <3>5, <4>2
    <3> QED
      BY <3>4, <3>5
  <2>8. CASE _onSseError
    <3>1. /\ wire[1].event = "error" /\ error' = "live" /\ ticker' = TRUE
          /\ UNCHANGED <<shown, newest, cause>>
      BY <2>2, <2>8 DEF _onSseError
    <3>2. CASE Coming
      <4>1. PICK i \in DOMAIN wire : /\ wire[i] = StatusFrame(last)
                                     /\ \A j \in DOMAIN wire : j > i => wire[j].event = "error"
        BY <3>2 DEF Coming
      <4>2. i # 1
        BY <3>1, <4>1 DEF StatusFrame
      <4> QED
        BY <2>3, <2>4, <4>1, <4>2
    <3>3. CASE OnlyErrors /\ Displayed
      <4>1. OnlyErrors'
        BY <2>5, <3>3 DEF OnlyErrors
      <4>2. Displayed'
        BY <2>1, <3>1, <3>3 DEF Displayed, Data
      <4> QED
        BY <2>3, <4>1, <4>2
    <3> QED
      BY <2>3, <3>2, <3>3
  <2> QED
    BY <1>4, <2>7, <2>8
<1>5. ASSUME NEW s \in Slots, Loaded(s)
      PROVE last' <= store'[annotationId'] /\ (Coming' \/ (OnlyErrors' /\ Displayed'))
  <2>1. /\ UNCHANGED <<source, wire, ticker, last, annotationId, store>> /\ Arrive(s)
    BY <1>5 DEF Loaded, Arrive, serverVars, elementVars
  <2>2. /\ last' <= store'[annotationId'] /\ (Coming \/ (OnlyErrors /\ Displayed))
        /\ last \in Nat
    BY <1>h, <2>1
  <2>3. CASE Coming
    BY <2>1, <2>2, <2>3 DEF Coming, StatusFrame
  <2>4. CASE OnlyErrors /\ Displayed
    <3>1. OnlyErrors'
      BY <2>1, <2>4 DEF OnlyErrors
    <3>2. CASE fetches[s].answer = Failure
      <4>1. cause' = "failed" /\ newest' = newest
        BY <1>5, <3>2 DEF Loaded
      <4>2. Displayed'
        BY <2>1, <2>4, <4>1 DEF Displayed
      <4> QED
        BY <2>2, <3>1, <4>2
    <3>3. CASE fetches[s].answer # Failure
      <4>1. fetches[s].answer \in Nat
        BY <2>1, <3>3, <1>0, ArrivalTakes, FetchTyped DEF TInv
      <4>2. /\ error' = "none" /\ shown' = Data(fetches[s].of, fetches[s].answer)
            /\ cause' = (IF fetches[s].of # annotationId \/ fetches[s].answer < newest
                         THEN "overtaken" ELSE "fetch")
            /\ newest' = (IF fetches[s].of = annotationId
                          THEN Newer(newest, fetches[s].answer) ELSE newest)
        BY <1>5, <3>3 DEF Loaded
      <4>3. newest' >= last'
        BY <1>0, <2>1, <2>2, <2>4, <4>1, <4>2 DEF Displayed, Newer
      <4>4. CASE cause' = "overtaken"
        BY <2>2, <3>1, <4>2, <4>3, <4>4 DEF Displayed
      <4>5. CASE cause' # "overtaken"
        <5>1. cause' = "fetch" /\ fetches[s].of = annotationId /\ newest' = fetches[s].answer
          BY <1>0, <4>1, <4>2, <4>5 DEF Newer
        <5>2. Displayed'
          BY <2>1, <4>2, <4>3, <5>1 DEF Displayed, Data
        <5> QED
          BY <2>2, <3>1, <5>2
      <4> QED
        BY <4>4, <4>5
    <3> QED
      BY <3>2, <3>3
  <2> QED
    BY <2>2, <2>3, <2>4
<1> QED
  BY <1>1, <1>2, <1>3, <1>4, <1>5 DEF Next

\* A widget at rest shows the record of the store, without an error, or what was
\* rendered last was a fetch that failed or had been overtaken: the status
\* stream's change detection, the error frames and the ticker lose nothing.
THEOREM RestCorrect == Spec => []RestIsFresh
<1>1. Init => Bounded /\ StreamOK
  <2> SUFFICES ASSUME Init PROVE Bounded /\ StreamOK
    OBVIOUS
  <2>1. fetches = << >> /\ wire = << >> /\ source = "none" /\ annotationId = NoId
    BY DEF Init, LiveInit
  <2> QED
    BY <2>1, StatusViewAssumption DEF Bounded, AnswersBounded, NewestBounded, FramesBounded, StreamOK
<1>2. TInv /\ Bounded /\ StreamOK => RestIsFresh
  <2> SUFFICES ASSUME TInv, Bounded, StreamOK, AtRest, cause \notin {"failed", "overtaken"}
               PROVE  Fresh
    BY DEF RestIsFresh
  <2>1. /\ source = "open" /\ wire = << >> /\ last = store[annotationId] /\ ~ticker
        /\ annotationId # NoId
    BY DEF AtRest, Watching
  <2>2. annotationId \in Annotations /\ store[annotationId] \in Nat /\ newest \in Nat
    BY <2>1, Halves, StatusViewAssumption DEF TInv, RestOK, Records
  <2>3. last # NothingPushed
    BY <2>1, <2>2 DEF NothingPushed
  <2>4. Displayed
    BY <2>1, <2>3 DEF StreamOK, Coming
  <2>5. newest = last
    BY <2>1, <2>2, <2>4 DEF Bounded, NewestBounded, Displayed
  <2> QED
    BY <2>1, <2>4, <2>5 DEF Displayed, Fresh
<1>3. Spec => [](TInv /\ Bounded /\ StreamOK)
  <2>1. TInv /\ Bounded /\ StreamOK /\ [Next]_vars => (TInv /\ Bounded /\ StreamOK)'
    BY NextTyped, NextBounded, NextStream
  <2> QED
    BY <1>1, <2>1, InitTyped, PTL DEF Spec
<1> QED
  BY <1>2, <1>3, PTL
===============================================================================
