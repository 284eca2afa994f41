--------------------------- MODULE PortalViewProofs ---------------------------
(***************************************************************************)
(* A page at rest shows the registry, or its last fetch failed or was      *)
(* overtaken, or its stream was evicted: for queues of any size and any    *)
(* number of changes, streams, failures, frames and fetches under way.     *)
(*                                                                         *)
(* The argument follows the latest change: it is still to be announced, or *)
(* its event is in the queue or in the wire, or the last fetch sent was    *)
(* sent late enough to bring it, or that fetch is back (CurrentInv).       *)
(***************************************************************************)
EXTENDS PortalView, DataLemmas, TLAPS

FetchSet == {Sent(Everything)} \cup {Reading(c) : c \in Versions}
                \cup {Answered(Everything, r) : r \in Registries}

\* The types by what they are about.
RegistryOK ==
    /\ candidates \in Versions /\ reputation \in Versions
    /\ rewarding \in Versions /\ announcing \in Versions
    /\ reputation + rewarding <= MaxDecisions
    /\ announcing + rewarding <= candidates

BusOK ==
    /\ subscribers \subseteq Connections
    /\ queue \in [Connections -> Seq({Event})]
    /\ \A c \in Connections : Len(queue[c]) <= MaxQueue
    /\ stream \in [Connections -> {"unused", "subscribed", "streaming", "ended"}]
    /\ connection \in Connections \cup {0}
    /\ started \subseteq Connections

\* Only a request behind the EventSource makes its stream open.
SourceOK ==
    /\ source \in {"none", "connecting", "open", "closed"}
    /\ wire \in Seq({Event})
    /\ ticker \in BOOLEAN
    /\ source = "open" => connection # 0

FetchesOK == fetches \in Seq(FetchSet) /\ late \in 0 .. Len(fetches)

PageOK ==
    /\ shown \in Registries
    /\ cause \in {"nothing", "fetch", "failed", "overtaken"}
    /\ upsets \in 0 .. MaxUpsets

TInv == RegistryOK /\ BusOK /\ SourceOK /\ FetchesOK /\ PageOK

LEMMA TypesFollow == TInv => TypeOK
  BY DEF TInv, TypeOK, RegistryOK, BusOK, SourceOK, FetchesOK, PageOK, FetchSet

-------------------------------------------------------------------------------
LEMMA InitTyped == Init => TInv
<1> SUFFICES ASSUME Init PROVE TInv
  OBVIOUS
<1>1. RegistryOK /\ PageOK /\ SourceOK
  <2>1. RegistryOK
    BY PortalViewAssumption DEF Init, RegistryOK, Versions
  <2>2. PageOK
    BY PortalViewAssumption DEF Init, PageOK, Versions, Registries, Registry
  <2>3. SourceOK
    <3>1. << >> \in Seq({Event})
      OBVIOUS
    <3> QED
      BY <3>1 DEF Init, SourceOK
  <2> QED
    BY <2>1, <2>2, <2>3
<1>2. BusOK
  BY PortalViewAssumption DEF Init, BusOK
<1>3. FetchesOK
  <2>1. Sent(Everything) \in FetchSet
    BY DEF FetchSet
  <2> DEFINE e == Sent(Everything)
  <2> HIDE DEF e, FetchSet
  <2>2. <<e>> \in Seq(FetchSet) /\ Len(<<e>>) = 1
    BY <2>1 DEF e
  <2>3. fetches = <<e>> /\ late = 0
    BY DEF Init, e
  <2> QED
    BY <2>2, <2>3 DEF FetchesOK
<1> QED
  BY <1>1, <1>2, <1>3 DEF TInv

LEMMA RegistryTyped == RegistryOK /\ [Next]_vars => RegistryOK'
<1> SUFFICES ASSUME RegistryOK, [Next]_vars PROVE RegistryOK'
  OBVIOUS
<1> USE PortalViewAssumption DEF RegistryOK, Versions
<1>1. CASE Change
  BY <1>1 DEF Change
<1>2. CASE _set_status
  BY <1>2 DEF _set_status
<1>3. CASE _apply_reputation
  BY <1>3 DEF _apply_reputation
<1>4. CASE _broadcast
  BY <1>4 DEF _broadcast
<1>5. CASE UNCHANGED registryVars
  BY <1>5 DEF registryVars
<1> QED
  BY <1>1, <1>2, <1>3, <1>4, <1>5
     DEF Next, vars, registryVars, events, StreamStarts, StreamEnds, StreamYields,
         _public_state, list_candidates, loadCandidates, loadFails, Returned,
         startLiveUpdates, stopLiveUpdates, refresh, onOpen, onerror, onEvent, fallback

\* One event more in every queue that has room; the others are no longer subscribed.
LEMMA Enqueued ==
    ASSUME BusOK, Enqueue
    PROVE  /\ queue' \in [Connections -> Seq({Event})]
           /\ \A c \in Connections : Len(queue'[c]) <= MaxQueue
           /\ subscribers' \subseteq subscribers
           /\ \A c \in subscribers' : queue'[c] # << >>
<1> DEFINE full == {c \in subscribers : Len(queue[c]) = MaxQueue}
<1>1. /\ subscribers' = subscribers \ full
      /\ queue' = [c \in Connections |->
                    IF c \in subscribers \ full THEN Append(queue[c], Event) ELSE queue[c]]
  BY DEF Enqueue
<1>2. ASSUME NEW c \in Connections
      PROVE  /\ queue'[c] \in Seq({Event}) /\ Len(queue'[c]) <= MaxQueue
             /\ c \in subscribers' => queue'[c] # << >>
  <2>1. queue[c] \in Seq({Event}) /\ Len(queue[c]) <= MaxQueue
    BY DEF BusOK
  <2>2. CASE c \in subscribers \ full
    <3>1. queue'[c] = Append(queue[c], Event) /\ Len(queue[c]) # MaxQueue
      BY <1>1, <2>2
    <3> DEFINE q == queue[c]
               r == queue'[c]
    <3> HIDE DEF q, r
    <3>2. r = Append(q, Event) /\ q \in Seq({Event}) /\ Len(q) <= MaxQueue /\ Len(q) # MaxQueue
      BY <2>1, <3>1 DEF q, r
    <3>3. r \in Seq({Event}) /\ Len(r) = Len(q) + 1 /\ Len(q) \in Nat
      BY <3>2
    <3>4. Len(r) <= MaxQueue /\ r # << >>
      BY <3>2, <3>3, PortalViewAssumption
    <3> QED
      BY <3>3, <3>4 DEF r
  <2>3. CASE c \notin subscribers \ full
    BY <1>1, <2>1, <2>3
  <2> QED
    BY <2>2, <2>3
<1>3. queue' \in [Connections -> Seq({Event})]
  BY <1>1, <1>2
<1> QED
  BY <1>1, <1>2, <1>3 DEF BusOK

\* Cutting the front of one queue keeps the queues as they should be.
LEMMA Dequeued ==
    ASSUME BusOK, NEW c \in Connections, NEW q \in Seq({Event}), Len(q) <= Len(queue[c]),
           queue' = [queue EXCEPT ![c] = q]
    PROVE  /\ queue' \in [Connections -> Seq({Event})]
           /\ \A d \in Connections : Len(queue'[d]) <= MaxQueue
<1>1. queue' \in [Connections -> Seq({Event})]
  BY DEF BusOK
<1>2. ASSUME NEW d \in Connections PROVE Len(queue'[d]) <= MaxQueue
  <2>1. queue[c] \in Seq({Event}) /\ Len(queue[c]) <= MaxQueue /\ Len(queue[d]) <= MaxQueue
    BY DEF BusOK
  <2>2. Len(queue[c]) \in Nat /\ Len(q) \in Nat /\ MaxQueue \in Nat
    BY <2>1, PortalViewAssumption
  <2>3. Len(q) <= MaxQueue
    BY <2>1, <2>2
  <2>4. queue'[d] = IF d = c THEN q ELSE queue[d]
    BY DEF BusOK
  <2> QED
    BY <2>1, <2>3, <2>4
<1> QED
  BY <1>1, <1>2

LEMMA BusTyped == BusOK /\ SourceOK /\ [Next]_vars => BusOK'
<1> SUFFICES ASSUME BusOK, SourceOK, [Next]_vars PROVE BusOK'
  OBVIOUS
<1>1. CASE _broadcast
  <2>1. Enqueue /\ UNCHANGED <<stream, started, connection>>
    BY <1>1 DEF _broadcast
  <2> QED
    BY <2>1, Enqueued DEF BusOK
<1>2. ASSUME NEW c \in Connections, events(c) PROVE BusOK'
  BY <1>2 DEF events, _subscribe, BusOK
<1>3. ASSUME NEW c \in Connections, StreamStarts(c) PROVE BusOK'
  BY <1>3 DEF StreamStarts, BusOK
<1>4. ASSUME NEW c \in Connections, StreamEnds(c) PROVE BusOK'
  <2>1. /\ subscribers' \subseteq subscribers
        /\ \/ queue' = [queue EXCEPT ![c] = << >>]
           \/ queue' = queue
        /\ stream' = [stream EXCEPT ![c] = "ended"]
        /\ UNCHANGED <<started, connection>>
    BY <1>4 DEF StreamEnds, _unsubscribe
  <2>2. /\ queue' \in [Connections -> Seq({Event})]
        /\ \A d \in Connections : Len(queue'[d]) <= MaxQueue
    <3>1. CASE queue' = queue
      BY <3>1 DEF BusOK
    <3>2. CASE queue' = [queue EXCEPT ![c] = << >>]
      <4>1. << >> \in Seq({Event}) /\ Len(<< >>) <= Len(queue[c])
        <5>1. queue[c] \in Seq({Event})
          BY DEF BusOK
        <5>2. Len(queue[c]) \in Nat
          BY <5>1
        <5> QED
          BY <5>2
      <4> QED
        BY <3>2, <4>1, Dequeued
    <3> QED
      BY <2>1, <3>1, <3>2
  <2> QED
    BY <2>1, <2>2 DEF BusOK
<1>5. CASE StreamYields
  <2>1. /\ connection # 0 /\ queue[connection] # << >>
        /\ queue' = [queue EXCEPT ![connection] = Tail(queue[connection])]
        /\ UNCHANGED <<subscribers, stream, started, connection>>
    BY <1>5 DEF StreamYields
  <2>2. connection \in Connections /\ queue[connection] \in Seq({Event})
    BY <2>1 DEF BusOK
  <2>3. /\ Tail(queue[connection]) \in Seq({Event})
        /\ Len(Tail(queue[connection])) <= Len(queue[connection])
    BY <2>1, <2>2
  <2>4. /\ queue' \in [Connections -> Seq({Event})]
        /\ \A d \in Connections : Len(queue'[d]) <= MaxQueue
    <3> DEFINE q == Tail(queue[connection])
    <3> HIDE DEF q
    <3>1. q \in Seq({Event}) /\ Len(q) <= Len(queue[connection])
          /\ queue' = [queue EXCEPT ![connection] = q]
      BY <2>1, <2>3 DEF q
    <3> QED
      BY <2>2, <3>1, Dequeued
  <2> QED
    BY <2>1, <2>4 DEF BusOK
<1>6. CASE UNCHANGED busVars /\ connection' \in {connection, 0}
  BY <1>6 DEF busVars, BusOK
<1> QED
  BY <1>1, <1>2, <1>3, <1>4, <1>5, <1>6
     DEF Next, vars, busVars, Change, _set_status, _apply_reputation,
         _public_state, list_candidates, loadCandidates, loadFails, Returned,
         startLiveUpdates, stopLiveUpdates, refresh, onOpen, onerror, onEvent, fallback

LEMMA SourceTyped == TInv /\ [Next]_vars => SourceOK'
<1> SUFFICES ASSUME TInv, [Next]_vars PROVE SourceOK'
  OBVIOUS
<1>0. SourceOK /\ BusOK
  BY DEF TInv
<1>1. << >> \in Seq({Event})
  OBVIOUS
<1>2. ASSUME NEW c \in Connections, events(c) PROVE SourceOK'
  BY <1>0, <1>2 DEF events, SourceOK, liveVars
<1>3. CASE StreamYields
  <2>1. /\ connection # 0 /\ queue[connection] # << >>
        /\ wire' = Append(wire, Head(queue[connection]))
        /\ UNCHANGED <<source, ticker, connection>>
    BY <1>3 DEF StreamYields, Yield
  <2>2. queue[connection] \in Seq({Event})
    BY <1>0, <2>1 DEF BusOK
  <2>3. Head(queue[connection]) \in {Event}
    BY <2>1, <2>2
  <2>4. wire' \in Seq({Event})
    <3> DEFINE e == Head(queue[connection])
    <3> HIDE DEF e
    <3>1. e \in {Event} /\ wire' = Append(wire, e) /\ wire \in Seq({Event})
      BY <1>0, <2>1, <2>3 DEF e, SourceOK
    <3> QED
      BY <3>1
  <2> QED
    BY <1>0, <2>1, <2>4 DEF SourceOK
<1>4. CASE startLiveUpdates
  BY <1>0, <1>1, <1>4 DEF startLiveUpdates, Start, SourceOK
<1>5. CASE stopLiveUpdates
  BY <1>0, <1>1, <1>5 DEF stopLiveUpdates, Stop, SourceOK
<1>6. CASE onOpen
  BY <1>0, <1>1, <1>6 DEF onOpen, Opened, SourceOK
<1>7. CASE onerror
  <2>1. source' \in {"connecting", "closed"} /\ wire' = << >> /\ ticker' = TRUE
    BY <1>7 DEF onerror, Broken
  <2> QED
    BY <1>1, <2>1 DEF SourceOK
<1>8. CASE onEvent
  <2>1. /\ wire # << >> /\ wire' = Tail(wire) /\ source' = source /\ ticker' = FALSE
        /\ connection' = connection
    BY <1>8 DEF onEvent, Dispatched
  <2>2. wire' \in Seq({Event})
    BY <1>0, <2>1 DEF SourceOK
  <2> QED
    BY <1>0, <2>1, <2>2 DEF SourceOK
<1>9. CASE UNCHANGED <<source, wire, ticker, connection>>
  BY <1>0, <1>9 DEF SourceOK
<1> QED
  BY <1>2, <1>3, <1>4, <1>5, <1>6, <1>7, <1>8, <1>9
     DEF Next, vars, liveVars, Change, _set_status, _apply_reputation, _broadcast,
         StreamStarts, StreamEnds, _public_state, list_candidates, loadCandidates,
         Arrive, loadFails, Returned, refresh, fallback

-------------------------------------------------------------------------------
\* The steps of the page on the fetches under way.
LEMMA FetchSends ==
    ASSUME FetchesOK, Fetch(Everything)
    PROVE  /\ fetches' \in Seq(FetchSet)
           /\ Len(fetches) \in Nat /\ Len(fetches') = Len(fetches) + 1
           /\ fetches'[Len(fetches')] = Sent(Everything)
<1>1. /\ fetches \in Seq(FetchSet) /\ Sent(Everything) \in FetchSet
      /\ fetches' = Append(fetches, Sent(Everything))
  BY DEF FetchesOK, FetchSet, Fetch
<1> DEFINE e == Sent(Everything)
<1> HIDE DEF e, FetchSet
<1> QED
  BY <1>1 DEF e

\* What the types say of one fetch.
LEMMA FetchTyped ==
    ASSUME FetchesOK, NEW s \in DOMAIN fetches
    PROVE  /\ fetches[s] \in FetchSet
           /\ fetches[s].stage = "sent" => fetches[s] = Sent(Everything)
           /\ fetches[s].stage = "reading" =>
                /\ fetches[s].candidates \in Versions
                /\ fetches[s] = Reading(fetches[s].candidates)
           /\ fetches[s].stage = "answered" =>
                /\ fetches[s].answer \in Registries
                /\ fetches[s] = Answered(Everything, fetches[s].answer)
<1>1. fetches[s] \in FetchSet
  <2> HIDE DEF FetchSet
  <2> QED
    BY DEF FetchesOK
<1> QED
  BY <1>1 DEF FetchSet, Sent, Reading, Answered

\* Another value in the place of one fetch.
LEMMA FetchReplaced ==
    ASSUME FetchesOK, NEW s \in DOMAIN fetches, NEW f \in FetchSet,
           fetches' = [fetches EXCEPT ![s] = f]
    PROVE  /\ fetches' \in Seq(FetchSet)
           /\ Len(fetches) \in Nat /\ Len(fetches') = Len(fetches)
           /\ s \in 1 .. Len(fetches)
           /\ fetches'[s] = f
           /\ \A k \in 1 .. Len(fetches) : k # s => fetches'[k] = fetches[k]
<1>1. fetches \in Seq(FetchSet)
  BY DEF FetchesOK
<1> HIDE DEF FetchSet
<1> QED
  BY <1>1

\* A fetch is back: the later ones move up, and the last is still the last,
\* unless it was this one.
LEMMA FetchReturns ==
    ASSUME FetchesOK, NEW s \in DOMAIN fetches, NEW how,
           fetches' = Seqs!RemoveAt(fetches, s), Returned(s, how)
    PROVE  /\ FetchesOK'
           /\ cause' \in {how, "overtaken"}
           /\ Len(fetches) \in Nat /\ Len(fetches') = Len(fetches) - 1
           /\ s # Len(fetches) =>
                Len(fetches') > 0 /\ fetches'[Len(fetches')] = fetches[Len(fetches)]
           /\ s = Len(fetches) => late' = Len(fetches')
           /\ late = Len(fetches) => late' = Len(fetches')
           /\ cause' = "fetch" => how = "fetch" /\ ~(s <= late)
<1>1. fetches \in Seq(FetchSet) /\ late \in 0 .. Len(fetches)
  BY DEF FetchesOK
<1>2. fetches' = Without(fetches, s)
  BY DEF Without, Seqs!RemoveAt
<1> DEFINE n == Len(fetches)
<1> HIDE DEF FetchSet
<1>3. /\ fetches' \in Seq(FetchSet) /\ Len(fetches') = n - 1
      /\ \A j \in s .. n - 1 : fetches'[j] = fetches[j + 1]
  BY <1>1, <1>2, ElementRemoved
<1>4. n \in Nat /\ s \in 1 .. n /\ late \in 0 .. n
  BY <1>1
<1>5. /\ cause' = IF s <= late /\ how = "fetch" THEN "overtaken" ELSE how
      /\ late' = IF s <= late THEN late - 1 ELSE s - 1
  BY DEF Returned
<1> HIDE DEF n
<1>6. late' \in 0 .. n - 1 /\ (s = n \/ late = n => late' = n - 1)
  BY <1>4, <1>5
<1>7. ASSUME s # n PROVE n - 1 > 0 /\ fetches'[n - 1] = fetches[n]
  <2>1. n - 1 \in s .. n - 1 /\ n - 1 > 0 /\ (n - 1) + 1 = n
    BY <1>4, <1>7
  <2> QED
    BY <1>3, <2>1
<1> QED
  BY <1>3, <1>4, <1>5, <1>6, <1>7 DEF n, FetchesOK

LEMMA FetchesTyped == TInv /\ [Next]_vars => FetchesOK'
<1> SUFFICES ASSUME TInv, [Next]_vars PROVE FetchesOK'
  OBVIOUS
<1>0. FetchesOK /\ RegistryOK
  BY DEF TInv
<1>1. CASE Fetch(Everything) /\ late' = late
  <2>1. late' \in 0 .. Len(fetches')
    BY <1>0, <1>1, FetchSends DEF FetchesOK
  <2> QED
    BY <1>0, <1>1, <2>1, FetchSends DEF FetchesOK
<1>2. ASSUME NEW s \in Slots, _public_state(s) PROVE FetchesOK'
  <2>1. s \in DOMAIN fetches /\ fetches' = [fetches EXCEPT ![s] = Reading(candidates)]
        /\ late' = late
    BY <1>2 DEF _public_state, IsSent, pageVars
  <2>2. Reading(candidates) \in FetchSet
    BY <1>0 DEF FetchSet, RegistryOK
  <2> QED
    BY <1>0, <2>1, <2>2, FetchReplaced DEF FetchesOK
<1>3. ASSUME NEW s \in Slots, list_candidates(s) PROVE FetchesOK'
  <2> DEFINE r == Registry(fetches[s].candidates, reputation)
  <2>1. /\ s \in DOMAIN fetches /\ fetches[s].stage = "reading"
        /\ fetches' = [fetches EXCEPT ![s] = Answered(Everything, r)]
        /\ late' = late
    BY <1>3 DEF list_candidates, pageVars
  <2>2. r \in Registries
    BY <1>0, <2>1, FetchTyped DEF RegistryOK, Registries, Registry
  <2>3. Answered(Everything, r) \in FetchSet
    BY <2>2 DEF FetchSet
  <2> HIDE DEF r
  <2> QED
    BY <1>0, <2>1, <2>3, FetchReplaced DEF FetchesOK
<1>4. ASSUME NEW s \in Slots, loadCandidates(s) PROVE FetchesOK'
  BY <1>0, <1>4, FetchReturns DEF loadCandidates, Arrive, IsAnswered
<1>5. ASSUME NEW s \in Slots, loadFails(s) PROVE FetchesOK'
  BY <1>0, <1>5, FetchReturns DEF loadFails, IsSent
<1>6. CASE UNCHANGED <<fetches, late>>
  BY <1>0, <1>6 DEF FetchesOK
<1> QED
  BY <1>1, <1>2, <1>3, <1>4, <1>5, <1>6
     DEF Next, vars, liveVars, pageVars, Change, _set_status, _apply_reputation, _broadcast,
         events, StreamStarts, StreamEnds, StreamYields, startLiveUpdates, stopLiveUpdates,
         refresh, onOpen, onerror, Broken, onEvent, fallback

LEMMA PageTyped == TInv /\ [Next]_vars => PageOK'
<1> SUFFICES ASSUME TInv, [Next]_vars PROVE PageOK'
  OBVIOUS
<1>0. FetchesOK /\ PageOK
  BY DEF TInv
<1>1. ASSUME NEW s \in Slots, loadCandidates(s) PROVE PageOK'
  <2>1. /\ s \in DOMAIN fetches /\ fetches[s].stage = "answered"
        /\ fetches' = Seqs!RemoveAt(fetches, s) /\ Returned(s, "fetch")
        /\ shown' = fetches[s].answer /\ upsets' = upsets
    BY <1>1 DEF loadCandidates, Arrive, IsAnswered
  <2>2. shown' \in Registries
    BY <1>0, <2>1, FetchTyped
  <2>3. cause' \in {"fetch", "overtaken"}
    BY <2>1 DEF Returned
  <2> QED
    BY <1>0, <2>1, <2>2, <2>3 DEF PageOK
<1>2. Upset => upsets' \in 0 .. MaxUpsets
  BY <1>0, PortalViewAssumption DEF Upset, PageOK
<1>3. ASSUME NEW s \in Slots, loadFails(s) PROVE PageOK'
  <2>1. shown' = shown /\ cause' = "failed" /\ Upset
    BY <1>3 DEF loadFails, Returned
  <2> QED
    BY <1>0, <1>2, <2>1 DEF PageOK
<1>4. CASE UNCHANGED <<shown, cause>> /\ (Upset \/ upsets' = upsets)
  BY <1>0, <1>2, <1>4 DEF PageOK
<1> QED
  BY <1>1, <1>3, <1>4
     DEF Next, vars, pageVars, Change, _set_status, _apply_reputation, _broadcast,
         events, StreamStarts, StreamEnds, StreamYields, _public_state, list_candidates,
         startLiveUpdates, stopLiveUpdates, refresh, onOpen, onerror, onEvent, fallback

LEMMA NextTyped == TInv /\ [Next]_vars => TInv'
  BY RegistryTyped, BusTyped, SourceTyped, FetchesTyped, PageTyped DEF TInv

LEMMA SpecTyped == Spec => []TInv
  BY InitTyped, NextTyped, PTL DEF Spec

\* The registry, the event bus and the page keep their types: no reputation
\* without its candidate, no queue above its maxsize, no fetch counted as
\* overtaken that is not under way.
THEOREM PortalTypeCorrect == Spec => []TypeOK
  BY SpecTyped, TypesFollow, PTL

-------------------------------------------------------------------------------
\* A generator that ran streams or is over, and is over only unsubscribed.
StartedOK ==
    \A c \in Connections :
        /\ c \in started => stream[c] \in {"streaming", "ended"}
        /\ c \in subscribers /\ stream[c] = "ended" => c \notin started

LEMMA StartedStep == TInv /\ StartedOK /\ [Next]_vars => StartedOK'
<1> SUFFICES ASSUME TInv, StartedOK, [Next]_vars PROVE StartedOK'
  OBVIOUS
<1>0. BusOK
  BY DEF TInv
<1>1. CASE _broadcast
  BY <1>0, <1>1, Enqueued DEF _broadcast, StartedOK
<1>2. ASSUME NEW c \in Connections, events(c) PROVE StartedOK'
  BY <1>0, <1>2 DEF events, _subscribe, StartedOK, BusOK
<1>3. ASSUME NEW c \in Connections, StreamStarts(c) PROVE StartedOK'
  BY <1>0, <1>3 DEF StreamStarts, StartedOK, BusOK
<1>4. ASSUME NEW c \in Connections, StreamEnds(c) PROVE StartedOK'
  BY <1>0, <1>4 DEF StreamEnds, _unsubscribe, StartedOK, BusOK
<1>5. CASE UNCHANGED <<subscribers, stream, started>>
  BY <1>5 DEF StartedOK
<1> QED
  BY <1>1, <1>2, <1>3, <1>4, <1>5
     DEF Next, vars, busVars, Change, _set_status, _apply_reputation, StreamYields,
         _public_state, list_candidates, loadCandidates, loadFails, Returned,
         startLiveUpdates, stopLiveUpdates, refresh, onOpen, onerror, onEvent, fallback

\* Whatever streams come and go, a queue that is left behind belongs to a
\* request whose generator never ran: the finally of every other unsubscribed.
THEOREM PortalLeakOnlyUnstarted == Spec => []LeakIsUnstarted
<1>1. Init => StartedOK
  BY DEF Init, StartedOK
<1>2. TInv /\ StartedOK => LeakIsUnstarted
  BY DEF TInv, BusOK, StartedOK, LeakIsUnstarted
<1> QED
  BY <1>1, <1>2, StartedStep, SpecTyped, PTL DEF Spec

-------------------------------------------------------------------------------
\* A change that has still to reach the page.
Pending ==
    \/ rewarding > 0 \/ announcing > 0
    \/ queue[connection] # << >>
    \/ wire # << >>

\* What a fetch has read so far is the registry of now.
Fresh(f) ==
    \/ f = Sent(Everything)
    \/ f = Reading(candidates)
    \/ f = Answered(Everything, Registry(candidates, reputation))

LastIsFresh == Len(fetches) > 0 /\ Fresh(fetches[Len(fetches)])

\* The last fetch is back, the others, if any, are older.
LastIsBack == late = Len(fetches) /\ (Current \/ cause \in {"failed", "overtaken"})

Listening == source = "open" /\ connection \in subscribers

\* A page that is listening will be told, has asked, or knows.
CurrentInv == Listening => Pending \/ LastIsFresh \/ LastIsBack

\* A fetch has just been sent.
LEMMA SentIsFresh ==
    ASSUME FetchesOK, Fetch(Everything)
    PROVE  CurrentInv'
  BY FetchSends DEF CurrentInv, LastIsFresh, Fresh

\* Nothing but the fetches and the page changed.
LEMMA PageStep ==
    ASSUME CurrentInv, UNCHANGED <<registryVars, busVars, connection, source, wire>>,
           LastIsFresh \/ LastIsBack => LastIsFresh' \/ LastIsBack'
    PROVE  CurrentInv'
  BY DEF CurrentInv, Listening, Pending, registryVars, busVars

\* The registry and the fetches are as they were, and so are the queue and the
\* wire of a page that is listening, or it has an event more in one of them.
LEMMA BusStep ==
    ASSUME CurrentInv, UNCHANGED <<candidates, reputation, fetches, pageVars>>,
           Listening' => Listening /\ (Pending => Pending')
    PROVE  CurrentInv'
  BY DEF CurrentInv, LastIsFresh, Fresh, LastIsBack, Current, Registry, pageVars,
         Sent, Reading, Answered

LEMMA CurrentStep == TInv /\ CurrentInv /\ [Next]_vars => CurrentInv'
<1> SUFFICES ASSUME TInv, CurrentInv, [Next]_vars PROVE CurrentInv'
  OBVIOUS
<1>0. RegistryOK /\ BusOK /\ SourceOK /\ FetchesOK
  BY DEF TInv
<1>1. CASE Change \/ _set_status \/ _apply_reputation
  <2>1. rewarding' > 0 \/ announcing' > 0
    BY <1>0, <1>1, PortalViewAssumption
       DEF Change, _set_status, _apply_reputation, RegistryOK, Versions
  <2> QED
    BY <2>1 DEF CurrentInv, Pending
<1>2. CASE _broadcast
  <2>1. Enqueue /\ UNCHANGED <<source, connection>>
    BY <1>2 DEF _broadcast, liveVars
  <2>2. Listening' => queue'[connection'] # << >>
    BY <1>0, <2>1, Enqueued DEF Listening
  <2> QED
    BY <2>2 DEF CurrentInv, Pending
<1>3. ASSUME NEW c \in Connections, events(c) PROVE CurrentInv'
  BY <1>3 DEF events, liveVars, CurrentInv, Listening
<1>4. ASSUME NEW c \in Connections, StreamStarts(c) PROVE CurrentInv'
  BY <1>4, BusStep DEF StreamStarts, liveVars, registryVars, Listening, Pending
<1>5. ASSUME NEW c \in Connections, StreamEnds(c) PROVE CurrentInv'
  <2>1. /\ UNCHANGED <<liveVars, registryVars, connection, pageVars>>
        /\ c # connection /\ subscribers' \subseteq subscribers
        /\ queue' = queue \/ queue' = [queue EXCEPT ![c] = << >>]
    BY <1>5 DEF StreamEnds, _unsubscribe
  <2>2. Listening' => Listening /\ connection \in Connections
    BY <1>0, <2>1 DEF Listening, liveVars, BusOK
  <2>3. Listening' => queue'[connection] = queue[connection]
    BY <1>0, <2>1, <2>2 DEF BusOK
  <2> QED
    BY <2>1, <2>2, <2>3, BusStep DEF liveVars, registryVars, Pending
<1>6. CASE StreamYields
  <2>1. \E f : wire' = Append(wire, f)
    BY <1>6 DEF StreamYields, Yield
  <2>2. wire' # << >>
    BY <1>0, <2>1 DEF SourceOK
  <2> QED
    BY <2>2 DEF CurrentInv, Pending
<1>7. ASSUME NEW s \in Slots, _public_state(s) PROVE CurrentInv'
  <2>1. /\ s \in DOMAIN fetches /\ fetches' = [fetches EXCEPT ![s] = Reading(candidates)]
        /\ UNCHANGED <<source, wire, registryVars, busVars, connection, pageVars>>
    BY <1>7 DEF _public_state, IsSent
  <2>2. Reading(candidates) \in FetchSet
    BY <1>0 DEF FetchSet, RegistryOK
  <2>3. /\ Len(fetches') = Len(fetches) /\ Len(fetches) \in Nat /\ s \in 1 .. Len(fetches)
        /\ fetches'[s] = Reading(candidates)
        /\ \A k \in 1 .. Len(fetches) : k # s => fetches'[k] = fetches[k]
    BY <1>0, <2>1, <2>2, FetchReplaced
  <2>4. LastIsFresh => LastIsFresh'
    BY <2>1, <2>3 DEF LastIsFresh, Fresh, registryVars
  <2>5. LastIsBack => LastIsBack'
    BY <2>1, <2>3 DEF LastIsBack, Current, registryVars, pageVars
  <2> QED
    BY <2>1, <2>4, <2>5, PageStep
<1>8. ASSUME NEW s \in Slots, list_candidates(s) PROVE CurrentInv'
  <2> DEFINE r == Registry(fetches[s].candidates, reputation)
  <2>1. /\ s \in DOMAIN fetches /\ fetches[s].stage = "reading"
        /\ fetches' = [fetches EXCEPT ![s] = Answered(Everything, r)]
        /\ UNCHANGED <<source, wire, registryVars, busVars, connection, pageVars>>
    BY <1>8 DEF list_candidates
  <2>2. /\ r \in Registries
        /\ Fresh(fetches[s]) => r = Registry(candidates, reputation)
    <3>1. fetches[s].candidates \in Versions /\ fetches[s] = Reading(fetches[s].candidates)
      BY <1>0, <2>1, FetchTyped
    <3>2. Fresh(fetches[s]) => fetches[s].candidates = candidates
      BY <2>1 DEF Fresh, Sent, Answered, Reading
    <3> QED
      BY <1>0, <3>1, <3>2 DEF RegistryOK, Registries, Registry
  <2>3. Answered(Everything, r) \in FetchSet
    BY <2>2 DEF FetchSet
  <2> HIDE DEF r
  <2>4. /\ Len(fetches') = Len(fetches) /\ Len(fetches) \in Nat /\ s \in 1 .. Len(fetches)
        /\ fetches'[s] = Answered(Everything, r)
        /\ \A k \in 1 .. Len(fetches) : k # s => fetches'[k] = fetches[k]
    BY <1>0, <2>1, <2>3, FetchReplaced
  <2>5. LastIsFresh => LastIsFresh'
    BY <2>1, <2>2, <2>4 DEF LastIsFresh, Fresh, registryVars
  <2>6. LastIsBack => LastIsBack'
    BY <2>1, <2>4 DEF LastIsBack, Current, registryVars, pageVars
  <2> QED
    BY <2>1, <2>5, <2>6, PageStep
<1>9. ASSUME NEW s \in Slots, loadCandidates(s) PROVE CurrentInv'
  <2>1. /\ s \in DOMAIN fetches /\ fetches[s].stage = "answered"
        /\ fetches' = Seqs!RemoveAt(fetches, s) /\ Returned(s, "fetch")
        /\ shown' = fetches[s].answer
        /\ UNCHANGED <<source, wire, registryVars, busVars, connection>>
    BY <1>9 DEF loadCandidates, Arrive, IsAnswered, Returned
  <2>2. /\ cause' \in {"fetch", "overtaken"} /\ Len(fetches') = Len(fetches) - 1
        /\ s # Len(fetches) =>
             Len(fetches') > 0 /\ fetches'[Len(fetches')] = fetches[Len(fetches)]
        /\ s = Len(fetches) => late' = Len(fetches')
        /\ late = Len(fetches) => late' = Len(fetches')
        /\ cause' = "fetch" => ~(s <= late)
    BY <1>0, <2>1, FetchReturns
  <2>3. s \in 1 .. Len(fetches) /\ Len(fetches) \in Nat
    BY <1>0, <2>1 DEF FetchesOK
  <2>4. LastIsFresh /\ s # Len(fetches) => LastIsFresh'
    BY <2>1, <2>2 DEF LastIsFresh, Fresh, registryVars
  <2>5. LastIsFresh /\ s = Len(fetches) => LastIsBack'
    <3>1. Fresh(fetches[s]) => fetches[s].answer = Registry(candidates, reputation)
      BY <2>1 DEF Fresh, Sent, Reading, Answered
    <3> QED
      BY <2>1, <2>2, <3>1 DEF LastIsFresh, LastIsBack, Current, registryVars
  <2>6. LastIsBack => LastIsBack'
    BY <2>2, <2>3 DEF LastIsBack
  <2> QED
    BY <2>1, <2>4, <2>5, <2>6, PageStep
<1>10. ASSUME NEW s \in Slots, loadFails(s) PROVE CurrentInv'
  <2>1. /\ s \in DOMAIN fetches
        /\ fetches' = Seqs!RemoveAt(fetches, s) /\ Returned(s, "failed")
        /\ UNCHANGED <<source, wire, shown, registryVars, busVars, connection>>
    BY <1>10 DEF loadFails, IsSent, Returned
  <2>2. /\ cause' \in {"failed", "overtaken"}
        /\ s # Len(fetches) =>
             Len(fetches') > 0 /\ fetches'[Len(fetches')] = fetches[Len(fetches)]
        /\ s = Len(fetches) => late' = Len(fetches')
        /\ late = Len(fetches) => late' = Len(fetches')
    BY <1>0, <2>1, FetchReturns
  <2>3. LastIsFresh /\ s # Len(fetches) => LastIsFresh'
    BY <2>1, <2>2 DEF LastIsFresh, Fresh, registryVars
  <2>4. (LastIsFresh /\ s = Len(fetches)) \/ LastIsBack => LastIsBack'
    BY <2>2 DEF LastIsBack
  <2> QED
    BY <2>1, <2>3, <2>4, PageStep
<1>11. CASE startLiveUpdates \/ stopLiveUpdates \/ onerror
  BY <1>11 DEF startLiveUpdates, Start, stopLiveUpdates, Stop, onerror, Broken,
               CurrentInv, Listening
<1>12. CASE Fetch(Everything)
  BY <1>0, <1>12, SentIsFresh
<1>13. CASE UNCHANGED vars
  BY <1>13, BusStep
     DEF vars, liveVars, registryVars, busVars, pageVars, Listening, Pending
<1> QED
  BY <1>1, <1>2, <1>3, <1>4, <1>5, <1>6, <1>7, <1>8, <1>9, <1>10, <1>11, <1>12, <1>13
     DEF Next, refresh, onOpen, onEvent, fallback

\* A page at rest shows candidates and reputation as they are, unless its last
\* fetch failed or was overtaken by a newer one, or its stream was evicted.
THEOREM PortalRestCorrect == Spec => []RestIsCurrent
<1>1. Init => CurrentInv
  BY DEF Init, CurrentInv, Listening
<1>2. TInv /\ CurrentInv => RestIsCurrent
  <2> SUFFICES ASSUME TInv, CurrentInv, AtRest, ~Evicted
               PROVE  Current \/ cause \in {"failed", "overtaken"}
    BY DEF RestIsCurrent
  <2>1. Listening
    BY DEF AtRest, Evicted, Listening, TInv, SourceOK
  <2>2. ~Pending /\ ~LastIsFresh
    BY DEF AtRest, Pending, LastIsFresh
  <2> QED
    BY <2>1, <2>2 DEF CurrentInv, LastIsBack
<1> QED
  BY <1>1, <1>2, CurrentStep, SpecTyped, PTL DEF Spec
===============================================================================
