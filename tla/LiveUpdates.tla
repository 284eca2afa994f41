------------------------------ MODULE LiveUpdates ------------------------------
(***************************************************************************)
(* The browser's half of a live view: an EventSource, the ticker that      *)
(* polls while the stream is down, and the fetches under way.  The shared  *)
(* helper web/shared/live.js (fenLive) and the status widget, which        *)
(* repeats it, keep the same three things; StatusView and PortalView       *)
(* extend this module and add the server behind it and what is shown.      *)
(*                                                                         *)
(* Frames of one stream arrive in order.  Fetches are independent of the   *)
(* stream and of each other: the server computes an answer at one moment   *)
(* and it arrives at a later one, in any order.                            *)
(***************************************************************************)
EXTENDS Integers, Sequences, FiniteSets
Seqs == INSTANCE SequencesExt

CONSTANTS
    MaxFetches,   \* bound: fetches under way at the same time
    MaxWire       \* bound: frames between the server's yield and the browser

ASSUME LiveUpdatesAssumption == MaxFetches \in Nat \ {0} /\ MaxWire \in Nat \ {0}

VARIABLES
    source,       \* readyState of the EventSource, "none" if there is none
    wire,         \* frames of its stream that have not been dispatched yet
    ticker,       \* whether the fallback interval is set
    fetches       \* fetches under way in the order they were sent

liveVars == <<source, wire, ticker, fetches>>

Sent(what) == [stage |-> "sent", of |-> what]
Answered(what, answer) == [stage |-> "answered", of |-> what, answer |-> answer]

Slots == 1 .. MaxFetches
IsSent(i) == i \in DOMAIN fetches /\ fetches[i].stage = "sent"
IsAnswered(i) == i \in DOMAIN fetches /\ fetches[i].stage = "answered"

LiveInit ==
    /\ source = "none"
    /\ wire = << >>
    /\ ticker = FALSE
    /\ fetches = << >>

Fetch(what) ==
    /\ Len(fetches) < MaxFetches
    /\ fetches' = Append(fetches, Sent(what))

\* The server computes the answer of a fetch from its state of this moment.
Answer(i, answer) ==
    /\ IsSent(i)
    /\ fetches' = [fetches EXCEPT ![i] = Answered(@.of, answer)]
    /\ UNCHANGED <<source, wire, ticker>>

Arrive(i) ==
    /\ IsAnswered(i)
    /\ fetches' = Seqs!RemoveAt(fetches, i)
    /\ UNCHANGED <<source, wire, ticker>>

\* stop(): clear the ticker, close the EventSource.  No frame of a closed one
\* is dispatched any more.
Stop ==
    /\ source' = "none"
    /\ wire' = << >>
    /\ ticker' = FALSE

\* start(): stop, then a new EventSource; where the browser has none, the
\* ticker takes its place.
Start(available) ==
    /\ source' = IF available THEN "connecting" ELSE "none"
    /\ wire' = << >>
    /\ ticker' = ~available

\* onopen: the ticker stops; what else happens is the caller's.
Opened ==
    /\ source = "connecting"
    /\ source' = "open"
    /\ wire' = << >>
    /\ ticker' = FALSE

\* Mutant of Broken: onerror does not start the ticker.
BrokenQuietly(state) ==
    /\ source \in {"connecting", "open"}
    /\ source' = state
    /\ wire' = << >>
    /\ UNCHANGED <<ticker, fetches>>

\* onerror of the transport: the browser reconnects by itself, or gives up for
\* good ("closed": an answer that is not an event stream); the ticker starts.
Broken(state) ==
    /\ source \in {"connecting", "open"}
    /\ source' = state
    /\ wire' = << >>
    /\ ticker' = TRUE
    /\ UNCHANGED fetches

\* The server yields a frame into the open stream.
Yield(frame) ==
    /\ source = "open"
    /\ Len(wire) < MaxWire
    /\ wire' = Append(wire, frame)
    /\ UNCHANGED source

\* The browser dispatches the next frame, Head(wire).
Dispatched ==
    /\ wire # << >>
    /\ wire' = Tail(wire)
    /\ UNCHANGED source

LiveTypeOK(frames, requests, answers) ==
    /\ source \in {"none", "connecting", "open", "closed"}
    /\ wire \in Seq(frames)
    /\ ticker \in BOOLEAN
    /\ fetches \in Seq({Sent(r) : r \in requests}
                            \cup {Answered(r, a) : r \in requests, a \in answers})
===============================================================================
