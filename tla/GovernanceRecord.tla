---------------------------- MODULE GovernanceRecord ----------------------------
(***************************************************************************)
(* What the DAO promises of a proposal that is put to the vote, whatever   *)
(* the voting mode, the number of workers and the state of the network:    *)
(* it is open, then claimed with one verdict, the verdict and nothing else *)
(* is published, only then is it on record, and only a validated one on    *)
(* record is rewarded, once.  A restart forgets every proposal; what was   *)
(* published stays.                                                        *)
(*                                                                         *)
(* How votes are counted, delivered and retried is MockDao's affair.       *)
(***************************************************************************)
EXTENDS Naturals

CONSTANTS
    Annotations,  \* annotation ids
    Verdicts,     \* outcomes of a vote
    Rewarded      \* those of them that are rewarded

VARIABLES
    phase,        \* of each proposal: "unknown", "open", "claimed" or "recorded"
    verdict,      \* of each proposal that is not open, else Undetermined
    published,    \* the verdicts the rest of the system has been told of
    rewards       \* how often each proposal was rewarded

govVars == <<phase, verdict, published, rewards>>

Undetermined == "undetermined"

GovInit ==
    /\ phase = [a \in Annotations |-> "unknown"]
    /\ verdict = [a \in Annotations |-> Undetermined]
    /\ published = [a \in Annotations |-> {}]
    /\ rewards = [a \in Annotations |-> 0]

Move(a, from, to) ==
    /\ phase[a] = from
    /\ phase' = [phase EXCEPT ![a] = to]

Propose(a) ==
    /\ Move(a, "unknown", "open")
    /\ UNCHANGED <<verdict, published, rewards>>

Claim(a) ==
    /\ Move(a, "open", "claimed")
    /\ \E v \in Verdicts : verdict' = [verdict EXCEPT ![a] = v]
    /\ UNCHANGED <<published, rewards>>

Publish(a) ==
    /\ phase[a] = "claimed"
    /\ published' = [published EXCEPT ![a] = @ \cup {verdict[a]}]
    /\ UNCHANGED <<phase, verdict, rewards>>

RecordVerdict(a) ==
    /\ verdict[a] \in published[a]
    /\ Move(a, "claimed", "recorded")
    /\ UNCHANGED <<verdict, published, rewards>>

GiveReward(a) ==
    /\ phase[a] = "recorded"
    /\ verdict[a] \in Rewarded
    /\ rewards[a] = 0
    /\ rewards' = [rewards EXCEPT ![a] = 1]
    /\ UNCHANGED <<phase, verdict, published>>

Forget ==
    /\ phase' = [a \in Annotations |-> "unknown"]
    /\ verdict' = [a \in Annotations |-> Undetermined]
    /\ rewards' = [a \in Annotations |-> 0]
    /\ UNCHANGED published

GovNext ==
    \/ \E a \in Annotations :
        Propose(a) \/ Claim(a) \/ Publish(a) \/ RecordVerdict(a) \/ GiveReward(a)
    \/ Forget

GovSpec == GovInit /\ [][GovNext]_govVars
===============================================================================
