-------------------------- MODULE QuorumExecution --------------------------
(***************************************************************************)
(* What a voting bridge promises, without blocks, registries or errors:    *)
(* accounts endorse a proposal while it is open; at some point a quorum is *)
(* fixed for it that its distinct endorsers meet; only then may its call   *)
(* take effect, at most once; and a closed proposal never changes again.   *)
(***************************************************************************)
EXTENDS Integers, FiniteSets

CONSTANTS Proposal, Account, None

VARIABLES endorsers,   \* accounts that endorsed the proposal
          quorum,      \* endorsements that were asked for, None until met
          verdict,     \* "open", "executed" or "lapsed"
          performed    \* how often the proposal's call took effect

vars == <<endorsers, quorum, verdict, performed>>

Init ==
  /\ endorsers = [p \in Proposal |-> {}]
  /\ quorum = [p \in Proposal |-> None]
  /\ verdict = [p \in Proposal |-> "open"]
  /\ performed = [p \in Proposal |-> 0]

\* One more account endorses p; the quorum may be fixed by this endorsement.
Endorse(p, a) ==
  /\ verdict[p] = "open"
  /\ a \notin endorsers[p]
  /\ endorsers' = [endorsers EXCEPT ![p] = @ \cup {a}]
  /\ \/ quorum' = quorum
     \/ /\ quorum[p] = None
        /\ \E q \in 0..Cardinality(endorsers'[p]) :
             quorum' = [quorum EXCEPT ![p] = q]

EndorseOnly(p, a) ==
  /\ Endorse(p, a)
  /\ UNCHANGED <<verdict, performed>>

\* The endorsement that also makes the call take effect.
EndorseAndPerform(p, a) ==
  /\ Endorse(p, a)
  /\ quorum'[p] # None
  /\ verdict' = [verdict EXCEPT ![p] = "executed"]
  /\ performed' = [performed EXCEPT ![p] = @ + 1]

Lapse(p) ==
  /\ verdict[p] = "open"
  /\ verdict' = [verdict EXCEPT ![p] = "lapsed"]
  /\ UNCHANGED <<endorsers, quorum, performed>>

Next ==
  \E p \in Proposal :
    \/ \E a \in Account : EndorseOnly(p, a) \/ EndorseAndPerform(p, a)
    \/ Lapse(p)

Spec == Init /\ [][Next]_vars
=============================================================================
