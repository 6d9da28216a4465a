------------------------- MODULE MCRTokenVotesLive -------------------------
(* RTokenVotes after root has made every account a relayer and set the      *)
(* threshold: only relayers and the clock act.                              *)
EXTENDS RTokenVotes

LiveInit ==
  /\ relayers = [s \in RSymbol |-> Account]
  /\ relayerThreshold \in [RSymbol -> 1..MaxThreshold]
  /\ relayerCount = [s \in RSymbol |-> Cardinality(Account)]
  /\ now = 0
  /\ votes = [p \in Proposal |-> None]
  /\ lastVoter = [s \in RSymbol |-> None]
  /\ quorum = [p \in Proposal |-> 0]
  /\ dispatched = [p \in Proposal |-> {}]

\* A relayer's first vote on p, either way.
FirstVote(p, who) ==
  \E inFavour \in BOOLEAN :
    \/ AcknowledgeClosed(p, who, inFavour)
    \/ AcknowledgeLate(p, who, inFavour)
    \/ AcknowledgeOpen(p, who, inFavour)

LiveNext ==
  \/ \E p \in Proposal, who \in Account : FirstVote(p, who) \/ AcknowledgeAgain(p, who)
  \/ NextBlock

\* A relayer submits its vote, for or against, until a block includes it.
LiveSpec ==
  /\ LiveInit
  /\ [][LiveNext]_vars
  /\ \A p \in Proposal, who \in Account : WF_vars(FirstVote(p, who))

(* However the votes split, a proposal one relayer has voted on is decided  *)
(* once all have voted: derivate's two conditions leave no gap between      *)
(* "enough in favour" and "approval out of reach".                          *)
EveryProposalDecided ==
  \A p \in Proposal :
    votes[p] # None ~> Status(p) \in {"Approved", "Rejected", "Expired"}
=============================================================================
