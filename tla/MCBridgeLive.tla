---------------------------- MODULE MCBridgeLive ----------------------------
(* BridgeVotes after root has set it up: every account is a relayer of      *)
(* every chain, all chains are whitelisted, and the threshold is            *)
(* MaxThreshold.  Only relayers and the clock act, so that liveness can be  *)
(* asked for.                                                               *)
EXTENDS BridgeVotes

LiveInit ==
  /\ chainNonces = [c \in Chain |-> 0]
  /\ resources = Resource
  /\ epoch = [c \in Chain |-> 1]
  /\ outbox = [c \in Chain |-> << >>]
  /\ relayers = [c \in Chain |-> Account]
  /\ relayerThreshold = [c \in Chain |-> MaxThreshold]
  /\ relayerCount = [c \in Chain |-> Cardinality(Account)]
  /\ ownRelayers = [id \in {ChainIdentity} |-> {}]
  /\ ownThreshold = [id \in {ChainIdentity} |-> 1]
  /\ ownCount = [id \in {ChainIdentity} |-> 0]
  /\ now = 0
  /\ votes = [p \in Proposal |-> None]
  /\ quorum = [p \in Proposal |-> None]
  /\ enrolled = relayers
  /\ executions = [p \in Proposal |-> 0]

Vote(p, who) == \E r \in Resource : AcknowledgeProposal(p, who, r)

LiveNext ==
  \/ \E p \in Proposal, who \in Account : Vote(p, who)
  \/ NextBlock

\* A relayer resubmits its vote until a block includes it, and the chain keeps
\* producing blocks.
LiveSpec ==
  /\ LiveInit
  /\ [][LiveNext]_vars
  /\ \A p \in Proposal, who \in Account : WF_vars(Vote(p, who))
  /\ WF_vars(NextBlock)

(* Every proposal one relayer has voted for is closed in the end: executed  *)
(* by the vote that meets the threshold or expired by a vote that comes too *)
(* late.  Nothing but votes moves a proposal (there is no block hook), so   *)
(* this rests on the relayers' fairness and on derivate accepting exactly   *)
(* the threshold.                                                           *)
EveryProposalCloses ==
  \A p \in Proposal : votes[p] # None ~> Status(p) \in {"Executed", "Expired"}
=============================================================================
