------------------------------- MODULE MCLive -------------------------------
(* What must eventually happen on the chain, one scene for each pallet:     *)
(* "bridge", "rtoken" (rtoken/votes) and "ledger".  The pallets share no    *)
(* state here; what is fair is stated in their Live modules.                *)
EXTENDS MCBridgeLive

CONSTANTS RSymbol, PropId, RCall, RMaxBlock,
          Pool, Voter, MaxEra, EraCall, MaxAmount, Gain, Active, Commission, PerbillBase,
          Duration, SkipsWithdraw, MayClear, RateBase, RateLimit, AmountLimit, LimbLimit

VARIABLES scene,
          rRelayers, rThreshold, rCount, rNow, rVotes, rLastVoter, rQuorum, dispatched,
          chainEra, duration, commission, receiver, lastVoter, pools, bondedPools, pipe,
          snapshots, eraShots, currentShots, expected, unbonds, rate, eraRate, issuance,
          forced, drift

R == INSTANCE MCRTokenVotesLive WITH
       Call <- RCall, MaxBlock <- RMaxBlock,
       relayers <- rRelayers, relayerThreshold <- rThreshold, relayerCount <- rCount,
       now <- rNow, votes <- rVotes, lastVoter <- rLastVoter, quorum <- rQuorum

L == INSTANCE MCRTokenLedgerLive

rVars == <<rRelayers, rThreshold, rCount, rNow, rVotes, rLastVoter, rQuorum, dispatched>>
lVars == <<chainEra, duration, commission, receiver, lastVoter, pools, bondedPools, pipe,
           snapshots, eraShots, currentShots, expected, unbonds, rate, eraRate, issuance,
           forced, drift>>
allVars == <<vars, rVars, lVars, scene>>

MCInit ==
  /\ scene \in {"bridge", "rtoken", "ledger"}
  /\ LiveInit /\ R!LiveInit /\ L!ConfiguredInit
  /\ scene # "rtoken" => rThreshold = [s \in RSymbol |-> 1]

\* The other pallets rest.
OnlyBridge == scene = "bridge" /\ UNCHANGED <<rVars, lVars, scene>>
OnlyRToken == scene = "rtoken" /\ UNCHANGED <<vars, lVars, scene>>
OnlyLedger == scene = "ledger" /\ UNCHANGED <<vars, rVars, scene>>

MCNext ==
  \/ OnlyBridge /\ LiveNext
  \/ OnlyRToken /\ R!LiveNext
  \/ OnlyLedger /\ L!LiveNext

\* Relayers submit their votes and reports until a block includes them, and
\* blocks keep coming.
MCFairness ==
  /\ \A p \in Proposal, who \in Account : WF_allVars(OnlyBridge /\ Vote(p, who))
  /\ WF_allVars(OnlyBridge /\ NextBlock)
  /\ \A p \in R!Proposal, who \in Account : WF_allVars(OnlyRToken /\ R!FirstVote(p, who))
  /\ \A p \in Pool : WF_allVars(OnlyLedger /\ L!PoolReport(p))

MCSpec == MCInit /\ [][MCNext]_allVars /\ MCFairness

\* As MCRTokenVotesLive and MCRTokenLedgerLive state them.
EveryProposalDecided == R!EveryProposalDecided
EveryEraCompletes == L!EveryEraCompletes
=============================================================================
