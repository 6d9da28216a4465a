--------------------------- MODULE MCRTokenLedger ---------------------------
(* Two scenes of a ledger that root has set up: "eras", two eras with small *)
(* amounts, and "rate", larger amounts in the first era, where pools gain   *)
(* and lose and root may drop their snapshots.  Pools are interchangeable.  *)
EXTENDS MCConfiguredLedger, TLC

CONSTANTS SmallAmount,  \* bound on what is bonded and reported in "eras"
          Steady        \* the active amount reported there

VARIABLE scene

MCInit == ConfiguredInit /\ scene \in {"eras", "rate"}

\* ShotReport with a steady active amount.
SteadyReport(s) ==
  \/ BondReport(s) \/ ActiveReport(s, Steady) \/ WithdrawReport(s) \/ TransferReport(s)
  \/ \E gain \in Gain : NewActiveReport(s, Steady, gain)
  \/ \E action \in BondAction :
       NewBondReport(s, action) \/ \E gain \in Gain : BondAndReportActive(s, action, Steady, gain)

ErasNext ==
  /\ \/ RootCall \/ SeriesCall
     \/ \E era \in EraCall : SetChainEra(era)
     \/ \E s \in DOMAIN snapshots : SteadyReport(s)
  /\ issuance' <= SmallAmount
  /\ \A e \in Era : expected'[e] <= SmallAmount
  /\ \A p \in Pool, part \in {"bond", "unbond", "active"} : pipe'[p][part] <= SmallAmount

MCNext ==
  /\ \/ scene = "eras" /\ ErasNext
     \/ scene = "rate" /\ Next /\ chainEra' # MaxEra
  /\ UNCHANGED scene

MCSpec == MCInit /\ [][MCNext]_<<vars, scene>>

Symmetry == Permutations(Pool)
=============================================================================
