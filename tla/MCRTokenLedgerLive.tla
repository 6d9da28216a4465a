------------------------- MODULE MCRTokenLedgerLive -------------------------
(* A configured ledger in which relayers open eras and report, and users    *)
(* unbond.                                                                  *)
EXTENDS MCConfiguredLedger

\* A report on the snapshot of p in the current list.
PoolReport(p) == \E s \in currentShots : s.pool = p /\ ShotReport(s)

LiveNext ==
  \/ \E era \in EraCall : SetChainEra(era)
  \/ \E p \in Pool : PoolReport(p)
  \/ \E p \in Pool, amount \in Gain : PipeUnbond(p, amount)

\* Relayers vote every report the current snapshots ask for into a block.
LiveSpec ==
  /\ ConfiguredInit
  /\ [][LiveNext]_vars
  /\ \A p \in Pool : WF_vars(PoolReport(p))

(* Every era completes: from each state of each snapshot some report is     *)
(* accepted, with or without unbonds due, until the current list is empty   *)
(* and set_chain_era can open the next era.                                 *)
EveryEraCompletes == currentShots # {} ~> currentShots = {}
=============================================================================
