------------------------- MODULE MCConfiguredLedger -------------------------
(* Where the instances of RTokenLedger start.                               *)
EXTENDS RTokenLedger

\* The ledger after root has set it up: every pool is bonded with an active
\* amount of 1, reached by add_new_pool and set_init_bond on each.
ConfiguredInit ==
  /\ chainEra = None
  /\ duration \in Duration
  /\ commission \in Commission
  /\ receiver = TRUE
  /\ lastVoter \in Voter
  /\ pools = Pool
  /\ bondedPools = Pool
  /\ pipe = [p \in Pool |-> [bond |-> 0, unbond |-> 0, active |-> 1]]
  /\ snapshots = << >>
  /\ eraShots = [e \in Era |-> {}]
  /\ currentShots = {}
  /\ expected = [e \in Era |-> 0]
  /\ unbonds = {}
  /\ rate = RateBase
  /\ eraRate = [e \in Era |-> None]
  /\ issuance = Cardinality(Pool)
  /\ forced = FALSE
  /\ drift = 0
=============================================================================
