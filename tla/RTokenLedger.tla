---------------------------- MODULE RTokenLedger ----------------------------
(***************************************************************************)
(* The era cycle of rtoken/ledger for one rtoken symbol, with the rate of  *)
(* rtoken/rate and the total issuance of rtoken/balances it moves.  All    *)
(* storage of these pallets is keyed by symbol and no call touches two     *)
(* symbols, so one symbol is a component of its own.                       *)
(*                                                                         *)
(* Relayers vote the calls in through rtoken/votes, which dispatches a     *)
(* decided call again on every further acknowledgement; every call is      *)
(* therefore modelled as possible at any time, in any order and any number *)
(* of times.  What protects the books is the state of each snapshot and    *)
(* the two lists of open snapshots.                                        *)
(***************************************************************************)
EXTENDS Rate, FiniteSets, Functions

CONSTANTS Pool,           \* pool keys
          Voter,          \* accounts that rtoken/votes records as LastVoter
          MaxEra,         \* bound on the era numbers
          EraCall,        \* eras that relayers call set_chain_era with
          MaxAmount,      \* bound on every stored amount
          Gain,           \* amounts bonded, unbonded, rewarded or unstaked
          Active,         \* active amounts that relayers report
          Commission,     \* commissions root sets, in parts of PerbillBase
          PerbillBase,    \* 10^9 in the code
          Duration,       \* bonding durations root sets, in eras
          SkipsWithdraw,  \* TRUE for Tendermint symbols and RBNB
          MayClear        \* whether root uses clear_current_era_snap_shots

ASSUME LedgerAssumption ==
  /\ MaxEra \in Nat
  /\ EraCall \subseteq 0..MaxEra
  /\ MaxAmount \in Nat
  /\ Gain \subseteq Nat
  /\ Active \subseteq Nat
  /\ PerbillBase \in Nat \ {0}
  /\ Commission \subseteq 0..(PerbillBase - 1)
  /\ Duration \subseteq Nat \ {0}
  /\ SkipsWithdraw \in BOOLEAN
  /\ MayClear \in BOOLEAN
  /\ None \notin Voter

VARIABLES chainEra,      \* ChainEras
          duration,      \* ChainBondingDuration
          commission,    \* Commission
          receiver,      \* Receiver: whether it is set
          lastVoter,     \* LastVoter, written by rtoken/votes
          pools,         \* Pools
          bondedPools,   \* BondedPools
          pipe,          \* BondPipelines
          snapshots,     \* Snapshots: snapshot -> its bond_state
          eraShots,      \* EraSnapShots: the snapshots without an active report
          currentShots,  \* CurrentEraSnapShots: the snapshots still in process
          expected,      \* TotalExpectedActive
          unbonds,       \* the (pool, unlock era) keys of PoolUnbonds
          rate,          \* Rate
          eraRate,       \* EraRate
          issuance,      \* TotalIssuance of the rtoken
          forced,        \* history: root dropped unfinished snapshots
          drift          \* history: active bonded less unbonded behind a report

configVars == <<duration, commission, receiver, lastVoter>>
shotVars == <<snapshots, eraShots, currentShots>>
rateVars == <<expected, rate, eraRate>>
vars == <<chainEra, configVars, pools, bondedPools, pipe, shotVars, unbonds,
          rateVars, issuance, forced, drift>>

Era == 0..MaxEra

LinkChunk == [bond : Nat, unbond : Nat, active : Nat]

\* The immutable part of a BondSnapshot.  The shot id is its hash, so two
\* snapshots share an id exactly when they are the same record.
Snapshot == [era : Era, pool : Pool, bond : Nat, unbond : Nat, active : Nat,
             lastVoter : Voter]

PoolBondState == {"EraUpdated", "BondReported", "ActiveReported",
                  "WithdrawSkipped", "WithdrawReported", "TransferReported"}

BondAction == {"BondOnly", "UnbondOnly", "BothBondUnbond", "EitherBondUnbond",
               "InterDeduct"}

\* Types, and that remove_pool finds each bonded pool among the pools (it
\* unwraps that position).
TypeOK ==
  /\ chainEra \in Era \cup {None}
  /\ duration \in Duration \cup {None}
  /\ commission \in 0..(PerbillBase - 1)
  /\ receiver \in BOOLEAN
  /\ lastVoter \in Voter \cup {None}
  /\ pools \subseteq Pool
  /\ bondedPools \subseteq pools
  /\ pipe \in [Pool -> LinkChunk]
  /\ DOMAIN snapshots \subseteq Snapshot
  /\ snapshots \in [DOMAIN snapshots -> PoolBondState]
  /\ eraShots \in [Era -> SUBSET DOMAIN snapshots]
  /\ currentShots \subseteq DOMAIN snapshots
  /\ expected \in [Era -> Nat]
  /\ unbonds \subseteq Pool \X Nat
  /\ rate \in Nat \cup {None}
  /\ eraRate \in [Era -> Nat \cup {None}]
  /\ issuance \in Nat
  /\ forced \in BOOLEAN
  /\ drift \in Int

Init ==
  /\ chainEra = None
  /\ duration = None
  /\ commission \in Commission
  /\ receiver = FALSE
  /\ lastVoter = None
  /\ pools = {}
  /\ bondedPools = {}
  /\ pipe = [p \in Pool |-> [bond |-> 0, unbond |-> 0, active |-> 0]]
  /\ snapshots = << >>
  /\ eraShots = [e \in Era |-> {}]
  /\ currentShots = {}
  /\ expected = [e \in Era |-> 0]
  /\ unbonds = {}
  /\ rate = None
  /\ eraRate = [e \in Era |-> None]
  /\ issuance = 0
  /\ forced = FALSE
  /\ drift = 0

-----------------------------------------------------------------------------
SaturatingSub(a, b) == IF a >= b THEN a - b ELSE 0

\* Perbill * amount of sp_arithmetic: rounded to the nearest, half down.
PerbillMul(part, amount) ==
  (part * amount) \div PerbillBase
    + IF (part * amount) % PerbillBase > PerbillBase \div 2 THEN 1 ELSE 0

\* How much a bond report takes off the pipeline's bond and unbond.
BondDeduct(s, action) ==
  CASE action \in {"BondOnly", "BothBondUnbond"} -> s.bond
    [] action = "InterDeduct" -> IF s.bond >= s.unbond THEN s.unbond ELSE s.bond
    [] OTHER -> 0

UnbondDeduct(s, action) ==
  CASE action \in {"UnbondOnly", "BothBondUnbond"} -> s.unbond
    [] action = "InterDeduct" -> IF s.bond >= s.unbond THEN s.unbond ELSE s.bond
    [] OTHER -> 0

\* The pipeline k after the report of snapshot s.
Deducted(k, s, action) ==
  [k EXCEPT !.bond = SaturatingSub(@, BondDeduct(s, action)),
            !.unbond = SaturatingSub(@, UnbondDeduct(s, action))]

\* The snapshots with s in the given state; s may be new.
WithState(f, S, state) ==
  [s \in DOMAIN f \cup S |-> IF s \in S THEN state ELSE f[s]]

InState(s, states) == s \in DOMAIN snapshots /\ snapshots[s] \in states

\* Pools whose active was reported in the current era.
Reported(p) ==
  \E s \in DOMAIN snapshots :
    /\ s.pool = p
    /\ s.era = chainEra
    /\ snapshots[s] \notin {"EraUpdated", "BondReported"}

-----------------------------------------------------------------------------
\* Root's calls.
SetCommission(c) ==
  /\ commission' = c
  /\ UNCHANGED <<chainEra, duration, receiver, lastVoter, pools, bondedPools,
                 pipe, shotVars, unbonds, rateVars, issuance, forced, drift>>

AddNewPool(p) ==
  /\ p \notin pools
  /\ pools' = pools \cup {p}
  /\ UNCHANGED <<chainEra, configVars, bondedPools, pipe, shotVars, unbonds,
                 rateVars, issuance, forced, drift>>

\* remove_pool that only looks at the active amount.
MutRemovePool(p) ==
  /\ p \in bondedPools
  /\ pipe[p].active = 0
  /\ bondedPools' = bondedPools \ {p}
  /\ pools' = pools \ {p}
  /\ UNCHANGED <<chainEra, configVars, pipe, shotVars, unbonds,
                 rateVars, issuance, forced, drift>>

\* remove_pool: allowed in the middle of an era; the pool's snapshot stays.
RemovePool(p) ==
  /\ p \in bondedPools
  /\ pipe[p] = [bond |-> 0, unbond |-> 0, active |-> 0]
  /\ bondedPools' = bondedPools \ {p}
  /\ pools' = pools \ {p}
  /\ UNCHANGED <<chainEra, configVars, pipe, shotVars, unbonds,
                 rateVars, issuance, forced, drift>>

SetReceiver ==
  /\ receiver' = TRUE
  /\ UNCHANGED <<chainEra, duration, commission, lastVoter, pools, bondedPools,
                 pipe, shotVars, unbonds, rateVars, issuance, forced, drift>>

SetChainBondingDuration(d) ==
  /\ duration' = d
  /\ UNCHANGED <<chainEra, commission, receiver, lastVoter, pools, bondedPools,
                 pipe, shotVars, unbonds, rateVars, issuance, forced, drift>>

\* set_init_bond: overwrites whatever the pipeline holds.
SetInitBond(p, amount) ==
  /\ p \in pools \ bondedPools
  /\ issuance + TokenToRtoken(rate, amount) <= MaxAmount
  /\ issuance' = issuance + TokenToRtoken(rate, amount)
  /\ rate' = IF rate = None THEN NewRate(0, 0) ELSE rate
  /\ bondedPools' = bondedPools \cup {p}
  /\ pipe' = [pipe EXCEPT ![p] = [bond |-> 0, unbond |-> 0, active |-> amount]]
  /\ drift' = IF Reported(p) THEN drift + amount - pipe[p].active ELSE drift
  /\ UNCHANGED <<chainEra, configVars, pools, shotVars, unbonds, expected,
                 eraRate, forced>>

\* clear_current_era_snap_shots: opens the way to a new era although the
\* snapshots of the current one are not all processed.
ClearCurrentEraSnapShots ==
  /\ MayClear
  /\ currentShots' = {}
  /\ forced' = (forced \/ currentShots # {})
  /\ UNCHANGED <<chainEra, configVars, pools, bondedPools, pipe, snapshots,
                 eraShots, unbonds, rateVars, issuance, drift>>

-----------------------------------------------------------------------------
\* rtoken/votes: every acknowledgement by a relayer writes LastVoter.
Acknowledged(v) ==
  /\ lastVoter' = v
  /\ UNCHANGED <<chainEra, duration, commission, receiver, pools, bondedPools,
                 pipe, shotVars, unbonds, rateVars, issuance, forced, drift>>

\* rtoken/series, execute_bond_record with reason Pass: what it does to the
\* ledger.  The pool need not be bonded any more.
PipeBond(p, amount) ==
  /\ pipe[p].bond + amount <= MaxAmount
  /\ pipe[p].active + amount <= MaxAmount
  /\ issuance + TokenToRtoken(rate, amount) <= MaxAmount
  /\ pipe' = [pipe EXCEPT ![p].bond = @ + amount, ![p].active = @ + amount]
  /\ issuance' = issuance + TokenToRtoken(rate, amount)
  /\ drift' = IF Reported(p) THEN drift + amount ELSE drift
  /\ UNCHANGED <<chainEra, configVars, pools, bondedPools, shotVars, unbonds,
                 rateVars, forced>>

\* The same call for a bond that is swapped to another chain, when that chain
\* was taken off the whitelist: the rtokens are minted, then
\* transfer_fungible returns an error and the pipeline is not written.
BondUnsent(p, amount) ==
  /\ pipe[p].bond + amount <= MaxAmount
  /\ pipe[p].active + amount <= MaxAmount
  /\ issuance + TokenToRtoken(rate, amount) <= MaxAmount
  /\ issuance' = issuance + TokenToRtoken(rate, amount)
  /\ UNCHANGED <<chainEra, configVars, pools, bondedPools, pipe, shotVars,
                 unbonds, rateVars, forced, drift>>

\* rtoken/series, liquidity_unbond: what it does to the ledger when rvalue
\* rtokens are burnt.
PipeUnbond(p, rvalue) ==
  LET balance == RtokenToToken(rate, rvalue) IN
    /\ rvalue > 0
    /\ p \in bondedPools
    /\ chainEra # None
    /\ duration # None
    /\ receiver
    /\ rvalue <= issuance
    /\ pipe[p].unbond + balance <= MaxAmount
    /\ balance <= pipe[p].active
    /\ pipe' = [pipe EXCEPT ![p].unbond = @ + balance, ![p].active = @ - balance]
    /\ unbonds' = unbonds \cup {<<p, chainEra + duration>>}
    /\ issuance' = issuance - rvalue
    /\ drift' = IF Reported(p) THEN drift - balance ELSE drift
    /\ UNCHANGED <<chainEra, configVars, pools, bondedPools, shotVars,
                   rateVars, forced>>

-----------------------------------------------------------------------------
\* The snapshot of p that set_chain_era takes.
ShotOf(p, era) ==
  [era |-> era, pool |-> p, bond |-> pipe[p].bond, unbond |-> pipe[p].unbond,
   active |-> pipe[p].active, lastVoter |-> lastVoter]

OldEra == IF chainEra = None THEN 0 ELSE chainEra

\* set_chain_era that does not wait for the snapshots of the last era.
MutSetChainEra(era) ==
  /\ lastVoter # None
  /\ OldEra = 0 \/ OldEra + 1 = era
  /\ LET shots == {ShotOf(p, era) : p \in bondedPools} IN
       /\ snapshots' = WithState(snapshots, shots, "EraUpdated")
       /\ eraShots' = [eraShots EXCEPT ![era] = shots]
       /\ currentShots' = shots
  /\ chainEra' = era
  /\ drift' = 0
  /\ UNCHANGED <<configVars, pools, bondedPools, pipe, unbonds, rateVars,
                 issuance, forced>>

\* set_chain_era that accepts any era number.
MutSetChainEraAny(era) ==
  /\ currentShots = {}
  /\ lastVoter # None
  /\ LET shots == {ShotOf(p, era) : p \in bondedPools} IN
       /\ snapshots' = WithState(snapshots, shots, "EraUpdated")
       /\ eraShots' = [eraShots EXCEPT ![era] = shots]
       /\ currentShots' = shots
  /\ chainEra' = era
  /\ drift' = 0
  /\ UNCHANGED <<configVars, pools, bondedPools, pipe, unbonds, rateVars,
                 issuance, forced>>

\* set_chain_era: era 0, or no era, may be followed by any era.
SetChainEra(era) ==
  /\ currentShots = {}
  /\ lastVoter # None
  /\ OldEra = 0 \/ OldEra + 1 = era
  /\ LET shots == {ShotOf(p, era) : p \in bondedPools} IN
       /\ snapshots' = WithState(snapshots, shots, "EraUpdated")
       /\ eraShots' = [eraShots EXCEPT ![era] = shots]
       /\ currentShots' = shots
  /\ chainEra' = era
  /\ drift' = 0
  /\ UNCHANGED <<configVars, pools, bondedPools, pipe, unbonds, rateVars,
                 issuance, forced>>

\* new_bond_report: neither list of open snapshots is consulted.
NewBondReport(s, action) ==
  /\ InState(s, {"EraUpdated"})
  /\ pipe' = [pipe EXCEPT ![s.pool] = Deducted(@, s, action)]
  /\ snapshots' = WithState(snapshots, {s}, "BondReported")
  /\ UNCHANGED <<chainEra, configVars, pools, bondedPools, eraShots,
                 currentShots, unbonds, rateVars, issuance, forced, drift>>

BondReport(s) == NewBondReport(s, "BothBondUnbond")

\* The active amount of the pool after a report of active for snapshot s.
ExpectedActive(k, s, active) == SaturatingSub(k.active + active, s.active)

\* A total that forgets the pools reported before.
MutTotalExpected(s, k, active) == ExpectedActive(k, s, active)

\* total_expected_active of the era with this report counted.
TotalExpected(s, k, active) == expected[s.era] + ExpectedActive(k, s, active)

\* A report that leaves a skipped snapshot in the current list.
MutSettle(s) ==
  /\ snapshots' = WithState(snapshots, {s},
       IF <<s.pool, s.era>> \in unbonds THEN "ActiveReported" ELSE "WithdrawSkipped")
  /\ currentShots' = currentShots

\* A snapshot with unbonds due goes on to the withdrawal; any other is done.
Settle(s) ==
  IF <<s.pool, s.era>> \in unbonds
  THEN /\ snapshots' = WithState(snapshots, {s}, "ActiveReported")
       /\ currentShots' = currentShots
  ELSE /\ snapshots' = WithState(snapshots, {s}, "WithdrawSkipped")
       /\ currentShots' = currentShots \ {s}

\* The part the three active reports share.  k is the pool's pipeline before
\* its active amount is set.  Commission is minted on a gain at the old rate;
\* the report that empties the era's list sets the new rate.
ReportActive(s, k, active) ==
  LET gain == IF active > s.active THEN active - s.active ELSE 0
      rfee == TokenToRtoken(rate, PerbillMul(commission, gain))
      total == TotalExpected(s, k, active)
      left == eraShots[s.era] \ {s}
      newRate == NewRate(total, issuance + rfee)
  IN /\ rate # None
     /\ receiver
     /\ s \in eraShots[s.era]
     /\ s \in currentShots
     /\ issuance + rfee <= MaxAmount
     /\ total <= MaxAmount
     /\ issuance' = issuance + rfee
     /\ pipe' = [pipe EXCEPT ![s.pool] =
                   [k EXCEPT !.active = ExpectedActive(k, s, active)]]
     /\ expected' = [expected EXCEPT ![s.era] = total]
     /\ eraShots' = [eraShots EXCEPT ![s.era] = left]
     /\ IF left = {}
        THEN rate' = newRate /\ eraRate' = [eraRate EXCEPT ![s.era] = newRate]
        ELSE UNCHANGED <<rate, eraRate>>
     /\ Settle(s)
     /\ UNCHANGED <<chainEra, configVars, pools, bondedPools, unbonds, forced, drift>>

BondAndReportActive(s, action, active, reward) ==
  /\ InState(s, {"EraUpdated"})
  /\ pipe[s.pool].bond + reward <= MaxAmount
  /\ ReportActive(s, Deducted([pipe[s.pool] EXCEPT !.bond = @ + reward], s, action),
                  active + reward)

ActiveReport(s, active) ==
  /\ InState(s, {"BondReported"})
  /\ ReportActive(s, pipe[s.pool], active)

NewActiveReport(s, staked, unstaked) ==
  /\ InState(s, {"BondReported"})
  /\ pipe[s.pool].bond + unstaked <= MaxAmount
  /\ ReportActive(s, [pipe[s.pool] EXCEPT !.bond = @ + unstaked], staked + unstaked)

\* withdraw_report that also accepts a snapshot whose withdrawal was skipped.
MutWithdrawReport(s) ==
  /\ InState(s, {"ActiveReported", "WithdrawSkipped"})
  /\ snapshots' = WithState(snapshots, {s}, "WithdrawReported")
  /\ UNCHANGED <<chainEra, configVars, pools, bondedPools, pipe, eraShots,
                 currentShots, unbonds, rateVars, issuance, forced, drift>>

WithdrawReport(s) ==
  /\ InState(s, {"ActiveReported"})
  /\ snapshots' = WithState(snapshots, {s}, "WithdrawReported")
  /\ UNCHANGED <<chainEra, configVars, pools, bondedPools, pipe, eraShots,
                 currentShots, unbonds, rateVars, issuance, forced, drift>>

\* BondSnapshot::withdraw_reported.
WithdrawDone == {"WithdrawReported"} \cup (IF SkipsWithdraw THEN {"ActiveReported"} ELSE {})

TransferReport(s) ==
  /\ InState(s, WithdrawDone)
  /\ s \in currentShots
  /\ currentShots' = currentShots \ {s}
  /\ snapshots' = WithState(snapshots, {s}, "TransferReported")
  /\ UNCHANGED <<chainEra, configVars, pools, bondedPools, pipe, eraShots,
                 unbonds, rateVars, issuance, forced, drift>>

-----------------------------------------------------------------------------
RootCall ==
  \/ \E c \in Commission : SetCommission(c)
  \/ \E p \in Pool : AddNewPool(p) \/ RemovePool(p)
  \/ SetReceiver
  \/ \E d \in Duration : SetChainBondingDuration(d)
  \/ \E p \in Pool, amount \in Gain : SetInitBond(p, amount)

SeriesCall ==
  \E p \in Pool, amount \in Gain :
    PipeBond(p, amount) \/ BondUnsent(p, amount) \/ PipeUnbond(p, amount)

\* The reports relayers vote on for snapshot s.
ShotReport(s) ==
  \/ BondReport(s)
  \/ \E action \in BondAction : NewBondReport(s, action)
  \/ \E action \in BondAction, active \in Active, reward \in Gain :
       BondAndReportActive(s, action, active, reward)
  \/ \E active \in Active : ActiveReport(s, active)
  \/ \E staked \in Active, unstaked \in Gain : NewActiveReport(s, staked, unstaked)
  \/ WithdrawReport(s)
  \/ TransferReport(s)

Next ==
  \/ RootCall
  \/ ClearCurrentEraSnapShots
  \/ SeriesCall
  \/ \E v \in Voter : Acknowledged(v)
  \/ \E era \in EraCall : SetChainEra(era)
  \/ \E s \in DOMAIN snapshots : ShotReport(s)

Spec == Init /\ [][Next]_vars

-----------------------------------------------------------------------------
Settled == {"WithdrawSkipped", "TransferReported"}   \* continuable()
Unreported == {"EraUpdated", "BondReported"}

(* Unless root dropped snapshots, the two lists say exactly what the states *)
(* say: the current list holds the unsettled snapshots, all of the current  *)
(* era, and an era's list those without an active report.  set_chain_era    *)
(* only looks at the current list, active reports at both, the others at    *)
(* the state alone, so the three must never part.                           *)
ListsMatchStates ==
  ~forced =>
    /\ currentShots = {s \in DOMAIN snapshots : snapshots[s] \notin Settled}
    /\ \A s \in currentShots : s.era = chainEra
    /\ \A e \in Era : eraShots[e] =
         {s \in DOMAIN snapshots : s.era = e /\ snapshots[s] \in Unreported}

(* Unless root dropped snapshots, a report never takes off more than the    *)
(* pipeline still holds: between a snapshot and its bond report the pool's  *)
(* pending bond and unbond only grow, however bonds, unbonds, removal and   *)
(* re-initialisation of the pool fall in between.  The saturating           *)
(* subtractions of the bond reports would hide the loss otherwise.          *)
PipelineCoversSnapshot ==
  ~forced =>
    \A s \in DOMAIN snapshots :
      snapshots[s] = "EraUpdated" =>
        s.bond <= pipe[s.pool].bond /\ s.unbond <= pipe[s.pool].unbond

\* The order of the states of a snapshot.
Rank(state) ==
  CASE state = "EraUpdated" -> 0
    [] state = "BondReported" -> 1
    [] state = "ActiveReported" -> 2
    [] state = "WithdrawReported" -> 3
    [] OTHER -> 4

(* A snapshot only moves forward and a settled one never moves: no          *)
(* repeated, late or reordered report is applied twice.  Era 0 is left out: *)
(* set_chain_era lets it be opened again.                                   *)
SnapshotsMoveForward ==
  [][\A s \in DOMAIN snapshots :
       s.era # 0 =>
         /\ s \in DOMAIN snapshots'
         /\ snapshots'[s] = snapshots[s] \/ Rank(snapshots'[s]) > Rank(snapshots[s])]_vars

(* The rate recorded for an era is final, also when root cleared the list:  *)
(* it is set by the report that empties the era's list and no later report  *)
(* for that era is accepted.  Unbonding reads it as history.                *)
EraRateIsFinal ==
  [][\A e \in Era \ {0} : eraRate[e] # None => eraRate'[e] = eraRate[e]]_vars

\* What the pools of some snapshots hold.
ActiveIn(pipes, shots) ==
  SumFunctionOnSet([s \in shots |-> pipes[s.pool].active], shots)

(* The rate of an era counts every pool of the era once: the total the      *)
(* rate is computed from is the active amount of all the era's pools, less  *)
(* what was bonded or unbonded behind a report that had been made already.  *)
(* The latter is in the issuance but not in the total, so a bond or unbond  *)
(* between two reports of an era shifts the rate by exactly that much.      *)
RateCountsEveryPool ==
  [][\A e \in Era \ {0} :
       ~forced /\ eraRate'[e] # eraRate[e] =>
         expected'[e] + drift' = ActiveIn(pipe', {s \in DOMAIN snapshots : s.era = e})]_vars

=============================================================================
