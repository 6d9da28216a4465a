------------------------- MODULE RTokenLedgerProofs -------------------------
(* Proofs about the era cycle of rtoken/ledger, for every set of pools and  *)
(* voters, every era, amount, commission, bonding duration and rate width,  *)
(* with and without root clearing the list of current snapshots.            *)
EXTENDS RTokenLedger, CountingLemmas

\* Snapshots are taken for the eras opened so far.
ErasOpened == \A s \in DOMAIN snapshots : s.era <= OldEra

\* An era with a rate has been opened and has no report left to come.
RatedErasClosed ==
  \A e \in Era \ {0} : eraRate[e] # None => e <= OldEra /\ eraShots[e] = {}

\* A pool has one snapshot in process at most.
OneShotPerPool ==
  ~forced => \A s \in currentShots, t \in currentShots : s.pool = t.pool => s = t

\* A pool is only taken off the bonded pools when its snapshot took nothing,
\* so set_init_bond may then overwrite its pipeline.
RemovedPoolsOweNothing ==
  ~forced =>
    \A s \in DOMAIN snapshots :
      snapshots[s] = "EraUpdated" /\ s.pool \notin bondedPools => s.bond = 0 /\ s.unbond = 0

ListInv == ErasOpened /\ RatedErasClosed /\ ListsMatchStates /\ OneShotPerPool

PipeInv == PipelineCoversSnapshot /\ RemovedPoolsOweNothing

IInv == TypeOK /\ ListInv /\ PipeInv

-----------------------------------------------------------------------------
(* The arithmetic of rtoken/rate and of the commission stays in the         *)
(* naturals.                                                                *)
LEMMA QuotientBounds ==
  ASSUME NEW a \in Nat, NEW b \in Nat, NEW c \in Nat \ {0}
  PROVE  /\ Quotient(a, b, c) \in Nat
         /\ a * b < AmountLimit => Quotient(a, b, c) * c <= a * b
         /\ 2 * (Quotient(a, b, c) * c) <= 2 * (a * b) + c
<1> DEFINE p == a * b
           q == p \div c
           m == p % c
           h == c \div 2
<1>1. p \in Nat /\ AmountLimit \in Nat
  BY RateAssumption
<1>2. Quotient(a, b, c) = q + IF p >= AmountLimit /\ c >= LimbLimit /\ m > h THEN 1 ELSE 0
  BY DEF Quotient
<1> HIDE DEF p
<1>3. q \in Nat /\ m \in Nat /\ p = q * c + m /\ q * c \in Nat
  BY <1>1
<1>4. h \in Nat /\ c <= 2 * h + 1
  OBVIOUS
<1> HIDE DEF q, m, h
<1>5. CASE Quotient(a, b, c) = q /\ ~(p >= AmountLimit /\ c >= LimbLimit /\ m > h)
  BY <1>1, <1>3, <1>5 DEF p
<1>6. CASE Quotient(a, b, c) = q + 1 /\ p >= AmountLimit /\ m > h
  <2>1. (q + 1) * c = q * c + c
    BY <1>3
  <2> QED
    BY <1>1, <1>3, <1>4, <1>6, <2>1 DEF p
<1> QED
  BY <1>2, <1>3, <1>5, <1>6

LEMMA QuotientType ==
  ASSUME NEW a \in Nat, NEW b \in Nat, NEW c \in Nat \ {0}, NEW d \in Nat
  PROVE  MultiplyByRational(a, b, c, d) \in Nat
  BY QuotientBounds DEF MultiplyByRational

LEMMA RateTypes ==
  ASSUME NEW r \in Nat \cup {None}, NEW x \in Nat, NEW y \in Nat
  PROVE  /\ TokenToRtoken(r, x) \in Nat
         /\ RtokenToToken(r, x) \in Nat
         /\ NewRate(x, y) \in Nat
<1>1. RateBase \in Nat \ {0} /\ RateBase \in Nat /\ RateLimit \in Nat \ {0}
  BY RateAssumption
<1>2. TokenToRtoken(r, x) \in Nat
  <2>1. CASE r = None \/ r = 0
    BY <2>1 DEF TokenToRtoken
  <2>2. CASE r # None /\ r # 0
    <3>1. r \in Nat \ {0}
      BY <2>2
    <3> QED
      BY <1>1, <2>2, <3>1, QuotientType DEF TokenToRtoken
  <2> QED
    BY <2>1, <2>2
<1>3. RtokenToToken(r, x) \in Nat
  BY <1>1, QuotientType DEF RtokenToToken
<1>4. NewRate(x, y) \in Nat
  <2>1. CASE x = 0 \/ y = 0
    BY <1>1, <2>1 DEF NewRate
  <2>2. CASE x # 0 /\ y # 0
    <3> DEFINE q == MultiplyByRational(x, RateBase, y, RateBase)
    <3>1. q \in Nat
      BY <1>1, <2>2, QuotientType
    <3>2. NewRate(x, y) = q % RateLimit
      BY <2>2 DEF NewRate
    <3> HIDE DEF q
    <3> QED
      BY <1>1, <3>1, <3>2
  <2> QED
    BY <2>1, <2>2
<1> QED
  BY <1>2, <1>3, <1>4

LEMMA CommissionType ==
  ASSUME NEW part \in Nat, NEW amount \in Nat
  PROVE  PerbillMul(part, amount) \in Nat
<1>1. part * amount \in Nat /\ PerbillBase \in Nat \ {0}
  BY LedgerAssumption
<1>2. (part * amount) \div PerbillBase \in Nat
  BY <1>1
<1> QED
  BY <1>2 DEF PerbillMul

(* The pipeline record a report works on keeps its type.                    *)
LEMMA ChunkTypes ==
  ASSUME NEW k \in LinkChunk, NEW s \in Snapshot, NEW action, NEW x \in Nat
  PROVE  /\ Deducted(k, s, action) \in LinkChunk
         /\ [k EXCEPT !.bond = @ + x] \in LinkChunk
         /\ ExpectedActive(k, s, x) \in Nat
         /\ [k EXCEPT !.active = ExpectedActive(k, s, x)] \in LinkChunk
<1>1. \A a \in Nat, b \in Nat : SaturatingSub(a, b) \in Nat
  BY DEF SaturatingSub
<1>2. BondDeduct(s, action) \in Nat /\ UnbondDeduct(s, action) \in Nat
  BY DEF BondDeduct, UnbondDeduct, Snapshot
<1>3. Deducted(k, s, action) \in LinkChunk
  BY <1>1, <1>2 DEF Deducted, LinkChunk
<1>4. ExpectedActive(k, s, x) \in Nat
  <2>1. k.active + x \in Nat /\ s.active \in Nat
    BY DEF LinkChunk, Snapshot
  <2> QED
    BY <1>1, <2>1 DEF ExpectedActive
<1> QED
  BY <1>3, <1>4 DEF LinkChunk

-----------------------------------------------------------------------------
\* The report moves s from one of the given states to another.
Moves(s, from, to) ==
  /\ snapshots[s] \in from
  /\ snapshots' = WithState(snapshots, {s}, to)

\* What the four kinds of report do to the snapshot and the lists.
BondStep(s) ==
  /\ Moves(s, {"EraUpdated"}, "BondReported")
  /\ UNCHANGED <<eraShots, currentShots, eraRate>>

ActiveStep(s) ==
  /\ s \in eraShots[s.era]
  /\ eraShots' = [eraShots EXCEPT ![s.era] = @ \ {s}]
  /\ \/ Moves(s, Unreported, "ActiveReported") /\ currentShots' = currentShots
     \/ Moves(s, Unreported, "WithdrawSkipped") /\ currentShots' = currentShots \ {s}
  /\ \/ eraRate' = eraRate
     \/ /\ eraShots[s.era] \ {s} = {}
        /\ \E r \in Nat : eraRate' = [eraRate EXCEPT ![s.era] = r]

WithdrawStep(s) ==
  /\ Moves(s, {"ActiveReported"}, "WithdrawReported")
  /\ UNCHANGED <<eraShots, currentShots, eraRate>>

TransferStep(s) ==
  /\ Moves(s, {"ActiveReported", "WithdrawReported"}, "TransferReported")
  /\ currentShots' = currentShots \ {s}
  /\ UNCHANGED <<eraShots, eraRate>>

\* What a report leaves alone, and the types of what it does not.
ReportFrame(s) ==
  /\ UNCHANGED <<chainEra, configVars, pools, bondedPools, unbonds, forced, drift>>
  /\ pipe' \in [Pool -> LinkChunk]
  /\ \A p \in Pool : p # s.pool => pipe'[p] = pipe[p]
  /\ expected' \in [Era -> Nat]
  /\ rate' \in Nat \cup {None}
  /\ issuance' \in Nat

(* The three active reports share one shape.                                *)
LEMMA ActiveShape ==
  ASSUME TypeOK, NEW s \in DOMAIN snapshots, NEW k \in LinkChunk, NEW active \in Nat,
         InState(s, Unreported), ReportActive(s, k, active)
  PROVE  ActiveStep(s) /\ ReportFrame(s)
<1> DEFINE gain == IF active > s.active THEN active - s.active ELSE 0
           rfee == TokenToRtoken(rate, PerbillMul(commission, gain))
           total == TotalExpected(s, k, active)
           left == eraShots[s.era] \ {s}
           newRate == NewRate(total, issuance + rfee)
<1>1. s \in Snapshot /\ s.era \in Era /\ s.pool \in Pool /\ s.active \in Nat
  BY DEF TypeOK, Snapshot
<1>2. gain \in Nat /\ commission \in Nat
  BY <1>1, LedgerAssumption DEF TypeOK
<1> HIDE DEF gain
<1>3. rfee \in Nat
  BY <1>2, CommissionType, RateTypes DEF TypeOK
<1> HIDE DEF rfee
<1>4. total \in Nat
  <2>1. ExpectedActive(k, s, active) \in Nat
    BY <1>1, ChunkTypes
  <2> QED
    BY <1>1, <2>1 DEF TotalExpected, TypeOK
<1>5. newRate \in Nat
  <2>1. issuance + rfee \in Nat
    BY <1>3 DEF TypeOK
  <2> QED
    BY <1>4, <2>1, RateTypes DEF TypeOK
<1>6. /\ s \in eraShots[s.era]
      /\ issuance' = issuance + rfee
      /\ pipe' = [pipe EXCEPT ![s.pool] = [k EXCEPT !.active = ExpectedActive(k, s, active)]]
      /\ expected' = [expected EXCEPT ![s.era] = total]
      /\ eraShots' = [eraShots EXCEPT ![s.era] = left]
      /\ IF left = {}
         THEN rate' = newRate /\ eraRate' = [eraRate EXCEPT ![s.era] = newRate]
         ELSE UNCHANGED <<rate, eraRate>>
      /\ Settle(s)
      /\ UNCHANGED <<chainEra, configVars, pools, bondedPools, unbonds, forced, drift>>
  BY DEF ReportActive, rfee, gain
<1> HIDE DEF total, newRate
<1>7. ActiveStep(s)
  <2>1. snapshots[s] \in Unreported
    BY DEF InState
  <2>2. \/ Moves(s, Unreported, "ActiveReported") /\ currentShots' = currentShots
        \/ Moves(s, Unreported, "WithdrawSkipped") /\ currentShots' = currentShots \ {s}
    BY <1>6, <2>1 DEF Settle, Moves
  <2>3. \/ eraRate' = eraRate
        \/ /\ left = {}
           /\ \E r \in Nat : eraRate' = [eraRate EXCEPT ![s.era] = r]
    BY <1>5, <1>6
  <2> QED
    BY <1>6, <2>2, <2>3 DEF ActiveStep
<1>8. ReportFrame(s)
  <2>1. [k EXCEPT !.active = ExpectedActive(k, s, active)] \in LinkChunk
    BY <1>1, ChunkTypes
  <2>2. /\ pipe' \in [Pool -> LinkChunk]
        /\ \A p \in Pool : p # s.pool => pipe'[p] = pipe[p]
    BY <1>1, <1>6, <2>1 DEF TypeOK
  <2>3. expected' \in [Era -> Nat] /\ issuance' \in Nat /\ rate' \in Nat \cup {None}
    BY <1>1, <1>3, <1>4, <1>5, <1>6 DEF TypeOK
  <2> QED
    BY <1>6, <2>2, <2>3 DEF ReportFrame
<1> QED
  BY <1>7, <1>8

(* Every report is one of the four kinds.                                   *)
LEMMA ReportShape ==
  ASSUME TypeOK, NEW s \in DOMAIN snapshots, ShotReport(s)
  PROVE  /\ BondStep(s) \/ ActiveStep(s) \/ WithdrawStep(s) \/ TransferStep(s)
         /\ ReportFrame(s)
<1>1. s \in Snapshot /\ s.pool \in Pool /\ pipe[s.pool] \in LinkChunk
  BY DEF TypeOK, Snapshot
<1>2. Gain \subseteq Nat /\ Active \subseteq Nat
  BY LedgerAssumption
<1>3. UNCHANGED <<pipe, rateVars, issuance>> =>
        /\ pipe' \in [Pool -> LinkChunk] /\ \A p \in Pool : p # s.pool => pipe'[p] = pipe[p]
        /\ expected' \in [Era -> Nat] /\ rate' \in Nat \cup {None} /\ issuance' \in Nat
  BY DEF TypeOK, rateVars
<1>4. ASSUME NEW action, NewBondReport(s, action) PROVE BondStep(s) /\ ReportFrame(s)
  <2>1. Deducted(pipe[s.pool], s, action) \in LinkChunk
    BY <1>1, ChunkTypes
  <2>2. /\ pipe' \in [Pool -> LinkChunk]
        /\ \A p \in Pool : p # s.pool => pipe'[p] = pipe[p]
    BY <1>1, <1>4, <2>1 DEF NewBondReport, TypeOK
  <2> QED
    BY <1>4, <2>2 DEF NewBondReport, InState, BondStep, Moves, ReportFrame, TypeOK, rateVars
<1>5. ASSUME NEW action \in BondAction, NEW active \in Active, NEW reward \in Gain,
             BondAndReportActive(s, action, active, reward)
      PROVE  ActiveStep(s) /\ ReportFrame(s)
  <2> DEFINE k == Deducted([pipe[s.pool] EXCEPT !.bond = @ + reward], s, action)
  <2>1. k \in LinkChunk /\ active + reward \in Nat
    <3>1. [pipe[s.pool] EXCEPT !.bond = @ + reward] \in LinkChunk
      BY <1>1, <1>2, ChunkTypes
    <3>2. active + reward \in Nat
      BY <1>2
    <3>3. Deducted([pipe[s.pool] EXCEPT !.bond = @ + reward], s, action) \in LinkChunk
      BY <1>1, <3>1, ChunkTypes
    <3> QED
      BY <3>2, <3>3
  <2>2. InState(s, Unreported) /\ ReportActive(s, k, active + reward)
    BY <1>5 DEF BondAndReportActive, InState, Unreported
  <2> QED
    BY <2>1, <2>2, ActiveShape
<1>6. ASSUME NEW active \in Active, ActiveReport(s, active)
      PROVE  ActiveStep(s) /\ ReportFrame(s)
  <2>1. InState(s, Unreported) /\ ReportActive(s, pipe[s.pool], active)
    BY <1>6 DEF ActiveReport, InState, Unreported
  <2> QED
    BY <1>1, <1>2, <2>1, ActiveShape
<1>7. ASSUME NEW staked \in Active, NEW unstaked \in Gain, NewActiveReport(s, staked, unstaked)
      PROVE  ActiveStep(s) /\ ReportFrame(s)
  <2> DEFINE k == [pipe[s.pool] EXCEPT !.bond = @ + unstaked]
  <2>1. k \in LinkChunk /\ staked + unstaked \in Nat
    <3>1. staked \in Nat /\ unstaked \in Nat
      BY <1>2
    <3>2. [pipe[s.pool] EXCEPT !.bond = @ + unstaked] \in LinkChunk
      BY <1>1, <3>1, ChunkTypes
    <3> QED
      BY <3>1, <3>2
  <2>2. InState(s, Unreported) /\ ReportActive(s, k, staked + unstaked)
    BY <1>7 DEF NewActiveReport, InState, Unreported
  <2> QED
    BY <2>1, <2>2, ActiveShape
<1>8. CASE WithdrawReport(s)
  BY <1>3, <1>8 DEF WithdrawReport, InState, WithdrawStep, Moves, ReportFrame, rateVars
<1>9. CASE TransferReport(s)
  BY <1>3, <1>9
  DEF TransferReport, InState, WithdrawDone, TransferStep, Moves, ReportFrame, rateVars
<1> QED
  BY <1>4, <1>5, <1>6, <1>7, <1>8, <1>9 DEF ShotReport, BondReport

(* What a report does to the snapshots: it moves one that exists.           *)
LEMMA MovesFacts ==
  ASSUME NEW s \in DOMAIN snapshots, NEW from, NEW to, Moves(s, from, to)
  PROVE  /\ DOMAIN snapshots' = DOMAIN snapshots
         /\ snapshots'[s] = to /\ snapshots[s] \in from
         /\ \A t \in DOMAIN snapshots : t # s => snapshots'[t] = snapshots[t]
<1>1. snapshots' = WithState(snapshots, {s}, to) /\ snapshots[s] \in from
  BY DEF Moves
<1> QED
  BY <1>1 DEF WithState

\* What set_chain_era does to the snapshots and the lists.
Opens(era, shots) ==
  /\ shots = {ShotOf(p, era) : p \in bondedPools}
  /\ snapshots' = WithState(snapshots, shots, "EraUpdated")
  /\ eraShots' = [eraShots EXCEPT ![era] = shots]
  /\ currentShots' = shots
  /\ chainEra' = era
  /\ drift' = 0
  /\ UNCHANGED <<configVars, pools, bondedPools, pipe, unbonds, rateVars, issuance, forced>>

(* Opening an era takes one snapshot of each bonded pool, of that era.      *)
LEMMA OpensFacts ==
  ASSUME TypeOK, NEW era \in EraCall, SetChainEra(era)
  PROVE  /\ currentShots = {} /\ (OldEra = 0 \/ OldEra + 1 = era)
         /\ era \in Era /\ era \in Nat
         /\ \E shots \in SUBSET Snapshot :
              /\ Opens(era, shots)
              /\ \A s \in shots :
                   /\ s.era = era /\ s.pool \in bondedPools
                   /\ s.bond = pipe[s.pool].bond /\ s.unbond = pipe[s.pool].unbond
              /\ \A s \in shots, t \in shots : s.pool = t.pool => s = t
<1> DEFINE shots == {ShotOf(p, era) : p \in bondedPools}
<1>1. era \in Era /\ era \in Nat
  BY LedgerAssumption DEF Era
<1>2. lastVoter \in Voter /\ bondedPools \subseteq Pool
  BY DEF SetChainEra, TypeOK
<1>3. \A p \in bondedPools : pipe[p] \in LinkChunk
  BY <1>2 DEF TypeOK
<1>4. \A p \in bondedPools :
        /\ ShotOf(p, era) \in Snapshot
        /\ ShotOf(p, era).pool = p /\ ShotOf(p, era).era = era
        /\ ShotOf(p, era).bond = pipe[p].bond /\ ShotOf(p, era).unbond = pipe[p].unbond
  BY <1>1, <1>2, <1>3 DEF ShotOf, Snapshot, LinkChunk
<1>5. Opens(era, shots)
  BY DEF SetChainEra, Opens
<1>6. shots \in SUBSET Snapshot
  BY <1>4
<1>7. \A s \in shots :
        /\ s.era = era /\ s.pool \in bondedPools
        /\ s.bond = pipe[s.pool].bond /\ s.unbond = pipe[s.pool].unbond
  BY <1>4
<1>8. \A s \in shots, t \in shots : s.pool = t.pool => s = t
  BY <1>4
<1>9. currentShots = {} /\ (OldEra = 0 \/ OldEra + 1 = era)
  BY DEF SetChainEra
<1> HIDE DEF shots
<1> QED
  BY <1>1, <1>5, <1>6, <1>7, <1>8, <1>9

-----------------------------------------------------------------------------
\* The calls that leave snapshots, lists, era and era rates alone.
Quiet == UNCHANGED <<chainEra, shotVars, eraRate, forced>>

\* The types of what such a call may change.
QuietTypes ==
  /\ duration' \in Duration \cup {None}
  /\ commission' \in 0..(PerbillBase - 1)
  /\ receiver' \in BOOLEAN
  /\ lastVoter' \in Voter \cup {None}
  /\ pools' \subseteq Pool /\ bondedPools' \subseteq pools'
  /\ pipe' \in [Pool -> LinkChunk]
  /\ expected' \in [Era -> Nat]
  /\ unbonds' \subseteq Pool \X Nat
  /\ rate' \in Nat \cup {None}
  /\ issuance' \in Nat
  /\ drift' \in Int

(* Root's calls, bonds, unbonds and acknowledgements are quiet.             *)
LEMMA QuietSteps ==
  ASSUME TypeOK, \/ RootCall \/ SeriesCall \/ \E v \in Voter : Acknowledged(v)
                 \/ UNCHANGED vars
  PROVE  Quiet /\ QuietTypes
<1>0. /\ Commission \subseteq 0..(PerbillBase - 1) /\ Gain \subseteq Nat
      /\ Duration \subseteq Nat
  BY LedgerAssumption
<1> USE DEF Quiet, QuietTypes, configVars, shotVars, rateVars
<1>1. ASSUME NEW c \in Commission, SetCommission(c) PROVE Quiet /\ QuietTypes
  BY <1>0, <1>1 DEF SetCommission, TypeOK
<1>2. ASSUME NEW p \in Pool, AddNewPool(p) PROVE Quiet /\ QuietTypes
  BY <1>2 DEF AddNewPool, TypeOK
<1>3. ASSUME NEW p \in Pool, RemovePool(p) PROVE Quiet /\ QuietTypes
  BY <1>3 DEF RemovePool, TypeOK
<1>4. CASE SetReceiver
  BY <1>4 DEF SetReceiver, TypeOK
<1>5. ASSUME NEW d \in Duration, SetChainBondingDuration(d) PROVE Quiet /\ QuietTypes
  BY <1>5 DEF SetChainBondingDuration, TypeOK
<1>6. ASSUME NEW p \in Pool, NEW amount \in Gain, SetInitBond(p, amount)
      PROVE  Quiet /\ QuietTypes
  <2>1. amount \in Nat /\ TokenToRtoken(rate, amount) \in Nat /\ NewRate(0, 0) \in Nat
    BY <1>0, RateTypes DEF TypeOK
  <2>2. issuance' \in Nat /\ rate' \in Nat \cup {None}
    BY <1>6, <2>1 DEF SetInitBond, TypeOK
  <2>3. [bond |-> 0, unbond |-> 0, active |-> amount] \in LinkChunk /\ pipe[p].active \in Nat
    BY <2>1 DEF LinkChunk, TypeOK
  <2>4. pipe' \in [Pool -> LinkChunk] /\ drift' \in Int
    BY <1>6, <2>1, <2>3 DEF SetInitBond, TypeOK
  <2> QED
    BY <1>6, <2>2, <2>4 DEF SetInitBond, TypeOK
<1>7. ASSUME NEW p \in Pool, NEW amount \in Gain, PipeBond(p, amount)
      PROVE  Quiet /\ QuietTypes
  <2>1. amount \in Nat /\ TokenToRtoken(rate, amount) \in Nat
    BY <1>0, RateTypes DEF TypeOK
  <2>2. issuance' \in Nat /\ drift' \in Int
    BY <1>7, <2>1 DEF PipeBond, TypeOK
  <2>3. pipe' \in [Pool -> LinkChunk]
    <3>1. pipe[p].bond + amount \in Nat /\ pipe[p].active + amount \in Nat
      BY <2>1 DEF TypeOK, LinkChunk
    <3>2. pipe' = [pipe EXCEPT ![p] = [pipe[p] EXCEPT !.bond = pipe[p].bond + amount,
                                                      !.active = pipe[p].active + amount]]
      BY <1>7 DEF PipeBond, TypeOK, LinkChunk
    <3>3. [pipe[p] EXCEPT !.bond = pipe[p].bond + amount,
                          !.active = pipe[p].active + amount] \in LinkChunk
      BY <3>1 DEF TypeOK, LinkChunk
    <3> QED
      BY <3>2, <3>3 DEF TypeOK
  <2> QED
    BY <1>7, <2>2, <2>3 DEF PipeBond, TypeOK
<1>8. ASSUME NEW p \in Pool, NEW amount \in Gain, BondUnsent(p, amount)
      PROVE  Quiet /\ QuietTypes
  <2>1. amount \in Nat /\ TokenToRtoken(rate, amount) \in Nat
    BY <1>0, RateTypes DEF TypeOK
  <2> QED
    BY <1>8, <2>1 DEF BondUnsent, TypeOK
<1>9. ASSUME NEW p \in Pool, NEW amount \in Gain, PipeUnbond(p, amount)
      PROVE  Quiet /\ QuietTypes
  <2> DEFINE balance == RtokenToToken(rate, amount)
  <2>1. amount \in Nat /\ balance \in Nat
    BY <1>0, RateTypes DEF TypeOK
  <2>2. /\ amount <= issuance /\ issuance' = issuance - amount
        /\ balance <= pipe[p].active
        /\ pipe' = [pipe EXCEPT ![p].unbond = @ + balance, ![p].active = @ - balance]
        /\ drift' = IF Reported(p) THEN drift - balance ELSE drift
        /\ unbonds' = unbonds \cup {<<p, chainEra + duration>>}
        /\ chainEra # None /\ duration # None
    BY <1>9 DEF PipeUnbond
  <2> HIDE DEF balance
  <2>3. issuance' \in Nat /\ drift' \in Int
    BY <2>1, <2>2 DEF TypeOK
  <2>4. pipe' \in [Pool -> LinkChunk]
    <3>1. pipe[p].unbond + balance \in Nat /\ pipe[p].active - balance \in Nat
      BY <2>1, <2>2 DEF TypeOK, LinkChunk
    <3>2. pipe' = [pipe EXCEPT ![p] = [pipe[p] EXCEPT !.unbond = pipe[p].unbond + balance,
                                                      !.active = pipe[p].active - balance]]
      BY <2>2 DEF TypeOK, LinkChunk
    <3>3. [pipe[p] EXCEPT !.unbond = pipe[p].unbond + balance,
                          !.active = pipe[p].active - balance] \in LinkChunk
      BY <3>1 DEF TypeOK, LinkChunk
    <3> QED
      BY <3>2, <3>3 DEF TypeOK
  <2>5. unbonds' \subseteq Pool \X Nat
    <3>1. chainEra + duration \in Nat
      BY <1>0, <2>2, LedgerAssumption DEF TypeOK, Era
    <3> QED
      BY <2>2, <3>1 DEF TypeOK
  <2> QED
    BY <1>9, <2>3, <2>4, <2>5 DEF PipeUnbond, TypeOK
<1>10. ASSUME NEW v \in Voter, Acknowledged(v) PROVE Quiet /\ QuietTypes
  BY <1>10 DEF Acknowledged, TypeOK
<1>11. CASE UNCHANGED vars
  BY <1>11 DEF vars, TypeOK
<1> QED
  BY <1>1, <1>2, <1>3, <1>4, <1>5, <1>6, <1>7, <1>8, <1>9, <1>10, <1>11
  DEF RootCall, SeriesCall

(* Every step keeps the types.                                              *)
LEMMA TypeStep == TypeOK /\ [Next]_vars => TypeOK'
<1> SUFFICES ASSUME TypeOK, [Next]_vars PROVE TypeOK'
  OBVIOUS
<1>1. CASE RootCall \/ SeriesCall \/ (\E v \in Voter : Acknowledged(v)) \/ UNCHANGED vars
  <2>1. Quiet /\ QuietTypes
    BY <1>1, QuietSteps
  <2> QED
    BY <2>1 DEF Quiet, QuietTypes, TypeOK, shotVars
<1>2. CASE ClearCurrentEraSnapShots
  BY <1>2 DEF ClearCurrentEraSnapShots, TypeOK, configVars, rateVars
<1>3. ASSUME NEW era \in EraCall, SetChainEra(era) PROVE TypeOK'
  <2>1. PICK shots \in SUBSET Snapshot : Opens(era, shots)
    BY <1>3, OpensFacts
  <2>2. era \in Era
    BY <1>3, OpensFacts
  <2>3. /\ DOMAIN snapshots' = DOMAIN snapshots \cup shots
        /\ snapshots' \in [DOMAIN snapshots \cup shots -> PoolBondState]
    BY <2>1 DEF Opens, WithState, TypeOK, PoolBondState
  <2>4. eraShots' \in [Era -> SUBSET (DOMAIN snapshots \cup shots)]
    BY <2>1, <2>2 DEF Opens, TypeOK
  <2>5. /\ currentShots' = shots /\ chainEra' = era /\ drift' = 0
        /\ UNCHANGED <<configVars, pools, bondedPools, pipe, unbonds, rateVars, issuance,
                       forced>>
    BY <2>1 DEF Opens
  <2> QED
    BY <2>2, <2>3, <2>4, <2>5 DEF TypeOK, configVars, rateVars
<1>4. ASSUME NEW s \in DOMAIN snapshots, ShotReport(s) PROVE TypeOK'
  <2>1. ReportFrame(s)
    BY <1>4, ReportShape
  <2>2. s \in Snapshot /\ s.era \in Era
    BY DEF TypeOK, Snapshot
  <2>3. ASSUME NEW from, NEW to \in PoolBondState, Moves(s, from, to)
        PROVE  DOMAIN snapshots' = DOMAIN snapshots
               /\ snapshots' \in [DOMAIN snapshots -> PoolBondState]
    BY <2>3 DEF Moves, WithState, TypeOK
  <2>4. /\ DOMAIN snapshots' = DOMAIN snapshots
        /\ snapshots' \in [DOMAIN snapshots -> PoolBondState]
        /\ eraShots' \in [Era -> SUBSET DOMAIN snapshots]
        /\ currentShots' \subseteq DOMAIN snapshots
        /\ eraRate' \in [Era -> Nat \cup {None}]
    <3>1. CASE BondStep(s) \/ WithdrawStep(s) \/ TransferStep(s)
      BY <2>3, <3>1 DEF BondStep, WithdrawStep, TransferStep, PoolBondState, TypeOK
    <3>2. CASE ActiveStep(s)
      <4>1. eraRate' \in [Era -> Nat \cup {None}]
        BY <2>2, <3>2 DEF ActiveStep, TypeOK
      <4>2. eraShots' \in [Era -> SUBSET DOMAIN snapshots]
        BY <2>2, <3>2 DEF ActiveStep, TypeOK
      <4>3. currentShots' \subseteq DOMAIN snapshots
        BY <3>2 DEF ActiveStep, TypeOK
      <4>4. /\ DOMAIN snapshots' = DOMAIN snapshots
            /\ snapshots' \in [DOMAIN snapshots -> PoolBondState]
        BY <2>3, <3>2 DEF ActiveStep, PoolBondState
      <4> QED
        BY <4>1, <4>2, <4>3, <4>4
    <3> QED
      BY <1>4, <3>1, <3>2, ReportShape
  <2> QED
    BY <2>1, <2>4 DEF ReportFrame, TypeOK, configVars
<1> QED
  BY <1>1, <1>2, <1>3, <1>4 DEF Next

(* The lists keep in step with the states, and eras with their rates.       *)
LEMMA ListStep == TypeOK /\ ListInv /\ [Next]_vars => ListInv'
<1> SUFFICES ASSUME TypeOK, ListInv, [Next]_vars PROVE ListInv'
  OBVIOUS
<1>0. ErasOpened /\ RatedErasClosed /\ ListsMatchStates /\ OneShotPerPool
  BY DEF ListInv
<1>1. CASE RootCall \/ SeriesCall \/ (\E v \in Voter : Acknowledged(v)) \/ UNCHANGED vars
  <2>1. Quiet
    BY <1>1, QuietSteps
  <2> QED
    BY <1>0, <2>1 DEF Quiet, shotVars, ListInv, ErasOpened, RatedErasClosed, ListsMatchStates,
       OneShotPerPool, OldEra
<1>2. CASE ClearCurrentEraSnapShots
  <2>1. /\ currentShots' = {} /\ (~forced' => ~forced /\ currentShots = {})
        /\ UNCHANGED <<chainEra, snapshots, eraShots, eraRate>>
    BY <1>2 DEF ClearCurrentEraSnapShots, rateVars, TypeOK
  <2> QED
    BY <1>0, <2>1 DEF ListInv, ErasOpened, RatedErasClosed, ListsMatchStates,
       OneShotPerPool, OldEra
<1>3. ASSUME NEW era \in EraCall, SetChainEra(era) PROVE ListInv'
  <2>1. PICK shots \in SUBSET Snapshot :
          /\ Opens(era, shots)
          /\ \A s \in shots : s.era = era
          /\ \A s \in shots, t \in shots : s.pool = t.pool => s = t
    BY <1>3, OpensFacts
  <2>2. currentShots = {} /\ (OldEra = 0 \/ OldEra + 1 = era) /\ era \in Era /\ era \in Nat
    BY <1>3, OpensFacts
  <2>3. /\ chainEra' = era /\ currentShots' = shots /\ forced' = forced /\ eraRate' = eraRate
        /\ eraShots' = [eraShots EXCEPT ![era] = shots]
        /\ DOMAIN snapshots' = DOMAIN snapshots \cup shots
        /\ \A s \in shots : snapshots'[s] = "EraUpdated"
        /\ \A s \in DOMAIN snapshots \ shots : snapshots'[s] = snapshots[s]
    <3>1. /\ snapshots' = WithState(snapshots, shots, "EraUpdated")
          /\ chainEra' = era /\ currentShots' = shots /\ forced' = forced /\ eraRate' = eraRate
          /\ eraShots' = [eraShots EXCEPT ![era] = shots]
      BY <2>1 DEF Opens, rateVars
    <3> QED
      BY <3>1 DEF WithState
  <2>4. OldEra' = era /\ OldEra \in Nat
    <3>1. era # None
      BY <2>2, RateAssumption
    <3> QED
      BY <2>3, <3>1, LedgerAssumption DEF OldEra, TypeOK, Era
  <2>5. \A s \in DOMAIN snapshots : s.era \in Nat
    BY LedgerAssumption DEF TypeOK, Snapshot, Era
  <2>6. ErasOpened'
    BY <1>0, <2>1, <2>2, <2>3, <2>4, <2>5 DEF ErasOpened
  <2>7. RatedErasClosed'
    <3>1. ASSUME NEW e \in Era \ {0}, eraRate[e] # None
          PROVE  e <= era /\ e # era /\ eraShots[e] = {}
      BY <1>0, <2>2, <2>4, <3>1, LedgerAssumption DEF RatedErasClosed, Era
    <3> QED
      BY <2>3, <2>4, <3>1 DEF RatedErasClosed, TypeOK
  <2>8. ListsMatchStates'
    <3> SUFFICES ASSUME ~forced
                 PROVE  /\ shots = {s \in DOMAIN snapshots' : snapshots'[s] \notin Settled}
                        /\ \A s \in shots : s.era = era
                        /\ \A e \in Era : eraShots'[e] =
                             {s \in DOMAIN snapshots' :
                                s.era = e /\ snapshots'[s] \in Unreported}
      BY <2>3 DEF ListsMatchStates
    <3>1. \A s \in DOMAIN snapshots : snapshots[s] \in Settled
      BY <1>0, <2>2 DEF ListsMatchStates
    <3>2. \A e \in Era : eraShots[e] = {}
      BY <1>0, <3>1 DEF ListsMatchStates, Settled, Unreported
    <3>3. shots = {s \in DOMAIN snapshots' : snapshots'[s] \notin Settled}
      BY <2>3, <3>1 DEF Settled
    <3>4. \A s \in DOMAIN snapshots' : s \in shots <=> snapshots'[s] \in Unreported
      BY <2>3, <3>1 DEF Settled, Unreported
    <3>5. ASSUME NEW e \in Era
          PROVE  eraShots'[e] = {s \in DOMAIN snapshots' :
                                   s.era = e /\ snapshots'[s] \in Unreported}
      <4>1. CASE e = era
        <5>1. eraShots'[e] = shots
          BY <2>3, <4>1 DEF TypeOK
        <5> QED
          BY <2>1, <2>3, <3>4, <4>1, <5>1
      <4>2. CASE e # era
        <5>1. eraShots'[e] = {}
          BY <2>3, <3>2, <4>2 DEF TypeOK
        <5> QED
          BY <2>1, <3>4, <4>2, <5>1
      <4> QED
        BY <4>1, <4>2
    <3> QED
      BY <2>1, <3>3, <3>5
  <2>9. OneShotPerPool'
    BY <2>1, <2>3 DEF OneShotPerPool
  <2> QED
    BY <2>6, <2>7, <2>8, <2>9 DEF ListInv
<1>4. ASSUME NEW s \in DOMAIN snapshots, ShotReport(s) PROVE ListInv'
  <2>1. chainEra' = chainEra /\ forced' = forced /\ OldEra' = OldEra
    BY <1>4, ReportShape DEF ReportFrame, OldEra
  <2>2. s \in Snapshot /\ s.era \in Era /\ s.era <= OldEra
    BY <1>0 DEF TypeOK, Snapshot, ErasOpened
  <2>3. CASE BondStep(s)
    <3>1. /\ UNCHANGED <<eraShots, currentShots, eraRate>>
          /\ DOMAIN snapshots' = DOMAIN snapshots
          /\ snapshots'[s] = "BondReported" /\ snapshots[s] = "EraUpdated"
          /\ \A t \in DOMAIN snapshots : t # s => snapshots'[t] = snapshots[t]
      BY <2>3, MovesFacts DEF BondStep
    <3>2. \A t \in DOMAIN snapshots :
            /\ snapshots'[t] \in Settled <=> snapshots[t] \in Settled
            /\ snapshots'[t] \in Unreported <=> snapshots[t] \in Unreported
      BY <3>1 DEF Settled, Unreported
    <3> QED
      BY <1>0, <2>1, <3>1, <3>2
      DEF ListInv, ErasOpened, RatedErasClosed, ListsMatchStates, OneShotPerPool
  <2>4. CASE WithdrawStep(s)
    <3>1. /\ UNCHANGED <<eraShots, currentShots, eraRate>>
          /\ DOMAIN snapshots' = DOMAIN snapshots
          /\ snapshots'[s] = "WithdrawReported" /\ snapshots[s] = "ActiveReported"
          /\ \A t \in DOMAIN snapshots : t # s => snapshots'[t] = snapshots[t]
      BY <2>4, MovesFacts DEF WithdrawStep
    <3>2. \A t \in DOMAIN snapshots :
            /\ snapshots'[t] \in Settled <=> snapshots[t] \in Settled
            /\ snapshots'[t] \in Unreported <=> snapshots[t] \in Unreported
      BY <3>1 DEF Settled, Unreported
    <3> QED
      BY <1>0, <2>1, <3>1, <3>2
      DEF ListInv, ErasOpened, RatedErasClosed, ListsMatchStates, OneShotPerPool
  <2>5. CASE TransferStep(s)
    <3>1. /\ UNCHANGED <<eraShots, eraRate>> /\ currentShots' = currentShots \ {s}
          /\ DOMAIN snapshots' = DOMAIN snapshots
          /\ snapshots'[s] = "TransferReported"
          /\ snapshots[s] \in {"ActiveReported", "WithdrawReported"}
          /\ \A t \in DOMAIN snapshots : t # s => snapshots'[t] = snapshots[t]
      BY <2>5, MovesFacts DEF TransferStep
    <3>2. \A t \in DOMAIN snapshots :
            /\ snapshots'[t] \in Settled <=> t = s \/ snapshots[t] \in Settled
            /\ snapshots'[t] \in Unreported <=> snapshots[t] \in Unreported
      BY <3>1 DEF Settled, Unreported
    <3> QED
      BY <1>0, <2>1, <3>1, <3>2
      DEF ListInv, ErasOpened, RatedErasClosed, ListsMatchStates, OneShotPerPool
  <2>6. CASE ActiveStep(s)
    <3>1. /\ DOMAIN snapshots' = DOMAIN snapshots
          /\ snapshots[s] \in Unreported
          /\ \/ snapshots'[s] = "ActiveReported" /\ currentShots' = currentShots
             \/ snapshots'[s] = "WithdrawSkipped" /\ currentShots' = currentShots \ {s}
          /\ \A t \in DOMAIN snapshots : t # s => snapshots'[t] = snapshots[t]
      BY <2>6, MovesFacts DEF ActiveStep
    <3>2. /\ eraShots' \in [Era -> SUBSET DOMAIN snapshots]
          /\ eraShots'[s.era] = eraShots[s.era] \ {s}
          /\ \A e \in Era : e # s.era => eraShots'[e] = eraShots[e]
      BY <2>2, <2>6 DEF ActiveStep, TypeOK
    <3>3. RatedErasClosed'
      <4>1. s \in eraShots[s.era]
        BY <2>6 DEF ActiveStep
      <4>2. CASE eraRate' = eraRate
        BY <1>0, <2>1, <3>2, <4>2 DEF RatedErasClosed
      <4>3. ASSUME NEW r \in Nat, eraRate' = [eraRate EXCEPT ![s.era] = r],
                   eraShots[s.era] \ {s} = {}
            PROVE  RatedErasClosed'
        <5>1. \A e \in Era : e # s.era => eraRate'[e] = eraRate[e]
          BY <4>3 DEF TypeOK
        <5> QED
          BY <1>0, <2>1, <2>2, <3>2, <4>3, <5>1 DEF RatedErasClosed
      <4> QED
        BY <2>6, <4>2, <4>3 DEF ActiveStep
    <3>4. ListsMatchStates'
      <4> SUFFICES ASSUME ~forced
                   PROVE  /\ currentShots' =
                               {t \in DOMAIN snapshots' : snapshots'[t] \notin Settled}
                          /\ \A t \in currentShots' : t.era = chainEra
                          /\ \A e \in Era : eraShots'[e] =
                               {t \in DOMAIN snapshots' :
                                  t.era = e /\ snapshots'[t] \in Unreported}
        BY <2>1 DEF ListsMatchStates
      <4>1. /\ currentShots = {t \in DOMAIN snapshots : snapshots[t] \notin Settled}
            /\ \A t \in currentShots : t.era = chainEra
            /\ \A e \in Era : eraShots[e] =
                 {t \in DOMAIN snapshots : t.era = e /\ snapshots[t] \in Unreported}
        BY <1>0 DEF ListsMatchStates
      <4>2. currentShots' = {t \in DOMAIN snapshots' : snapshots'[t] \notin Settled}
        BY <3>1, <4>1 DEF Settled, Unreported
      <4>3. \A t \in DOMAIN snapshots :
              snapshots'[t] \in Unreported <=> t # s /\ snapshots[t] \in Unreported
        BY <3>1 DEF Unreported
      <4>4. ASSUME NEW e \in Era
            PROVE  eraShots'[e] = {t \in DOMAIN snapshots' :
                                     t.era = e /\ snapshots'[t] \in Unreported}
        BY <2>2, <3>1, <3>2, <4>1, <4>3
      <4> QED
        BY <3>1, <4>1, <4>2, <4>4
    <3> QED
      BY <1>0, <2>1, <3>1, <3>3, <3>4 DEF ListInv, ErasOpened, OneShotPerPool
  <2> QED
    BY <1>4, <2>3, <2>4, <2>5, <2>6, ReportShape
<1> QED
  BY <1>1, <1>2, <1>3, <1>4 DEF Next

-----------------------------------------------------------------------------
\* How a call that takes no snapshot may treat the pipelines and the bonded
\* pools: drop a pool with an empty pipeline, bond a pool anew, or add.
PipesKept == UNCHANGED <<pipe, bondedPools>>

PoolDropped ==
  \E p \in Pool :
    /\ pipe[p].bond = 0 /\ pipe[p].unbond = 0
    /\ bondedPools' = bondedPools \ {p}
    /\ pipe' = pipe

PoolBonded ==
  \E p \in Pool :
    /\ p \notin bondedPools
    /\ bondedPools' = bondedPools \cup {p}
    /\ pipe'[p].bond \in Nat /\ pipe'[p].unbond \in Nat
    /\ \A q \in Pool : q # p => pipe'[q] = pipe[q]

PipesGrow ==
  /\ bondedPools' = bondedPools
  /\ \A q \in Pool : pipe[q].bond <= pipe'[q].bond /\ pipe[q].unbond <= pipe'[q].unbond

(* Every quiet call does one of these.                                      *)
LEMMA QuietPipes ==
  ASSUME TypeOK, \/ RootCall \/ SeriesCall \/ \E v \in Voter : Acknowledged(v)
                 \/ UNCHANGED vars
  PROVE  PipesKept \/ PoolDropped \/ PoolBonded \/ PipesGrow
<1>0. Gain \subseteq Nat
  BY LedgerAssumption
<1>1. ASSUME NEW p \in Pool, RemovePool(p) PROVE PoolDropped
  BY <1>1 DEF RemovePool, PoolDropped
<1>2. ASSUME NEW p \in Pool, NEW amount \in Gain, SetInitBond(p, amount) PROVE PoolBonded
  BY <1>2 DEF SetInitBond, PoolBonded, TypeOK
<1>3. ASSUME NEW p \in Pool, NEW amount \in Gain, PipeBond(p, amount) PROVE PipesGrow
  <2>1. /\ pipe'[p].bond = pipe[p].bond + amount /\ pipe'[p].unbond = pipe[p].unbond
        /\ \A q \in Pool : q # p => pipe'[q] = pipe[q]
        /\ bondedPools' = bondedPools
    BY <1>3 DEF PipeBond, TypeOK, LinkChunk
  <2>2. \A q \in Pool : pipe[q].bond \in Nat /\ pipe[q].unbond \in Nat
    BY DEF TypeOK, LinkChunk
  <2> QED
    BY <1>0, <2>1, <2>2 DEF PipesGrow
<1>4. ASSUME NEW p \in Pool, NEW amount \in Gain, PipeUnbond(p, amount) PROVE PipesGrow
  <2> DEFINE balance == RtokenToToken(rate, amount)
  <2>1. balance \in Nat
    BY <1>0, RateTypes DEF TypeOK
  <2>2. pipe' = [pipe EXCEPT ![p].unbond = @ + balance, ![p].active = @ - balance]
        /\ bondedPools' = bondedPools
    BY <1>4 DEF PipeUnbond
  <2> HIDE DEF balance
  <2>3. /\ pipe'[p].unbond = pipe[p].unbond + balance /\ pipe'[p].bond = pipe[p].bond
        /\ \A q \in Pool : q # p => pipe'[q] = pipe[q]
    BY <2>2 DEF TypeOK, LinkChunk
  <2>4. \A q \in Pool : pipe[q].bond \in Nat /\ pipe[q].unbond \in Nat
    BY DEF TypeOK, LinkChunk
  <2>5. \A q \in Pool : pipe[q].bond <= pipe'[q].bond /\ pipe[q].unbond <= pipe'[q].unbond
    BY <2>1, <2>3, <2>4
  <2> QED
    BY <2>2, <2>5 DEF PipesGrow
<1>5. ASSUME NEW p \in Pool, NEW amount \in Gain, BondUnsent(p, amount) PROVE PipesKept
  BY <1>5 DEF BondUnsent, PipesKept
<1>6. CASE \/ \E c \in Commission : SetCommission(c)
           \/ \E p \in Pool : AddNewPool(p)
           \/ SetReceiver
           \/ \E d \in Duration : SetChainBondingDuration(d)
           \/ \E v \in Voter : Acknowledged(v)
           \/ UNCHANGED vars
  BY <1>6 DEF SetCommission, AddNewPool, SetReceiver, SetChainBondingDuration, Acknowledged,
     vars, PipesKept
<1> QED
  BY <1>1, <1>2, <1>3, <1>4, <1>5, <1>6 DEF RootCall, SeriesCall

(* A pipeline never falls below what an unreported snapshot will take off.  *)
LEMMA PipeStep == IInv /\ [Next]_vars => PipeInv'
<1> SUFFICES ASSUME IInv, [Next]_vars PROVE PipeInv'
  OBVIOUS
<1>0. TypeOK /\ ListsMatchStates /\ OneShotPerPool
      /\ PipelineCoversSnapshot /\ RemovedPoolsOweNothing
  BY DEF IInv, ListInv, PipeInv
<1>1. \A s \in DOMAIN snapshots :
        /\ s.pool \in Pool /\ s.bond \in Nat /\ s.unbond \in Nat
        /\ pipe[s.pool].bond \in Nat /\ pipe[s.pool].unbond \in Nat
  BY <1>0 DEF TypeOK, Snapshot, LinkChunk
<1>2. CASE RootCall \/ SeriesCall \/ (\E v \in Voter : Acknowledged(v)) \/ UNCHANGED vars
  <2>1. snapshots' = snapshots /\ forced' = forced
    BY <1>0, <1>2, QuietSteps DEF Quiet, shotVars
  <2>2. \A p \in Pool : pipe'[p].bond \in Nat /\ pipe'[p].unbond \in Nat
    <3>1. pipe' \in [Pool -> LinkChunk]
      BY <1>0, <1>2, QuietSteps DEF QuietTypes
    <3> QED
      BY <3>1 DEF LinkChunk
  <2>3. CASE PipesKept
    BY <1>0, <2>1, <2>3
    DEF PipesKept, PipeInv, PipelineCoversSnapshot, RemovedPoolsOweNothing
  <2>4. CASE PoolDropped
    <3>1. PICK p \in Pool : /\ pipe[p].bond = 0 /\ pipe[p].unbond = 0
                            /\ bondedPools' = bondedPools \ {p} /\ pipe' = pipe
      BY <2>4 DEF PoolDropped
    <3>2. PipelineCoversSnapshot'
      BY <1>0, <2>1, <3>1 DEF PipelineCoversSnapshot
    <3>3. RemovedPoolsOweNothing'
      BY <1>0, <1>1, <2>1, <3>1 DEF RemovedPoolsOweNothing, PipelineCoversSnapshot
    <3> QED
      BY <3>2, <3>3 DEF PipeInv
  <2>5. CASE PoolBonded
    BY <1>0, <1>1, <2>1, <2>2, <2>5
    DEF PoolBonded, PipeInv, PipelineCoversSnapshot, RemovedPoolsOweNothing
  <2>6. CASE PipesGrow
    BY <1>0, <1>1, <2>1, <2>2, <2>6
    DEF PipesGrow, PipeInv, PipelineCoversSnapshot, RemovedPoolsOweNothing
  <2> QED
    BY <1>0, <1>2, <2>3, <2>4, <2>5, <2>6, QuietPipes
<1>3. CASE ClearCurrentEraSnapShots
  <2>1. UNCHANGED <<snapshots, pipe, bondedPools>> /\ (~forced' => ~forced)
    BY <1>0, <1>3 DEF ClearCurrentEraSnapShots, TypeOK
  <2> QED
    BY <1>0, <2>1 DEF PipeInv, PipelineCoversSnapshot, RemovedPoolsOweNothing
<1>4. ASSUME NEW era \in EraCall, SetChainEra(era) PROVE PipeInv'
  <2>1. PICK shots \in SUBSET Snapshot :
          /\ Opens(era, shots)
          /\ \A s \in shots :
               /\ s.pool \in bondedPools
               /\ s.bond = pipe[s.pool].bond /\ s.unbond = pipe[s.pool].unbond
    BY <1>0, <1>4, OpensFacts
  <2>2. /\ pipe' = pipe /\ bondedPools' = bondedPools /\ forced' = forced
        /\ DOMAIN snapshots' = DOMAIN snapshots \cup shots
        /\ \A s \in DOMAIN snapshots \ shots : snapshots'[s] = snapshots[s]
    BY <2>1 DEF Opens, WithState
  <2>3. \A s \in shots :
          /\ pipe[s.pool].bond \in Nat /\ pipe[s.pool].unbond \in Nat
    BY <1>0 DEF TypeOK, Snapshot, LinkChunk
  <2> QED
    BY <1>0, <2>1, <2>2, <2>3 DEF PipeInv, PipelineCoversSnapshot, RemovedPoolsOweNothing
<1>5. ASSUME NEW s \in DOMAIN snapshots, ShotReport(s) PROVE PipeInv'
  <2>1. /\ bondedPools' = bondedPools /\ forced' = forced
        /\ \A p \in Pool : p # s.pool => pipe'[p] = pipe[p]
    BY <1>0, <1>5, ReportShape DEF ReportFrame
  <2>2. ASSUME NEW from, NEW to, to # "EraUpdated", Moves(s, from, to)
        PROVE  /\ DOMAIN snapshots' = DOMAIN snapshots
               /\ snapshots'[s] # "EraUpdated"
               /\ \A t \in DOMAIN snapshots : t # s => snapshots'[t] = snapshots[t]
    BY <2>2, MovesFacts
  <2>3. /\ DOMAIN snapshots' = DOMAIN snapshots
        /\ snapshots'[s] # "EraUpdated"
        /\ \A t \in DOMAIN snapshots : t # s => snapshots'[t] = snapshots[t]
        /\ snapshots[s] = "EraUpdated" \/ snapshots[s] \notin Settled
    <3>1. BondStep(s) \/ ActiveStep(s) \/ WithdrawStep(s) \/ TransferStep(s)
      BY <1>0, <1>5, ReportShape
    <3> QED
      BY <2>2, <3>1
      DEF BondStep, ActiveStep, WithdrawStep, TransferStep, Moves, Unreported, Settled
  <2>4. ASSUME ~forced, NEW t \in DOMAIN snapshots, snapshots'[t] = "EraUpdated"
        PROVE  t # s /\ t.pool # s.pool /\ snapshots[t] = "EraUpdated"
    <3>1. t # s /\ snapshots[t] = "EraUpdated"
      BY <2>3, <2>4
    <3>2. t \in currentShots /\ s \in currentShots
      BY <1>0, <2>3, <2>4, <3>1 DEF ListsMatchStates, Settled
    <3> QED
      BY <1>0, <2>4, <3>1, <3>2 DEF OneShotPerPool
  <2>5. PipelineCoversSnapshot'
    BY <1>0, <1>1, <2>1, <2>3, <2>4 DEF PipelineCoversSnapshot
  <2>6. RemovedPoolsOweNothing'
    BY <1>0, <2>1, <2>3, <2>4 DEF RemovedPoolsOweNothing
  <2> QED
    BY <2>5, <2>6 DEF PipeInv
<1> QED
  BY <1>2, <1>3, <1>4, <1>5 DEF Next

-----------------------------------------------------------------------------
(* An unused ledger satisfies the inductive invariant.                      *)
LEMMA InitIInv == Init => IInv
<1> SUFFICES ASSUME Init PROVE IInv
  OBVIOUS
<1>1. DOMAIN snapshots = {} /\ snapshots \in [{} -> PoolBondState]
  BY DEF Init
<1>2. TypeOK
  <2>1. [bond |-> 0, unbond |-> 0, active |-> 0] \in LinkChunk
    BY DEF LinkChunk
  <2>2. pipe \in [Pool -> LinkChunk]
    BY <2>1 DEF Init
  <2>3. commission \in 0..(PerbillBase - 1)
    BY LedgerAssumption DEF Init
  <2>4. /\ eraShots \in [Era -> SUBSET DOMAIN snapshots] /\ currentShots \subseteq DOMAIN snapshots
        /\ DOMAIN snapshots \subseteq Snapshot
        /\ snapshots \in [DOMAIN snapshots -> PoolBondState]
    BY <1>1 DEF Init
  <2>5. /\ chainEra \in Era \cup {None} /\ duration \in Duration \cup {None}
        /\ lastVoter \in Voter \cup {None} /\ pools \subseteq Pool /\ bondedPools \subseteq pools
        /\ rate \in Nat \cup {None}
    BY DEF Init
  <2>6. /\ expected \in [Era -> Nat] /\ unbonds \subseteq Pool \X Nat
        /\ eraRate \in [Era -> Nat \cup {None}] /\ issuance \in Nat /\ drift \in Int
    BY DEF Init
  <2>7. receiver \in BOOLEAN /\ forced \in BOOLEAN
    BY Zenon DEF Init
  <2> QED
    BY <2>2, <2>3, <2>4, <2>5, <2>6, <2>7 DEF TypeOK
<1>3. ListInv
  BY <1>1 DEF Init, ListInv, ErasOpened, RatedErasClosed, ListsMatchStates, OneShotPerPool
<1>4. PipeInv
  BY <1>1 DEF PipeInv, PipelineCoversSnapshot, RemovedPoolsOweNothing
<1> QED
  BY <1>2, <1>3, <1>4 DEF IInv

(* Every call preserves it.                                                 *)
LEMMA NextIInv == IInv /\ [Next]_vars => IInv'
  BY TypeStep, ListStep, PipeStep DEF IInv

(* The types of the ledger, of the rate and the amounts it derives          *)
(* included, and that remove_pool always finds a bonded pool among the      *)
(* pools.                                                                   *)
THEOREM LedgerTypes == Spec => []TypeOK
<1>1. IInv => TypeOK
  BY DEF IInv
<1> QED
  BY InitIInv, NextIInv, <1>1, PTL DEF Spec

(* Unless root drops snapshots, the lists that guard set_chain_era and the  *)
(* active reports say what the snapshots' states say.                       *)
THEOREM ListsTheorem == Spec => []ListsMatchStates
<1>1. IInv => ListsMatchStates
  BY DEF IInv, ListInv
<1> QED
  BY InitIInv, NextIInv, <1>1, PTL DEF Spec

(* Unless root drops snapshots, the saturating subtractions of the bond     *)
(* reports never cut anything off.                                          *)
THEOREM PipelineTheorem == Spec => []PipelineCoversSnapshot
<1>1. IInv => PipelineCoversSnapshot
  BY DEF IInv, PipeInv
<1> QED
  BY InitIInv, NextIInv, <1>1, PTL DEF Spec

(* Snapshots only move forward, also when root drops some: no repeated,     *)
(* late or reordered report is applied twice.                               *)
THEOREM ForwardTheorem == Spec => SnapshotsMoveForward
<1>1. ASSUME IInv, [Next]_vars, NEW s \in DOMAIN snapshots, s.era # 0
      PROVE  /\ s \in DOMAIN snapshots'
             /\ snapshots'[s] = snapshots[s] \/ Rank(snapshots'[s]) > Rank(snapshots[s])
  <2>0. TypeOK /\ ErasOpened /\ s.era \in Nat /\ s.era <= OldEra
    <3>1. TypeOK /\ ErasOpened
      BY <1>1 DEF IInv, ListInv
    <3>2. s \in Snapshot /\ s.era <= OldEra
      BY <3>1 DEF ErasOpened, TypeOK
    <3> QED
      BY <3>1, <3>2, LedgerAssumption DEF Snapshot, Era
  <2>1. CASE RootCall \/ SeriesCall \/ (\E v \in Voter : Acknowledged(v)) \/ UNCHANGED vars
    BY <2>0, <2>1, QuietSteps DEF Quiet, shotVars
  <2>2. CASE ClearCurrentEraSnapShots
    BY <2>2 DEF ClearCurrentEraSnapShots
  <2>3. ASSUME NEW era \in EraCall, SetChainEra(era)
        PROVE  s \in DOMAIN snapshots' /\ snapshots'[s] = snapshots[s]
    <3>1. PICK shots \in SUBSET Snapshot : Opens(era, shots) /\ \A t \in shots : t.era = era
      BY <2>0, <2>3, OpensFacts
    <3>2. (OldEra = 0 \/ OldEra + 1 = era) /\ era \in Nat
      BY <2>0, <2>3, OpensFacts
    <3>3. OldEra \in Nat
      BY <2>0, LedgerAssumption DEF OldEra, TypeOK, Era
    <3>4. s.era # era
      BY <1>1, <2>0, <3>2, <3>3
    <3>5. s \notin shots
      BY <3>1, <3>4
    <3>6. snapshots' = WithState(snapshots, shots, "EraUpdated")
      BY <3>1 DEF Opens
    <3> QED
      BY <3>5, <3>6 DEF WithState
  <2>4. ASSUME NEW t \in DOMAIN snapshots, ShotReport(t)
        PROVE  /\ s \in DOMAIN snapshots'
               /\ snapshots'[s] = snapshots[s] \/ Rank(snapshots'[s]) > Rank(snapshots[s])
    <3>1. BondStep(t) \/ ActiveStep(t) \/ WithdrawStep(t) \/ TransferStep(t)
      BY <2>0, <2>4, ReportShape
    <3>2. \/ Moves(t, {"EraUpdated"}, "BondReported")
          \/ Moves(t, Unreported, "ActiveReported")
          \/ Moves(t, Unreported, "WithdrawSkipped")
          \/ Moves(t, {"ActiveReported"}, "WithdrawReported")
          \/ Moves(t, {"ActiveReported", "WithdrawReported"}, "TransferReported")
      BY <3>1 DEF BondStep, ActiveStep, WithdrawStep, TransferStep
    <3>3. /\ DOMAIN snapshots' = DOMAIN snapshots
          /\ \A u \in DOMAIN snapshots : u # t => snapshots'[u] = snapshots[u]
      BY <3>2, MovesFacts
    <3>4. Rank(snapshots'[t]) > Rank(snapshots[t])
      BY <3>2, MovesFacts DEF Rank, Unreported
    <3> QED
      BY <3>3, <3>4
  <2> QED
    BY <1>1, <2>1, <2>2, <2>3, <2>4 DEF Next
<1>2. IInv /\ [Next]_vars =>
        [\A s \in DOMAIN snapshots :
           s.era # 0 =>
             /\ s \in DOMAIN snapshots'
             /\ snapshots'[s] = snapshots[s] \/ Rank(snapshots'[s]) > Rank(snapshots[s])]_vars
  BY <1>1
<1> QED
  BY InitIInv, NextIInv, <1>2, PTL DEF Spec, SnapshotsMoveForward

(* The rate of an era is set once, also when root drops snapshots: a rated  *)
(* era has an empty list, every active report looks its snapshot up there,  *)
(* and set_chain_era never fills it again.                                  *)
THEOREM EraRateTheorem == Spec => EraRateIsFinal
<1>1. ASSUME IInv, [Next]_vars, NEW e \in Era \ {0}, eraRate[e] # None
      PROVE  eraRate'[e] = eraRate[e]
  <2>0. TypeOK /\ eraShots[e] = {}
    BY <1>1 DEF IInv, ListInv, RatedErasClosed
  <2>1. CASE RootCall \/ SeriesCall \/ (\E v \in Voter : Acknowledged(v)) \/ UNCHANGED vars
    BY <2>0, <2>1, QuietSteps DEF Quiet
  <2>2. CASE ClearCurrentEraSnapShots \/ \E era \in EraCall : SetChainEra(era)
    BY <2>2 DEF ClearCurrentEraSnapShots, SetChainEra, rateVars
  <2>3. ASSUME NEW s \in DOMAIN snapshots, ShotReport(s) PROVE eraRate'[e] = eraRate[e]
    <3>1. BondStep(s) \/ ActiveStep(s) \/ WithdrawStep(s) \/ TransferStep(s)
      BY <2>0, <2>3, ReportShape
    <3>2. CASE ActiveStep(s)
      <4>1. s.era # e
        BY <2>0, <3>2 DEF ActiveStep
      <4>2. CASE eraRate' = eraRate
        BY <4>2
      <4>3. ASSUME NEW r \in Nat, eraRate' = [eraRate EXCEPT ![s.era] = r]
            PROVE  eraRate'[e] = eraRate[e]
        BY <2>0, <4>1, <4>3 DEF TypeOK
      <4> QED
        BY <3>2, <4>2, <4>3 DEF ActiveStep
    <3> QED
      BY <3>1, <3>2 DEF BondStep, WithdrawStep, TransferStep
  <2> QED
    BY <1>1, <2>1, <2>2, <2>3 DEF Next
<1>2. IInv /\ [Next]_vars =>
        [\A e \in Era \ {0} : eraRate[e] # None => eraRate'[e] = eraRate[e]]_vars
  BY <1>1
<1> QED
  BY InitIInv, NextIInv, <1>2, PTL DEF Spec, EraRateIsFinal

-----------------------------------------------------------------------------
(* The total an era's rate is computed from.                                *)

\* Pools are bonded one by one, so an era has finitely many snapshots.
FiniteShots == IsFiniteSet(bondedPools) /\ IsFiniteSet(DOMAIN snapshots)

\* A pool has one snapshot per era: set_chain_era never opens an era other
\* than 0 again.
OneShotPerEra ==
  \A s \in DOMAIN snapshots, t \in DOMAIN snapshots :
    s.era # 0 /\ s.era = t.era /\ s.pool = t.pool => s = t

\* Nothing is reported for an era before it is opened.
FreshEras == \A e \in Era : e > OldEra => expected[e] = 0

\* The snapshots of the current era whose active amount was reported.
ReportedShots(era, shots) ==
  {s \in DOMAIN shots : s.era = era /\ shots[s] \notin Unreported}

\* Unless root dropped snapshots, the total of the current era is what the
\* pools reported so far hold, less what moved behind their reports.
TotalMatches ==
  ~forced /\ OldEra # 0 =>
    expected[OldEra] + drift = ActiveIn(pipe, ReportedShots(OldEra, snapshots))

TotalInv == FiniteShots /\ OneShotPerEra /\ FreshEras /\ TotalMatches

\* Snapshots of different pools.
Distinct(shots) == \A s \in shots, t \in shots : s.pool = t.pool => s = t

(* When one pool's pipeline changes, what the pools of some snapshots hold  *)
(* changes by as much, if the pool is among them.                           *)
LEMMA ActiveChange ==
  ASSUME NEW S \in SUBSET Snapshot, IsFiniteSet(S), Distinct(S),
         NEW k \in [Pool -> LinkChunk], NEW l \in [Pool -> LinkChunk], NEW p \in Pool,
         \A q \in Pool : q # p => l[q] = k[q]
  PROVE  /\ ActiveIn(k, S) \in Int
         /\ ActiveIn(l, S) = ActiveIn(k, S)
              + IF \E s \in S : s.pool = p THEN l[p].active - k[p].active ELSE 0
<1> DEFINE f == [s \in S |-> k[s.pool].active]
           g == [s \in S |-> l[s.pool].active]
<1>1. \A s \in S : s.pool \in Pool
  BY DEF Snapshot
<1>2. \A q \in Pool : k[q].active \in Int /\ l[q].active \in Int
  BY DEF LinkChunk
<1>3. \A s \in S : f[s] = k[s.pool].active /\ g[s] = l[s.pool].active
  OBVIOUS
<1>4. ActiveIn(k, S) = SumFunctionOnSet(f, S) /\ ActiveIn(l, S) = SumFunctionOnSet(g, S)
  BY DEF ActiveIn
<1> HIDE DEF f, g
<1>5. \A s \in S : f[s] \in Int /\ g[s] \in Int
  BY <1>1, <1>2, <1>3
<1>6. SumFunctionOnSet(f, S) \in Int
  BY <1>5, SumInt
<1>7. ASSUME NEW s \in S, s.pool = p
      PROVE  SumFunctionOnSet(g, S) = SumFunctionOnSet(f, S) - f[s] + g[s]
  <2>1. \A t \in S \ {s} : t.pool # p
    BY <1>7 DEF Distinct
  <2>2. \A t \in S \ {s} : g[t] = f[t]
    BY <1>1, <1>3, <2>1
  <2> QED
    BY <1>5, <2>2, SumChange
<1>8. ASSUME ~ \E s \in S : s.pool = p
      PROVE  SumFunctionOnSet(f, S) = SumFunctionOnSet(g, S)
  <2>1. \A t \in S : f[t] = g[t]
    BY <1>1, <1>3, <1>8
  <2> QED
    BY <2>1, SumSame
<1>9. CASE \E s \in S : s.pool = p
  <2>1. PICK s \in S : s.pool = p
    BY <1>9
  <2>2. f[s] = k[p].active /\ g[s] = l[p].active
    BY <1>3, <2>1
  <2>3. SumFunctionOnSet(g, S) = SumFunctionOnSet(f, S) + (l[p].active - k[p].active)
    BY <1>2, <1>6, <1>7, <2>1, <2>2
  <2> QED
    BY <1>4, <1>6, <1>9, <2>3
<1> QED
  BY <1>4, <1>6, <1>8, <1>9

(* A further snapshot adds what its pool holds.                             *)
LEMMA ActiveAdded ==
  ASSUME NEW S \in SUBSET Snapshot, IsFiniteSet(S), NEW k \in [Pool -> LinkChunk],
         NEW s \in Snapshot, s \notin S
  PROVE  ActiveIn(k, S \cup {s}) = ActiveIn(k, S) + k[s.pool].active
<1> DEFINE T == S \cup {s}
           f == [t \in S |-> k[t.pool].active]
           g == [t \in T |-> k[t.pool].active]
<1>1. \A t \in T : g[t] = k[t.pool].active /\ k[t.pool].active \in Int
  BY DEF Snapshot, LinkChunk
<1>2. \A t \in S : f[t] = g[t]
  OBVIOUS
<1>3. ActiveIn(k, S) = SumFunctionOnSet(f, S) /\ ActiveIn(k, T) = SumFunctionOnSet(g, T)
  BY DEF ActiveIn
<1>4. IsFiniteSet(T) /\ s \in T /\ T \ {s} = S
  BY FS_AddElement
<1> HIDE DEF f, g, T
<1>5. SumFunctionOnSet(f, S) = SumFunctionOnSet(g, S)
  BY <1>2, SumSame
<1>6. SumFunctionOnSet(g, T) = g[s] + SumFunctionOnSet(g, T \ {s})
  BY <1>1, <1>4, SumRemove
<1>7. \A t \in S : f[t] \in Int
  BY <1>1, <1>2, <1>4
<1>8. SumFunctionOnSet(f, S) \in Int
  BY <1>7, SumInt
<1>9. SumFunctionOnSet(g, T) = SumFunctionOnSet(f, S) + k[s.pool].active
  <2>1. g[s] = k[s.pool].active /\ g[s] \in Int
    BY <1>1, <1>4
  <2>2. SumFunctionOnSet(g, T) = g[s] + SumFunctionOnSet(f, S)
    BY <1>4, <1>5, <1>6
  <2> QED
    BY <1>8, <2>1, <2>2
<1>10. ActiveIn(k, T) = ActiveIn(k, S) + k[s.pool].active
  BY <1>3, <1>9
<1> QED
  BY <1>10 DEF T

(* The reported snapshots of an era are finitely many, of different pools.  *)
LEMMA ReportedFacts ==
  ASSUME TypeOK, FiniteShots, OneShotPerEra, OldEra # 0
  PROVE  /\ ReportedShots(OldEra, snapshots) \in SUBSET Snapshot
         /\ IsFiniteSet(ReportedShots(OldEra, snapshots))
         /\ Distinct(ReportedShots(OldEra, snapshots))
<1>1. ReportedShots(OldEra, snapshots) \subseteq DOMAIN snapshots
  BY DEF ReportedShots
<1>2. IsFiniteSet(ReportedShots(OldEra, snapshots))
  BY <1>1, FS_Subset DEF FiniteShots
<1>3. Distinct(ReportedShots(OldEra, snapshots))
  BY DEF Distinct, ReportedShots, OneShotPerEra
<1> QED
  BY <1>1, <1>2, <1>3 DEF TypeOK

\* A call that changes one pool's pipeline, and the drift as far as the pool's
\* report was made.
PipeMove(p) ==
  /\ \A q \in Pool : q # p => pipe'[q] = pipe[q]
  /\ drift' = IF Reported(p) THEN drift + pipe'[p].active - pipe[p].active ELSE drift

(* Root's calls, bonds, unbonds and acknowledgements leave the totals alone *)
(* and account for what they do to a pool.                                  *)
LEMMA QuietTotals ==
  ASSUME TypeOK, \/ RootCall \/ SeriesCall \/ \E v \in Voter : Acknowledged(v)
                 \/ UNCHANGED vars
  PROVE  /\ expected' = expected
         /\ bondedPools' = bondedPools \/ \E p \in Pool : bondedPools' \subseteq bondedPools \cup {p}
         /\ UNCHANGED <<pipe, drift>> \/ \E p \in Pool : PipeMove(p)
<1> DEFINE Goal == /\ expected' = expected
                   /\ \/ bondedPools' = bondedPools
                      \/ \E p \in Pool : bondedPools' \subseteq bondedPools \cup {p}
                   /\ UNCHANGED <<pipe, drift>> \/ \E p \in Pool : PipeMove(p)
<1>0. \A p \in Pool : pipe[p] \in LinkChunk /\ pipe[p].active \in Nat
  BY DEF TypeOK, LinkChunk
<1>1. CASE \/ \E c \in Commission : SetCommission(c)
           \/ SetReceiver
           \/ \E d \in Duration : SetChainBondingDuration(d)
           \/ \E v \in Voter : Acknowledged(v)
           \/ UNCHANGED vars
  BY <1>1 DEF SetCommission, SetReceiver, SetChainBondingDuration, Acknowledged, vars, rateVars
<1>2. ASSUME NEW p \in Pool, AddNewPool(p) \/ RemovePool(p) PROVE Goal
  BY <1>2 DEF AddNewPool, RemovePool, rateVars
<1>3. ASSUME NEW p \in Pool, NEW amount \in Gain, SetInitBond(p, amount) PROVE Goal
  <2>1. /\ pipe' = [pipe EXCEPT ![p] = [bond |-> 0, unbond |-> 0, active |-> amount]]
        /\ drift' = IF Reported(p) THEN drift + amount - pipe[p].active ELSE drift
        /\ expected' = expected /\ bondedPools' = bondedPools \cup {p}
    BY <1>3 DEF SetInitBond
  <2>2. pipe'[p].active = amount /\ \A q \in Pool : q # p => pipe'[q] = pipe[q]
    BY <2>1 DEF TypeOK
  <2>3. PipeMove(p)
    BY <2>1, <2>2 DEF PipeMove
  <2> QED
    BY <2>1, <2>3
<1>4. ASSUME NEW p \in Pool, NEW amount \in Gain, PipeBond(p, amount) PROVE Goal
  <2>1. /\ pipe' = [pipe EXCEPT ![p].bond = @ + amount, ![p].active = @ + amount]
        /\ drift' = IF Reported(p) THEN drift + amount ELSE drift
        /\ expected' = expected /\ bondedPools' = bondedPools
    BY <1>4 DEF PipeBond, rateVars
  <2>2. /\ pipe'[p].active = pipe[p].active + amount
        /\ \A q \in Pool : q # p => pipe'[q] = pipe[q]
    BY <1>0, <2>1 DEF TypeOK, LinkChunk
  <2>3. drift + (pipe[p].active + amount) - pipe[p].active = drift + amount
    BY <1>0, LedgerAssumption DEF TypeOK
  <2>4. PipeMove(p)
    BY <2>1, <2>2, <2>3 DEF PipeMove
  <2> QED
    BY <2>1, <2>4
<1>5. ASSUME NEW p \in Pool, NEW amount \in Gain, BondUnsent(p, amount) PROVE Goal
  BY <1>5 DEF BondUnsent, rateVars
<1>6. ASSUME NEW p \in Pool, NEW amount \in Gain, PipeUnbond(p, amount) PROVE Goal
  <2> DEFINE balance == RtokenToToken(rate, amount)
  <2>1. /\ pipe' = [pipe EXCEPT ![p].unbond = @ + balance, ![p].active = @ - balance]
        /\ drift' = IF Reported(p) THEN drift - balance ELSE drift
        /\ expected' = expected /\ bondedPools' = bondedPools
    BY <1>6 DEF PipeUnbond, rateVars
  <2>2. balance \in Nat
    BY RateTypes, LedgerAssumption DEF TypeOK
  <2> HIDE DEF balance
  <2>3. /\ pipe'[p].active = pipe[p].active - balance
        /\ \A q \in Pool : q # p => pipe'[q] = pipe[q]
    BY <1>0, <2>1 DEF TypeOK, LinkChunk
  <2>4. drift + (pipe[p].active - balance) - pipe[p].active = drift - balance
    BY <1>0, <2>2 DEF TypeOK
  <2>5. PipeMove(p)
    BY <2>1, <2>3, <2>4 DEF PipeMove
  <2> QED
    BY <2>1, <2>5
<1> QED
  BY <1>1, <1>2, <1>3, <1>4, <1>5, <1>6 DEF RootCall, SeriesCall

(* An active report adds to its era's total what it leaves in the pool; the *)
(* other reports touch neither.                                             *)
LEMMA ReportTotals ==
  ASSUME TypeOK, NEW s \in DOMAIN snapshots, ShotReport(s)
  PROVE  \/ /\ ActiveStep(s) /\ s \in currentShots
            /\ expected' = [expected EXCEPT ![s.era] = @ + pipe'[s.pool].active]
         \/ /\ BondStep(s) \/ WithdrawStep(s) \/ TransferStep(s)
            /\ expected' = expected
            /\ \A p \in Pool : pipe'[p].active = pipe[p].active
<1> DEFINE Counts == /\ ActiveStep(s) /\ s \in currentShots
                     /\ expected' = [expected EXCEPT ![s.era] = @ + pipe'[s.pool].active]
<1>1. /\ s \in Snapshot /\ s.pool \in Pool /\ s.era \in Era /\ pipe[s.pool] \in LinkChunk
      /\ Gain \subseteq Nat /\ Active \subseteq Nat
  BY LedgerAssumption DEF TypeOK, Snapshot
<1>2. ASSUME NEW k \in LinkChunk, NEW active \in Nat, InState(s, Unreported),
             ReportActive(s, k, active)
      PROVE  Counts
  <2>1. ActiveStep(s)
    BY <1>2, ActiveShape
  <2>2. /\ s \in currentShots
        /\ pipe' = [pipe EXCEPT ![s.pool] = [k EXCEPT !.active = ExpectedActive(k, s, active)]]
        /\ expected' = [expected EXCEPT ![s.era] = TotalExpected(s, k, active)]
    BY <1>2 DEF ReportActive
  <2>3. pipe'[s.pool].active = ExpectedActive(k, s, active)
    BY <1>1, <2>2 DEF TypeOK, LinkChunk
  <2> QED
    BY <1>1, <2>1, <2>2, <2>3 DEF TotalExpected, TypeOK
<1>3. ASSUME NEW action \in BondAction, NEW active \in Active, NEW reward \in Gain,
             BondAndReportActive(s, action, active, reward)
      PROVE  Counts
  <2> DEFINE k == Deducted([pipe[s.pool] EXCEPT !.bond = @ + reward], s, action)
  <2>1. [pipe[s.pool] EXCEPT !.bond = @ + reward] \in LinkChunk
    BY <1>1, ChunkTypes
  <2>2. k \in LinkChunk
    BY <1>1, <2>1, ChunkTypes
  <2>3. active + reward \in Nat
    BY <1>1
  <2>4. InState(s, Unreported) /\ ReportActive(s, k, active + reward)
    BY <1>3 DEF BondAndReportActive, InState, Unreported
  <2> QED
    BY <1>2, <2>2, <2>3, <2>4
<1>4. ASSUME NEW active \in Active, ActiveReport(s, active) PROVE Counts
  <2>1. InState(s, Unreported) /\ ReportActive(s, pipe[s.pool], active)
    BY <1>4 DEF ActiveReport, InState, Unreported
  <2> QED
    BY <1>1, <1>2, <2>1
<1>5. ASSUME NEW staked \in Active, NEW unstaked \in Gain, NewActiveReport(s, staked, unstaked)
      PROVE  Counts
  <2> DEFINE k == [pipe[s.pool] EXCEPT !.bond = @ + unstaked]
  <2>1. k \in LinkChunk
    BY <1>1, ChunkTypes
  <2>2. staked + unstaked \in Nat
    BY <1>1
  <2>3. InState(s, Unreported) /\ ReportActive(s, k, staked + unstaked)
    BY <1>5 DEF NewActiveReport, InState, Unreported
  <2> QED
    BY <1>2, <2>1, <2>2, <2>3
<1>6. ASSUME NEW action, NewBondReport(s, action)
      PROVE  /\ BondStep(s) /\ expected' = expected
             /\ \A p \in Pool : pipe'[p].active = pipe[p].active
  <2>1. /\ BondStep(s) /\ expected' = expected
        /\ pipe' = [pipe EXCEPT ![s.pool] = Deducted(@, s, action)]
    BY <1>6 DEF NewBondReport, InState, BondStep, Moves, rateVars
  <2>2. Deducted(pipe[s.pool], s, action).active = pipe[s.pool].active
    BY <1>1 DEF Deducted, LinkChunk
  <2> QED
    BY <1>1, <2>1, <2>2 DEF TypeOK
<1>7. CASE WithdrawReport(s)
  BY <1>7 DEF WithdrawReport, InState, WithdrawStep, Moves, rateVars
<1>8. CASE TransferReport(s)
  BY <1>8 DEF TransferReport, InState, WithdrawDone, TransferStep, Moves, rateVars
<1> QED
  BY <1>3, <1>4, <1>5, <1>6, <1>7, <1>8 DEF ShotReport, BondReport

(* The totals stay right when nothing is reported and no era is opened.     *)
LEMMA TotalQuiet ==
  ASSUME TypeOK, TypeOK', TotalInv, Quiet, expected' = expected,
         bondedPools' = bondedPools \/ \E p \in Pool : bondedPools' \subseteq bondedPools \cup {p},
         UNCHANGED <<pipe, drift>> \/ \E p \in Pool : PipeMove(p)
  PROVE  TotalInv'
<1>1. UNCHANGED <<chainEra, snapshots, forced>> /\ OldEra' = OldEra
  BY DEF Quiet, shotVars, OldEra
<1>2. FiniteShots'
  <2>1. IsFiniteSet(bondedPools) /\ IsFiniteSet(DOMAIN snapshots)
    BY DEF TotalInv, FiniteShots
  <2>2. \A p \in Pool : IsFiniteSet(bondedPools \cup {p})
    BY <2>1, FS_AddElement
  <2>3. IsFiniteSet(bondedPools')
    BY <2>1, <2>2, FS_Subset
  <2> QED
    BY <1>1, <2>1, <2>3 DEF FiniteShots
<1>3. OneShotPerEra' /\ FreshEras'
  BY <1>1 DEF TotalInv, OneShotPerEra, FreshEras
<1>4. ASSUME ~forced, OldEra # 0
      PROVE  expected[OldEra] + drift' = ActiveIn(pipe', ReportedShots(OldEra, snapshots))
  <2> DEFINE S == ReportedShots(OldEra, snapshots)
  <2>1. expected[OldEra] + drift = ActiveIn(pipe, S)
    BY <1>4 DEF TotalInv, TotalMatches
  <2>2. S \in SUBSET Snapshot /\ IsFiniteSet(S) /\ Distinct(S)
    BY <1>4, ReportedFacts DEF TotalInv
  <2>3. chainEra = OldEra /\ OldEra \in Era
    BY <1>4 DEF OldEra, TypeOK
  <2>4. \A p \in Pool : Reported(p) <=> \E s \in S : s.pool = p
    BY <2>3 DEF Reported, ReportedShots, Unreported
  <2>5. expected[OldEra] \in Int /\ drift \in Int
    BY <2>3 DEF TypeOK
  <2>6. pipe \in [Pool -> LinkChunk] /\ pipe' \in [Pool -> LinkChunk]
    BY DEF TypeOK
  <2> HIDE DEF S
  <2>7. ASSUME NEW p \in Pool, PipeMove(p)
        PROVE  expected[OldEra] + drift' = ActiveIn(pipe', S)
    <3>1. /\ ActiveIn(pipe, S) \in Int
          /\ ActiveIn(pipe', S) = ActiveIn(pipe, S)
               + IF \E s \in S : s.pool = p THEN pipe'[p].active - pipe[p].active ELSE 0
      BY <2>2, <2>6, <2>7, ActiveChange DEF PipeMove
    <3>2. drift' = IF \E s \in S : s.pool = p THEN drift + pipe'[p].active - pipe[p].active
                   ELSE drift
      BY <2>4, <2>7 DEF PipeMove
    <3>3. pipe[p].active \in Int /\ pipe'[p].active \in Int
      BY <2>6 DEF LinkChunk
    <3> QED
      BY <2>1, <2>5, <3>1, <3>2, <3>3
  <2>8. ASSUME UNCHANGED <<pipe, drift>> PROVE expected[OldEra] + drift' = ActiveIn(pipe', S)
    BY <2>1, <2>8
  <2> QED
    BY <2>7, <2>8 DEF S
<1> QED
  BY <1>1, <1>2, <1>3, <1>4 DEF TotalInv, TotalMatches

(* They start from zero with a new era.                                     *)
LEMMA TotalOpens ==
  ASSUME TypeOK, ErasOpened, TotalInv, NEW era \in EraCall, SetChainEra(era)
  PROVE  TotalInv'
<1>1. PICK shots \in SUBSET Snapshot :
        /\ Opens(era, shots)
        /\ \A s \in shots : s.era = era
        /\ \A s \in shots, t \in shots : s.pool = t.pool => s = t
  BY OpensFacts
<1>2. (OldEra = 0 \/ OldEra + 1 = era) /\ era \in Era /\ era \in Nat
  BY OpensFacts
<1>3. /\ chainEra' = era /\ forced' = forced /\ drift' = 0 /\ expected' = expected
      /\ bondedPools' = bondedPools
      /\ snapshots' = WithState(snapshots, shots, "EraUpdated")
      /\ shots = {ShotOf(p, era) : p \in bondedPools}
  BY <1>1 DEF Opens, rateVars
<1>4. /\ DOMAIN snapshots' = DOMAIN snapshots \cup shots
      /\ \A s \in shots : snapshots'[s] = "EraUpdated"
  BY <1>3 DEF WithState
<1>5. OldEra' = era /\ OldEra \in Nat
  <2>1. era # None
    BY <1>2, RateAssumption
  <2> QED
    BY <1>3, <2>1, LedgerAssumption DEF OldEra, TypeOK, Era
<1>6. \A s \in DOMAIN snapshots : s.era \in Nat /\ (era # 0 => s.era # era)
  <2>1. \A s \in DOMAIN snapshots : s.era \in Nat /\ s.era <= OldEra
    BY LedgerAssumption DEF TypeOK, Snapshot, Era, ErasOpened
  <2> QED
    BY <1>2, <1>5, <2>1
<1>7. FiniteShots'
  <2> DEFINE F == [p \in bondedPools |-> ShotOf(p, era)]
  <2>1. IsFiniteSet(bondedPools) /\ IsFiniteSet(DOMAIN snapshots)
    BY DEF TotalInv, FiniteShots
  <2>2. F \in Surjection(bondedPools, shots)
    BY <1>3 DEF Surjection
  <2>3. IsFiniteSet(shots)
    BY <2>1, <2>2, FS_Surjection
  <2>4. IsFiniteSet(DOMAIN snapshots \cup shots)
    BY <2>1, <2>3, FS_Union
  <2> QED
    BY <1>3, <1>4, <2>1, <2>4 DEF FiniteShots
<1>8. OneShotPerEra'
  BY <1>1, <1>4, <1>6 DEF TotalInv, OneShotPerEra
<1>9. FreshEras'
  <2>1. \A e \in Era : e \in Nat
    BY LedgerAssumption DEF Era
  <2>2. \A e \in Era : e > era => e > OldEra
    BY <1>2, <1>5, <2>1
  <2> QED
    BY <1>3, <1>5, <2>2 DEF TotalInv, FreshEras
<1>10. ASSUME era # 0 PROVE expected'[era] + drift' = ActiveIn(pipe', ReportedShots(era, snapshots'))
  <2>1. ReportedShots(era, snapshots') = {}
    BY <1>4, <1>6, <1>10 DEF ReportedShots, Unreported
  <2>2. ActiveIn(pipe', {}) = 0
    BY SumEmpty DEF ActiveIn
  <2>3. expected[era] = 0
    BY <1>2, <1>5, <1>10 DEF TotalInv, FreshEras
  <2> QED
    BY <1>3, <2>1, <2>2, <2>3
<1> QED
  BY <1>5, <1>7, <1>8, <1>9, <1>10 DEF TotalInv, TotalMatches

(* A report keeps them right: an active report counts a pool that was not   *)
(* counted before, the others none.                                         *)
LEMMA TotalReport ==
  ASSUME TypeOK, TypeOK', ListInv, TotalInv, NEW s \in DOMAIN snapshots, ShotReport(s)
  PROVE  TotalInv'
<1>1. /\ UNCHANGED <<chainEra, bondedPools, forced, drift>> /\ OldEra' = OldEra
      /\ \A p \in Pool : p # s.pool => pipe'[p] = pipe[p]
  BY ReportShape DEF ReportFrame, OldEra
<1>2. BondStep(s) \/ ActiveStep(s) \/ WithdrawStep(s) \/ TransferStep(s)
  BY ReportShape
<1>3. /\ DOMAIN snapshots' = DOMAIN snapshots
      /\ \A t \in DOMAIN snapshots : t # s => snapshots'[t] = snapshots[t]
  BY <1>2, MovesFacts DEF BondStep, ActiveStep, WithdrawStep, TransferStep
<1>4. FiniteShots' /\ OneShotPerEra'
  BY <1>1, <1>3 DEF TotalInv, FiniteShots, OneShotPerEra
<1>5. s \in Snapshot /\ s.pool \in Pool /\ s.era \in Era /\ s.era <= OldEra
  BY DEF TypeOK, Snapshot, ListInv, ErasOpened
<1>6. pipe \in [Pool -> LinkChunk] /\ pipe' \in [Pool -> LinkChunk]
  BY DEF TypeOK
<1>7. CASE /\ BondStep(s) \/ WithdrawStep(s) \/ TransferStep(s)
           /\ expected' = expected
           /\ \A p \in Pool : pipe'[p].active = pipe[p].active
  <2>1. snapshots'[s] \in Unreported <=> snapshots[s] \in Unreported
    BY <1>7, MovesFacts DEF BondStep, WithdrawStep, TransferStep, Unreported
  <2>2. ReportedShots(OldEra, snapshots') = ReportedShots(OldEra, snapshots)
    BY <1>3, <2>1 DEF ReportedShots
  <2>3. \A S \in SUBSET Snapshot : ActiveIn(pipe', S) = ActiveIn(pipe, S)
    BY <1>7 DEF ActiveIn, Snapshot
  <2>4. OldEra # 0 => ReportedShots(OldEra, snapshots) \in SUBSET Snapshot
    BY ReportedFacts DEF TotalInv
  <2>5. TotalMatches'
    BY <1>1, <1>7, <2>2, <2>3, <2>4 DEF TotalInv, TotalMatches
  <2>6. FreshEras'
    BY <1>1, <1>7 DEF TotalInv, FreshEras
  <2> QED
    BY <1>4, <2>5, <2>6 DEF TotalInv
<1>8. CASE /\ ActiveStep(s) /\ s \in currentShots
           /\ expected' = [expected EXCEPT ![s.era] = @ + pipe'[s.pool].active]
  <2>1. snapshots[s] \in Unreported /\ snapshots'[s] \notin Unreported
    BY <1>8, MovesFacts DEF ActiveStep, Unreported
  <2>2. FreshEras'
    <3>1. \A e \in Era : e > OldEra => e # s.era
      BY <1>5, LedgerAssumption DEF OldEra, TypeOK, Era
    <3> QED
      BY <1>1, <1>8, <3>1 DEF TotalInv, FreshEras, TypeOK
  <2>3. ASSUME ~forced, OldEra # 0
        PROVE  expected'[OldEra] + drift = ActiveIn(pipe', ReportedShots(OldEra, snapshots'))
    <3> DEFINE S == ReportedShots(OldEra, snapshots)
    <3>1. s.era = chainEra /\ chainEra = OldEra
      BY <1>8, <2>3 DEF ListInv, ListsMatchStates, OldEra
    <3>2. s \notin S /\ ReportedShots(OldEra, snapshots') = S \cup {s}
      BY <1>3, <2>1, <3>1 DEF ReportedShots
    <3>3. S \in SUBSET Snapshot /\ IsFiniteSet(S) /\ Distinct(S)
      BY <2>3, ReportedFacts DEF TotalInv
    <3>4. ~ \E t \in S : t.pool = s.pool
      BY <2>3, <3>1, <3>2 DEF TotalInv, OneShotPerEra, ReportedShots
    <3>5. expected[OldEra] + drift = ActiveIn(pipe, S)
      BY <2>3 DEF TotalInv, TotalMatches
    <3> HIDE DEF S
    <3>6. ActiveIn(pipe', S) = ActiveIn(pipe, S) + 0 /\ ActiveIn(pipe, S) \in Int
      BY <1>1, <1>5, <1>6, <3>3, <3>4, ActiveChange
    <3>7. ActiveIn(pipe', S \cup {s}) = ActiveIn(pipe', S) + pipe'[s.pool].active
      BY <1>5, <1>6, <3>2, <3>3, ActiveAdded
    <3>8. expected'[OldEra] = expected[OldEra] + pipe'[s.pool].active
      BY <1>5, <1>8, <3>1 DEF TypeOK
    <3>9. expected[OldEra] \in Int /\ drift \in Int /\ pipe'[s.pool].active \in Int
      BY <1>5, <1>6, <3>1 DEF TypeOK, LinkChunk
    <3> QED
      BY <3>2, <3>5, <3>6, <3>7, <3>8, <3>9
  <2> QED
    BY <1>1, <1>4, <2>2, <2>3 DEF TotalInv, TotalMatches
<1> QED
  BY <1>7, <1>8, ReportTotals

(* Every call preserves them.                                               *)
LEMMA TotalStep == IInv /\ TotalInv /\ [Next]_vars => TotalInv'
<1> SUFFICES ASSUME IInv, TotalInv, [Next]_vars PROVE TotalInv'
  OBVIOUS
<1>0. TypeOK /\ TypeOK' /\ ListInv /\ ErasOpened
  BY TypeStep DEF IInv, ListInv
<1>1. CASE RootCall \/ SeriesCall \/ (\E v \in Voter : Acknowledged(v)) \/ UNCHANGED vars
  <2>1. Quiet
    BY <1>0, <1>1, QuietSteps
  <2>2. /\ expected' = expected
        /\ bondedPools' = bondedPools \/ \E p \in Pool : bondedPools' \subseteq bondedPools \cup {p}
        /\ UNCHANGED <<pipe, drift>> \/ \E p \in Pool : PipeMove(p)
    BY <1>0, <1>1, QuietTotals
  <2> QED
    BY <1>0, <2>1, <2>2, TotalQuiet
<1>2. CASE ClearCurrentEraSnapShots
  <2>1. /\ UNCHANGED <<chainEra, snapshots, bondedPools, pipe, expected, drift>>
        /\ ~forced' => ~forced
    BY <1>0, <1>2 DEF ClearCurrentEraSnapShots, rateVars, TypeOK
  <2> QED
    BY <2>1 DEF TotalInv, FiniteShots, OneShotPerEra, FreshEras, TotalMatches, OldEra
<1>3. ASSUME NEW era \in EraCall, SetChainEra(era) PROVE TotalInv'
  BY <1>0, <1>3, TotalOpens
<1>4. ASSUME NEW s \in DOMAIN snapshots, ShotReport(s) PROVE TotalInv'
  BY <1>0, <1>4, TotalReport
<1> QED
  BY <1>1, <1>2, <1>3, <1>4 DEF Next

(* An unused ledger has no snapshots and no totals.                         *)
LEMMA InitTotals == Init => TotalInv
<1> SUFFICES ASSUME Init PROVE TotalInv
  OBVIOUS
<1>1. DOMAIN snapshots = {} /\ bondedPools = {} /\ OldEra = 0
  BY DEF Init, OldEra
<1>2. FiniteShots
  BY <1>1, FS_EmptySet DEF FiniteShots
<1> QED
  BY <1>1, <1>2 DEF Init, TotalInv, OneShotPerEra, FreshEras, TotalMatches

(* The rate of an era is computed from every pool of the era, each counted  *)
(* once, less exactly what was bonded or unbonded behind a report already   *)
(* made (bond_and_report_active, active_report, new_active_report), unless  *)
(* root dropped snapshots.                                                  *)
THEOREM RateTheorem == Spec => RateCountsEveryPool
<1>1. ASSUME IInv, TotalInv, TotalInv', [Next]_vars, NEW e \in Era \ {0}, ~forced,
             eraRate'[e] # eraRate[e]
      PROVE  expected'[e] + drift' = ActiveIn(pipe', {s \in DOMAIN snapshots : s.era = e})
  <2>0. TypeOK /\ ListInv /\ ListInv'
    BY <1>1, ListStep DEF IInv
  <2>1. ~ (RootCall \/ SeriesCall \/ (\E v \in Voter : Acknowledged(v)) \/ UNCHANGED vars)
    BY <1>1, <2>0, QuietSteps DEF Quiet
  <2>2. ~ (ClearCurrentEraSnapShots \/ \E era \in EraCall : SetChainEra(era))
    BY <1>1 DEF ClearCurrentEraSnapShots, SetChainEra, rateVars
  <2>3. PICK s \in DOMAIN snapshots : ShotReport(s)
    BY <1>1, <2>1, <2>2 DEF Next
  <2>4. ActiveStep(s) /\ s \in currentShots
    BY <1>1, <2>0, <2>3, ReportTotals DEF BondStep, WithdrawStep, TransferStep
  <2>5. s.era = e /\ eraShots'[e] = {}
    <3>1. s.era \in Era
      BY <2>0 DEF TypeOK, Snapshot
    <3>2. PICK r \in Nat : eraRate' = [eraRate EXCEPT ![s.era] = r]
      BY <1>1, <2>4 DEF ActiveStep
    <3>3. s.era = e
      BY <1>1, <2>0, <3>1, <3>2 DEF TypeOK
    <3>4. eraShots[s.era] \ {s} = {} /\ eraShots' = [eraShots EXCEPT ![s.era] = @ \ {s}]
      BY <1>1, <2>4 DEF ActiveStep
    <3> QED
      BY <2>0, <3>1, <3>3, <3>4 DEF TypeOK
  <2>6. e = chainEra /\ e # 0 /\ e \in Nat
    BY <1>1, <2>0, <2>4, <2>5, LedgerAssumption DEF ListInv, ListsMatchStates, Era
  <2>7. OldEra' = e /\ ~forced'
    <3>1. UNCHANGED <<chainEra, forced>>
      BY <2>0, <2>3, ReportShape DEF ReportFrame
    <3>2. e # None
      BY <2>6, RateAssumption
    <3> QED
      BY <1>1, <2>6, <3>1, <3>2 DEF OldEra
  <2>8. DOMAIN snapshots' = DOMAIN snapshots
    BY <2>4, MovesFacts DEF ActiveStep
  <2>9. ReportedShots(e, snapshots') = {t \in DOMAIN snapshots : t.era = e}
    BY <1>1, <2>0, <2>5, <2>7, <2>8 DEF ListInv, ListsMatchStates, ReportedShots
  <2> QED
    BY <1>1, <2>6, <2>7, <2>9 DEF TotalInv, TotalMatches
<1>2. IInv /\ TotalInv /\ TotalInv' /\ [Next]_vars =>
        [\A e \in Era \ {0} :
           ~forced /\ eraRate'[e] # eraRate[e] =>
             expected'[e] + drift' = ActiveIn(pipe', {s \in DOMAIN snapshots : s.era = e})]_vars
  BY <1>1
<1> QED
  BY InitIInv, NextIInv, InitTotals, TotalStep, <1>2, PTL DEF Spec, RateCountsEveryPool

-----------------------------------------------------------------------------
(* The exchange rate arithmetic, for every RateBase and every width of the  *)
(* rate and the amounts: the runs enumerate small widths, the code has 64   *)
(* and 128 bits.                                                            *)

(* Halving a bound on twice the divided product: rounding to the nearest    *)
(* adds at most half a divisor.                                             *)
LEMMA HalfSlack ==
  ASSUME NEW z \in Nat, NEW x \in Nat, NEW w \in Nat, NEW c \in Nat \ {0},
         2 * (z * c) <= 2 * (x * c) + w + c
  PROVE  z <= x + w \div (2 * c) + 1
<1> DEFINE k == w \div (2 * c)
<1>1. 2 * c \in Nat \ {0}
  OBVIOUS
<1>2. k \in Nat /\ w < (k + 1) * (2 * c)
  BY <1>1, DivFloor
<1> HIDE DEF k
<1>3. (k + 1) * (2 * c) = 2 * (k * c) + 2 * c
  BY <1>2
<1>4. SUFFICES ASSUME x + k + 2 <= z PROVE FALSE
  BY <1>2 DEF k
<1>5. (x + k + 2) * c <= z * c
  BY <1>2, <1>4, MulMono
<1>6. (x + k + 2) * c = x * c + k * c + 2 * c
  BY <1>2
<1>7. z * c \in Nat /\ x * c \in Nat /\ k * c \in Nat
  BY <1>2
<1> HIDE DEF k
<1> QED
  BY <1>2, <1>3, <1>5, <1>6, <1>7

(* What redeeming y rtokens at a rate asks for, when they are worth at most *)
(* x tokens, or at most half of w more.                                     *)
LEMMA RedeemBounds ==
  ASSUME NEW r \in Nat, NEW y \in Nat, NEW x \in Nat, NEW w \in Nat
  PROVE  /\ y * r <= x * RateBase /\ x * RateBase < AmountLimit => RtokenToToken(r, y) <= x
         /\ 2 * (y * r) <= 2 * (x * RateBase) + w =>
              RtokenToToken(r, y) <= x + w \div (2 * RateBase) + 1
<1> DEFINE z == Quotient(y, r, RateBase)
           t == RtokenToToken(r, y)
<1>0. RateBase \in Nat \ {0} /\ AmountLimit \in Nat /\ r # None
  BY RateAssumption
<1>1. /\ z \in Nat
      /\ y * r < AmountLimit => z * RateBase <= y * r
      /\ 2 * (z * RateBase) <= 2 * (y * r) + RateBase
  BY <1>0, QuotientBounds
<1>2. t \in Nat /\ t <= z
  BY <1>0, <1>1 DEF RtokenToToken, MultiplyByRational
<1> HIDE DEF z, t
<1>3. y * r \in Nat /\ x * RateBase \in Nat /\ z * RateBase \in Nat
  BY <1>0, <1>1
<1>4. ASSUME y * r <= x * RateBase, x * RateBase < AmountLimit PROVE t <= x
  <2>1. z * RateBase <= x * RateBase
    BY <1>0, <1>1, <1>3, <1>4
  <2>2. (z * RateBase) \div RateBase <= x
    BY <1>0, <1>3, <2>1, DivAtMost
  <2>3. (z * RateBase) \div RateBase = z
    BY <1>0, <1>1
  <2> QED
    BY <1>1, <1>2, <2>2, <2>3
<1>5. ASSUME 2 * (y * r) <= 2 * (x * RateBase) + w PROVE t <= x + w \div (2 * RateBase) + 1
  <2>1. 2 * (z * RateBase) <= 2 * (x * RateBase) + w + RateBase
    BY <1>0, <1>1, <1>3, <1>5
  <2>2. z <= x + w \div (2 * RateBase) + 1
    BY <1>0, <1>1, <2>1, HalfSlack
  <2>3. w \div (2 * RateBase) \in Nat
    <3>1. 2 * RateBase \in Nat \ {0}
      BY <1>0
    <3> QED
      BY <3>1, DivFloor
  <2> HIDE DEF z, t
  <2> QED
    BY <1>1, <1>2, <2>2, <2>3
<1> QED
  BY <1>4, <1>5 DEF t

(* Bonding and unbonding at one rate gains nothing while the amount in      *)
(* units of 1 / RateBase fits, and only what two roundings to the nearest   *)
(* add beyond, whatever the rate is; when the first conversion overflows    *)
(* and falls back to one for one, the rate is below RateBase                *)
(* (token_to_rtoken, rtoken_to_token).                                      *)
THEOREM RoundTripSafe ==
  \A r \in RateType \cup {None}, x \in Amount : RoundTripIsBounded(r, x)
<1> SUFFICES ASSUME NEW r \in RateType \cup {None}, NEW x \in Amount
             PROVE  RoundTripIsBounded(r, x)
  OBVIOUS
<1>0. /\ RateBase \in Nat \ {0}
      /\ AmountLimit \in Nat
      /\ x \in Nat /\ x < AmountLimit
      /\ r # None => r \in Nat
      /\ x * RateBase \in Nat
  BY RateAssumption DEF Amount, RateType
<1>1. CASE r = None
  BY <1>0, <1>1 DEF RoundTripIsBounded, RtokenToToken, TokenToRtoken
<1>2. CASE r # None
  <2> DEFINE y == TokenToRtoken(r, x)
  <2>0. r \in Nat
    BY <1>0, <1>2
  <2>1. SUFFICES /\ y \in Nat
                 /\ x * RateBase < AmountLimit => y * r <= x * RateBase
                 /\ 2 * (y * r) <= 2 * (x * RateBase) + r
    <3> HIDE DEF y
    <3>1. ASSUME /\ y \in Nat
                 /\ x * RateBase < AmountLimit => y * r <= x * RateBase
                 /\ 2 * (y * r) <= 2 * (x * RateBase) + r
          PROVE  /\ x * RateBase < AmountLimit => RtokenToToken(r, y) <= x
                 /\ RtokenToToken(r, y) <= x + r \div (2 * RateBase) + 1
      BY <1>0, <2>0, <3>1, RedeemBounds
    <3> QED
      BY <1>2, <3>1 DEF RoundTripIsBounded, y
  <2>2. CASE r = 0
    <3>1. y = x /\ y * r = 0
      BY <1>0, <1>2, <2>2 DEF TokenToRtoken
    <3> QED
      BY <1>0, <2>0, <2>2, <3>1
  <2>3. CASE r # 0
    <3> DEFINE q == Quotient(x, RateBase, r)
    <3>1. /\ q \in Nat
          /\ x * RateBase < AmountLimit => q * r <= x * RateBase
          /\ 2 * (q * r) <= 2 * (x * RateBase) + r
      BY <1>0, <2>0, <2>3, QuotientBounds
    <3>2. y = IF q < AmountLimit THEN q ELSE x
      BY <1>2, <2>3 DEF TokenToRtoken, MultiplyByRational
    <3> HIDE DEF q, y
    <3>3. y \in Nat /\ y <= q
      BY <1>0, <3>1, <3>2
    <3>4. y * r <= q * r /\ y * r \in Nat /\ q * r \in Nat
      BY <2>0, <3>1, <3>3, MulMono
    <3> QED
      BY <1>0, <2>0, <3>1, <3>3, <3>4
  <2> QED
    BY <2>2, <2>3
<1> QED
  BY <1>1, <1>2

(* The rate set from total tokens and rtotal rtokens is backed: redeeming   *)
(* every rtoken at it takes at most total tokens, up to the rounding of     *)
(* wide products, also when the division overflows or the cast cuts the     *)
(* rate (set_rate).                                                         *)
THEOREM RateBacked ==
  \A total \in Amount, rtotal \in Amount : RateIsBacked(total, rtotal)
<1> SUFFICES ASSUME NEW total \in Amount, NEW rtotal \in Amount, total > 0
             PROVE  /\ total * RateBase < AmountLimit =>
                         RtokenToToken(NewRate(total, rtotal), rtotal) <= total
                    /\ RtokenToToken(NewRate(total, rtotal), rtotal) <=
                         total + rtotal \div (2 * RateBase) + 1
  BY DEF RateIsBacked
<1> DEFINE r == NewRate(total, rtotal)
<1>0. /\ RateBase \in Nat \ {0} /\ RateLimit \in Nat \ {0} /\ AmountLimit \in Nat
      /\ RateBase < RateLimit /\ RateLimit <= AmountLimit
      /\ total \in Nat \ {0}
      /\ rtotal \in Nat
      /\ None \notin Nat
      /\ total * RateBase \in Nat
  BY RateAssumption DEF Amount
<1>1. SUFFICES /\ r \in Nat
               /\ total * RateBase < AmountLimit => rtotal * r <= total * RateBase
               /\ 2 * (rtotal * r) <= 2 * (total * RateBase) + rtotal
  <2> HIDE DEF r
  <2>1. ASSUME /\ r \in Nat
               /\ total * RateBase < AmountLimit => rtotal * r <= total * RateBase
               /\ 2 * (rtotal * r) <= 2 * (total * RateBase) + rtotal
        PROVE  /\ total * RateBase < AmountLimit => RtokenToToken(r, rtotal) <= total
               /\ RtokenToToken(r, rtotal) <= total + rtotal \div (2 * RateBase) + 1
    BY <1>0, <2>1, RedeemBounds
  <2> QED
    BY <2>1 DEF r
<1>2. CASE rtotal = 0
  <2>1. r = RateBase
    BY <1>2 DEF NewRate
  <2> HIDE DEF r
  <2> QED
    BY <1>0, <1>2, <2>1
<1>3. CASE rtotal # 0
  <2> DEFINE q == Quotient(total, RateBase, rtotal)
  <2>1. /\ q \in Nat
        /\ total * RateBase < AmountLimit => q * rtotal <= total * RateBase
        /\ 2 * (q * rtotal) <= 2 * (total * RateBase) + rtotal
    BY <1>0, <1>3, QuotientBounds
  <2>2. r = (IF q < AmountLimit THEN q ELSE RateBase) % RateLimit
    BY <1>0, <1>3 DEF NewRate, MultiplyByRational
  <2> HIDE DEF q, r
  <2>3. r \in Nat /\ r <= q
    <3>1. CASE q < AmountLimit
      BY <1>0, <2>1, <2>2, <3>1
    <3>2. CASE ~(q < AmountLimit)
      BY <1>0, <2>1, <2>2, <3>2
    <3> QED
      BY <3>1, <3>2
  <2>4. r * rtotal <= q * rtotal /\ r * rtotal = rtotal * r
        /\ r * rtotal \in Nat /\ q * rtotal \in Nat
    BY <1>0, <2>1, <2>3, MulMono
  <2> QED
    BY <1>0, <2>1, <2>3, <2>4
<1> QED
  BY <1>2, <1>3

=============================================================================
