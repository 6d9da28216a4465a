-------------------------------- MODULE RFis --------------------------------
(***************************************************************************)
(* rtoken/rfis: the liquid staking of the chain's own token.  Users bond   *)
(* into pools, which are nominators of the staking pallet, and get rFIS.   *)
(* In each era the validators' offchain workers submit unsigned            *)
(* transactions, one step after the other: consolidate matured unlocks,    *)
(* report the total bonded, pay out rewards, report the total again,       *)
(* nominate.  on_finalize sets the era's rate from the two reports.        *)
(*                                                                         *)
(* The mempool is what waits in the transaction pool of some node.  A node *)
(* takes at most one transaction per tag, that is per kind and era, but it *)
(* knows only part of what waits elsewhere.  Unsigned calls are not bound  *)
(* to the workers: anybody may send one, and validate_unsigned looks at    *)
(* neither its source nor its total nor which validators it nominates.     *)
(* What was sent in these two ways is recorded by kind and era.            *)
(*                                                                         *)
(* Eras are the staking pallet's: CurrentEra is ahead of ActiveEra while   *)
(* the next era is planned.  Slashing, the users' own balances and the     *)
(* election's outcome are outside; every nominated validator is taken as   *)
(* elected.                                                                *)
(***************************************************************************)
EXTENDS Rate, FiniteSets, FiniteSetsExt

CONSTANTS Pool, User, Receiver, Bridge, Validator,
          MAX_ONBOARD_VALIDATORS,
          BondingDuration,
          ExistentialDeposit,
          PerbillBase,
          CommissionPart,   \* commissions root sets, in units of 1 / PerbillBase
          UnbondPart,       \* unbond commissions root sets
          NominationNum,    \* least and largest nominations root sets
          BalanceLimit,     \* pool limits root sets, 0 for none
          SwapFee,          \* fees of a bond that is swapped on
          Value,            \* amounts users bond, and rtokens they unbond
          Reward,           \* what a payout adds to a pool
          Total,            \* totals that are reported by others than the workers
          MaxStake,         \* bound on a pool's balance
          MaxPending,       \* bound on the transactions that wait
          MaxEra            \* bound on the era

Owner == User \cup {Receiver, Bridge}
RT == INSTANCE Balances WITH Holder <- Owner, TokenLimit <- AmountLimit
Era == 0..MaxEra
UnlockEra == 0..(MaxEra + BondingDuration)

Option(S) == S \cup {None}
Chunks == [UnlockEra -> Option(Nat)]
NoChunks == [e \in UnlockEra |-> None]
StakingLedger == [active : Nat, total : Nat, unlocking : Chunks]

ASSUME RFisAssumption ==
  /\ {MAX_ONBOARD_VALIDATORS, BondingDuration, ExistentialDeposit, MaxStake, MaxPending,
      MaxEra} \subseteq Nat
  /\ PerbillBase \in Nat \ {0}
  /\ IsFiniteSet(Pool) /\ IsFiniteSet(User)
  \* The native supply in units of 1 / RateBase fits an amount.
  /\ Cardinality(Pool) * MaxStake * RateBase < AmountLimit
  /\ None \notin StakingLedger /\ \A targets \in SUBSET Validator : targets # None
  /\ CommissionPart \cup UnbondPart \subseteq 0..PerbillBase
  /\ NominationNum \subseteq Nat \ {0}
  /\ BalanceLimit \cup SwapFee \cup Value \cup Reward \cup Total \subseteq Nat

VARIABLES activeEra, currentEra,  \* staking ActiveEra, CurrentEra
          pools,         \* Pools
          ledger,        \* staking Ledger of a pool, None before bond_for_pool
          free,          \* native balance of a pool account
          settings,      \* the values root sets
          onboard,       \* OnboardValidators
          rtokens,       \* the rFIS ledger
          rate, eraRate, \* rtoken/rate
          before, after, \* TotalBondedBeforePayout, TotalBondedAfterPayout
          paidouts,      \* PoolPaidouts
          claimed,       \* external: (era, validator) whose rewards were paid
          unbonding,     \* Unbonding
          nominated,     \* Nominated; NominatedValidators is the union of an era's
          unlockedPools, \* UnlockedPools
          mempool,       \* external: unsigned transactions not yet included
          crossed,       \* history: (kind, era) sent by two nodes unaware of each other
          foreign,       \* history: (kind, era) sent by others than the workers
          adjusted       \* history: pools root gave an unlock by add_pool_unlock

eraVars == <<activeEra, currentEra>>
stakeVars == <<pools, ledger, free, unbonding, adjusted>>
rateVars == <<rtokens, rate, eraRate>>
reportVars == <<before, after, paidouts, claimed, unlockedPools>>
voteVars == <<settings, onboard, nominated>>
sentVars == <<crossed, foreign>>
txVars == <<mempool, sentVars>>
rfisVars == <<eraVars, stakeVars, rateVars, reportVars, voteVars, txVars>>

Kind == {"unlocks", "before", "paidouts", "after", "nomination"}

RFisTypeOK ==
  /\ activeEra \in Era /\ currentEra \in {activeEra, activeEra + 1}
  /\ pools \subseteq Pool
  /\ ledger \in [Pool -> Option(StakingLedger)]
  /\ free \in [Pool -> Nat]
  /\ onboard \subseteq Validator /\ Cardinality(onboard) <= MAX_ONBOARD_VALIDATORS + 1
  /\ rtokens \in RT!TokenLedger
  /\ rate \in Option(RateType) /\ eraRate \in [Era -> Option(RateType)]
  /\ before \in [Era -> Option(Nat)] /\ after \in [Era -> Option(Nat)]
  /\ paidouts \subseteq Era \X Validator \X Pool
  /\ claimed \subseteq Era \X Validator
  /\ unbonding \in [User \X Pool -> Chunks]
  /\ nominated \in [Era \X Pool -> Option(SUBSET Validator)]
  /\ unlockedPools \in [Era -> SUBSET Pool]
  /\ \A tx \in mempool : tx[1] \in Kind /\ tx[2] \in Era
  /\ crossed \subseteq Kind \X Era /\ foreign \subseteq Kind \X Era
  /\ adjusted \subseteq Pool

RFisInit ==
  /\ activeEra = 0 /\ currentEra = 0
  /\ pools = {}
  /\ ledger = [p \in Pool |-> None]
  /\ free = [p \in Pool |-> ExistentialDeposit]
  /\ settings \in [switch : {FALSE}, receiver : {FALSE}, commission : CommissionPart,
                   unbondCommission : UnbondPart, min : NominationNum, max : NominationNum,
                   limit : {0}]
  /\ settings.min <= settings.max
  /\ onboard = {}
  /\ rtokens = RT!NoTokens
  /\ rate = None /\ eraRate = [e \in Era |-> None]
  /\ before = [e \in Era |-> None] /\ after = [e \in Era |-> None]
  /\ paidouts = {} /\ claimed = {}
  /\ unbonding = [k \in User \X Pool |-> NoChunks]
  /\ nominated = [k \in Era \X Pool |-> None]
  /\ unlockedPools = [e \in Era |-> {}]
  /\ mempool = {} /\ crossed = {} /\ foreign = {}
  /\ adjusted = {}

-----------------------------------------------------------------------------
(* Helpers.                                                                 *)

OrElse(option, default) == IF option = None THEN default ELSE option
SumChunks(chunks, eras) == SumFunctionOnSet([e \in UnlockEra |-> OrElse(chunks[e], 0)], eras)
ChunkCount(chunks) == Cardinality({e \in UnlockEra : chunks[e] # None})
AddChunk(chunks, e, value) == [chunks EXCEPT ![e] = OrElse(@, 0) + value]

\* A stake that has grown, and one of which a part will be unlocked.
Grown(l, amount) ==
  [active |-> l.active + amount, total |-> l.total + amount, unlocking |-> l.unlocking]
Unlocking(l, e, amount) ==
  [active |-> l.active - amount, total |-> l.total, unlocking |-> AddChunk(l.unlocking, e, amount)]

PerbillMul(part, amount) ==
  (part * amount) \div PerbillBase
    + IF (part * amount) % PerbillBase > PerbillBase \div 2 THEN 1 ELSE 0

BondedPools == {p \in pools : ledger[p] # None}
TotalBonded == SumFunction([p \in BondedPools |-> ledger[p].active])
MaxChunks == BondingDuration + 2

NominatedValidators(e) == UNION {OrElse(nominated[<<e, p>>], {}) : p \in Pool}

\* The staking pallet's exposure: a nomination of one era is active in the next.
IsActived(e, v, p) == e > 0 /\ v \in OrElse(nominated[<<e - 1, p>>], {})

-----------------------------------------------------------------------------
(* Root's calls, and validators joining and leaving.                        *)

AddNewPool(p) ==
  /\ p \notin pools
  /\ pools' = pools \cup {p}
  /\ UNCHANGED <<eraVars, ledger, free, unbonding, adjusted, rateVars, reportVars, voteVars, txVars>>

BondForPool(p) ==
  /\ p \in pools
  /\ ledger[p] = None
  /\ ledger' = [ledger EXCEPT ![p] = [active |-> 0, total |-> 0, unlocking |-> NoChunks]]
  /\ UNCHANGED <<eraVars, pools, free, unbonding, adjusted, rateVars, reportVars, voteVars, txVars>>

Configure ==
  /\ \/ settings' = [settings EXCEPT !.switch = ~@]
     \/ settings' = [settings EXCEPT !.receiver = TRUE]
     \/ \E c \in CommissionPart : settings' = [settings EXCEPT !.commission = c]
     \/ \E c \in UnbondPart : settings' = [settings EXCEPT !.unbondCommission = c]
     \/ \E l \in BalanceLimit : settings' = [settings EXCEPT !.limit = l]
     \/ \E n \in NominationNum : n <= settings.max /\ settings' = [settings EXCEPT !.min = n]
     \/ \E n \in NominationNum : n >= settings.min /\ settings' = [settings EXCEPT !.max = n]
  /\ UNCHANGED <<eraVars, stakeVars, rateVars, reportVars, onboard, nominated, txVars>>

\* add_pool_unlock: an unlock that lowers neither active nor total.
AddPoolUnlock(p, e, value) ==
  /\ p \in BondedPools
  /\ e > currentEra
  /\ value <= ledger[p].active
  /\ ledger' = [ledger EXCEPT ![p].unlocking = AddChunk(@, e, value)]
  /\ adjusted' = adjusted \cup {p}
  /\ UNCHANGED <<eraVars, pools, free, unbonding, rateVars, reportVars, voteVars, txVars>>

\* The limit is compared before the insertion.
Onboard(v) ==
  /\ Cardinality(onboard) <= MAX_ONBOARD_VALIDATORS
  /\ v \notin onboard
  /\ onboard' = onboard \cup {v}
  /\ UNCHANGED <<eraVars, stakeVars, rateVars, reportVars, settings, nominated, txVars>>

Offboard(v) ==
  /\ v \in onboard
  /\ onboard' = onboard \ {v}
  /\ UNCHANGED <<eraVars, stakeVars, rateVars, reportVars, settings, nominated, txVars>>

-----------------------------------------------------------------------------
(* Users' calls.                                                            *)

Bondable(p, value) ==
  /\ settings.switch
  /\ value > 0
  /\ p \in BondedPools
  /\ eraRate[activeEra] # None
  /\ settings.limit = 0 \/ ledger[p].active + value <= settings.limit
  /\ free[p] + value <= MaxStake

\* bond_extra after value has arrived in the pool's account.
BondExtra(p, balance, value) ==
  LET surplus == balance - ledger[p].total
      extra == IF surplus < value THEN surplus ELSE value
  IN IF surplus < 0 THEN UNCHANGED ledger
     ELSE ledger' = [ledger EXCEPT ![p] = Grown(@, extra)]

\* liquidity_bond, and liquidity_bond_and_swap, which mints to the bridge.
LiquidityBond(p, to, value) ==
  LET minted == TokenToRtoken(rate, value) IN
    /\ Bondable(p, value)
    /\ RT!CanMint(rtokens, to, minted)
    /\ rtokens' = RT!Minted(rtokens, to, minted)
    /\ free' = [free EXCEPT ![p] = @ + value]
    /\ BondExtra(p, free[p] + value, value)
    /\ UNCHANGED <<eraVars, pools, unbonding, adjusted, rate, eraRate, reportVars, voteVars, txVars>>

\* liquidity_bond_and_swap whose fee cannot be paid on (a recipient below the
\* existential deposit): the money has reached the pool, and nothing else.
BondAndSwapTaken(p, value, fee) ==
  /\ Bondable(p, value)
  /\ fee < ExistentialDeposit /\ free[p] + value + fee <= MaxStake
  /\ free' = [free EXCEPT ![p] = @ + value + fee]
  /\ UNCHANGED <<eraVars, pools, ledger, unbonding, adjusted, rateVars, reportVars, voteVars, txVars>>

\* liquidity_unbond, from a pool that still has the tokens.
LiquidityUnbond(who, p, value) ==
  LET fee == PerbillMul(settings.unbondCommission, value)
      balance == RtokenToToken(rate, value - fee)
      era == activeEra + BondingDuration
      taken == RT!Transferred(rtokens, who, Receiver, fee)
  IN /\ value > 0 /\ settings.receiver
     /\ p \in BondedPools
     /\ eraRate[activeEra] # None
     /\ rtokens.free[who] >= value
     /\ ChunkCount(ledger[p].unlocking) < MaxChunks
     /\ ChunkCount(unbonding[<<who, p>>]) < MaxChunks
     /\ ledger[p].active >= balance
     /\ ledger' = [ledger EXCEPT ![p] = Unlocking(@, era, balance)]
     /\ unbonding' = [unbonding EXCEPT ![<<who, p>>] = AddChunk(@, era, balance)]
     /\ rtokens' = RT!Burned(taken, who, value - fee)
     /\ UNCHANGED <<eraVars, pools, free, adjusted, rate, eraRate, reportVars, voteVars, txVars>>

\* A withdrawal that leaves the withdrawn chunks in place.
MutLiquidityWithdrawUnbond(who, p) ==
  LET due == {e \in UnlockEra : e <= currentEra}
      total == SumChunks(unbonding[<<who, p>>], due)
  IN /\ p \in pools
     /\ total > 0
     /\ free[p] >= total + ExistentialDeposit
     /\ ledger[p] # None => free[p] - total >= ledger[p].total
     /\ free' = [free EXCEPT ![p] = @ - total]
     /\ UNCHANGED <<eraVars, pools, ledger, unbonding, adjusted, rateVars, reportVars, voteVars, txVars>>

\* What is staked is locked: until submit_unlocks has consolidated the
\* ledger, a matured chunk may be refused.
LiquidityWithdrawUnbond(who, p) ==
  LET due == {e \in UnlockEra : e <= currentEra}
      total == SumChunks(unbonding[<<who, p>>], due)
  IN /\ p \in pools
     /\ total > 0
     /\ free[p] >= total + ExistentialDeposit
     /\ ledger[p] # None => free[p] - total >= ledger[p].total
     /\ free' = [free EXCEPT ![p] = @ - total]
     /\ unbonding' = [unbonding EXCEPT ![<<who, p>>] =
                        [e \in UnlockEra |-> IF e \in due THEN None ELSE @[e]]]
     /\ UNCHANGED <<eraVars, pools, ledger, adjusted, rateVars, reportVars, voteVars, txVars>>

-----------------------------------------------------------------------------
(* The offchain worker, run after each block on the state of that block.    *)

\* Tags by era and pool.
MutTag(tx) == <<tx[1], tx[2], tx[3]>>

\* with_tag_prefix and and_provides: the kind and the era.
Tag(tx) == <<tx[1], tx[2]>>

\* External: a validator has reward points in an era only once it has begun.
IsValidator(e, v) == v \in Validator /\ e <= activeEra

\* validate_unsigned, on submission and again on inclusion.
Valid(tx) ==
  CASE tx[1] = "unlocks" -> tx[3] \in pools
    [] tx[1] = "before" -> before[tx[2]] = None
    [] tx[1] = "paidouts" -> tx[3] \in pools /\ IsValidator(tx[2], tx[4])
    [] tx[1] = "after" -> after[tx[2]] = None
    [] tx[1] = "nomination" ->
         /\ tx[3] \in pools
         /\ Cardinality(tx[4]) = 0 \/ Cardinality(tx[4]) \in settings.min..settings.max

\* Whether a node that holds the known transactions takes tx.
Acceptable(tx, known) == Valid(tx) /\ \A other \in known : Tag(other) # Tag(tx)

Unlockable == {p \in BondedPools \ unlockedPools[activeEra] :
                 \E e \in 0..activeEra : ledger[p].unlocking[e] # None}
UnlockCalls(known) ==
  {tx \in {<<"unlocks", activeEra, p>> : p \in Unlockable} : Acceptable(tx, known)}

LastEra == IF activeEra = 0 THEN 0 ELSE activeEra - 1

Unpaid == {u \in Validator \X BondedPools :
             <<LastEra, u[1], u[2]>> \notin paidouts /\ IsActived(LastEra, u[1], u[2])}

Unnominated == {p \in BondedPools : nominated[<<activeEra, p>>] = None}

\* The targets for p: last era's that are still eligible, filled up to the
\* maximum; none at all when too few are eligible.
Targets(p) ==
  LET eligible == onboard \ NominatedValidators(activeEra)
      kept == OrElse(nominated[<<LastEra, p>>], {}) \cap eligible
      size == Max({Cardinality(kept), Min({settings.max, Cardinality(eligible)})})
  IN IF Cardinality(eligible) < settings.min THEN {{}}
     ELSE {t \in SUBSET eligible : kept \subseteq t /\ Cardinality(t) = size}

\* The first step of the era that is not done decides what is submitted; an
\* unlock that the node's own pool refuses does not hold up the rest.
WorkerCalls(known) ==
  IF UnlockCalls(known) # {} THEN UnlockCalls(known)
  ELSE IF before[activeEra] = None THEN {<<"before", activeEra, None, TotalBonded>>}
  ELSE IF Unpaid # {} THEN {<<"paidouts", LastEra, u[2], u[1]>> : u \in Unpaid}
  ELSE IF after[activeEra] = None THEN {<<"after", activeEra, None, TotalBonded>>}
  ELSE IF ~settings.switch THEN {}
  ELSE UNION {{<<"nomination", activeEra, p, t>> : t \in Targets(p)} :
                p \in {q \in Unnominated : \A r \in Unnominated : ledger[q].active >= ledger[r].active}}

\* The worker of a node that has heard of the known ones among the waiting
\* transactions.
OffchainWorker ==
  /\ Cardinality(mempool) < MaxPending
  /\ \E known \in SUBSET mempool :
       \E tx \in WorkerCalls(known) :
         /\ Acceptable(tx, known)
         /\ mempool' = mempool \cup {tx}
         /\ crossed' = IF Acceptable(tx, mempool \ {tx}) THEN crossed ELSE crossed \cup {Tag(tx)}
  /\ UNCHANGED <<eraVars, stakeVars, rateVars, reportVars, voteVars, foreign>>

\* A call that did not come from a worker.
SubmitForeign(tx) ==
  /\ Cardinality(mempool) < MaxPending
  /\ Valid(tx)
  /\ mempool' = mempool \cup {tx}
  /\ foreign' = foreign \cup {<<tx[1], tx[2]>>}
  /\ UNCHANGED <<eraVars, stakeVars, rateVars, reportVars, voteVars, crossed>>

ForeignCalls ==
  {<<"unlocks", e, p>> : e \in Era, p \in Pool}
    \cup {<<kind, e, None, total>> : kind \in {"before", "after"}, e \in Era, total \in Total}
    \cup {<<"paidouts", e, p, v>> : e \in Era, p \in Pool, v \in Validator}
    \cup {<<"nomination", e, p, t>> : e \in Era, p \in Pool, t \in SUBSET Validator}

\* A call that would fail if it were included now.
Stale(tx) ==
  \/ ~Valid(tx)
  \/ tx[1] # "paidouts" /\ tx[2] # currentEra
  \/ tx[1] = "unlocks" /\ (ledger[tx[3]] = None \/ tx[3] \in unlockedPools[currentEra])
  \/ tx[1] = "paidouts" /\ <<tx[2], tx[4], tx[3]>> \in paidouts
  \/ tx[1] = "after" /\ before[currentEra] = None
  \/ tx[1] = "nomination" /\ (ledger[tx[3]] = None \/ nominated[<<currentEra, tx[3]>>] # None)

\* A transaction expires, is found invalid, fails, or is simply lost.
Drop(tx) ==
  /\ mempool' = mempool \ {tx}
  /\ UNCHANGED <<eraVars, stakeVars, rateVars, reportVars, voteVars, sentVars>>

-----------------------------------------------------------------------------
(* The workers' transactions, once included.                                *)

\* consolidate_unlocked of the staking pallet drops what has matured.
Consolidated(l, e) ==
  [active |-> l.active,
   total |-> Max({l.total - SumChunks(l.unlocking, 0..e), 0}),
   unlocking |-> [x \in UnlockEra |-> IF x <= e THEN None ELSE l.unlocking[x]]]

SubmitUnlocks(tx) ==
  /\ tx[1] = "unlocks" /\ tx[2] = currentEra
  /\ tx[3] \notin unlockedPools[currentEra]
  /\ ledger[tx[3]] # None
  /\ ledger' = [ledger EXCEPT ![tx[3]] = Consolidated(@, currentEra)]
  /\ unlockedPools' = [unlockedPools EXCEPT ![currentEra] = @ \cup {tx[3]}]
  /\ UNCHANGED <<eraVars, pools, free, unbonding, adjusted, rateVars, before, after, paidouts,
                 claimed, voteVars>>

SubmitTotalBondedBefore(tx) ==
  /\ tx[1] = "before" /\ tx[2] = currentEra
  /\ before' = [before EXCEPT ![currentEra] = tx[4]]
  /\ UNCHANGED <<eraVars, stakeVars, rateVars, after, paidouts, claimed, unlockedPools, voteVars>>

\* External: do_payout_stakers pays a validator's nominators once for an era
\* that is over, and what a pool earns is staked at once.
PayoutStakers(v, e, reward) ==
  LET paid == {p \in BondedPools : IsActived(e, v, p) /\ free[p] + reward <= MaxStake} IN
    IF e >= activeEra \/ <<e, v>> \in claimed THEN UNCHANGED <<ledger, free, claimed>>
    ELSE /\ ledger' = [p \in Pool |-> IF p \in paid
                         THEN Grown(ledger[p], reward) ELSE ledger[p]]
         /\ free' = [p \in Pool |-> IF p \in paid THEN free[p] + reward ELSE free[p]]
         /\ claimed' = claimed \cup {<<e, v>>}

\* submit_paidouts that fails, recording nothing, when the payout fails.
MutSubmitPaidouts(tx, reward) ==
  /\ tx[1] = "paidouts"
  /\ <<tx[2], tx[4], tx[3]>> \notin paidouts
  /\ <<tx[2], tx[4]>> \notin claimed
  /\ PayoutStakers(tx[4], tx[2], reward)
  /\ paidouts' = paidouts \cup {<<tx[2], tx[4], tx[3]>>}
  /\ UNCHANGED <<eraVars, pools, unbonding, adjusted, rateVars, before, after, unlockedPools, voteVars>>

SubmitPaidouts(tx, reward) ==
  /\ tx[1] = "paidouts"
  /\ <<tx[2], tx[4], tx[3]>> \notin paidouts
  /\ PayoutStakers(tx[4], tx[2], reward)
  /\ paidouts' = paidouts \cup {<<tx[2], tx[4], tx[3]>>}
  /\ UNCHANGED <<eraVars, pools, unbonding, adjusted, rateVars, before, after, unlockedPools, voteVars>>

SubmitTotalBondedAfter(tx) ==
  /\ tx[1] = "after" /\ tx[2] = currentEra
  /\ before[currentEra] # None
  /\ after' = [after EXCEPT ![currentEra] = tx[4]]
  /\ UNCHANGED <<eraVars, stakeVars, rateVars, before, paidouts, claimed, unlockedPools, voteVars>>

SubmitNomination(tx) ==
  /\ tx[1] = "nomination" /\ tx[2] = currentEra
  /\ nominated[<<currentEra, tx[3]>>] = None
  /\ ledger[tx[3]] # None
  /\ nominated' = [nominated EXCEPT ![<<currentEra, tx[3]>>] = tx[4]]
  /\ UNCHANGED <<eraVars, stakeVars, rateVars, reportVars, settings, onboard>>

Include(tx) ==
  /\ Valid(tx)
  /\ mempool' = mempool \ {tx} /\ UNCHANGED sentVars
  /\ \/ SubmitUnlocks(tx)
     \/ SubmitTotalBondedBefore(tx)
     \/ \E reward \in Reward : SubmitPaidouts(tx, reward)
     \/ SubmitTotalBondedAfter(tx)
     \/ SubmitNomination(tx)

\* Anybody may ask the staking pallet for a payout.
PayoutByOthers(v, e, reward) ==
  /\ e < activeEra
  /\ PayoutStakers(v, e, reward)
  /\ UNCHANGED <<eraVars, pools, unbonding, adjusted, rateVars, before, after, paidouts,
                 unlockedPools, voteVars, txVars>>

-----------------------------------------------------------------------------
(* The end of a block, and the eras.                                        *)

Finalizable ==
  eraRate[activeEra] = None /\ before[activeEra] # None /\ after[activeEra] # None

\* on_finalize that computes the rate before it mints the commission.
MutOnFinalize ==
  LET gain == after[activeEra] - before[activeEra]
      fee == IF gain > 0 /\ settings.receiver
               THEN TokenToRtoken(rate, PerbillMul(settings.commission, gain)) ELSE 0
      minted == IF RT!CanMint(rtokens, Receiver, fee) THEN RT!Minted(rtokens, Receiver, fee)
                ELSE rtokens
      newRate == NewRate(after[activeEra], rtokens.issuance)
  IN /\ Finalizable
     /\ rtokens' = minted
     /\ rate' = newRate
     /\ eraRate' = [eraRate EXCEPT ![activeEra] = newRate]
     /\ UNCHANGED <<eraVars, stakeVars, reportVars, voteVars, txVars>>

\* on_finalize: the commission is minted at the old rate, then the rate set.
OnFinalize ==
  LET gain == after[activeEra] - before[activeEra]
      fee == IF gain > 0 /\ settings.receiver
               THEN TokenToRtoken(rate, PerbillMul(settings.commission, gain)) ELSE 0
      minted == IF RT!CanMint(rtokens, Receiver, fee) THEN RT!Minted(rtokens, Receiver, fee)
                ELSE rtokens
      newRate == NewRate(after[activeEra], minted.issuance)
  IN /\ Finalizable
     /\ rtokens' = minted
     /\ rate' = newRate
     /\ eraRate' = [eraRate EXCEPT ![activeEra] = newRate]
     /\ UNCHANGED <<eraVars, stakeVars, reportVars, voteVars, txVars>>

\* External: the staking pallet plans the next era, and later starts it, at
\* the beginning of a block.
PlanEra ==
  /\ ~Finalizable
  /\ currentEra = activeEra /\ activeEra < MaxEra
  /\ currentEra' = currentEra + 1
  /\ UNCHANGED <<activeEra, stakeVars, rateVars, reportVars, voteVars, txVars>>

StartEra ==
  /\ ~Finalizable
  /\ currentEra # activeEra
  /\ activeEra' = currentEra
  /\ UNCHANGED <<currentEra, stakeVars, rateVars, reportVars, voteVars, txVars>>

RootCall ==
  \/ \E p \in Pool : AddNewPool(p) \/ BondForPool(p)
  \/ Configure

RootUnlock == \E p \in Pool, e \in UnlockEra, v \in Value : AddPoolUnlock(p, e, v)

ValidatorCall == \E v \in Validator : Onboard(v) \/ Offboard(v)

UserCall ==
  \E who \in User, p \in Pool :
    \/ \E v \in Value : LiquidityBond(p, who, v) \/ LiquidityUnbond(who, p, v)
    \/ LiquidityWithdrawUnbond(who, p)

SwapCall ==
  \E p \in Pool, v \in Value :
    LiquidityBond(p, Bridge, v) \/ \E fee \in SwapFee : BondAndSwapTaken(p, v, fee)

Chain ==
  \/ OffchainWorker
  \/ \E tx \in mempool : Drop(tx) \/ Include(tx)
  \/ \E v \in Validator, e \in Era, reward \in Reward : PayoutByOthers(v, e, reward)
  \/ OnFinalize
  \/ PlanEra \/ StartEra

ForeignCall == \E tx \in ForeignCalls : SubmitForeign(tx)

RFisNext ==
  RootCall \/ RootUnlock \/ ValidatorCall \/ UserCall \/ SwapCall \/ ForeignCall \/ Chain

RFisSpec == RFisInit /\ [][RFisNext]_rfisVars

-----------------------------------------------------------------------------
(* At the current rate all rFIS together are worth at most what the pools   *)
(* have bonded, as long as the second report of every era was a worker's:   *)
(* the chain takes any total from anybody.  The rate is derived from a      *)
(* total that a worker read some blocks before; bonds and unbonds in        *)
(* between would make it wrong, and what keeps them out is that both ask    *)
(* for the era's rate.  Commission is minted before the rate is set,        *)
(* whatever the first report says, and payouts by others only add.          *)
Solvent ==
  rate # None /\ (\A e \in Era : <<"after", e>> \notin foreign) =>
    RtokenToToken(rate, rtokens.issuance) <= TotalBonded

\* What users have unbonded from p for the given eras and not withdrawn.
Owed(p, eras) == SumFunction([who \in User |-> SumChunks(unbonding[<<who, p>>], eras)])

(* A pool's account holds what it has bonded and, on top of it, everything  *)
(* it owes to users who have unbonded, whatever the order of unbonds,       *)
(* payouts, unlocks and withdrawals; and the staking ledger, kept by        *)
(* another pallet, agrees with the users' own records: what a pool will     *)
(* unlock in an era is what its users unbonded for it.  An unlock that root *)
(* adds by hand breaks the agreement, not the cover.                        *)
UnbondsCovered ==
  \A p \in BondedPools :
    LET l == ledger[p]
    IN /\ free[p] >= l.active + Owed(p, UnlockEra) + ExistentialDeposit
       /\ p \notin adjusted =>
            /\ l.total = l.active + SumChunks(l.unlocking, UnlockEra)
            /\ \A e \in UnlockEra :
                 e > currentEra => OrElse(l.unlocking[e], 0) = Owed(p, {e})

(* No validator is nominated by two pools in one era, when all nominations  *)
(* of the era come from workers and each of them knew of the one still      *)
(* waiting.  The targets were chosen on an older block and the chain does   *)
(* not look at them; that no other pool's nomination has come in between is *)
(* due to the tag alone, which names the era and not the pool.              *)
NomineesNotShared ==
  \A e \in Era, p, q \in Pool :
    p # q /\ <<"nomination", e>> \notin crossed \cup foreign =>
      OrElse(nominated[<<e, p>>], {}) \cap OrElse(nominated[<<e, q>>], {}) = {}

=============================================================================
