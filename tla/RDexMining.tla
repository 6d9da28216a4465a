----------------------------- MODULE RDexMining -----------------------------
(***************************************************************************)
(* rdex/mining over rdex/swap: providers stake LP tokens in graded pools   *)
(* and earn native tokens per block.  A stake refers to its pool by the    *)
(* position (grade) in a list.  The fields a stake only carries for        *)
(* display (the value of the LP tokens, the reward of the reserved part)   *)
(* and the guard line, which nothing reads, are left out.                  *)
(***************************************************************************)
EXTENDS RDexSwap, Sequences, SequencesExt, Functions

CONSTANTS REWARD_FACTOR,
          StakeAmount,     \* LP amounts users deposit and withdraw
          StartBlock, StakeLock, RewardPerBlock, TotalReward,  \* values root sets
          Guard,           \* guard reserves root sets and withdraws
          MaxIndex,        \* bound on pool lists
          MaxGrade,        \* bound on the pools of a list
          MaxStakes,       \* bound on the stakes of a user in a list
          MaxBlock         \* bound on the block number

ASSUME MiningAssumption ==
  /\ StakeAmount \cup StartBlock \cup StakeLock \cup RewardPerBlock \cup TotalReward
       \cup Guard \cup {MaxIndex, MaxGrade, MaxStakes, MaxBlock} \subseteq Nat
  /\ REWARD_FACTOR \in Nat \ {0}

VARIABLES block,          \* block number
          stakePools,     \* StakePools; PoolCount is its length
          stakes,         \* StakeUsers; UserStakeCount is the length
          depositAllowed, \* LpWhitelist and LpSwitch of this pallet
          guardReserve,   \* GuardReserve
          shifted         \* history: a pool was removed from before another one

miningVars == <<block, stakePools, stakes, depositAllowed, guardReserve, shifted>>
vars == <<swapVars, miningVars>>

Index == 1..MaxIndex

\* issued: history, the reward taken from left so far.
StakePool == [emergency : BOOLEAN, total : Nat, start : Nat, perBlock : Nat, reward : Nat,
              left : Nat, locked : Nat, last : Nat, share : Nat, issued : Nat]

\* roundings: history, how often the debt was rounded down.
StakeUser == [lp : Nat, debt : Nat, height : Nat, grade : Nat \ {0}, claimed : Nat,
              roundings : Nat]

MiningTypeOK ==
  /\ block \in 0..MaxBlock
  /\ stakePools \in Seq(Seq(StakePool))
  /\ stakes \in [User \X Index -> Seq(StakeUser)]
  /\ depositAllowed \in Allowance
  /\ guardReserve \in Nat
  /\ shifted \in BOOLEAN

TypeOK == SwapTypeOK /\ MiningTypeOK

Init ==
  /\ SwapInit
  /\ block = 0
  /\ stakePools = << >>
  /\ stakes = [k \in User \X Index |-> << >>]
  /\ depositAllowed = [switch |-> FALSE, whitelist |-> {}]
  /\ guardReserve = 0
  /\ shifted = FALSE

-----------------------------------------------------------------------------
(* Rewards.                                                                 *)

\* get_pool_reward.
PoolReward(sp) == Min({(block - sp.last) * sp.perBlock, sp.left})

\* update_pool.
Updated(sp) ==
  IF block <= sp.last THEN sp
  ELSE IF sp.total = 0 THEN [sp EXCEPT !.last = block]
  ELSE LET reward == PoolReward(sp) IN
         [sp EXCEPT !.left = @ - reward, !.issued = @ + reward, !.last = block,
                    !.share = @ + (reward * REWARD_FACTOR) \div sp.total]

\* What amount has earned since the pool began.
Earned(amount, sp) == (amount * sp.share) \div REWARD_FACTOR

WithdrawReward(stake, sp) == Max({Earned(stake.lp, sp) - stake.debt, 0})

\* A stake whose debt is taken before the pool is updated.
MutNewStake(amount, g, sp, updated) ==
  [lp |-> amount, debt |-> Earned(amount, sp), height |-> block, grade |-> g,
   claimed |-> 0, roundings |-> 1]

NewStake(amount, g, sp, updated) ==
  [lp |-> amount, debt |-> Earned(amount, updated), height |-> block, grade |-> g,
   claimed |-> 0, roundings |-> 1]

-----------------------------------------------------------------------------
(* Users' calls.                                                            *)

HasPool(i, g) == i \in DOMAIN stakePools /\ g \in DOMAIN stakePools[i]
HasStake(who, i, n) ==
  i \in DOMAIN stakePools /\ n \in DOMAIN stakes[<<who, i>>] /\ HasPool(i, stakes[<<who, i>>][n].grade)

Deposit(who, i, g, amount) ==
  /\ Allows(depositAllowed, who)
  /\ HasPool(i, g) /\ pool # None
  /\ Len(stakes[<<who, i>>]) < MaxStakes
  /\ LET sp == stakePools[i][g]
         updated == Updated(sp)
     IN /\ sp.perBlock > 0
        /\ amount > 0 /\ ~sp.emergency /\ lp.free[who] >= amount
        /\ block + sp.locked < sp.start + sp.reward \div sp.perBlock
        /\ lp' = LP!Transferred(lp, who, MiningAccount, amount)
        /\ stakePools' = [stakePools EXCEPT ![i][g] = [updated EXCEPT !.total = @ + amount]]
        /\ stakes' = [stakes EXCEPT ![<<who, i>>] = Append(@, NewStake(amount, g, sp, updated))]
  /\ UNCHANGED <<pool, lpAllowed, native, rtokens, block, depositAllowed, guardReserve, shifted>>

Withdraw(who, i, n, amount) ==
  /\ HasStake(who, i, n)
  /\ LET stake == stakes[<<who, i>>][n]
         sp == stakePools[i][stake.grade]
         updated == Updated(sp)
         reward == WithdrawReward(stake, updated)
         reserved == stake.lp - amount
     IN /\ block > sp.locked + stake.height
        /\ ~sp.emergency
        /\ amount > 0 /\ stake.lp >= amount /\ sp.total >= stake.lp
        /\ CanPay(native, MiningAccount, who, reward)
        /\ native' = Paid(native, MiningAccount, who, reward)
        /\ lp' = LP!Transferred(lp, MiningAccount, who, amount)
        /\ stakePools' = [stakePools EXCEPT ![i][stake.grade] =
                            [updated EXCEPT !.total = @ - amount]]
        /\ stakes' = [stakes EXCEPT ![<<who, i>>][n] =
                        [stake EXCEPT !.lp = reserved, !.debt = Earned(reserved, updated),
                                      !.claimed = @ + reward, !.roundings = @ + 1]]
  /\ UNCHANGED <<pool, lpAllowed, rtokens, block, depositAllowed, guardReserve, shifted>>

ClaimReward(who, i, n) ==
  /\ HasStake(who, i, n)
  /\ LET stake == stakes[<<who, i>>][n]
         sp == stakePools[i][stake.grade]
         updated == Updated(sp)
         reward == WithdrawReward(stake, updated)
     IN /\ ~sp.emergency
        /\ CanPay(native, MiningAccount, who, reward)
        /\ native' = Paid(native, MiningAccount, who, reward)
        /\ stakePools' = [stakePools EXCEPT ![i][stake.grade] = updated]
        /\ stakes' = [stakes EXCEPT ![<<who, i>>][n] =
                        [stake EXCEPT !.debt = Earned(stake.lp, updated), !.claimed = @ + reward]]
  /\ UNCHANGED <<pool, lpAllowed, rtokens, lp, block, depositAllowed, guardReserve, shifted>>

\* emergency_withdraw that forgets to take the stake out of the pool's total.
MutEmergencyWithdraw(who, i, n) ==
  /\ HasStake(who, i, n)
  /\ LET stake == stakes[<<who, i>>][n] IN
       /\ stakePools[i][stake.grade].emergency
       /\ stake.lp > 0
       /\ lp' = LP!Transferred(lp, MiningAccount, who, stake.lp)
       /\ stakes' = [stakes EXCEPT ![<<who, i>>][n] = [@ EXCEPT !.lp = 0, !.debt = 0]]
  /\ UNCHANGED <<stakePools, pool, lpAllowed, native, rtokens, block, depositAllowed,
                 guardReserve, shifted>>

\* emergency_withdraw: no reward, and the pool is not updated.
EmergencyWithdraw(who, i, n) ==
  /\ HasStake(who, i, n)
  /\ LET stake == stakes[<<who, i>>][n]
         sp == stakePools[i][stake.grade]
     IN /\ sp.emergency
        /\ stake.lp > 0
        /\ lp' = LP!Transferred(lp, MiningAccount, who, stake.lp)
        /\ stakePools' = [stakePools EXCEPT ![i][stake.grade] =
                            [sp EXCEPT !.total = Max({@ - stake.lp, 0})]]
        /\ stakes' = [stakes EXCEPT ![<<who, i>>][n] = [@ EXCEPT !.lp = 0, !.debt = 0]]
  /\ UNCHANGED <<pool, lpAllowed, native, rtokens, block, depositAllowed, guardReserve, shifted>>

-----------------------------------------------------------------------------
(* Root's calls.                                                            *)

RootUnchanged == UNCHANGED <<swapVars, block, stakes>>

IncreasePoolIndex ==
  /\ Len(stakePools) < MaxIndex
  /\ stakePools' = Append(stakePools, << >>)
  /\ UNCHANGED <<depositAllowed, guardReserve, shifted>> /\ RootUnchanged

AddPool(i, start, locked, perBlock, reward) ==
  /\ i \in DOMAIN stakePools /\ Len(stakePools[i]) < MaxGrade
  /\ stakePools' = [stakePools EXCEPT ![i] = Append(@,
       [emergency |-> FALSE, total |-> 0, start |-> start, perBlock |-> perBlock,
        reward |-> reward, left |-> reward, locked |-> locked,
        last |-> Max({block, start}), share |-> 0, issued |-> 0])]
  /\ UNCHANGED <<depositAllowed, guardReserve, shifted>> /\ RootUnchanged

UpdateStakePool(i, g, perBlock, reward) ==
  /\ HasPool(i, g)
  /\ stakePools' = [stakePools EXCEPT ![i][g] =
       [stakePools[i][g] EXCEPT !.perBlock = perBlock, !.reward = reward,
                                !.left = Max({@ + reward - stakePools[i][g].reward, 0})]]
  /\ UNCHANGED <<depositAllowed, guardReserve, shifted>> /\ RootUnchanged

\* rm_pool: the pools behind the removed one move up a grade.
RmPool(i, g) ==
  /\ HasPool(i, g) /\ stakePools[i][g].total = 0
  /\ stakePools' = [stakePools EXCEPT ![i] = RemoveAt(@, g)]
  /\ shifted' = TRUE
  /\ UNCHANGED <<depositAllowed, guardReserve>> /\ RootUnchanged

EmergencySwitch(i, g) ==
  /\ HasPool(i, g)
  /\ stakePools' = [stakePools EXCEPT ![i][g] = [stakePools[i][g] EXCEPT !.emergency = ~@]]
  /\ UNCHANGED <<depositAllowed, guardReserve, shifted>> /\ RootUnchanged

SetGuardReserve(amount) ==
  /\ guardReserve' = amount
  /\ UNCHANGED <<stakePools, depositAllowed, shifted>> /\ RootUnchanged

\* withdraw_guard_fund: from the account that pays the rewards as well.
WithdrawGuardFund(to, amount) ==
  LET taken == Min({amount, guardReserve, native[MiningAccount]}) IN
    /\ CanPay(native, MiningAccount, to, taken)
    /\ native' = Paid(native, MiningAccount, to, taken)
    /\ guardReserve' = guardReserve - taken
    /\ UNCHANGED <<pool, lpAllowed, rtokens, lp, block, stakePools, stakes, depositAllowed, shifted>>

AllowDeposit ==
  /\ Allowed(depositAllowed, depositAllowed')
  /\ UNCHANGED <<stakePools, guardReserve, shifted>> /\ RootUnchanged

NextBlock ==
  /\ block < MaxBlock
  /\ block' = block + 1
  /\ UNCHANGED <<swapVars, stakePools, stakes, depositAllowed, guardReserve, shifted>>

MiningCall ==
  \E who \in User, i \in Index :
    \/ \E g \in 1..MaxGrade, amount \in StakeAmount : Deposit(who, i, g, amount)
    \/ \E n \in 1..MaxStakes :
         \/ \E amount \in StakeAmount : Withdraw(who, i, n, amount)
         \/ ClaimReward(who, i, n)
         \/ EmergencyWithdraw(who, i, n)

MiningRoot ==
  \/ IncreasePoolIndex
  \/ \E i \in Index, p \in RewardPerBlock, t \in TotalReward :
       \/ \E s \in StartBlock, l \in StakeLock : AddPool(i, s, l, p, t)
       \/ \E g \in 1..MaxGrade : UpdateStakePool(i, g, p, t)
  \/ \E i \in Index, g \in 1..MaxGrade : RmPool(i, g) \/ EmergencySwitch(i, g)
  \/ \E amount \in Guard : SetGuardReserve(amount) \/ \E to \in User : WithdrawGuardFund(to, amount)
  \/ AllowDeposit

Next ==
  \/ SwapNext /\ UNCHANGED miningVars
  \/ MiningCall \/ MiningRoot \/ NextBlock

Spec == Init /\ [][Next]_vars

-----------------------------------------------------------------------------
\* The stakes of a user in a list, by position, and those of one pool of it.
Slot == User \X (1..MaxStakes)
StakeAt(i, k) == stakes[<<k[1], i>>][k[2]]
Taken(i, k) == k[2] \in DOMAIN stakes[<<k[1], i>>]
InPool(i, g, k) == Taken(i, k) /\ StakeAt(i, k).grade = g

Staked(i, g) == SumFunction([k \in Slot |-> IF InPool(i, g, k) THEN StakeAt(i, k).lp ELSE 0])

\* What the stakes of a pool have got and can get, and how often a debt of
\* theirs was rounded.
Got(i, g) ==
  SumFunction([k \in Slot |->
    IF InPool(i, g, k)
      THEN StakeAt(i, k).claimed + WithdrawReward(StakeAt(i, k), stakePools[i][g]) ELSE 0])
Slack(i, g) ==
  SumFunction([k \in Slot |-> IF InPool(i, g, k) THEN StakeAt(i, k).roundings ELSE 0])

(* The mining account holds the LP tokens of all stakes, whatever becomes   *)
(* of the pools; and as long as no pool was removed a pool's total is the   *)
(* sum of the stakes of its grade, through deposits, partial withdrawals    *)
(* and emergencies.                                                         *)
StakesAddUp ==
  /\ lp.free[MiningAccount] =
       SumFunction([ik \in Index \X Slot |->
                      IF Taken(ik[1], ik[2]) THEN StakeAt(ik[1], ik[2]).lp ELSE 0])
  /\ ~shifted => \A i \in DOMAIN stakePools : \A g \in DOMAIN stakePools[i] :
       stakePools[i][g].total = Staked(i, g)

(* A pool never owes or pays more than it has issued, however deposits,     *)
(* claims and withdrawals are spread over the blocks: late stakes get       *)
(* nothing of what was earned before them.  Each time a debt is rounded     *)
(* down, a stake may gain less than one unit.                               *)
RewardsCovered ==
  ~shifted => \A i \in DOMAIN stakePools : \A g \in DOMAIN stakePools[i] :
    Got(i, g) <= stakePools[i][g].issued + Slack(i, g)

(* "total lp token staked in this pool", as models.rs says of               *)
(* total_stake_lp, without the reservation of StakesAddUp: rm_pool moves    *)
(* later pools up a grade while stakes keep theirs.                         *)
TotalStakeIsStaked ==
  \A i \in DOMAIN stakePools : \A g \in DOMAIN stakePools[i] :
    stakePools[i][g].total = Staked(i, g)

=============================================================================
