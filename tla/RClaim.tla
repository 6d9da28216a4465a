------------------------------- MODULE RClaim -------------------------------
(***************************************************************************)
(* claims/rclaim: acts that reward the minting of rtokens.  Every mint in  *)
(* an act's time is granted a reward out of the act's budget, which vests  *)
(* linearly over the act's locked blocks and is paid by the fund.  rETH    *)
(* has the same storage under its own names, filled by a rewarder.         *)
(*                                                                         *)
(* Acts are numbered without gaps from 1 and never removed, and so are the *)
(* mints of a user in an act, so both maps with their counters             *)
(* (ActLatestCycle, UserMintsCount) are sequences; UserActs lists the acts *)
(* with a mint.  A claim of rETH is signed with the key it is kept under,  *)
(* so the holder of the key is the minter.                                 *)
(***************************************************************************)
EXTENDS NativeBalances, Sequences, FiniteSetsExt, SequencesExt

CONSTANTS Minter,      \* accounts that mint, and rETH keys
          Rewarder,    \* the account root may make REthRewarder
          FundAccount, \* the account root makes FundAddress
          Missing,     \* the None of an Option
          ActBegin, ActEnd, ActReward, UserLimit, LockedBlocks, RewardRate,
                       \* what root gives an act
          ClaimRateBase,  \* RATEBASE
          MintValue,   \* native token values of mints
          FundNative,  \* what the fund holds
          MaxActs, MaxMints, MaxClaimBlock   \* bounds

ASSUME RClaimAssumption ==
  /\ IsFiniteSet(Minter) /\ FundAccount \notin Minter
  /\ ClaimRateBase \in Nat \ {0}
  /\ ActBegin \cup ActEnd \cup ActReward \cup UserLimit \cup LockedBlocks
       \cup RewardRate \cup MintValue \subseteq Nat
  /\ {FundNative, MaxActs, MaxMints, MaxClaimBlock} \subseteq Nat

Series == {"rtoken", "reth"}
Cycle == 1..MaxActs

VARIABLES acts,        \* Acts and REthActs: series -> acts, by cycle
          currentCycle,   \* ActCurrentCycle and REthActCurrentCycle
          claimInfos,  \* ClaimInfos and REthClaimInfos: series, minter, cycle -> by index
          rethRewarder, fundAddress,
          claimNative, \* native balances
          claimNow,    \* the block being built
          overcut,     \* history: acts whose total was cut by more than was left
          shortestLock \* history: the shortest lock an act ever had

rclaimVars == <<acts, currentCycle, claimInfos, rethRewarder, fundAddress, claimNative,
                claimNow, overcut, shortestLock>>

ActTerms ==
  {t \in [begin : ActBegin, end : ActEnd, total : ActReward, limit : UserLimit,
          locked : LockedBlocks, rate : RewardRate] :
     /\ t.begin > 0 /\ t.end > t.begin
     /\ t.total > 0 /\ t.total > t.limit
     /\ t.locked > 0 /\ t.rate > 0}

MintRewardAct == [terms : ActTerms, left : Nat]
ClaimInfo == [reward : Nat, claimed : Nat, latest : Nat, mint : Nat]
Holders == Minter \cup {FundAccount}

RClaimTypeOK ==
  /\ acts \in [Series -> Seq(MintRewardAct)]
  /\ currentCycle \in [Series -> Nat]
  /\ claimInfos \in [Series \X Minter \X Cycle -> Seq(ClaimInfo)]
  /\ rethRewarder \in {Rewarder, Missing} /\ fundAddress \in {FundAccount, Missing}
  /\ claimNative \in [Holders -> Nat] /\ claimNow \in Nat
  /\ overcut \subseteq Series \X Cycle
  /\ shortestLock \in [Series -> Seq(Nat)]

RClaimInit ==
  /\ acts = [s \in Series |-> << >>]
  /\ currentCycle = [s \in Series |-> 0]
  /\ claimInfos = [k \in Series \X Minter \X Cycle |-> << >>]
  /\ rethRewarder = Missing /\ fundAddress = Missing
  /\ claimNative = [a \in Holders |-> IF a = FundAccount THEN FundNative ELSE 0]
  /\ claimNow = 1
  /\ overcut = {} /\ shortestLock = [s \in Series |-> << >>]

-----------------------------------------------------------------------------
(* Root.                                                                    *)

\* add_rtoken_reward_act.
AddRewardAct(s, terms) ==
  /\ Len(acts[s]) < MaxActs
  /\ terms.end > claimNow
  /\ acts[s] # << >> => terms.begin > Last(acts[s]).terms.end
  /\ acts' = [acts EXCEPT ![s] = Append(@, [terms |-> terms, left |-> terms.total])]
  /\ shortestLock' = [shortestLock EXCEPT ![s] = Append(@, terms.locked)]
  /\ UNCHANGED <<currentCycle, claimInfos, rethRewarder, fundAddress, claimNative, claimNow, overcut>>

\* What is left when the total changes, both ways saturating.
LeftAfter(act, total) ==
  LET left == act.left + total - act.terms.total IN IF left > 0 THEN left ELSE 0

\* update_rtoken_reward_act.
UpdateRewardAct(s, cycle, terms) ==
  /\ cycle \in DOMAIN acts[s]
  /\ terms.end > claimNow
  /\ LET act == acts[s][cycle] IN
       /\ acts' = [acts EXCEPT ![s][cycle] = [terms |-> terms, left |-> LeftAfter(act, terms.total)]]
       /\ overcut' = IF act.left + terms.total < act.terms.total
                       THEN overcut \cup {<<s, cycle>>} ELSE overcut
  /\ shortestLock' = [shortestLock EXCEPT ![s][cycle] = Min({@, terms.locked})]
  /\ UNCHANGED <<currentCycle, claimInfos, rethRewarder, fundAddress, claimNative, claimNow>>

\* The same checks and writes on REthActs.
AddRethRewardAct(terms) == AddRewardAct("reth", terms)
UpdateRethRewardAct(cycle, terms) == UpdateRewardAct("reth", cycle, terms)

\* set_reth_rewarder and set_fund_address.
SetClaimAddresses ==
  /\ \/ rethRewarder' = Rewarder /\ UNCHANGED fundAddress
     \/ fundAddress' = FundAccount /\ UNCHANGED rethRewarder
  /\ UNCHANGED <<acts, currentCycle, claimInfos, claimNative, claimNow, overcut, shortestLock>>

-----------------------------------------------------------------------------
(* Mints.                                                                   *)

Running(act) == act.terms.begin <= claimNow /\ claimNow <= act.terms.end

\* update_act_current_cycle: the first act after the current one that is
\* running, unless one that has not begun comes before it.
NextCycle(s) ==
  LET later == (currentCycle[s] + 1)..Len(acts[s])
      begun == {c \in later : Running(acts[s][c])
                  /\ \A d \in later : d < c => acts[s][d].terms.begin <= claimNow}
  IN IF begun = {} THEN currentCycle[s] ELSE Min(begun)

\* The cycle a mint counts in: the stored one, moved on when there is none
\* yet or its act has ended.
MintCycle(s) ==
  LET c == currentCycle[s] IN
    IF c = 0 \/ acts[s][c].terms.end < claimNow THEN NextCycle(s) ELSE c

\* A grant that is not cut to what is left of the budget.
MutGranted(act, value) ==
  LET due == (value * act.terms.rate) \div ClaimRateBase
  IN IF act.terms.limit > 0 THEN Min({due, act.terms.limit}) ELSE due

\* What a mint is granted, rounded down: the product is taken to fit an amount,
\* as multiply_by_rational may round up beyond that.
Granted(act, value) ==
  LET due == Min({(value * act.terms.rate) \div ClaimRateBase, act.left})
  IN IF act.terms.limit > 0 THEN Min({due, act.terms.limit}) ELSE due

\* One mint, on the act and the claims of the cycle; none once the budget is spent.
Grant(state, mint) ==
  LET reward == Granted(state.act, mint.value) IN
    IF state.act.left = 0 THEN state
    ELSE [act |-> [state.act EXCEPT !.left = IF @ >= reward THEN @ - reward ELSE 0],
          claims |-> [state.claims EXCEPT ![mint.who] =
                        Append(@, [reward |-> reward, claimed |-> 0,
                                   latest |-> claimNow, mint |-> claimNow])]]

\* update_claim_info, for one mint, and update_reth_claim_info, for a batch.
\* The current cycle moves on even when nothing is granted.
Mints(s, mints) ==
  LET c == MintCycle(s) IN
    /\ currentCycle' = [currentCycle EXCEPT ![s] = c]
    /\ IF c > 0 /\ Running(acts[s][c])
         THEN LET before == [act |-> acts[s][c],
                             claims |-> [who \in Minter |-> claimInfos[<<s, who, c>>]]]
                  after == FoldLeft(Grant, before, mints)
              IN /\ acts' = [acts EXCEPT ![s][c] = after.act]
                 /\ claimInfos' = [k \in DOMAIN claimInfos |->
                      IF k[1] = s /\ k[3] = c THEN after.claims[k[2]] ELSE claimInfos[k]]
         ELSE UNCHANGED <<acts, claimInfos>>
    /\ \A k \in DOMAIN claimInfos : Len(claimInfos'[k]) <= MaxMints
    /\ UNCHANGED <<rethRewarder, fundAddress, claimNative, claimNow, overcut, shortestLock>>

UpdateClaimInfo(who, value) == Mints("rtoken", <<[who |-> who, value |-> value]>>)

UpdateREthClaimInfo(sender, mints) ==
  /\ rethRewarder # Missing /\ sender = rethRewarder
  /\ Mints("reth", mints)

-----------------------------------------------------------------------------
(* Claims.                                                                  *)

\* A claim that does not record when it was made.
MutAfterClaim(info, amount) == [info EXCEPT !.claimed = @ + amount]

AfterClaim(info, amount) == [info EXCEPT !.claimed = @ + amount, !.latest = claimNow]

\* The part of what is left that has vested since the latest claim.
ShouldClaim(info, locked) ==
  LET left == info.reward - info.claimed
      final == info.mint + locked
  IN IF claimNow < final THEN (left * (claimNow - info.latest)) \div (final - info.latest)
     ELSE left

\* claim_rtoken_reward and claim_reth_reward.
ClaimRtokenReward(s, who, cycle, index) ==
  /\ index \in DOMAIN claimInfos[<<s, who, cycle>>]
  /\ fundAddress # Missing
  /\ LET info == claimInfos[<<s, who, cycle>>][index]
         amount == ShouldClaim(info, acts[s][cycle].terms.locked)
     IN /\ amount > 0
        /\ CanPay(claimNative, FundAccount, who, amount)
        /\ claimNative' = Paid(claimNative, FundAccount, who, amount)
        /\ claimInfos' = [claimInfos EXCEPT ![<<s, who, cycle>>][index] = AfterClaim(info, amount)]
  /\ UNCHANGED <<acts, currentCycle, rethRewarder, fundAddress, claimNow, overcut, shortestLock>>

NextClaimBlock ==
  /\ claimNow < MaxClaimBlock /\ claimNow' = claimNow + 1
  /\ UNCHANGED <<acts, currentCycle, claimInfos, rethRewarder, fundAddress, claimNative,
                 overcut, shortestLock>>

Mint == [who : Minter, value : MintValue \ {0}]

RClaimNext ==
  \/ \E terms \in ActTerms : AddRewardAct("rtoken", terms) \/ AddRethRewardAct(terms)
  \/ \E terms \in ActTerms, c \in Cycle :
       UpdateRewardAct("rtoken", c, terms) \/ UpdateRethRewardAct(c, terms)
  \/ SetClaimAddresses
  \/ \E who \in Minter, value \in MintValue : UpdateClaimInfo(who, value)
  \/ \E sender \in {Rewarder}, mints \in SeqOf(Mint, 2) : UpdateREthClaimInfo(sender, mints)
  \/ \E s \in Series, who \in Minter, c \in Cycle, i \in 1..MaxMints : ClaimRtokenReward(s, who, c, i)
  \/ NextClaimBlock

RClaimSpec == RClaimInit /\ [][RClaimNext]_rclaimVars

-----------------------------------------------------------------------------
Rewards(infos) == SumFunction([i \in DOMAIN infos |-> infos[i].reward])

RewardsOf(s, cycle) ==
  SumFunction([who \in Minter |-> Rewards(claimInfos[<<s, who, cycle>>])])

(* An act never promises more than its total: what its mints were granted   *)
(* and what is left add up to total_reward, however mints and updates of    *)
(* the act by root interleave, as long as root never cut the total by more  *)
(* than was left; the saturating subtraction then loses the difference.     *)
ActBudget ==
  \A s \in Series : \A c \in DOMAIN acts[s] :
    <<s, c>> \notin overcut => RewardsOf(s, c) + acts[s][c].left = acts[s][c].terms.total

(* No sequence of claims pays a mint ahead of its schedule: before the      *)
(* shortest lock its act ever had is over, what is claimed is at most the   *)
(* share of the blocks passed at the latest claim, and it is never more     *)
(* than the reward.                                                         *)
NeverAheadOfSchedule ==
  \A s \in Series, who \in Minter, c \in Cycle : \A i \in DOMAIN claimInfos[<<s, who, c>>] :
    LET info == claimInfos[<<s, who, c>>][i]
        passed == info.latest - info.mint
    IN /\ info.claimed <= info.reward
       /\ passed < shortestLock[s][c] =>
            info.claimed * shortestLock[s][c] <= info.reward * passed

=============================================================================
