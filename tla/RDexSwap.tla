------------------------------ MODULE RDexSwap ------------------------------
(***************************************************************************)
(* rdex/swap: a pool of native tokens (FIS) and rtokens of one symbol.     *)
(* Liquidity providers hold units of it as LP tokens, issued by            *)
(* rdex/balances; the pool keeps its own count of units and of both        *)
(* balances beside the ledgers that hold them.                             *)
(*                                                                         *)
(* A user's min_out_amount only refuses a call and is left out.  Transfers *)
(* after the first one of a call cannot fail: the calls check the user's   *)
(* balance, and PoolBacked says the pool's account has its part.           *)
(***************************************************************************)
EXTENDS Options, NativeBalances, FiniteSetsExt

CONSTANTS User,
          SwapAccount,    \* account_id() of rdex/swap
          MiningAccount,  \* account_id() of rdex/mining
          TokenLimit,
          SwapAmount,     \* amounts users put in
          PoolAmount,     \* amounts root creates the pool with
          Units,          \* units providers remove
          UserNative, UserTokens,  \* what users start with
          Float,          \* native tokens the swap account starts with
          MiningFund      \* native tokens the mining account starts with

Account == User \cup {SwapAccount, MiningAccount}
RT == INSTANCE Balances WITH Holder <- Account
LP == INSTANCE Balances WITH Holder <- Account

SwapPool == [fis : Nat, rtoken : Nat, unit : Nat]

ASSUME SwapAssumption ==
  /\ None \notin SwapPool
  /\ SwapAccount # MiningAccount /\ {SwapAccount, MiningAccount} \cap User = {}
  /\ SwapAmount \cup PoolAmount \cup Units \subseteq Nat
  /\ {UserNative, UserTokens, Float, MiningFund} \subseteq Nat
  /\ TokenLimit \in Nat \ {0} /\ IsFiniteSet(User)

VARIABLES pool,       \* SwapPools
          lpAllowed,  \* LpWhitelist, with everybody in it while LpSwitch is on
          native,     \* native balances
          rtokens,    \* the rtoken ledger
          lp          \* the LP token ledger

swapVars == <<pool, lpAllowed, native, rtokens, lp>>

Allowance == [switch : BOOLEAN, whitelist : SUBSET User]
Allows(a, who) == a.switch \/ who \in a.whitelist

SwapTypeOK ==
  /\ pool \in SwapPool \cup {None}
  /\ lpAllowed \in Allowance
  /\ native \in [Account -> Nat]
  /\ rtokens \in RT!TokenLedger /\ lp \in LP!TokenLedger

SwapInit ==
  /\ pool = None
  /\ lpAllowed = [switch |-> FALSE, whitelist |-> {}]
  /\ native = [a \in Account |-> CASE a = SwapAccount -> Float
                                   [] a = MiningAccount -> MiningFund
                                   [] OTHER -> UserNative]
  /\ rtokens = [free |-> [a \in Account |-> IF a \in User THEN UserTokens ELSE 0],
                issuance |-> UserTokens * Cardinality(User)]
  /\ lp = LP!NoTokens

-----------------------------------------------------------------------------
(* The pool's arithmetic, in 512 bits, and safe_to_u128.                    *)

SafeToU128(n) == IF n < TokenLimit THEN n ELSE TokenLimit - 1

\* cal_swap_result that charges no fee for the slip.
MutCalSwapResult(xCapital, yCapital, x) ==
  IF xCapital = 0 \/ yCapital = 0 \/ x = 0 THEN 0
  ELSE (x * yCapital) \div xCapital

\* What x of one side buys of the other: x X Y / (x + X)^2.
CalSwapResult(xCapital, yCapital, x) ==
  IF xCapital = 0 \/ yCapital = 0 \/ x = 0 THEN 0
  ELSE (x * xCapital * yCapital) \div ((x + xCapital) * (x + xCapital))

\* The units for adding f and r to a pool of P units: P (r F + R f) / (2 R F),
\* less what an addition in another proportion than the pool's slips.
AddedUnit(P, F, R, f, r) ==
  LET raw == (P * (F * r + f * R)) \div (2 * R * F)
      gap == IF F * r > f * R THEN F * r - f * R ELSE f * R - F * r
  IN raw - (raw * gap) \div ((f + F) * (r + R))

\* cal_pool_unit: the pool's new units and those added.
CalPoolUnit(P, F, R, f, r) ==
  CASE F + f = 0 \/ R + r = 0 -> [total |-> 0, added |-> 0]
    [] F + f > 0 /\ R + r > 0 /\ (F = 0 \/ R = 0) -> [total |-> f, added |-> f]
    [] F > 0 /\ R > 0 ->
         LET added == AddedUnit(P, F, R, f, r)
         IN [total |-> IF added = 0 THEN 0 ELSE SafeToU128(P + added),
             added |-> SafeToU128(added)]

\* cal_remove_result: the share of unit in an amount.
ShareOf(unit, P, amount) == IF P = 0 THEN 0 ELSE (unit * amount) \div P

-----------------------------------------------------------------------------
(* Calls.                                                                   *)

\* swap with FIS in: FIS first, then rtokens out.
SwapFis(who, x) ==
  /\ pool # None /\ x > 0
  /\ LET result == CalSwapResult(pool.fis, pool.rtoken, x) IN
       /\ result > 0 /\ result < pool.rtoken
       /\ native[who] > x /\ CanPay(native, who, SwapAccount, x)
       /\ native' = Paid(native, who, SwapAccount, x)
       /\ rtokens' = RT!Transferred(rtokens, SwapAccount, who, result)
       /\ pool' = [pool EXCEPT !.fis = @ + x, !.rtoken = @ - result]
  /\ UNCHANGED <<lpAllowed, lp>>

\* swap with rtokens in.
SwapRtoken(who, x) ==
  /\ pool # None /\ x > 0
  /\ LET result == CalSwapResult(pool.rtoken, pool.fis, x) IN
       /\ result > 0 /\ result < pool.fis
       /\ rtokens.free[who] >= x
       /\ CanPay(native, SwapAccount, who, result)
       /\ native' = Paid(native, SwapAccount, who, result)
       /\ rtokens' = RT!Transferred(rtokens, who, SwapAccount, x)
       /\ pool' = [pool EXCEPT !.rtoken = @ + x, !.fis = @ - result]
  /\ UNCHANGED <<lpAllowed, lp>>

\* The part of add_liquidity and create_pool after the pool is computed.
Provide(who, f, r, added) ==
  /\ rtokens.free[who] >= r /\ native[who] > f
  /\ CanPay(native, who, SwapAccount, f)
  /\ native' = Paid(native, who, SwapAccount, f)
  /\ rtokens' = RT!Transferred(rtokens, who, SwapAccount, r)
  /\ LP!CanMint(lp, who, added)
  /\ lp' = LP!Minted(lp, who, added)
  /\ UNCHANGED lpAllowed

AddLiquidity(who, f, r) ==
  /\ pool # None
  /\ Allows(lpAllowed, who)
  /\ f > 0 \/ r > 0
  /\ LET unit == CalPoolUnit(pool.unit, pool.fis, pool.rtoken, f, r) IN
       /\ unit.added > 0
       /\ pool' = [fis |-> pool.fis + f, rtoken |-> pool.rtoken + r, unit |-> unit.total]
       /\ Provide(who, f, r, unit.added)

CreatePool(who, f, r) ==
  /\ pool = None
  /\ f > 0 /\ r > 0
  /\ LET unit == CalPoolUnit(0, 0, 0, f, r) IN
       /\ pool' = [fis |-> f, rtoken |-> r, unit |-> unit.total]
       /\ Provide(who, f, r, unit.added)

\* The pool and what is paid out, after the internal swap of a removal: what
\* is swapped goes back into the pool that was reduced before.
WithSwap(left, out, x, inputIsFis) ==
  LET y == IF inputIsFis THEN CalSwapResult(left.fis, left.rtoken, x)
           ELSE CalSwapResult(left.rtoken, left.fis, x)
  IN IF inputIsFis
       THEN [ok |-> y > 0 /\ y < left.rtoken,
             left |-> [left EXCEPT !.fis = @ + x, !.rtoken = @ - y],
             out |-> [fis |-> out.fis - x, rtoken |-> out.rtoken + y]]
       ELSE [ok |-> y > 0 /\ y < left.fis,
             left |-> [left EXCEPT !.rtoken = @ + x, !.fis = @ - y],
             out |-> [fis |-> out.fis + y, rtoken |-> out.rtoken - x]]

\* remove_liquidity that pays by the units that stay.
MutRemoval(rmUnit, swapUnit, inputIsFis) ==
  LET out == [fis |-> ShareOf(rmUnit, pool.unit, pool.fis) + 1,
              rtoken |-> ShareOf(rmUnit, pool.unit, pool.rtoken) + 1]
      left == [fis |-> pool.fis - out.fis, rtoken |-> pool.rtoken - out.rtoken,
               unit |-> pool.unit - rmUnit]
  IN [ok |-> left.fis >= 0 /\ left.rtoken >= 0, left |-> left, out |-> out]

Removal(rmUnit, swapUnit, inputIsFis) ==
  LET out == [fis |-> ShareOf(rmUnit, pool.unit, pool.fis),
              rtoken |-> ShareOf(rmUnit, pool.unit, pool.rtoken)]
      left == [fis |-> pool.fis - out.fis, rtoken |-> pool.rtoken - out.rtoken,
               unit |-> pool.unit - rmUnit]
      x == ShareOf(swapUnit, pool.unit, IF inputIsFis THEN pool.fis ELSE pool.rtoken)
  IN IF x > 0 THEN WithSwap(left, out, x, inputIsFis)
     ELSE [ok |-> TRUE, left |-> left, out |-> out]

RemoveLiquidity(who, rmUnit, swapUnit, inputIsFis) ==
  /\ pool # None
  /\ rmUnit > 0 /\ rmUnit <= lp.free[who] /\ rmUnit >= swapUnit
  /\ LET removed == Removal(rmUnit, swapUnit, inputIsFis) IN
       /\ removed.ok
       /\ (removed.left.fis = 0) = (removed.left.rtoken = 0)
       /\ native[SwapAccount] >= removed.out.fis
       /\ rtokens.free[SwapAccount] >= removed.out.rtoken
       /\ CanPay(native, SwapAccount, who, removed.out.fis)
       /\ native' = Paid(native, SwapAccount, who, removed.out.fis)
       /\ rtokens' = RT!Transferred(rtokens, SwapAccount, who, removed.out.rtoken)
       /\ pool' = removed.left
  /\ lp' = LP!Burned(lp, who, rmUnit)
  /\ UNCHANGED lpAllowed

\* toggle_lp_switch and the whitelist.
Allowed(a, next) ==
  \/ next = [a EXCEPT !.switch = ~@]
  \/ \E who \in User : next = [a EXCEPT !.whitelist = @ \cup {who}]
  \/ \E who \in User : next = [a EXCEPT !.whitelist = @ \ {who}]

AllowLp ==
  /\ Allowed(lpAllowed, lpAllowed')
  /\ UNCHANGED <<pool, native, rtokens, lp>>

SwapNext ==
  \/ \E who \in User, x \in SwapAmount : SwapFis(who, x) \/ SwapRtoken(who, x)
  \/ \E who \in User, f, r \in SwapAmount \cup {0} : AddLiquidity(who, f, r)
  \/ \E who \in User, f, r \in PoolAmount : CreatePool(who, f, r)
  \/ \E who \in User, u \in Units, s \in Units \cup {0}, isFis \in BOOLEAN :
       RemoveLiquidity(who, u, s, isFis)
  \/ AllowLp

-----------------------------------------------------------------------------
(* The pool's own figures are covered by the ledgers: its account holds     *)
(* both balances, its units are the LP tokens in circulation, whoever holds *)
(* them, and no side of the pool is ever empty alone, so the formulas for   *)
(* an empty pool only meet a pool without units.                            *)
PoolBacked ==
  pool # None =>
    /\ native[SwapAccount] >= pool.fis
    /\ rtokens.free[SwapAccount] >= pool.rtoken
    /\ pool.unit = lp.issuance /\ LP!Held(lp) = lp.issuance
    /\ (pool.fis = 0) = (pool.rtoken = 0)
    /\ (pool.fis = 0) = (pool.unit = 0)

\* What a unit stands for in two pools: by the product of both sides, F R / P^2,
\* and by both sides at the price of the first pool.
ProductKept(p, q) == q.fis * q.rtoken * p.unit * p.unit >= p.fis * p.rtoken * q.unit * q.unit
MeanKept(p, q) == (q.fis * p.rtoken + q.rtoken * p.fis) * p.unit >= 2 * p.fis * p.rtoken * q.unit

(* What a unit stands for never falls: no swap, removal or removal with a   *)
(* swap inside takes from the other providers by the product of both sides, *)
(* rounding included; an addition, in whatever proportion, gives no more    *)
(* units than it brings at the price of the pool it meets.                  *)
UnitValueKept ==
  [][pool # None => IF lp'.issuance > lp.issuance THEN MeanKept(pool, pool')
                    ELSE ProductKept(pool, pool')]_swapVars

=============================================================================
