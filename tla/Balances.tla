------------------------------ MODULE Balances ------------------------------
(***************************************************************************)
(* The token ledger of rtoken/balances, xtoken/balances and rdex/balances, *)
(* three copies of one pallet under different symbols.  One symbol's       *)
(* ledger is a record: the free balance of every account and the total     *)
(* issuance, a second copy of their sum that mint and burn adjust by hand. *)
(* A failing operation writes nothing (try_mutate_account), so success is  *)
(* a predicate and the effect an operator.                                 *)
(***************************************************************************)
EXTENDS Integers, Functions

CONSTANTS Holder,      \* accounts
          TokenLimit   \* balances are below it (2^128)

TokenLedger == [free : [Holder -> Nat], issuance : Nat]

NoTokens == [free |-> [a \in Holder |-> 0], issuance |-> 0]

\* The sum of all balances.
Held(b) == SumFunction(b.free)

\* Transfers of nothing, and to oneself, succeed and change nothing.
Idle(from, to, value) == value = 0 \/ from = to

CanTransfer(b, from, to, value) ==
  Idle(from, to, value) \/ (b.free[from] >= value /\ b.free[to] + value < TokenLimit)

Transferred(b, from, to, value) ==
  IF Idle(from, to, value) THEN b
  ELSE [b EXCEPT !.free[from] = @ - value, !.free[to] = @ + value]

CanMint(b, who, value) == b.free[who] + value < TokenLimit

\* The issuance saturates where the balance would have been refused.
Minted(b, who, value) ==
  LET sum == b.issuance + value IN
    [free |-> [b.free EXCEPT ![who] = @ + value],
     issuance |-> IF sum < TokenLimit THEN sum ELSE TokenLimit - 1]

CanBurn(b, who, value) == b.free[who] >= value

Burned(b, who, value) ==
  [free |-> [b.free EXCEPT ![who] = @ - value],
   issuance |-> IF b.issuance >= value THEN b.issuance - value ELSE 0]

=============================================================================
