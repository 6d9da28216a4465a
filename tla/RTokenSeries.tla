---------------------------- MODULE RTokenSeries ----------------------------
(***************************************************************************)
(* Bonding in rtoken/series for one symbol, over bridge/common's chains.   *)
(* A user claims a deposit made on the other chain (a bond record naming a *)
(* transaction), possibly asking for the rtokens to be sent on to another  *)
(* chain, and pays that chain's swap fee to the bridge account.  Relayers  *)
(* vote execute_bond_record in, with verdict Pass or with a reason why the *)
(* deposit does not match; after the latter the fee can be asked back for  *)
(* a while.                                                                *)
(*                                                                         *)
(* A call that returns an error keeps what it wrote before.  Checks on     *)
(* signatures, the sender's balance and the bonded pools only narrow who   *)
(* may bond when, and are left out; bond fees go to their receiver in the  *)
(* same call and never stay in the bridge account.                         *)
(***************************************************************************)
EXTENDS BridgeChains, FiniteSets, Functions

CONSTANTS BondId,        \* bond records, by their hash
          TxOf,          \* the deposit transaction a bond record names
          Fee,           \* swap fees that a proxy account sets
          RefundPeriod,  \* refund periods that root sets, in blocks
          Reserve,       \* native tokens the bridge account holds otherwise
          ExistentialDeposit,  \* what a transfer must leave in the account
          MaxBlock       \* bound on the block number

Tx == {TxOf[b] : b \in BondId}
BondState == {"Dealing", "Fail", "Success"}
BondSwap == [fee : Nat, dest : Chain, expire : Nat, state : BondState, refunded : BOOLEAN]

ASSUME SeriesAssumption ==
  /\ IsFiniteSet(BondId) /\ TxOf \in [BondId -> Tx]
  /\ None \notin BondState \cup BondSwap
  /\ Fee \subseteq Nat
  /\ RefundPeriod \subseteq Nat
  /\ ExistentialDeposit \in Nat
  /\ Reserve \in Nat /\ Reserve >= ExistentialDeposit
  /\ MaxBlock \in Nat

VARIABLES now,           \* block number
          switches,      \* which of BondSwitch, RtokenBondSwitch are on
          feeReceiver,   \* whether RelayFeesReceiver is set
          refundExpire,  \* BondSwapRefundExpire
          paused,        \* bridge IsPaused
          chainFees,     \* bridge ChainFees
          swapReceiver,  \* whether bridge FeesRecipientAccount is set
          mapped,        \* whether the symbol has a resource (RsymbolResource)
          records,       \* the ids of BondRecords
          bondStates,    \* BondStates, by transaction
          swaps,         \* BondSwaps
          bridgeBalance, \* native tokens of the bridge account
          mints,         \* history: how often a bond record was minted for
          cutOff         \* history: a chain was removed under a pending swap

bridgeConfig == <<paused, chainFees, swapReceiver, mapped>>
seriesConfig == <<switches, feeReceiver, refundExpire>>
bondVars == <<records, bondStates, swaps, bridgeBalance, mints>>
vars == <<chainVars, now, bridgeConfig, seriesConfig, bondVars, cutOff>>

Switch == {"BondSwitch", "RtokenBondSwitch"}

TypeOK ==
  /\ ChainTypeOK
  /\ now \in Nat
  /\ switches \subseteq Switch
  /\ feeReceiver \in BOOLEAN
  /\ refundExpire \in Nat \cup {None}
  /\ paused \in BOOLEAN
  /\ chainFees \in [Chain -> Nat \cup {None}]
  /\ swapReceiver \in BOOLEAN
  /\ mapped \in BOOLEAN
  /\ records \subseteq BondId
  /\ bondStates \in [Tx -> BondState \cup {None}]
  /\ swaps \in [BondId -> BondSwap \cup {None}]
  /\ bridgeBalance \in Nat
  /\ mints \in [BondId -> Nat]
  /\ cutOff \in BOOLEAN

Init ==
  /\ ChainInit
  /\ now = 0
  /\ switches = Switch
  /\ feeReceiver = FALSE
  /\ refundExpire = None
  /\ paused = FALSE
  /\ chainFees = [c \in Chain |-> None]
  /\ swapReceiver = FALSE
  /\ mapped = FALSE
  /\ records = {}
  /\ bondStates = [t \in Tx |-> None]
  /\ swaps = [b \in BondId |-> None]
  /\ bridgeBalance = Reserve
  /\ mints = [b \in BondId |-> 0]
  /\ cutOff = FALSE

-----------------------------------------------------------------------------
\* A swap that was not sent on, and one whose fee is still held.
Open(b) == swaps[b] # None /\ swaps[b].state # "Success"
Pending(b) == Open(b) /\ ~swaps[b].refunded

\* Root's calls to rtoken/series.
SeriesConfigure ==
  \/ /\ \E s \in Switch :
          switches' = IF s \in switches THEN switches \ {s} ELSE switches \cup {s}
     /\ UNCHANGED <<feeReceiver, refundExpire>>
  \/ /\ feeReceiver' = TRUE
     /\ UNCHANGED <<switches, refundExpire>>

SwapRefundExpire ==
  /\ refundExpire' \in RefundPeriod
  /\ UNCHANGED <<switches, feeReceiver>>

\* The calls of bridge/common's admin and proxy accounts.
BridgeConfigure ==
  \/ /\ paused' \in BOOLEAN
     /\ UNCHANGED <<chainFees, swapReceiver, mapped>>
  \/ /\ \E c \in Chain, fee \in Fee :
          ChainWhitelisted(c) /\ chainFees' = [chainFees EXCEPT ![c] = fee]
     /\ UNCHANGED <<paused, swapReceiver, mapped>>
  \/ /\ swapReceiver' = TRUE
     /\ UNCHANGED <<paused, chainFees, mapped>>

\* map_resource_and_rsymbol and unmap_resource_and_rsymbol.
MapSymbol ==
  /\ mapped' \in BOOLEAN
  /\ UNCHANGED <<paused, chainFees, swapReceiver>>

ConfigCall ==
  /\ \/ (SeriesConfigure \/ SwapRefundExpire) /\ UNCHANGED bridgeConfig
     \/ (BridgeConfigure \/ MapSymbol) /\ UNCHANGED seriesConfig
  /\ UNCHANGED <<chainVars, now, bondVars, cutOff>>

\* whitelist_chain and remove_whitelist_chain.
ChainCall(c) ==
  /\ WhitelistChain(c) \/ RemoveWhitelistChain(c)
  /\ cutOff' = (cutOff \/ (ChainWhitelisted(c) /\ \E b \in BondId : Open(b) /\ swaps[b].dest = c))
  /\ UNCHANGED <<now, bridgeConfig, seriesConfig, bondVars>>

NextBlock ==
  /\ now < MaxBlock
  /\ now' = now + 1
  /\ UNCHANGED <<chainVars, bridgeConfig, seriesConfig, bondVars, cutOff>>

-----------------------------------------------------------------------------
IsTxhashAvailable(t) == bondStates[t] \in {None, "Fail"}

\* is_txhash_executable that only asks for a claim.
MutIsTxhashExecutable(t) == bondStates[t] # None

IsTxhashExecutable(t) == bondStates[t] \in {"Dealing", "Fail"}

\* bondable, and that the record is new.
Bondable(b) ==
  /\ switches = Switch
  /\ IsTxhashAvailable(TxOf[b])
  /\ feeReceiver
  /\ b \notin records

\* The part liquidity_bond and liquidity_bond_and_swap share.
Claimed(b) ==
  /\ bondStates' = [bondStates EXCEPT ![TxOf[b]] = "Dealing"]
  /\ records' = records \cup {b}
  /\ UNCHANGED <<chainVars, now, bridgeConfig, seriesConfig, mints, cutOff>>

\* liquidity_bond, and liquidity_bond_and_swap to this chain.
LiquidityBond(b) ==
  /\ Bondable(b)
  /\ Claimed(b)
  /\ UNCHANGED <<swaps, bridgeBalance>>

\* swapable, and that the symbol has a resource.
Swapable(dest) ==
  /\ ~paused
  /\ ChainWhitelisted(dest)
  /\ chainFees[dest] # None
  /\ swapReceiver
  /\ mapped

LiquidityBondAndSwap(b, dest) ==
  /\ Bondable(b)
  /\ dest # ChainIdentity
  /\ Swapable(dest)
  /\ bridgeBalance' = bridgeBalance + chainFees[dest]
  /\ swaps' = [swaps EXCEPT ![b] = [fee |-> chainFees[dest], dest |-> dest, expire |-> 0,
                                    state |-> "Dealing", refunded |-> FALSE]]
  /\ Claimed(b)

Executable(b) == b \in records /\ IsTxhashExecutable(TxOf[b])

\* execute_bond_record with a reason other than Pass.
ExecuteFail(b) ==
  /\ Executable(b)
  /\ IF swaps[b] # None /\ ~swaps[b].refunded
     THEN /\ refundExpire # None
          /\ swaps' = [swaps EXCEPT ![b].expire = refundExpire + now, ![b].state = "Fail"]
     ELSE UNCHANGED swaps
  /\ bondStates' = [bondStates EXCEPT ![TxOf[b]] = "Fail"]
  /\ UNCHANGED <<chainVars, now, bridgeConfig, seriesConfig, records, bridgeBalance, mints,
                 cutOff>>

\* execute_bond_record with Pass: the rtokens go to the bonder.
ExecutePass(b) ==
  /\ Executable(b)
  /\ swaps[b] = None
  /\ mints' = [mints EXCEPT ![b] = @ + 1]
  /\ bondStates' = [bondStates EXCEPT ![TxOf[b]] = "Success"]
  /\ UNCHANGED <<chainVars, now, bridgeConfig, seriesConfig, records, swaps, bridgeBalance,
                 cutOff>>

\* Currency::transfer(.., KeepAlive) out of the bridge account.
TransferOut(fee) ==
  /\ fee = 0 \/ bridgeBalance - fee >= ExistentialDeposit
  /\ bridgeBalance' = bridgeBalance - fee

\* What Pass does first for a swap: the fee is paid on and the rtokens are
\* minted to the bridge account.
SwapPaid(b) ==
  /\ Executable(b)
  /\ swaps[b] # None
  /\ mapped
  /\ TransferOut(swaps[b].fee)
  /\ mints' = [mints EXCEPT ![b] = @ + 1]

\* Pass for a swap, sent on to its destination.
ExecutePassSwap(b) ==
  /\ SwapPaid(b)
  /\ TransferFungible(swaps[b].dest)
  /\ swaps' = [swaps EXCEPT ![b].state = "Success"]
  /\ bondStates' = [bondStates EXCEPT ![TxOf[b]] = "Success"]
  /\ UNCHANGED <<now, bridgeConfig, seriesConfig, records, cutOff>>

\* The same when the destination is off the whitelist: transfer_fungible
\* returns an error after the fee was paid and the rtokens were minted.
ExecutePassUnsent(b) ==
  /\ SwapPaid(b)
  /\ ~ChainWhitelisted(swaps[b].dest)
  /\ UNCHANGED <<chainVars, now, bridgeConfig, seriesConfig, records, bondStates, swaps, cutOff>>

\* refundable that does not look at refunded.
MutRefundable(b) == swaps[b] # None /\ swaps[b].state = "Fail" /\ swaps[b].expire > now

\* refundable that does not look at the state.
MutRefundableAny(b) == swaps[b] # None /\ ~swaps[b].refunded /\ swaps[b].expire > now

Refundable(b) ==
  /\ swaps[b] # None
  /\ ~swaps[b].refunded
  /\ swaps[b].state = "Fail"
  /\ swaps[b].expire > now

RefundSwapFee(b) ==
  /\ Refundable(b)
  /\ TransferOut(swaps[b].fee)
  /\ swaps' = [swaps EXCEPT ![b].refunded = TRUE]
  /\ UNCHANGED <<chainVars, now, bridgeConfig, seriesConfig, records, bondStates, mints, cutOff>>

Next ==
  \/ ConfigCall
  \/ \E c \in Chain : ChainCall(c)
  \/ NextBlock
  \/ \E b \in BondId :
       \/ LiquidityBond(b)
       \/ \E dest \in Chain : LiquidityBondAndSwap(b, dest)
       \/ ExecuteFail(b)
       \/ ExecutePass(b)
       \/ ExecutePassSwap(b)
       \/ ExecutePassUnsent(b)
       \/ RefundSwapFee(b)

Spec == Init /\ [][Next]_vars

-----------------------------------------------------------------------------
MintsOf(t) == SumFunctionOnSet(mints, {b \in BondId : TxOf[b] = t})
HeldFees == SumFunction([b \in BondId |-> IF Pending(b) THEN swaps[b].fee ELSE 0])

(* A deposit is minted for exactly once, however often it is claimed and by *)
(* whomever, and however often relayers' verdicts are dispatched: the mints *)
(* of all records that name a transaction are one when its state is Success *)
(* and none before.  It fails only when root removes a chain while a swap   *)
(* to it is pending: execute_bond_record then mints, returns an error and   *)
(* can be dispatched again.                                                 *)
DepositMintedOnce ==
  ~cutOff => \A t \in Tx : MintsOf(t) = IF bondStates[t] = "Success" THEN 1 ELSE 0

(* The bridge account holds exactly the fees of the swaps that are neither  *)
(* paid on nor refunded, on top of its other tokens.  The two exceptions    *)
(* are a chain removed under a pending swap, and a bond that relayers pass  *)
(* after they failed it and its fee was refunded: execute_bond_record does  *)
(* not look at refunded and pays the fee again.                             *)
FeesCovered ==
  (~cutOff /\ \A b \in BondId : swaps[b] # None /\ swaps[b].refunded => swaps[b].state = "Fail")
    => bridgeBalance = Reserve + HeldFees

(* A swap that was sent on is closed: no later verdict, claim of the same   *)
(* transaction or refund touches it again, and its transaction stays        *)
(* Success.                                                                 *)
SentSwapIsClosed ==
  [][\A b \in BondId :
       swaps[b] # None /\ swaps[b].state = "Success" =>
         swaps'[b] = swaps[b] /\ bondStates'[TxOf[b]] = "Success"]_vars

=============================================================================
