----------------------------- MODULE RDexnSwap -----------------------------
(***************************************************************************)
(* rdexn/swap, rdexn/signatures and their use of rdexn/payers: a user      *)
(* gives rtokens of one symbol for the native token of its own chain.      *)
(* The swap is queued under a block number; after that block the payers    *)
(* pay it on the other chain and report the block, or its transactions     *)
(* one by one, as dealt.  rFIS can be swapped for FIS at once.             *)
(*                                                                         *)
(* min_out_amount and the check of the receiver's address only refuse a    *)
(* call and are left out.  Storage of the symbol and of RFIS is modelled.  *)
(***************************************************************************)
EXTENDS NativeBalances, Sequences, SequencesExt, FiniteSetsExt

CONSTANTS Swapper,      \* users
          Payer,        \* accounts root may make payers
          Fund,         \* FundAddress once set
          NativePool,   \* NativePoolAddress once set
          Unset,        \* the None of an Option
          DeskTokenLimit,
          SwapRateBase, \* RATEBASE
          RtokenRate,   \* the values of RTokenRate::Rate, set by other pallets
          Lock,         \* lock numbers root sets
          SwapRate,     \* swap rates root sets
          DeskFee, Limit, DeskReserve,  \* values root sets
          RtokenIn,     \* amounts users give
          StartNative, StartRtokens,  \* what accounts start with
          Signature, ProposalId,
          MaxPayerThreshold, LastBlock, MaxSwaps   \* bounds

RDexnAccount == Swapper \cup {Fund, NativePool}
RTokens == INSTANCE Balances WITH Holder <- RDexnAccount, TokenLimit <- DeskTokenLimit
Block == 0..LastBlock

ASSUME RDexnAssumption ==
  /\ SwapRateBase \in Nat \ {0}
  /\ IsFiniteSet(Swapper) /\ IsFiniteSet(DeskFee) /\ DeskFee # {}
  /\ RtokenRate \cup Lock \cup SwapRate \cup DeskFee \cup Limit \cup DeskReserve \cup RtokenIn \subseteq Nat
  /\ {DeskTokenLimit, StartNative, StartRtokens, MaxPayerThreshold, MaxSwaps} \subseteq Nat
  /\ LastBlock \in Nat \ {0}

VARIABLES deskConfig,  \* switches, addresses, SwapFees, SwapRates, SwapLimitPerBlock
          nativeReserve,  \* NativeTokenReserves
          transInfos,     \* TransInfos: block -> its transactions
          latestDealBlock,
          voteInfos,      \* VoteInfos: block -> voters, in order
          voteInfosWithIndex,  \* VoteInfosWithIndex: block, index -> voters
          payers, payerThreshold, payerCount,  \* rdexn/payers
          signatures,     \* rdexn/signatures: proposal -> <<who, signature>> in order
          deskNative,     \* native balances
          deskRtokens,    \* the symbol's rtoken ledger
          deskRfis,       \* the rFIS ledger
          deskNow,        \* the block being built
          lowestThreshold,   \* history: the lowest threshold ever set
          byRoot,            \* history: blocks root set as dealt
          early              \* history: blocks reported, or set, before they passed

payerVars == <<payers, payerThreshold, payerCount>>
queueVars == <<transInfos, latestDealBlock, voteInfos, voteInfosWithIndex, byRoot, early>>
moneyVars == <<deskNative, deskRtokens, deskRfis, nativeReserve>>
rdexnVars == <<deskConfig, payerVars, queueVars, moneyVars, signatures, deskNow, lowestThreshold>>

Registry == INSTANCE Relayers
  WITH Id <- {0}, Account <- Payer, MaxThreshold <- MaxPayerThreshold,
       relayers <- payers, relayerThreshold <- payerThreshold, relayerCount <- payerCount

TransactionInfo == [value : Nat, isDeal : BOOLEAN]
GradeRate == [lock : Lock, rate : SwapRate]
Endowed == [free |-> [a \in RDexnAccount |-> IF a \in Swapper THEN StartRtokens ELSE 0],
            issuance |-> StartRtokens * Cardinality(Swapper)]
Desk == {"symbol", "rfis"}   \* the symbol that is queued, and RFIS

RDexnTypeOK ==
  /\ deskConfig \in [total : BOOLEAN, switch : [Desk -> BOOLEAN], fund : {Fund, Unset},
                     pool : {NativePool, Unset}, fee : Nat, limit : Nat,
                     rate : [Desk -> GradeRate \cup {Unset}]]
  /\ nativeReserve \in Nat
  /\ transInfos \in [Block -> Seq(TransactionInfo)]
  /\ latestDealBlock \in Block /\ deskNow \in Block /\ byRoot \cup early \subseteq Block
  /\ voteInfos \in [Block -> Seq(Payer)]
  /\ voteInfosWithIndex \in [Block \X (1..MaxSwaps) -> Seq(Payer)]
  /\ Registry!TypeOK /\ lowestThreshold \in Nat
  /\ signatures \in [ProposalId -> Seq(Payer \X Signature)]
  /\ deskNative \in [RDexnAccount -> Nat]
  /\ deskRtokens \in RTokens!TokenLedger /\ deskRfis \in RTokens!TokenLedger

RDexnInit ==
  /\ deskConfig = [total |-> FALSE, switch |-> [d \in Desk |-> TRUE], fund |-> Unset,
                   pool |-> Unset, fee |-> Max(DeskFee), limit |-> MaxSwaps,
                   rate |-> [d \in Desk |-> Unset]]
  /\ nativeReserve = 0
  /\ transInfos = [b \in Block |-> << >>]
  /\ latestDealBlock = 0 /\ deskNow = 1
  /\ voteInfos = [b \in Block |-> << >>]
  /\ voteInfosWithIndex = [k \in Block \X (1..MaxSwaps) |-> << >>]
  /\ Registry!Init
  /\ lowestThreshold = 0 /\ byRoot = {} /\ early = {}
  /\ signatures = [p \in ProposalId |-> << >>]
  /\ deskNative = [a \in RDexnAccount |-> StartNative]
  /\ deskRtokens = Endowed /\ deskRfis = Endowed

-----------------------------------------------------------------------------
(* Users.                                                                   *)

\* rtoken_to_token and then the swap rate, each rounded down; the products are
\* taken to fit an amount, below which multiply_by_rational always rounds down.
OutAmount(rate, swapRate, amount) ==
  (((amount * rate) \div SwapRateBase) * swapRate) \div SwapRateBase

\* A swap that is queued one block too early.
MutTransBlock == deskNow + deskConfig.rate["symbol"].lock - 1

TransBlock == deskNow + deskConfig.rate["symbol"].lock

\* What both swaps ask of the configuration and of the rtoken's rate.
Open(desk, rate) ==
  /\ deskConfig.total /\ deskConfig.switch[desk]
  /\ deskConfig.fund # Unset
  /\ deskConfig.rate[desk] # Unset /\ deskConfig.rate[desk].rate > 0
  /\ rate > 0

\* The fee to the fund, then the rtokens to the fund, then the queue.
SwapRtokenForNativeToken(who, amount, rate) ==
  /\ Open("symbol", rate) /\ amount > 0
  /\ deskRtokens.free[who] >= amount
  /\ TransBlock \in Block
  /\ Len(transInfos[TransBlock]) < deskConfig.limit
  /\ LET out == OutAmount(rate, deskConfig.rate["symbol"].rate, amount) IN
       /\ out > 0 /\ out < nativeReserve
       /\ CanPay(deskNative, who, Fund, deskConfig.fee)
       /\ RTokens!CanTransfer(deskRtokens, who, Fund, amount)
       /\ deskNative' = Paid(deskNative, who, Fund, deskConfig.fee)
       /\ deskRtokens' = RTokens!Transferred(deskRtokens, who, Fund, amount)
       /\ transInfos' = [transInfos EXCEPT ![TransBlock] =
                           Append(@, [value |-> out, isDeal |-> FALSE])]
       /\ nativeReserve' = nativeReserve - out
  /\ UNCHANGED <<deskConfig, payerVars, latestDealBlock, voteInfos, voteInfosWithIndex,
                 byRoot, early, deskRfis, signatures, deskNow, lowestThreshold>>

\* FIS out of the pool first, to any receiver, then the rtokens to the fund.
SwapRfisForFisToken(who, receiver, amount, rate) ==
  /\ Open("rfis", rate) /\ amount > 0
  /\ deskConfig.pool # Unset
  /\ deskRfis.free[who] >= amount
  /\ LET out == OutAmount(rate, deskConfig.rate["rfis"].rate, amount) IN
       /\ out > 0
       /\ CanPay(deskNative, NativePool, receiver, out)
       /\ RTokens!CanTransfer(deskRfis, who, Fund, amount)
       /\ deskNative' = Paid(deskNative, NativePool, receiver, out)
       /\ deskRfis' = RTokens!Transferred(deskRfis, who, Fund, amount)
  /\ UNCHANGED <<deskConfig, payerVars, queueVars, deskRtokens, nativeReserve,
                 signatures, deskNow, lowestThreshold>>

-----------------------------------------------------------------------------
(* Payers.                                                                  *)

AllDealt(infos) == [i \in DOMAIN infos |-> [infos[i] EXCEPT !.isDeal = TRUE]]

Early(b) == IF b >= deskNow THEN early \cup {b} ELSE early

IsDealt(infos) == \A i \in DOMAIN infos : infos[i].isDeal

\* A report that does not refuse a second vote.
MutReportTransferResultWithBlock(who, b) ==
  /\ early' = Early(b)
  /\ Registry!IsRelayer(0, who)
  /\ Len(voteInfos[b]) < Cardinality(Payer)
  /\ voteInfos' = [voteInfos EXCEPT ![b] = Append(@, who)]
  /\ IF Len(voteInfos'[b]) = payerThreshold[0]
       THEN /\ latestDealBlock' = b
            /\ transInfos' = [transInfos EXCEPT ![b] = AllDealt(@)]
       ELSE UNCHANGED <<latestDealBlock, transInfos>>
  /\ UNCHANGED <<deskConfig, payerVars, voteInfosWithIndex, byRoot, moneyVars, signatures,
                 deskNow, lowestThreshold>>

ReportTransferResultWithBlock(who, b) ==
  /\ Registry!IsRelayer(0, who)
  /\ ~Contains(voteInfos[b], who)
  /\ early' = Early(b)
  /\ voteInfos' = [voteInfos EXCEPT ![b] = Append(@, who)]
  /\ IF Len(voteInfos'[b]) = payerThreshold[0]
       THEN /\ latestDealBlock' = b
            /\ transInfos' = [transInfos EXCEPT ![b] = AllDealt(@)]
       ELSE UNCHANGED <<latestDealBlock, transInfos>>
  /\ UNCHANGED <<deskConfig, payerVars, voteInfosWithIndex, byRoot, moneyVars, signatures,
                 deskNow, lowestThreshold>>

ReportTransferResultWithIndex(who, b, i) ==
  /\ Registry!IsRelayer(0, who)
  /\ i \in DOMAIN transInfos[b]
  /\ ~Contains(voteInfosWithIndex[<<b, i>>], who)
  /\ early' = Early(b)
  /\ voteInfosWithIndex' = [voteInfosWithIndex EXCEPT ![<<b, i>>] = Append(@, who)]
  /\ IF Len(voteInfosWithIndex'[<<b, i>>]) = payerThreshold[0]
       THEN /\ transInfos' = [transInfos EXCEPT ![b][i].isDeal = TRUE]
            /\ latestDealBlock' = IF IsDealt(transInfos'[b]) THEN b ELSE latestDealBlock
       ELSE UNCHANGED <<latestDealBlock, transInfos>>
  /\ UNCHANGED <<deskConfig, payerVars, voteInfos, byRoot, moneyVars, signatures,
                 deskNow, lowestThreshold>>

\* rdexn/signatures: one signature for each payer and proposal, none twice.
SubmitSignature(who, proposal, signature) ==
  /\ Registry!IsRelayer(0, who)
  /\ \A i \in DOMAIN signatures[proposal] :
       signatures[proposal][i][1] # who /\ signatures[proposal][i][2] # signature
  /\ signatures' = [signatures EXCEPT ![proposal] = Append(@, <<who, signature>>)]
  /\ UNCHANGED <<deskConfig, payerVars, queueVars, moneyVars, deskNow, lowestThreshold>>

-----------------------------------------------------------------------------
(* Root.                                                                    *)

\* The toggles and the setters of addresses, fees, rates and the limit.
ConfigureDesk ==
  /\ \/ deskConfig' = [deskConfig EXCEPT !.total = ~@]
     \/ \E desk \in Desk : deskConfig' = [deskConfig EXCEPT !.switch[desk] = ~@]
     \/ deskConfig' = [deskConfig EXCEPT !.fund = Fund]
     \/ deskConfig' = [deskConfig EXCEPT !.pool = NativePool]
     \/ \E f \in DeskFee : deskConfig' = [deskConfig EXCEPT !.fee = f]
     \/ \E l \in Limit : deskConfig' = [deskConfig EXCEPT !.limit = l]
     \/ \E desk \in Desk, r \in GradeRate : deskConfig' = [deskConfig EXCEPT !.rate[desk] = r]
  /\ UNCHANGED <<payerVars, queueVars, moneyVars, signatures, deskNow, lowestThreshold>>

SetNativeTokenReserve(reserve) ==
  /\ nativeReserve' = reserve
  /\ UNCHANGED <<deskConfig, payerVars, queueVars, deskNative, deskRtokens, deskRfis,
                 signatures, deskNow, lowestThreshold>>

SetLatestDealBlock(b) ==
  /\ latestDealBlock' = b
  /\ transInfos' = [transInfos EXCEPT ![b] = AllDealt(@)]
  /\ byRoot' = byRoot \cup {b}
  /\ early' = Early(b)
  /\ UNCHANGED <<deskConfig, payerVars, voteInfos, voteInfosWithIndex, moneyVars, signatures,
                 deskNow, lowestThreshold>>

\* rdexn/payers.
PayersNext ==
  /\ Registry!Next
  /\ lowestThreshold' = IF payerThreshold'[0] = payerThreshold[0] THEN lowestThreshold
                        ELSE IF lowestThreshold = 0 THEN payerThreshold'[0]
                        ELSE Min({lowestThreshold, payerThreshold'[0]})
  /\ UNCHANGED <<deskConfig, queueVars, moneyVars, signatures, deskNow>>

NextDeskBlock ==
  /\ deskNow < LastBlock /\ deskNow' = deskNow + 1
  /\ UNCHANGED <<deskConfig, payerVars, queueVars, moneyVars, signatures, lowestThreshold>>

Payers ==
  \/ \E who \in Payer, b \in Block : ReportTransferResultWithBlock(who, b)
  \/ \E who \in Payer, b \in Block, i \in 1..MaxSwaps : ReportTransferResultWithIndex(who, b, i)

Signers ==
  \E who \in Payer, p \in ProposalId, signature \in Signature :
    SubmitSignature(who, p, signature)

Swappers ==
  \E who \in Swapper, amount \in RtokenIn, rate \in RtokenRate :
    \/ SwapRtokenForNativeToken(who, amount, rate)
    \/ \E receiver \in RDexnAccount : SwapRfisForFisToken(who, receiver, amount, rate)

DeskRoot ==
  \/ ConfigureDesk
  \/ \E reserve \in DeskReserve : SetNativeTokenReserve(reserve)

RDexnNext ==
  Payers \/ Signers \/ Swappers \/ DeskRoot \/ PayersNext \/ NextDeskBlock
    \/ \E b \in Block : SetLatestDealBlock(b)

RDexnSpec == RDexnInit /\ [][RDexnNext]_rdexnVars

-----------------------------------------------------------------------------
(* A transaction is dealt only if root said so for its block, or at least   *)
(* as many different payers as the lowest threshold ever set reported it,   *)
(* by its block or by itself: a payer's second report, votes on another     *)
(* transaction of the block and votes split over the two ways of reporting  *)
(* never add up to a quorum.                                                *)
DealtByQuorum ==
  \A b \in Block : \A i \in DOMAIN transInfos[b] : transInfos[b][i].isDeal =>
    \/ b \in byRoot
    \/ /\ lowestThreshold > 0
       /\ \/ Cardinality(ToSet(voteInfos[b])) >= lowestThreshold
          \/ Cardinality(ToSet(voteInfosWithIndex[<<b, i>>])) >= lowestThreshold

(* LatestDealBlock names a block that is dealt completely: the list of a    *)
(* block only grows until the block has passed, so a report made after      *)
(* that covers every swap of the block.  A block reported earlier is not    *)
(* protected; nothing in the calls compares it with the current block.      *)
LatestBlockIsDealt ==
  latestDealBlock \notin early => IsDealt(transInfos[latestDealBlock])

=============================================================================
