---------------------------- MODULE UsersProofs ----------------------------
(***************************************************************************)
(* What rdexn/swap, claims/rclaim, claims/xclaim and bridge/swap promise   *)
(* their users, for every number of users, payers, acts, blocks and        *)
(* claims: a pending transaction is dealt with only by a quorum of payers, *)
(* an act's budget is neither exceeded nor lost, no claim is paid early,   *)
(* the pot of xclaim covers every claim, and both sides of the bridge      *)
(* conserve what is sent over it.  The four components share no state, so  *)
(* each has its own inductive invariant.                                   *)
(***************************************************************************)
EXTENDS RDexnSwap, RClaim, XClaim, BridgeSwap, CountingLemmas

-----------------------------------------------------------------------------
(* rdexn/swap with its payers.                                              *)

\* The lemmas about the registry, for the payers of the symbol.
PP == INSTANCE RelayersProofs
  WITH Id <- {0}, Account <- Payer, MaxThreshold <- MaxPayerThreshold,
       relayers <- payers, relayerThreshold <- payerThreshold, relayerCount <- payerCount

(* The payers' registry starts sound and stays sound: only PayersNext       *)
(* changes it, by a step of the registry.                                   *)
LEMMA PayersInv ==
  /\ RDexnInit => PP!IInv
  /\ PP!IInv /\ [RDexnNext]_rdexnVars => PP!IInv'
<1>1. RDexnInit => PP!IInv
  <2>1. Registry!Init => PP!Init
    BY DEF Registry!Init, PP!Init
  <2> QED
    BY <2>1, PP!InitIInv DEF RDexnInit
<1>2. ASSUME PP!IInv, [RDexnNext]_rdexnVars PROVE PP!IInv'
  <2>1. PayersNext => PP!Next
    BY DEF PayersNext, Registry!Next, PP!Next, PP!SetThreshold, PP!AddRelayer, PP!RemoveRelayer,
       PP!IsRelayer, Registry!SetThreshold, Registry!AddRelayer, Registry!RemoveRelayer,
       Registry!IsRelayer
  <2>2. PayersNext \/ UNCHANGED payerVars
    <3>1. Payers => UNCHANGED payerVars
      BY DEF Payers, ReportTransferResultWithBlock, ReportTransferResultWithIndex
    <3>2. Swappers => UNCHANGED payerVars
      BY DEF Swappers, SwapRtokenForNativeToken, SwapRfisForFisToken
    <3>3. Signers \/ DeskRoot => UNCHANGED payerVars
      BY DEF Signers, SubmitSignature, DeskRoot, ConfigureDesk, SetNativeTokenReserve
    <3>4. NextDeskBlock \/ (\E b \in Block : SetLatestDealBlock(b)) => UNCHANGED payerVars
      BY DEF NextDeskBlock, SetLatestDealBlock
    <3> QED
      BY <1>2, <3>1, <3>2, <3>3, <3>4 DEF RDexnNext, rdexnVars
  <2>3. UNCHANGED payerVars => UNCHANGED PP!vars
    BY DEF payerVars, PP!vars
  <2> QED
    BY <1>2, <2>1, <2>2, <2>3, PP!NextIInv
<1> QED
  BY <1>1, <1>2

\* The types without the registry's, and by what changes together.
MoneyTypes ==
  /\ nativeReserve \in Nat
  /\ deskNative \in [RDexnAccount -> Nat]
  /\ deskRtokens \in RTokens!TokenLedger /\ deskRfis \in RTokens!TokenLedger

ConfigType ==
  deskConfig \in [total : BOOLEAN, switch : [Desk -> BOOLEAN], fund : {Fund, Unset},
                  pool : {NativePool, Unset}, fee : Nat, limit : Nat,
                  rate : [Desk -> GradeRate \cup {Unset}]]

QueueTypes ==
  /\ transInfos \in [Block -> Seq(TransactionInfo)]
  /\ latestDealBlock \in Block /\ deskNow \in Block /\ byRoot \cup early \subseteq Block
  /\ voteInfos \in [Block -> Seq(Payer)]
  /\ voteInfosWithIndex \in [Block \X (1..MaxSwaps) -> Seq(Payer)]
  /\ lowestThreshold \in Nat
  /\ signatures \in [ProposalId -> Seq(Payer \X Signature)]

(* A native payment and an rtoken transfer keep their ledgers' types.       *)
LEMMA PaidType ==
  ASSUME NEW A, NEW n \in [A -> Nat], NEW from \in A, NEW to \in A, NEW value \in Nat,
         CanPay(n, from, to, value)
  PROVE  Paid(n, from, to, value) \in [A -> Nat]
<1>1. CASE from = to
  BY <1>1 DEF Paid
<1>2. CASE from # to
  <2>1. n[from] >= value
    BY <1>2, DepositAssumption DEF CanPay
  <2>2. n[from] - value \in Nat /\ n[to] + value \in Nat
    BY <2>1
  <2> QED
    BY <1>2, <2>2 DEF Paid
<1> QED
  BY <1>1, <1>2

LEMMA TransferredType ==
  ASSUME NEW b \in RTokens!TokenLedger, NEW from \in RDexnAccount, NEW to \in RDexnAccount,
         NEW value \in Nat, RTokens!CanTransfer(b, from, to, value)
  PROVE  RTokens!Transferred(b, from, to, value) \in RTokens!TokenLedger
<1> USE DEF RTokens!TokenLedger
<1>1. CASE RTokens!Idle(from, to, value)
  BY <1>1 DEF RTokens!Transferred
<1>2. CASE ~RTokens!Idle(from, to, value)
  <2>1. from # to /\ b.free[from] >= value /\ b.free \in [RDexnAccount -> Nat]
    BY <1>2 DEF RTokens!Idle, RTokens!CanTransfer
  <2>2. b.free[from] - value \in Nat /\ b.free[to] + value \in Nat
    BY <2>1
  <2> QED
    BY <1>2, <2>1, <2>2 DEF RTokens!Transferred
<1> QED
  BY <1>1, <1>2

(* What a swap pays out is a natural.                                       *)
LEMMA OutAmountType ==
  ASSUME NEW rate \in Nat, NEW swapRate \in Nat, NEW amount \in Nat
  PROVE  OutAmount(rate, swapRate, amount) \in Nat
<1> DEFINE inTokens == (amount * rate) \div SwapRateBase
<1>1. amount * rate \in Nat /\ SwapRateBase \in Nat \ {0}
  BY RDexnAssumption
<1>2. inTokens \in Nat
  BY <1>1, DivFloor
<1> HIDE DEF inTokens
<1>3. inTokens * swapRate \in Nat
  BY <1>2
<1>4. (inTokens * swapRate) \div SwapRateBase \in Nat
  BY <1>1, <1>3, DivFloor
<1> QED
  BY <1>4 DEF OutAmount, inTokens

LEMMA DeskInitTypes == RDexnInit => MoneyTypes /\ ConfigType /\ QueueTypes
<1> SUFFICES ASSUME RDexnInit PROVE MoneyTypes /\ ConfigType /\ QueueTypes
  OBVIOUS
<1>1. Endowed \in RTokens!TokenLedger
  <2>1. StartRtokens \in Nat /\ Cardinality(Swapper) \in Nat
    BY RDexnAssumption, FS_CardinalityType
  <2>2. StartRtokens * Cardinality(Swapper) \in Nat
    BY <2>1
  <2> QED
    BY <2>1, <2>2 DEF Endowed, RTokens!TokenLedger
<1>2. MoneyTypes
  BY <1>1, RDexnAssumption DEF RDexnInit, MoneyTypes
<1>3. Max(DeskFee) \in Nat
  BY RDexnAssumption, ExtremaExist DEF Max
<1>4. ConfigType
  BY <1>3, RDexnAssumption DEF RDexnInit, ConfigType
<1>5. 0 \in Block /\ 1 \in Block
  BY RDexnAssumption DEF Block
<1>6. QueueTypes
  BY <1>5 DEF RDexnInit, QueueTypes
<1> QED
  BY <1>2, <1>4, <1>6

(* Every call keeps the types of the configuration and of the ledgers: no   *)
(* balance and no reserve is taken below zero.                              *)
LEMMA MoneyStep ==
  MoneyTypes /\ ConfigType /\ [RDexnNext]_rdexnVars => MoneyTypes' /\ ConfigType'
<1> SUFFICES ASSUME MoneyTypes, ConfigType, [RDexnNext]_rdexnVars
             PROVE  MoneyTypes' /\ ConfigType'
  OBVIOUS
<1>0. /\ nativeReserve \in Nat /\ deskNative \in [RDexnAccount -> Nat]
      /\ deskRtokens \in RTokens!TokenLedger /\ deskRfis \in RTokens!TokenLedger
      /\ deskConfig.fee \in Nat
      /\ \A d \in Desk : deskConfig.rate[d] # Unset => deskConfig.rate[d].rate \in Nat
      /\ Fund \in RDexnAccount /\ NativePool \in RDexnAccount /\ Swapper \subseteq RDexnAccount
  BY RDexnAssumption DEF MoneyTypes, ConfigType, GradeRate, RDexnAccount
<1>1. ASSUME NEW who \in Swapper, NEW amount \in RtokenIn, NEW rate \in RtokenRate,
             SwapRtokenForNativeToken(who, amount, rate)
      PROVE  MoneyTypes' /\ ConfigType'
  <2> DEFINE out == OutAmount(rate, deskConfig.rate["symbol"].rate, amount)
  <2>1. amount \in Nat /\ rate \in Nat /\ deskConfig.rate["symbol"].rate \in Nat
    BY <1>0, <1>1, RDexnAssumption DEF SwapRtokenForNativeToken, Open, Desk
  <2>2. out \in Nat
    BY <2>1, OutAmountType
  <2>3. deskNative' \in [RDexnAccount -> Nat]
    BY <1>0, <1>1, PaidType DEF SwapRtokenForNativeToken
  <2>4. deskRtokens' \in RTokens!TokenLedger
    BY <1>0, <1>1, <2>1, TransferredType DEF SwapRtokenForNativeToken
  <2>5. nativeReserve' = nativeReserve - out /\ out < nativeReserve
    BY <1>1 DEF SwapRtokenForNativeToken
  <2>6. nativeReserve' \in Nat
    BY <1>0, <2>2, <2>5
  <2>7. UNCHANGED <<deskConfig, deskRfis>>
    BY <1>1 DEF SwapRtokenForNativeToken
  <2> QED
    BY <1>0, <2>3, <2>4, <2>6, <2>7 DEF MoneyTypes, ConfigType
<1>2. ASSUME NEW who \in Swapper, NEW receiver \in RDexnAccount, NEW amount \in RtokenIn,
             NEW rate \in RtokenRate, SwapRfisForFisToken(who, receiver, amount, rate)
      PROVE  MoneyTypes' /\ ConfigType'
  <2> DEFINE out == OutAmount(rate, deskConfig.rate["rfis"].rate, amount)
  <2>1. amount \in Nat /\ rate \in Nat /\ deskConfig.rate["rfis"].rate \in Nat
    BY <1>0, <1>2, RDexnAssumption DEF SwapRfisForFisToken, Open, Desk
  <2>2. out \in Nat
    BY <2>1, OutAmountType
  <2>3. deskNative' \in [RDexnAccount -> Nat]
    BY <1>0, <1>2, <2>2, PaidType DEF SwapRfisForFisToken
  <2>4. deskRfis' \in RTokens!TokenLedger
    BY <1>0, <1>2, <2>1, TransferredType DEF SwapRfisForFisToken
  <2>5. UNCHANGED <<deskConfig, deskRtokens, nativeReserve>>
    BY <1>2 DEF SwapRfisForFisToken
  <2> QED
    BY <1>0, <2>3, <2>4, <2>5 DEF MoneyTypes, ConfigType
<1>3. CASE ConfigureDesk
  <2>1. ConfigType'
    <3> USE DEF ConfigType
    <3>1. ASSUME NEW d \in Desk, \/ deskConfig' = [deskConfig EXCEPT !.switch[d] = ~@]
                                 \/ deskConfig' = [deskConfig EXCEPT !.total = ~@]
          PROVE  ConfigType'
      BY <3>1
    <3>2. ASSUME \/ deskConfig' = [deskConfig EXCEPT !.fund = Fund]
                 \/ deskConfig' = [deskConfig EXCEPT !.pool = NativePool]
          PROVE  ConfigType'
      BY <3>2
    <3>3. ASSUME NEW n \in Nat, \/ deskConfig' = [deskConfig EXCEPT !.fee = n]
                                \/ deskConfig' = [deskConfig EXCEPT !.limit = n]
          PROVE  ConfigType'
      BY <3>3
    <3>4. ASSUME NEW d \in Desk, NEW r \in GradeRate,
                 deskConfig' = [deskConfig EXCEPT !.rate[d] = r]
          PROVE  ConfigType'
      BY <3>4
    <3>5. "symbol" \in Desk
      BY DEF Desk
    <3> HIDE DEF ConfigType
    <3> QED
      BY <1>3, <3>1, <3>2, <3>3, <3>4, <3>5, RDexnAssumption DEF ConfigureDesk
  <2> QED
    BY <1>3, <2>1 DEF ConfigureDesk, moneyVars, MoneyTypes
<1>4. ASSUME NEW reserve \in DeskReserve, SetNativeTokenReserve(reserve)
      PROVE  MoneyTypes' /\ ConfigType'
  BY <1>4, RDexnAssumption DEF SetNativeTokenReserve, MoneyTypes, ConfigType
<1>5. CASE UNCHANGED <<moneyVars, deskConfig>>
  BY <1>5 DEF moneyVars, MoneyTypes, ConfigType
<1>6. Payers \/ Signers => UNCHANGED <<moneyVars, deskConfig>>
  BY DEF Payers, ReportTransferResultWithBlock, ReportTransferResultWithIndex, Signers, SubmitSignature
<1>7. PayersNext \/ NextDeskBlock \/ (\E b \in Block : SetLatestDealBlock(b))
        => UNCHANGED <<moneyVars, deskConfig>>
  BY DEF PayersNext, NextDeskBlock, SetLatestDealBlock
<1> QED
  BY <1>1, <1>2, <1>3, <1>4, <1>5, <1>6, <1>7 DEF RDexnNext, Swappers, DeskRoot, rdexnVars

-----------------------------------------------------------------------------
\* No payer is twice in a list of reports.
ReportersDistinct ==
  /\ \A b \in Block : IsInjective(voteInfos[b])
  /\ \A k \in Block \X (1..MaxSwaps) : IsInjective(voteInfosWithIndex[k])

\* The threshold in force is never below the lowest one.
LowestIsLowest ==
  /\ lowestThreshold = 0 <=> payerThreshold[0] = 0
  /\ lowestThreshold <= payerThreshold[0]

\* DealtByQuorum, with votes on a transaction only where there is a list of them.
QuorumBehind ==
  \A b \in Block : \A i \in DOMAIN transInfos[b] : transInfos[b][i].isDeal =>
    \/ b \in byRoot
    \/ /\ lowestThreshold > 0
       /\ \/ Cardinality(ToSet(voteInfos[b])) >= lowestThreshold
          \/ /\ i \in 1..MaxSwaps
             /\ Cardinality(ToSet(voteInfosWithIndex[<<b, i>>])) >= lowestThreshold

\* A block that was not reported early takes no more swaps.
LatestHasPassed == latestDealBlock \notin early => latestDealBlock < deskNow

QueueInv ==
  /\ QueueTypes
  /\ ReportersDistinct
  /\ LowestIsLowest
  /\ LatestHasPassed
  /\ QuorumBehind
  /\ LatestBlockIsDealt

LEMMA QueueInit0 == RDexnInit => QueueInv
<1> SUFFICES ASSUME RDexnInit PROVE QueueInv
  OBVIOUS
<1>1. QueueTypes
  BY DeskInitTypes
<1>2. 0 \in Block
  BY RDexnAssumption DEF Block
<1>3. ReportersDistinct
  BY DEF RDexnInit, ReportersDistinct, IsInjective
<1>4. LowestIsLowest /\ LatestHasPassed
  BY DEF RDexnInit, LowestIsLowest, LatestHasPassed, Registry!Init
<1>5. QuorumBehind
  BY DEF RDexnInit, QuorumBehind
<1>6. LatestBlockIsDealt
  BY <1>2 DEF RDexnInit, LatestBlockIsDealt, IsDealt
<1> QED
  BY <1>1, <1>3, <1>4, <1>5, <1>6 DEF QueueInv

(* A report of a payer who is not in the list yet: the longer list is free  *)
(* of repetition, and as many payers are in it as it is long.               *)
LEMMA Reported ==
  ASSUME NEW s \in Seq(Payer), IsInjective(s), NEW who \in Payer, ~Contains(s, who)
  PROVE  /\ Append(s, who) \in Seq(Payer) /\ IsInjective(Append(s, who))
         /\ Cardinality(ToSet(Append(s, who))) = Len(Append(s, who))
         /\ Cardinality(ToSet(Append(s, who))) >= Cardinality(ToSet(s))
         /\ Cardinality(ToSet(s)) \in Nat
         /\ Len(Append(s, who)) \in Nat \ {0}
<1>1. who \notin Range(s)
  BY DEF Contains, Range
<1>2. /\ Append(s, who) \in Seq(Payer) /\ IsInjective(Append(s, who))
      /\ Len(Append(s, who)) = Len(s) + 1
  BY <1>1, AppendDistinct
<1>3. /\ ToSet(s) = Range(s) /\ ToSet(Append(s, who)) = Range(Append(s, who))
  BY DEF ToSet, Range
<1>4. Cardinality(Range(s)) = Len(s) /\ Cardinality(Range(Append(s, who))) = Len(Append(s, who))
  BY <1>2, DistinctCount
<1>5. Len(s) \in Nat
  OBVIOUS
<1> QED
  BY <1>2, <1>3, <1>4, <1>5

(* A list that is dealt completely stays a list of the same transactions.   *)
LEMMA AllDealtFacts ==
  ASSUME NEW infos \in Seq(TransactionInfo)
  PROVE  /\ AllDealt(infos) \in Seq(TransactionInfo)
         /\ DOMAIN AllDealt(infos) = DOMAIN infos
         /\ IsDealt(AllDealt(infos))
<1>1. \A i \in DOMAIN infos : infos[i] \in TransactionInfo
  OBVIOUS
<1>2. \A i \in DOMAIN infos : [infos[i] EXCEPT !.isDeal = TRUE] \in TransactionInfo
                              /\ [infos[i] EXCEPT !.isDeal = TRUE].isDeal
  BY <1>1 DEF TransactionInfo
<1>3. DOMAIN infos = 1..Len(infos) /\ Len(infos) \in Nat
  OBVIOUS
<1>4. AllDealt(infos) \in [1..Len(infos) -> TransactionInfo]
  BY <1>2, <1>3 DEF AllDealt
<1>5. AllDealt(infos) \in Seq(TransactionInfo)
  BY <1>3, <1>4, SeqDef
<1> QED
  BY <1>2, <1>5 DEF AllDealt, IsDealt

(* A step that leaves the queue and the threshold alone, and does not go    *)
(* back in time, keeps the invariant.                                       *)
LEMMA QueueIdle ==
  ASSUME QueueInv, UNCHANGED <<queueVars, lowestThreshold, payerThreshold>>,
         deskNow' \in Block, deskNow' >= deskNow,
         signatures' \in [ProposalId -> Seq(Payer \X Signature)]
  PROVE  QueueInv'
<1>1. QueueTypes'
  BY DEF QueueInv, QueueTypes, queueVars
<1>2. ReportersDistinct' /\ LowestIsLowest' /\ QuorumBehind' /\ LatestBlockIsDealt'
  BY DEF QueueInv, ReportersDistinct, LowestIsLowest, QuorumBehind, LatestBlockIsDealt, queueVars
<1>3. LatestHasPassed'
  BY DEF QueueInv, QueueTypes, LatestHasPassed, Block, queueVars
<1> QED
  BY <1>1, <1>2, <1>3 DEF QueueInv

(* A swap is queued under a block that has not passed, so the latest dealt  *)
(* block stays dealt.                                                       *)
LEMMA SwapKeepsQueue ==
  ASSUME QueueInv, ConfigType, NEW who \in Swapper, NEW amount \in RtokenIn,
         NEW rate \in RtokenRate, SwapRtokenForNativeToken(who, amount, rate)
  PROVE  QueueInv'
<1> DEFINE out == OutAmount(rate, deskConfig.rate["symbol"].rate, amount)
           tx == [value |-> out, isDeal |-> FALSE]
           b0 == TransBlock
<1>1. /\ deskConfig.rate["symbol"] \in GradeRate
      /\ b0 \in Block
      /\ transInfos' = [transInfos EXCEPT ![b0] = Append(@, tx)]
      /\ UNCHANGED <<latestDealBlock, voteInfos, voteInfosWithIndex, byRoot, early, signatures,
                     deskNow, lowestThreshold, payerThreshold>>
  BY DEF SwapRtokenForNativeToken, Open, ConfigType, Desk, payerVars
<1>2. amount \in Nat /\ rate \in Nat /\ deskConfig.rate["symbol"].rate \in Nat
      /\ deskConfig.rate["symbol"].lock \in Nat
  BY <1>1, RDexnAssumption DEF GradeRate
<1>3. tx \in TransactionInfo /\ ~tx.isDeal
  BY <1>2, OutAmountType DEF TransactionInfo
<1>4. b0 >= deskNow
  BY <1>2 DEF TransBlock, QueueInv, QueueTypes, Block
<1> HIDE DEF tx, b0
<1>5. transInfos \in [Block -> Seq(TransactionInfo)]
  BY DEF QueueInv, QueueTypes
<1>6. /\ transInfos' \in [Block -> Seq(TransactionInfo)]
      /\ \A b \in Block \ {b0} : transInfos'[b] = transInfos[b]
      /\ transInfos'[b0] = Append(transInfos[b0], tx)
  BY <1>1, <1>3, <1>5
<1>7. \A b \in Block : \A i \in DOMAIN transInfos'[b] : transInfos'[b][i].isDeal =>
        i \in DOMAIN transInfos[b] /\ transInfos[b][i].isDeal
  <2>1. \A i \in DOMAIN transInfos'[b0] : transInfos'[b0][i].isDeal =>
          i \in DOMAIN transInfos[b0] /\ transInfos[b0][i].isDeal
    BY <1>1, <1>3, <1>5, <1>6
  <2> QED
    BY <1>6, <2>1
<1>8. QueueTypes' /\ ReportersDistinct' /\ LowestIsLowest' /\ LatestHasPassed'
  BY <1>1, <1>6 DEF QueueInv, QueueTypes, ReportersDistinct, LowestIsLowest, LatestHasPassed
<1>9. QuorumBehind'
  BY <1>1, <1>7 DEF QueueInv, QuorumBehind
<1>10. LatestBlockIsDealt'
  <2>1. latestDealBlock \notin early => latestDealBlock < deskNow
    BY DEF QueueInv, LatestHasPassed
  <2>2. latestDealBlock \notin early => latestDealBlock \in Block \ {b0}
    BY <1>1, <1>4, <2>1 DEF QueueInv, QueueTypes, Block
  <2> QED
    BY <1>1, <1>6, <2>2 DEF QueueInv, LatestBlockIsDealt
<1> QED
  BY <1>8, <1>9, <1>10 DEF QueueInv

(* Reporting blocks, and what it does to the blocks reported early.         *)
LEMMA EarlyFacts ==
  ASSUME QueueTypes, NEW b \in Block
  PROVE  /\ early \subseteq Early(b) /\ Early(b) \subseteq Block
         /\ b \notin Early(b) => b < deskNow
BY DEF Early, QueueTypes, Block

(* The part of the invariant that is about the latest dealt block, after a  *)
(* step that marks transactions of b, and makes b the latest block only     *)
(* when all of them are.                                                    *)
LEMMA MarkingKeepsLatest ==
  ASSUME QueueInv, NEW b \in Block, early' = Early(b), deskNow' = deskNow,
         transInfos' \in [Block -> Seq(TransactionInfo)],
         \A c \in Block \ {b} : transInfos'[c] = transInfos[c],
         IsDealt(transInfos[b]) => IsDealt(transInfos'[b]),
         \/ latestDealBlock' = latestDealBlock
         \/ latestDealBlock' = b /\ IsDealt(transInfos'[b])
  PROVE  LatestHasPassed' /\ LatestBlockIsDealt' /\ latestDealBlock' \in Block
<1>1. /\ early \subseteq Early(b) /\ Early(b) \subseteq Block
      /\ b \notin Early(b) => b < deskNow
  BY EarlyFacts DEF QueueInv
<1>2. CASE latestDealBlock' = latestDealBlock
  <2>1. latestDealBlock \in Block
    BY DEF QueueInv, QueueTypes
  <2>2. LatestHasPassed'
    BY <1>1, <1>2 DEF QueueInv, LatestHasPassed
  <2>3. latestDealBlock \notin early => IsDealt(transInfos[latestDealBlock])
    BY DEF QueueInv, LatestBlockIsDealt
  <2>4. LatestBlockIsDealt'
    BY <1>1, <1>2, <2>1, <2>3 DEF LatestBlockIsDealt
  <2> QED
    BY <1>2, <2>1, <2>2, <2>4
<1>3. CASE latestDealBlock' = b /\ IsDealt(transInfos'[b])
  BY <1>1, <1>3 DEF LatestHasPassed, LatestBlockIsDealt
<1> QED
  BY <1>2, <1>3

LEMMA BlockReportKeepsQueue ==
  ASSUME QueueInv, PP!IInv, NEW who \in Payer, NEW b \in Block,
         ReportTransferResultWithBlock(who, b)
  PROVE  QueueInv'
<1> DEFINE list == Append(voteInfos[b], who)
           done == Len(list) = payerThreshold[0]
<1>1. /\ ~Contains(voteInfos[b], who) /\ early' = Early(b)
      /\ voteInfos' = [voteInfos EXCEPT ![b] = list]
      /\ UNCHANGED <<voteInfosWithIndex, byRoot, signatures, deskNow, lowestThreshold, payerThreshold>>
  BY DEF ReportTransferResultWithBlock, payerVars
<1>2. /\ voteInfos \in [Block -> Seq(Payer)] /\ transInfos \in [Block -> Seq(TransactionInfo)]
      /\ lowestThreshold \in Nat /\ payerThreshold[0] \in Nat
      /\ voteInfosWithIndex \in [Block \X (1..MaxSwaps) -> Seq(Payer)]
  BY DEF QueueInv, QueueTypes, PP!IInv, PP!TypeOK
<1>3. IsInjective(voteInfos[b])
  BY DEF QueueInv, ReportersDistinct
<1>4. /\ list \in Seq(Payer) /\ IsInjective(list)
      /\ Cardinality(ToSet(list)) = Len(list)
      /\ Cardinality(ToSet(list)) >= Cardinality(ToSet(voteInfos[b]))
      /\ Cardinality(ToSet(voteInfos[b])) \in Nat
      /\ Len(list) \in Nat \ {0}
  BY <1>1, <1>2, <1>3, Reported
<1> HIDE DEF list
<1>5. voteInfos'[b] = list /\ (\A c \in Block \ {b} : voteInfos'[c] = voteInfos[c])
      /\ voteInfos' \in [Block -> Seq(Payer)]
  BY <1>1, <1>2, <1>4
<1>6. \/ /\ done /\ latestDealBlock' = b
         /\ transInfos' = [transInfos EXCEPT ![b] = AllDealt(@)]
      \/ ~done /\ UNCHANGED <<latestDealBlock, transInfos>>
  BY <1>1, <1>5 DEF ReportTransferResultWithBlock
<1>7. /\ AllDealt(transInfos[b]) \in Seq(TransactionInfo)
      /\ DOMAIN AllDealt(transInfos[b]) = DOMAIN transInfos[b]
      /\ IsDealt(AllDealt(transInfos[b]))
  BY <1>2, AllDealtFacts
<1>8. /\ transInfos' \in [Block -> Seq(TransactionInfo)]
      /\ \A c \in Block \ {b} : transInfos'[c] = transInfos[c]
      /\ transInfos'[b] = IF done THEN AllDealt(transInfos[b]) ELSE transInfos[b]
  BY <1>2, <1>6, <1>7
<1>9. LatestHasPassed' /\ LatestBlockIsDealt' /\ latestDealBlock' \in Block
  BY <1>1, <1>6, <1>7, <1>8, MarkingKeepsLatest
<1>10. QueueTypes'
  BY <1>1, <1>5, <1>8, <1>9, EarlyFacts DEF QueueInv, QueueTypes
<1>11. ReportersDistinct' /\ LowestIsLowest'
  BY <1>1, <1>4, <1>5 DEF QueueInv, ReportersDistinct, LowestIsLowest
<1>12. QuorumBehind'
  <2> SUFFICES ASSUME NEW c \in Block, NEW i \in DOMAIN transInfos'[c], transInfos'[c][i].isDeal
               PROVE  \/ c \in byRoot
                      \/ /\ lowestThreshold > 0
                         /\ \/ Cardinality(ToSet(voteInfos'[c])) >= lowestThreshold
                            \/ /\ i \in 1..MaxSwaps
                               /\ Cardinality(ToSet(voteInfosWithIndex[<<c, i>>])) >= lowestThreshold
    BY <1>1 DEF QuorumBehind
  <2>1. CASE c = b /\ done
    <3>1. payerThreshold[0] >= 1 /\ Cardinality(ToSet(list)) = payerThreshold[0]
      BY <1>4, <2>1
    <3>2. lowestThreshold > 0 /\ lowestThreshold <= payerThreshold[0]
      BY <1>2, <3>1 DEF QueueInv, LowestIsLowest
    <3> QED
      BY <1>2, <1>5, <2>1, <3>1, <3>2
  <2>2. CASE ~(c = b /\ done)
    <3>1. transInfos'[c] = transInfos[c]
      BY <1>8, <2>2
    <3>2. \/ c \in byRoot
          \/ /\ lowestThreshold > 0
             /\ \/ Cardinality(ToSet(voteInfos[c])) >= lowestThreshold
                \/ /\ i \in 1..MaxSwaps
                   /\ Cardinality(ToSet(voteInfosWithIndex[<<c, i>>])) >= lowestThreshold
      BY <3>1 DEF QueueInv, QuorumBehind
    <3>3. Cardinality(ToSet(voteInfos[c])) >= lowestThreshold =>
            Cardinality(ToSet(voteInfos'[c])) >= lowestThreshold
      <4>1. CASE c = b
        BY <1>2, <1>4, <1>5, <4>1
      <4>2. CASE c # b
        BY <1>5, <4>2
      <4> QED
        BY <4>1, <4>2
    <3> QED
      BY <3>2, <3>3
  <2> QED
    BY <2>1, <2>2
<1> QED
  BY <1>9, <1>10, <1>11, <1>12 DEF QueueInv

LEMMA IndexReportKeepsQueue ==
  ASSUME QueueInv, PP!IInv, NEW who \in Payer, NEW b \in Block, NEW i \in 1..MaxSwaps,
         ReportTransferResultWithIndex(who, b, i)
  PROVE  QueueInv'
<1> DEFINE list == Append(voteInfosWithIndex[<<b, i>>], who)
           done == Len(list) = payerThreshold[0]
           marked == [transInfos[b] EXCEPT ![i].isDeal = TRUE]
<1>1. /\ ~Contains(voteInfosWithIndex[<<b, i>>], who) /\ early' = Early(b) /\ i \in DOMAIN transInfos[b]
      /\ voteInfosWithIndex' = [voteInfosWithIndex EXCEPT ![<<b, i>>] = list]
      /\ UNCHANGED <<voteInfos, byRoot, signatures, deskNow, lowestThreshold, payerThreshold>>
  BY DEF ReportTransferResultWithIndex, payerVars
<1>2. /\ voteInfosWithIndex \in [Block \X (1..MaxSwaps) -> Seq(Payer)]
      /\ transInfos \in [Block -> Seq(TransactionInfo)]
      /\ lowestThreshold \in Nat /\ payerThreshold[0] \in Nat
      /\ <<b, i>> \in Block \X (1..MaxSwaps)
  BY DEF QueueInv, QueueTypes, PP!IInv, PP!TypeOK
<1>3. IsInjective(voteInfosWithIndex[<<b, i>>]) /\ voteInfosWithIndex[<<b, i>>] \in Seq(Payer)
  BY <1>2 DEF QueueInv, ReportersDistinct
<1>4. /\ list \in Seq(Payer) /\ IsInjective(list)
      /\ Cardinality(ToSet(list)) = Len(list)
      /\ Cardinality(ToSet(list)) >= Cardinality(ToSet(voteInfosWithIndex[<<b, i>>]))
      /\ Cardinality(ToSet(voteInfosWithIndex[<<b, i>>])) \in Nat
      /\ Len(list) \in Nat \ {0}
  BY <1>1, <1>3, Reported
<1> HIDE DEF list
<1>5. /\ voteInfosWithIndex'[<<b, i>>] = list
      /\ \A k \in Block \X (1..MaxSwaps) : k # <<b, i>> => voteInfosWithIndex'[k] = voteInfosWithIndex[k]
      /\ voteInfosWithIndex' \in [Block \X (1..MaxSwaps) -> Seq(Payer)]
  BY <1>1, <1>2, <1>4
<1>6. \/ /\ done
         /\ transInfos' = [transInfos EXCEPT ![b] = marked]
         /\ latestDealBlock' = IF IsDealt(transInfos'[b]) THEN b ELSE latestDealBlock
      \/ ~done /\ UNCHANGED <<latestDealBlock, transInfos>>
  BY <1>1, <1>2, <1>5 DEF ReportTransferResultWithIndex
<1>7. /\ marked \in Seq(TransactionInfo) /\ DOMAIN marked = DOMAIN transInfos[b]
      /\ \A j \in DOMAIN marked : j # i => marked[j] = transInfos[b][j]
      /\ marked[i].isDeal
  <2>1. transInfos[b] \in Seq(TransactionInfo) /\ transInfos[b][i] \in TransactionInfo
    <3>1. transInfos[b] \in Seq(TransactionInfo)
      BY <1>2
    <3>2. i \in 1..Len(transInfos[b])
      BY <1>1, <3>1
    <3> QED
      BY <3>1, <3>2, ElementOfSeq
  <2>2. [transInfos[b][i] EXCEPT !.isDeal = TRUE] \in TransactionInfo
        /\ [transInfos[b][i] EXCEPT !.isDeal = TRUE].isDeal
    BY <2>1 DEF TransactionInfo
  <2> QED
    BY <1>1, <2>1, <2>2
<1> HIDE DEF marked
<1>8. /\ transInfos' \in [Block -> Seq(TransactionInfo)]
      /\ \A c \in Block \ {b} : transInfos'[c] = transInfos[c]
      /\ transInfos'[b] = IF done THEN marked ELSE transInfos[b]
  BY <1>2, <1>6, <1>7
<1>9. LatestHasPassed' /\ LatestBlockIsDealt' /\ latestDealBlock' \in Block
  <2>1. IsDealt(transInfos[b]) => IsDealt(transInfos'[b])
    BY <1>7, <1>8 DEF IsDealt
  <2>2. \/ latestDealBlock' = latestDealBlock
        \/ latestDealBlock' = b /\ IsDealt(transInfos'[b])
    BY <1>6
  <2> QED
    BY <1>1, <1>8, <2>1, <2>2, MarkingKeepsLatest
<1>10. QueueTypes'
  BY <1>1, <1>5, <1>8, <1>9, EarlyFacts DEF QueueInv, QueueTypes
<1>11. ReportersDistinct' /\ LowestIsLowest'
  BY <1>1, <1>4, <1>5 DEF QueueInv, ReportersDistinct, LowestIsLowest
<1>12. QuorumBehind'
  <2> SUFFICES ASSUME NEW c \in Block, NEW j \in DOMAIN transInfos'[c], transInfos'[c][j].isDeal
               PROVE  \/ c \in byRoot
                      \/ /\ lowestThreshold > 0
                         /\ \/ Cardinality(ToSet(voteInfos[c])) >= lowestThreshold
                            \/ /\ j \in 1..MaxSwaps
                               /\ Cardinality(ToSet(voteInfosWithIndex'[<<c, j>>])) >= lowestThreshold
    BY <1>1 DEF QuorumBehind
  <2>1. CASE c = b /\ j = i /\ done
    <3>1. payerThreshold[0] >= 1 /\ Cardinality(ToSet(list)) = payerThreshold[0]
      BY <1>4, <2>1
    <3>2. lowestThreshold > 0 /\ lowestThreshold <= payerThreshold[0]
      BY <1>2, <3>1 DEF QueueInv, LowestIsLowest
    <3> QED
      BY <1>2, <1>5, <2>1, <3>1, <3>2
  <2>2. CASE ~(c = b /\ j = i /\ done)
    <3>1. j \in DOMAIN transInfos[c] /\ transInfos[c][j].isDeal
      BY <1>7, <1>8, <2>2
    <3>2. \/ c \in byRoot
          \/ /\ lowestThreshold > 0
             /\ \/ Cardinality(ToSet(voteInfos[c])) >= lowestThreshold
                \/ /\ j \in 1..MaxSwaps
                   /\ Cardinality(ToSet(voteInfosWithIndex[<<c, j>>])) >= lowestThreshold
      BY <3>1 DEF QueueInv, QuorumBehind
    <3>3. j \in 1..MaxSwaps /\ Cardinality(ToSet(voteInfosWithIndex[<<c, j>>])) >= lowestThreshold =>
            Cardinality(ToSet(voteInfosWithIndex'[<<c, j>>])) >= lowestThreshold
      <4>1. CASE <<c, j>> = <<b, i>>
        BY <1>2, <1>4, <1>5, <4>1
      <4>2. CASE <<c, j>> # <<b, i>>
        <5>1. j \in 1..MaxSwaps => voteInfosWithIndex'[<<c, j>>] = voteInfosWithIndex[<<c, j>>]
          BY <1>5, <4>2
        <5> QED
          BY <5>1
      <4> QED
        BY <4>1, <4>2
    <3> QED
      BY <3>2, <3>3
  <2> QED
    BY <2>1, <2>2
<1> QED
  BY <1>9, <1>10, <1>11, <1>12 DEF QueueInv

LEMMA RootKeepsQueue ==
  ASSUME QueueInv, NEW b \in Block, SetLatestDealBlock(b)
  PROVE  QueueInv'
<1>1. /\ latestDealBlock' = b /\ early' = Early(b) /\ byRoot' = byRoot \cup {b}
      /\ transInfos' = [transInfos EXCEPT ![b] = AllDealt(@)]
      /\ UNCHANGED <<voteInfos, voteInfosWithIndex, signatures, deskNow, lowestThreshold, payerThreshold>>
  BY DEF SetLatestDealBlock, payerVars
<1>2. transInfos \in [Block -> Seq(TransactionInfo)]
  BY DEF QueueInv, QueueTypes
<1>3. /\ AllDealt(transInfos[b]) \in Seq(TransactionInfo)
      /\ DOMAIN AllDealt(transInfos[b]) = DOMAIN transInfos[b]
      /\ IsDealt(AllDealt(transInfos[b]))
  BY <1>2, AllDealtFacts
<1>4. /\ transInfos' \in [Block -> Seq(TransactionInfo)]
      /\ \A c \in Block \ {b} : transInfos'[c] = transInfos[c]
      /\ transInfos'[b] = AllDealt(transInfos[b])
  BY <1>1, <1>2, <1>3
<1>5. LatestHasPassed' /\ LatestBlockIsDealt' /\ latestDealBlock' \in Block
  BY <1>1, <1>3, <1>4, MarkingKeepsLatest
<1>6. QueueTypes'
  BY <1>1, <1>4, EarlyFacts DEF QueueInv, QueueTypes
<1>7. ReportersDistinct' /\ LowestIsLowest'
  BY <1>1 DEF QueueInv, ReportersDistinct, LowestIsLowest
<1>8. QuorumBehind'
  BY <1>1, <1>4 DEF QueueInv, QuorumBehind
<1> QED
  BY <1>5, <1>6, <1>7, <1>8 DEF QueueInv

(* The lower of two naturals.                                               *)
LEMMA MinOfTwo ==
  ASSUME NEW a \in Int, NEW b \in Int
  PROVE  Min({a, b}) = IF a <= b THEN a ELSE b
<1> DEFINE m == IF a <= b THEN a ELSE b
<1>1. m \in {a, b} /\ \A y \in {a, b} : m <= y
  OBVIOUS
<1>2. \A x \in {a, b} : (\A y \in {a, b} : x <= y) => x = m
  OBVIOUS
<1> QED
  BY <1>1, <1>2 DEF Min

(* The number of payers in a list of reports is a natural.                  *)
LEMMA ListCount ==
  ASSUME NEW s \in Seq(Payer), IsInjective(s)
  PROVE  Cardinality(ToSet(s)) \in Nat
<1>1. ToSet(s) = Range(s)
  BY DEF ToSet, Range
<1> QED
  BY <1>1, DistinctCount

(* A lower threshold lowers what is asked of the reports made before; a     *)
(* higher one does not forget it.                                           *)
LEMMA PayersKeepQueue ==
  ASSUME QueueInv, PP!IInv, PP!IInv', PayersNext
  PROVE  QueueInv'
<1>1. /\ UNCHANGED <<queueVars, signatures, deskNow>>
      /\ lowestThreshold' = IF payerThreshold'[0] = payerThreshold[0] THEN lowestThreshold
                            ELSE IF lowestThreshold = 0 THEN payerThreshold'[0]
                            ELSE Min({lowestThreshold, payerThreshold'[0]})
      /\ Registry!Next
  BY DEF PayersNext
<1>2. payerThreshold[0] \in Nat /\ payerThreshold'[0] \in Nat /\ lowestThreshold \in Nat
  BY DEF PP!IInv, PP!TypeOK, QueueInv, QueueTypes
<1>3. payerThreshold'[0] = payerThreshold[0] \/ payerThreshold'[0] > 0
  <2>1. payerThreshold \in [{0} -> Nat]
    BY DEF PP!IInv, PP!TypeOK
  <2> QED
    BY <1>1, <2>1 DEF Registry!Next, Registry!SetThreshold, Registry!AddRelayer, Registry!RemoveRelayer
<1>4. /\ lowestThreshold = 0 <=> payerThreshold[0] = 0
      /\ lowestThreshold <= payerThreshold[0]
  BY DEF QueueInv, LowestIsLowest
<1>5. Min({lowestThreshold, payerThreshold'[0]}) =
        IF lowestThreshold <= payerThreshold'[0] THEN lowestThreshold ELSE payerThreshold'[0]
  BY <1>2, MinOfTwo
<1>6. /\ lowestThreshold' \in Nat
      /\ lowestThreshold' = 0 <=> payerThreshold'[0] = 0
      /\ lowestThreshold' <= payerThreshold'[0]
      /\ lowestThreshold > 0 => lowestThreshold' > 0 /\ lowestThreshold' <= lowestThreshold
  BY <1>1, <1>2, <1>3, <1>4, <1>5
<1>7. QueueTypes' /\ ReportersDistinct' /\ LatestHasPassed' /\ LatestBlockIsDealt'
  BY <1>1, <1>6
  DEF QueueInv, QueueTypes, ReportersDistinct, LatestHasPassed, LatestBlockIsDealt, queueVars
<1>8. LowestIsLowest'
  BY <1>6 DEF LowestIsLowest
<1>9. QuorumBehind'
  <2> SUFFICES ASSUME NEW c \in Block, NEW i \in DOMAIN transInfos[c], transInfos[c][i].isDeal
               PROVE  \/ c \in byRoot
                      \/ /\ lowestThreshold' > 0
                         /\ \/ Cardinality(ToSet(voteInfos[c])) >= lowestThreshold'
                            \/ /\ i \in 1..MaxSwaps
                               /\ Cardinality(ToSet(voteInfosWithIndex[<<c, i>>])) >= lowestThreshold'
    BY <1>1 DEF QuorumBehind, queueVars
  <2>1. \/ c \in byRoot
        \/ /\ lowestThreshold > 0
           /\ \/ Cardinality(ToSet(voteInfos[c])) >= lowestThreshold
              \/ /\ i \in 1..MaxSwaps
                 /\ Cardinality(ToSet(voteInfosWithIndex[<<c, i>>])) >= lowestThreshold
    BY DEF QueueInv, QuorumBehind
  <2>2. Cardinality(ToSet(voteInfos[c])) \in Nat
    BY ListCount DEF QueueInv, QueueTypes, ReportersDistinct
  <2>3. i \in 1..MaxSwaps => Cardinality(ToSet(voteInfosWithIndex[<<c, i>>])) \in Nat
    BY ListCount DEF QueueInv, QueueTypes, ReportersDistinct
  <2> QED
    BY <1>2, <1>6, <2>1, <2>2, <2>3
<1> QED
  BY <1>7, <1>8, <1>9 DEF QueueInv

-----------------------------------------------------------------------------
RDexnInv == PP!IInv /\ MoneyTypes /\ ConfigType /\ QueueInv

LEMMA RDexnInitInv == RDexnInit => RDexnInv
  BY PayersInv, DeskInitTypes, QueueInit0 DEF RDexnInv

LEMMA RDexnNextInv == RDexnInv /\ [RDexnNext]_rdexnVars => RDexnInv'
<1> SUFFICES ASSUME RDexnInv, [RDexnNext]_rdexnVars PROVE RDexnInv'
  OBVIOUS
<1>1. PP!IInv /\ PP!IInv' /\ QueueInv /\ ConfigType /\ MoneyTypes' /\ ConfigType'
  BY PayersInv, MoneyStep DEF RDexnInv
<1>2. SUFFICES QueueInv'
  BY <1>1 DEF RDexnInv
<1>3. CASE Payers
  BY <1>1, <1>3, BlockReportKeepsQueue, IndexReportKeepsQueue DEF Payers
<1>4. CASE PayersNext
  BY <1>1, <1>4, PayersKeepQueue
<1>5. ASSUME NEW b \in Block, SetLatestDealBlock(b) PROVE QueueInv'
  BY <1>1, <1>5, RootKeepsQueue
<1>6. ASSUME NEW who \in Swapper, NEW amount \in RtokenIn, NEW rate \in RtokenRate,
             SwapRtokenForNativeToken(who, amount, rate)
      PROVE  QueueInv'
  BY <1>1, <1>6, SwapKeepsQueue
<1>7. ASSUME UNCHANGED <<queueVars, lowestThreshold, payerThreshold, signatures, deskNow>>
      PROVE  QueueInv'
  <2>1. /\ deskNow \in Block /\ deskNow >= deskNow
        /\ signatures \in [ProposalId -> Seq(Payer \X Signature)]
    BY <1>1 DEF QueueInv, QueueTypes, Block
  <2> QED
    BY <1>1, <1>7, <2>1, QueueIdle
<1>8. ASSUME NEW who \in Swapper, NEW receiver \in RDexnAccount, NEW amount \in RtokenIn,
             NEW rate \in RtokenRate, SwapRfisForFisToken(who, receiver, amount, rate)
      PROVE  QueueInv'
  BY <1>7, <1>8 DEF SwapRfisForFisToken, payerVars
<1>9. CASE DeskRoot
  BY <1>7, <1>9 DEF DeskRoot, ConfigureDesk, SetNativeTokenReserve, payerVars
<1>10. CASE UNCHANGED rdexnVars
  BY <1>7, <1>10 DEF rdexnVars, payerVars
<1>11. CASE NextDeskBlock
  <2>1. /\ deskNow' \in Block /\ deskNow' >= deskNow
        /\ signatures' \in [ProposalId -> Seq(Payer \X Signature)]
    BY <1>1, <1>11, RDexnAssumption DEF NextDeskBlock, QueueInv, QueueTypes, Block
  <2> QED
    BY <1>1, <1>11, <2>1, QueueIdle DEF NextDeskBlock, payerVars
<1>12. ASSUME NEW who \in Payer, NEW p \in ProposalId, NEW signature \in Signature,
              SubmitSignature(who, p, signature)
       PROVE  QueueInv'
  <2>1. /\ UNCHANGED <<queueVars, lowestThreshold, payerThreshold, deskNow>>
        /\ signatures' = [signatures EXCEPT ![p] = Append(@, <<who, signature>>)]
    BY <1>12 DEF SubmitSignature, payerVars
  <2>2. signatures \in [ProposalId -> Seq(Payer \X Signature)] /\ deskNow \in Block
        /\ deskNow >= deskNow
    BY <1>1 DEF QueueInv, QueueTypes, Block
  <2>3. signatures' \in [ProposalId -> Seq(Payer \X Signature)]
    BY <2>1, <2>2
  <2> QED
    BY <1>1, <2>1, <2>2, <2>3, QueueIdle
<1> QED
  BY <1>3, <1>4, <1>5, <1>6, <1>8, <1>9, <1>10, <1>11, <1>12 DEF RDexnNext, Swappers, Signers

(* rdexn's types: no balance, no reserve and no count goes below zero.      *)
THEOREM RDexnTypes == RDexnSpec => []RDexnTypeOK
<1>1. RDexnInv => RDexnTypeOK
  BY DEF RDexnInv, QueueInv, PP!IInv, PP!TypeOK, Registry!TypeOK, MoneyTypes, ConfigType,
     QueueTypes, RDexnTypeOK
<1> QED
  BY RDexnInitInv, RDexnNextInv, <1>1, PTL DEF RDexnSpec

(* A swap is dealt only if root said so or a quorum of different payers     *)
(* reported its block, or the swap itself, for any number of payers and any *)
(* order of reports and changes of the payers and their threshold           *)
(* (report_transfer_result_with_block, report_transfer_result_with_index).  *)
THEOREM DealtOnlyByQuorum == RDexnSpec => []DealtByQuorum
<1>1. RDexnInv => DealtByQuorum
  BY DEF RDexnInv, QueueInv, QuorumBehind, DealtByQuorum
<1> QED
  BY RDexnInitInv, RDexnNextInv, <1>1, PTL DEF RDexnSpec

(* LatestDealBlock is a block all of whose swaps are dealt, unless it was   *)
(* reported before it had passed: a swap is only queued under a block that  *)
(* has not passed (swap_rtoken_for_native_token).                           *)
THEOREM LatestDealt == RDexnSpec => []LatestBlockIsDealt
<1>1. RDexnInv => LatestBlockIsDealt
  BY DEF RDexnInv, QueueInv
<1> QED
  BY RDexnInitInv, RDexnNextInv, <1>1, PTL DEF RDexnSpec

-----------------------------------------------------------------------------
(* claims/rclaim.                                                           *)

(* A fold over a batch of mints ends with the last mint, and what comes     *)
(* before it is the fold over the others.                                   *)
GrantStep(mints, before, D, h) ==
  h = [s \in D |-> IF s = {} THEN before ELSE Grant(h[s \ {Max(s)}], mints[Max(s)])]

LEMMA GrantUnfold ==
  ASSUME NEW mints, NEW before
  PROVE  FoldLeft(Grant, before, mints) =
           (CHOOSE h : GrantStep(mints, before, SUBSET DOMAIN mints, h))[DOMAIN mints]
BY DEF FoldLeft, MapThenFoldSet, GrantStep

LEMMA GrantStepExists ==
  ASSUME NEW mints, NEW before, NEW n \in Nat
  PROVE  \E h : GrantStep(mints, before, SUBSET (1..n), h)
<1> DEFINE S == 1..n
           D(k) == {s \in SUBSET S : Cardinality(s) <= k}
           N == {k \in Nat : \E h : GrantStep(mints, before, D(k), h)}
<1>0. IsFiniteSet(S) /\ S \subseteq Int
  BY FS_Interval
<1> HIDE DEF S
<1>1. \A s \in SUBSET S : IsFiniteSet(s) /\ Cardinality(s) \in Nat
  BY <1>0, FS_Subset, FS_CardinalityType
<1>2. 0 \in N
  <2> DEFINE h == [s \in D(0) |-> before]
  <2>1. \A s \in D(0) : s = {}
    BY <1>1, FS_EmptySet
  <2>2. h = [s \in D(0) |-> IF s = {} THEN before ELSE Grant(h[s \ {Max(s)}], mints[Max(s)])]
    BY <2>1
  <2> QED
    BY <2>2 DEF GrantStep
<1>3. ASSUME NEW k \in N \cap Nat PROVE k + 1 \in N
  <2>1. PICK g : GrantStep(mints, before, D(k), g)
    OBVIOUS
  <2> DEFINE h == [s \in D(k + 1) |->
                     IF s = {} THEN before ELSE Grant(g[s \ {Max(s)}], mints[Max(s)])]
  <2>2. ASSUME NEW s \in D(k + 1), s # {}
        PROVE  s \ {Max(s)} \in D(k) /\ s \ {Max(s)} \in D(k + 1)
    <3>1. s \subseteq Int /\ IsFiniteSet(s)
      BY <1>0, <1>1
    <3>2. Max(s) \in s
      BY <2>2, <3>1, ExtremaExist DEF Max
    <3> QED
      BY <1>1, <3>2, FS_RemoveElement
  <2>3. \A s \in D(k) : s \in D(k + 1)
    BY <1>1
  <2> HIDE DEF D
  <2>4. \A s \in D(k) : h[s] = g[s]
    BY <2>1, <2>3 DEF GrantStep
  <2>5. h = [s \in D(k + 1) |-> IF s = {} THEN before ELSE Grant(h[s \ {Max(s)}], mints[Max(s)])]
    BY <2>2, <2>4
  <2>6. GrantStep(mints, before, D(k + 1), h)
    BY <2>5 DEF GrantStep
  <2> QED
    BY <2>6
<1>4. Cardinality(S) \in N
  <2> HIDE DEF N
  <2>1. Nat \subseteq N
    BY <1>2, <1>3, NatSetInduction
  <2> QED
    BY <1>1, <2>1
<1>5. D(Cardinality(S)) = SUBSET S
  BY <1>0, FS_Subset, FS_CardinalityType
<1> QED
  BY <1>4, <1>5 DEF S

(* What holds before a batch, and is kept by each of its mints, holds after *)
(* the batch (update_reth_claim_info).                                      *)
LEMMA GrantFold ==
  ASSUME NEW M, NEW mints \in Seq(M), NEW V, NEW before \in V,
         \A state \in V, mint \in M : Grant(state, mint) \in V
  PROVE  FoldLeft(Grant, before, mints) \in V
<1> DEFINE h == CHOOSE h : GrantStep(mints, before, SUBSET DOMAIN mints, h)
           n == Len(mints)
           K == {k \in Nat : k <= n => h[1..k] \in V}
<1>1. DOMAIN mints = 1..n /\ n \in Nat
  OBVIOUS
<1> HIDE DEF n
<1>2. GrantStep(mints, before, SUBSET (1..n), h)
  BY <1>1, GrantStepExists
<1> HIDE DEF h
<1>3. 0 \in K
  <2>1. 1..0 = {}
    OBVIOUS
  <2>2. {} \in SUBSET (1..n)
    OBVIOUS
  <2>3. h[{}] = before
    BY <1>2, <2>2 DEF GrantStep
  <2> QED
    BY <2>1, <2>3
<1>4. ASSUME NEW k \in K \cap Nat, k + 1 <= n PROVE h[1..(k + 1)] \in V
  <2>1. 1..(k + 1) \in SUBSET (1..n) /\ 1..(k + 1) # {}
    <3>1. \A x \in 1..(k + 1) : x \in 1..n
      BY <1>1, <1>4
    <3>2. k + 1 \in 1..(k + 1)
      OBVIOUS
    <3> QED
      BY <3>1, <3>2
  <2>2. Max(1..(k + 1)) = k + 1
    <3>1. k + 1 \in 1..(k + 1) /\ \A y \in 1..(k + 1) : k + 1 >= y
      OBVIOUS
    <3>2. \A x \in 1..(k + 1) : (\A y \in 1..(k + 1) : x >= y) => x = k + 1
      OBVIOUS
    <3> QED
      BY <3>1, <3>2 DEF Max
  <2>3. (1..(k + 1)) \ {k + 1} = 1..k
    OBVIOUS
  <2>4. h[1..(k + 1)] = Grant(h[1..k], mints[k + 1])
    BY <1>2, <2>1, <2>2, <2>3 DEF GrantStep
  <2>5. h[1..k] \in V
    BY <1>1, <1>4
  <2>6. mints[k + 1] \in M
    BY <1>1, <1>4, ElementOfSeq DEF n
  <2> QED
    BY <2>4, <2>5, <2>6
<1>5. n \in K
  <2>1. \A k \in K \cap Nat : k + 1 \in K
    BY <1>4
  <2> HIDE DEF K
  <2> QED
    BY <1>1, <1>3, <2>1, NatSetInduction
<1>6. FoldLeft(Grant, before, mints) = h[DOMAIN mints]
  BY GrantUnfold DEF h
<1>7. h[1..n] \in V
  BY <1>1, <1>5
<1> QED
  BY <1>1, <1>6, <1>7

\* A claim that is not ahead of a lock of the given length, at block now.
ClaimGood(lock, now) ==
  {info \in ClaimInfo :
     /\ info.claimed <= info.reward
     /\ info.mint <= info.latest /\ info.latest <= now
     /\ info.latest - info.mint < lock =>
          info.claimed * lock <= info.reward * (info.latest - info.mint)}

\* What a cycle's claims have been granted.
Total(claims) == SumFunction([who \in Minter |-> Rewards(claims[who])])

(* A list of claims has a natural number of rewards, and a new claim adds   *)
(* its own.                                                                 *)
LEMMA RewardsNat ==
  ASSUME NEW infos \in Seq(ClaimInfo)
  PROVE  Rewards(infos) \in Nat
<1> DEFINE f == [i \in DOMAIN infos |-> infos[i].reward]
<1>1. IsFiniteSet(DOMAIN infos)
  BY FS_Interval
<1>2. \A i \in DOMAIN infos : f[i] \in Nat
  <2>1. \A i \in DOMAIN infos : infos[i] \in ClaimInfo
    BY ElementOfSeq
  <2> QED
    BY <2>1 DEF ClaimInfo
<1>3. DOMAIN f = DOMAIN infos
  OBVIOUS
<1> HIDE DEF f
<1>4. SumFunction(f) \in Nat
  BY <1>1, <1>2, <1>3, SumNat, SumOfFunction
<1> QED
  BY <1>4 DEF Rewards, f

LEMMA RewardsAppend ==
  ASSUME NEW infos \in Seq(ClaimInfo), NEW info \in ClaimInfo
  PROVE  Rewards(Append(infos, info)) = Rewards(infos) + info.reward
<1> DEFINE n == Len(infos)
           f == [i \in DOMAIN infos |-> infos[i].reward]
           g == [i \in DOMAIN Append(infos, info) |-> Append(infos, info)[i].reward]
<1>1. /\ n \in Nat /\ DOMAIN infos = 1..n /\ DOMAIN Append(infos, info) = 1..(n + 1)
      /\ Append(infos, info)[n + 1] = info
      /\ \A i \in 1..n : Append(infos, info)[i] = infos[i] /\ infos[i] \in ClaimInfo
  BY ElementOfSeq
<1>2. DOMAIN f = 1..n /\ DOMAIN g = 1..(n + 1)
  BY <1>1
<1>3. g[n + 1] = info.reward /\ info.reward \in Int
      /\ \A i \in 1..n : g[i] = f[i] /\ f[i] \in Int
  BY <1>1 DEF ClaimInfo
<1>4. IsFiniteSet(1..(n + 1)) /\ IsFiniteSet(1..n)
  BY <1>1, FS_Interval
<1>5. (1..(n + 1)) \ {n + 1} = 1..n /\ n + 1 \in 1..(n + 1)
  BY <1>1
<1> HIDE DEF n, f, g
<1>6. \A i \in 1..(n + 1) : g[i] \in Int
  BY <1>1, <1>3
<1>7. SumFunctionOnSet(g, 1..(n + 1)) = g[n + 1] + SumFunctionOnSet(g, 1..n)
  <2>1. SumFunctionOnSet(g, 1..(n + 1)) =
          g[n + 1] + SumFunctionOnSet(g, (1..(n + 1)) \ {n + 1})
    BY <1>4, <1>5, <1>6, SumRemove
  <2> QED
    BY <1>5, <2>1
<1>8. SumFunctionOnSet(g, 1..n) = SumFunctionOnSet(f, 1..n) /\ SumFunctionOnSet(f, 1..n) \in Int
  BY <1>3, <1>4, SumSame, SumInt
<1>9. SumFunction(g) = SumFunction(f) + info.reward
  BY <1>2, <1>3, <1>7, <1>8, SumOfFunction
<1> QED
  BY <1>9 DEF Rewards, f, g

(* A grant is at most what is left of the budget.                           *)
LEMMA GrantedWithin ==
  ASSUME NEW act \in MintRewardAct, NEW value \in Nat
  PROVE  Granted(act, value) \in Nat /\ Granted(act, value) <= act.left
<1> DEFINE share == (value * act.terms.rate) \div ClaimRateBase
           due == Min({share, act.left})
<1>1. act.left \in Nat /\ act.terms.rate \in Nat /\ act.terms.limit \in Nat
  BY RClaimAssumption DEF MintRewardAct, ActTerms
<1>2. share \in Nat
  <2>1. value * act.terms.rate \in Nat /\ ClaimRateBase \in Nat \ {0}
    BY <1>1, RClaimAssumption
  <2> QED
    BY <2>1, DivFloor
<1> HIDE DEF share
<1>3. due \in Nat /\ due <= act.left
  BY <1>1, <1>2, MinOfTwo
<1> HIDE DEF due
<1>4. Min({due, act.terms.limit}) = IF due <= act.terms.limit THEN due ELSE act.terms.limit
  BY <1>1, <1>3, MinOfTwo
<1>5. Granted(act, value) = IF act.terms.limit > 0 THEN Min({due, act.terms.limit}) ELSE due
  BY DEF Granted, due, share
<1> QED
  BY <1>1, <1>3, <1>4, <1>5

\* The states a batch of mints goes through: the act's terms stay, and what
\* is granted and what is left add up to the same budget.
GrantStates(terms, lock, budget) ==
  {state \in [act : MintRewardAct, claims : [Minter -> Seq(ClaimGood(lock, claimNow))]] :
     state.act.terms = terms /\ Total(state.claims) + state.act.left = budget}

\* A mint of any value.
AnyMint == [who : Minter, value : Nat]

(* A mint keeps the act's terms and moves its grant from what is left to    *)
(* what is granted.                                                         *)
LEMMA GrantKeeps ==
  ASSUME NEW terms, NEW lock \in Nat, NEW budget \in Int, claimNow \in Nat,
         NEW state \in GrantStates(terms, lock, budget), NEW mint \in AnyMint
  PROVE  Grant(state, mint) \in GrantStates(terms, lock, budget)
<1> DEFINE Good == ClaimGood(lock, claimNow)
           reward == Granted(state.act, mint.value)
           new == [reward |-> reward, claimed |-> 0, latest |-> claimNow, mint |-> claimNow]
           left == state.act.left
           act == [state.act EXCEPT !.left = left - reward]
           old == state.claims
           claims == [old EXCEPT ![mint.who] = Append(@, new)]
<1>1. /\ state.act \in MintRewardAct /\ old \in [Minter -> Seq(Good)]
      /\ state.act.terms = terms /\ Total(old) + left = budget
      /\ mint.who \in Minter /\ mint.value \in Nat /\ left \in Nat
  BY DEF GrantStates, AnyMint, MintRewardAct
<1>2. CASE left = 0
  BY <1>2 DEF Grant
<1>3. CASE left # 0
  <2>1. reward \in Nat /\ reward <= left
    BY <1>1, GrantedWithin
  <2>2. Grant(state, mint) = [act |-> act, claims |-> claims]
    BY <1>1, <1>3, <2>1 DEF Grant
  <2> HIDE DEF reward
  <2>3. act \in MintRewardAct /\ act.terms = terms /\ act.left = left - reward
    BY <1>1, <2>1 DEF MintRewardAct
  <2>4. new \in Good /\ Good \subseteq ClaimInfo /\ new.reward = reward
    <3>1. new \in ClaimInfo
      BY <2>1 DEF ClaimInfo
    <3>2. 0 * lock <= reward * (claimNow - claimNow)
      BY <2>1
    <3> QED
      BY <2>1, <3>1, <3>2 DEF ClaimGood
  <2> HIDE DEF new, act, Good
  <2>5. claims \in [Minter -> Seq(Good)]
    BY <1>1, <2>4
  <2>6. Total(claims) = Total(old) + reward
    <3> DEFINE f == [who \in Minter |-> Rewards(old[who])]
               g == [who \in Minter |-> Rewards(claims[who])]
    <3>1. \A who \in Minter : old[who] \in Seq(ClaimInfo) /\ claims[who] \in Seq(ClaimInfo)
      BY <1>1, <2>4, <2>5, SeqMonotonic
    <3>2. \A who \in Minter : f[who] \in Int /\ g[who] \in Int
      <4> SUFFICES ASSUME NEW who \in Minter PROVE f[who] \in Nat /\ g[who] \in Nat
        OBVIOUS
      <4>1. Rewards(old[who]) \in Nat /\ Rewards(claims[who]) \in Nat
        BY <3>1, RewardsNat
      <4> QED
        BY <4>1
    <3>3. g[mint.who] = f[mint.who] + reward
      <4>1. claims[mint.who] = Append(old[mint.who], new)
        BY <1>1
      <4> QED
        BY <1>1, <2>4, <3>1, <4>1, RewardsAppend
    <3>4. \A who \in Minter \ {mint.who} : g[who] = f[who]
      BY <1>1
    <3>5. DOMAIN f = Minter /\ DOMAIN g = Minter
      OBVIOUS
    <3> HIDE DEF f, g
    <3>6. SumFunctionOnSet(g, Minter) = SumFunctionOnSet(f, Minter) - f[mint.who] + g[mint.who]
      <4>1. IsFiniteSet(Minter)
        BY RClaimAssumption
      <4>2. PICK w \in Minter : w = mint.who
        BY <1>1
      <4>3. \A who \in Minter \ {w} : g[who] = f[who]
        BY <3>4, <4>2
      <4>4. SumFunctionOnSet(g, Minter) = SumFunctionOnSet(f, Minter) - f[w] + g[w]
        BY <3>2, <4>1, <4>3, SumChange
      <4> QED
        BY <4>2, <4>4
    <3>7. SumFunctionOnSet(f, Minter) \in Int
      BY <3>2, RClaimAssumption, SumInt
    <3>8. SumFunction(g) = SumFunction(f) + reward
      BY <1>1, <2>1, <3>2, <3>3, <3>5, <3>6, <3>7, SumOfFunction
    <3> QED
      BY <3>8 DEF Total, f, g
  <2>7. Total(old) \in Int
    <3> DEFINE f == [who \in Minter |-> Rewards(old[who])]
    <3>1. \A who \in Minter : f[who] \in Int
      BY <1>1, <2>4, SeqMonotonic, RewardsNat
    <3>2. DOMAIN f = Minter
      OBVIOUS
    <3> HIDE DEF f
    <3>3. SumFunction(f) \in Int
      BY <3>1, <3>2, RClaimAssumption, SumInt, SumOfFunction
    <3> QED
      BY <3>3 DEF Total, f
  <2>8. Total(claims) + act.left = budget
    BY <1>1, <2>1, <2>3, <2>6, <2>7
  <2> HIDE DEF claims
  <2> QED
    BY <2>2, <2>3, <2>5, <2>8 DEF GrantStates, Good
<1> QED
  BY <1>2, <1>3

(* One claim keeps to the schedule of the shortest lock.  With R the reward *)
(* and C what is claimed, p blocks passed at the latest claim and q now, L  *)
(* the shortest lock and D the present one, the claim pays at most the      *)
(* share (q - p) / (L - p) of what is left.                                 *)
LEMMA ClaimOnSchedule ==
  ASSUME NEW R \in Nat, NEW C \in Nat, NEW p \in Nat, NEW q \in Nat, NEW L \in Nat,
         NEW D \in Nat, C <= R, p <= q, q < L, L <= D, C * L <= R * p
  PROVE  (C + (((R - C) * (q - p)) \div (D - p))) * L <= R * q
<1> DEFINE x == (R - C) * (q - p)
           a == x \div (D - p)
<1>1. R - C \in Nat /\ q - p \in Nat /\ L - p \in Nat \ {0} /\ D - p \in Nat \ {0}
      /\ L - q \in Nat /\ L - p <= D - p
  OBVIOUS
<1>2. x \in Nat
  BY <1>1
<1>3. a \in Nat /\ a * (D - p) <= x
  <2> HIDE DEF x
  <2> QED
    BY <1>1, <1>2, DivFloor
<1>4. a * (L - p) <= x
  <2> HIDE DEF a, x
  <2>1. (L - p) * a <= (D - p) * a
    BY <1>1, <1>3, MulMono
  <2>2. (L - p) * a = a * (L - p) /\ (D - p) * a = a * (D - p)
    BY <1>1, <1>3
  <2>3. a * (L - p) \in Int /\ a * (D - p) \in Int
    BY <1>1, <1>3
  <2> QED
    BY <1>2, <1>3, <2>1, <2>2, <2>3
<1> HIDE DEF a
<1>5. (a * (L - p)) * L <= x * L
  <2>1. a * (L - p) \in Nat
    BY <1>1, <1>3
  <2> HIDE DEF x
  <2> QED
    BY <1>2, <1>4, <2>1, MulMono
<1>6. (C * L) * (L - q) <= (R * p) * (L - q)
  <2>1. C * L \in Nat /\ R * p \in Nat
    OBVIOUS
  <2> QED
    BY <1>1, <2>1, MulMono
<1>7. ((C + a) * L) * (L - p) = (C * L) * (L - p) + (a * (L - p)) * L
  BY <1>3
<1>8. (C * L) * (L - p) + x * L = (C * L) * (L - q) + (L * R) * (q - p)
  OBVIOUS
<1>9. (R * p) * (L - q) + (L * R) * (q - p) = (R * q) * (L - p)
  OBVIOUS
<1>10. /\ (C * L) * (L - p) \in Int /\ (a * (L - p)) * L \in Int /\ x * L \in Int
       /\ (C * L) * (L - q) \in Int /\ (L * R) * (q - p) \in Int /\ (R * p) * (L - q) \in Int
       /\ ((C + a) * L) * (L - p) \in Int /\ (R * q) * (L - p) \in Int
  BY <1>2, <1>3
<1>11. ((C + a) * L) * (L - p) <= (R * q) * (L - p)
  BY <1>5, <1>6, <1>7, <1>8, <1>9, <1>10
<1>12. (C + a) * L \in Nat /\ R * q \in Nat
  BY <1>3
<1>13. \A u \in Nat, v \in Nat, w \in Nat \ {0} : u * w <= v * w => u <= v
  <2> SUFFICES ASSUME NEW u \in Nat, NEW v \in Nat, NEW w \in Nat \ {0}, v + 1 <= u
               PROVE  ~(u * w <= v * w)
    OBVIOUS
  <2>1. (v + 1) * w <= u * w
    BY MulMono
  <2>2. (v + 1) * w = v * w + w /\ v * w \in Nat /\ u * w \in Nat
    OBVIOUS
  <2> QED
    BY <2>1, <2>2
<1> QED
  BY <1>1, <1>11, <1>12, <1>13 DEF a

(* After a claim the record is still good for the shortest lock, however    *)
(* root changed the act's lock (claim_rtoken_reward).                       *)
LEMMA ClaimKeepsGood ==
  ASSUME NEW lock \in Nat, NEW locked \in Nat, lock <= locked, claimNow \in Nat,
         NEW info \in ClaimGood(lock, claimNow)
  PROVE  /\ ShouldClaim(info, locked) \in Nat
         /\ AfterClaim(info, ShouldClaim(info, locked)) \in ClaimGood(lock, claimNow)
         /\ AfterClaim(info, ShouldClaim(info, locked)).reward = info.reward
<1> DEFINE R == info.reward
           C == info.claimed
           p == info.latest - info.mint
           q == claimNow - info.mint
           left == R - C
           part == (left * (q - p)) \div (locked - p)
           amount == ShouldClaim(info, locked)
           after == AfterClaim(info, amount)
<1>1. /\ info \in ClaimInfo /\ R \in Nat /\ C \in Nat /\ info.latest \in Nat /\ info.mint \in Nat
      /\ C <= R /\ info.mint <= info.latest /\ info.latest <= claimNow
      /\ p < lock => C * lock <= R * p
  BY DEF ClaimGood, ClaimInfo
<1>2. p \in Nat /\ q \in Nat /\ p <= q /\ left \in Nat
  BY <1>1
<1>3. /\ claimNow < info.mint + locked <=> q < locked
      /\ claimNow - info.latest = q - p
      /\ (info.mint + locked) - info.latest = locked - p
  BY <1>1
<1> HIDE DEF p, q
<1>4. amount = IF q < locked THEN part ELSE left
  <2>1. amount = IF claimNow < info.mint + locked
                   THEN (left * (claimNow - info.latest)) \div ((info.mint + locked) - info.latest)
                   ELSE left
    BY DEF ShouldClaim
  <2> HIDE DEF left, amount
  <2> QED
    BY <1>3, <2>1
<1>5. q < locked => part \in Nat /\ part <= left
  <2> SUFFICES ASSUME q < locked PROVE part \in Nat /\ part <= left
    OBVIOUS
  <2>1. q - p \in Nat /\ locked - p \in Nat \ {0} /\ q - p <= locked - p
    BY <1>2
  <2> HIDE DEF left
  <2>2. left * (q - p) \in Nat
    BY <1>2, <2>1
  <2>3. (q - p) * left <= (locked - p) * left
    BY <1>2, <2>1, MulMono
  <2>4. left * (q - p) <= left * (locked - p)
    BY <1>2, <2>1, <2>3
  <2> QED
    BY <1>2, <2>1, <2>2, <2>4, DivFloor, DivAtMost
<1>6. amount \in Nat /\ amount <= left
  <2> HIDE DEF amount, part, left
  <2> QED
    BY <1>2, <1>4, <1>5
<1>7. q < lock => (C + amount) * lock <= R * q
  <2> SUFFICES ASSUME q < lock PROVE (C + amount) * lock <= R * q
    OBVIOUS
  <2>1. amount = part
    BY <1>2, <1>4
  <2>2. C * lock <= R * p
    BY <1>1, <1>2
  <2> HIDE DEF amount
  <2>3. (C + part) * lock <= R * q
    BY <1>1, <1>2, <2>2, ClaimOnSchedule
  <2> QED
    BY <2>1, <2>3
<1> HIDE DEF amount
<1>8. /\ after.reward = R /\ after.claimed = C + amount /\ after.latest = claimNow
      /\ after.mint = info.mint /\ after \in ClaimInfo
  <2>1. C + amount \in Nat
    BY <1>1, <1>6
  <2> QED
    BY <1>1, <2>1 DEF AfterClaim, ClaimInfo
<1> HIDE DEF after
<1>9. after \in ClaimGood(lock, claimNow)
  <2>1. C + amount <= R
    BY <1>1, <1>2, <1>6
  <2>2. after.latest - after.mint = q /\ after.mint <= after.latest
    BY <1>1, <1>8 DEF q
  <2> QED
    BY <1>1, <1>7, <1>8, <2>1, <2>2 DEF ClaimGood
<1> QED
  BY <1>6, <1>8, <1>9 DEF amount, after

ActTypes ==
  /\ acts \in [Series -> Seq(MintRewardAct)]
  /\ currentCycle \in [Series -> Nat]
  /\ shortestLock \in [Series -> Seq(Nat)]
  /\ overcut \subseteq Series \X Cycle

PayTypes ==
  /\ rethRewarder \in {Rewarder, Missing} /\ fundAddress \in {FundAccount, Missing}
  /\ claimNative \in [Holders -> Nat] /\ claimNow \in Nat

\* The current cycle is an act, and the shortest lock is at most its lock.
ActsAligned ==
  \A s \in Series :
    /\ Len(acts[s]) <= MaxActs /\ currentCycle[s] <= Len(acts[s])
    /\ Len(shortestLock[s]) = Len(acts[s])
    /\ \A c \in DOMAIN acts[s] : shortestLock[s][c] <= acts[s][c].terms.locked

\* Mints count in acts that exist, and no claim is ahead of the shortest lock.
ClaimsGood ==
  /\ claimInfos \in [Series \X Minter \X Cycle -> Seq(ClaimInfo)]
  /\ \A s \in Series, who \in Minter, c \in Cycle :
       IF c <= Len(acts[s])
         THEN claimInfos[<<s, who, c>>] \in Seq(ClaimGood(shortestLock[s][c], claimNow))
         ELSE claimInfos[<<s, who, c>>] = << >>

RClaimInv == ActTypes /\ PayTypes /\ ActsAligned /\ ClaimsGood /\ ActBudget

LEMMA RClaimInitInv == RClaimInit => RClaimInv
<1> SUFFICES ASSUME RClaimInit PROVE RClaimInv
  OBVIOUS
<1>1. ActTypes /\ PayTypes
  BY RClaimAssumption DEF RClaimInit, ActTypes, PayTypes
<1>2. \A s \in Series : acts[s] = << >> /\ shortestLock[s] = << >> /\ currentCycle[s] = 0
  BY DEF RClaimInit
<1>3. ActsAligned
  BY <1>2, RClaimAssumption DEF ActsAligned
<1>4. ClaimsGood
  <2>1. \A s \in Series, who \in Minter, c \in Cycle : claimInfos[<<s, who, c>>] = << >>
    BY DEF RClaimInit
  <2> QED
    BY <2>1 DEF RClaimInit, ClaimsGood
<1>5. ActBudget
  BY <1>2 DEF ActBudget
<1> QED
  BY <1>1, <1>3, <1>4, <1>5 DEF RClaimInv

(* A good claim stays good as time passes and as the shortest lock falls.   *)
LEMMA GoodMonotonic ==
  ASSUME NEW l1 \in Nat, NEW l2 \in Nat, NEW n1 \in Nat, NEW n2 \in Nat, l2 <= l1, n1 <= n2
  PROVE  ClaimGood(l1, n1) \subseteq ClaimGood(l2, n2)
<1> SUFFICES ASSUME NEW info \in ClaimGood(l1, n1) PROVE info \in ClaimGood(l2, n2)
  OBVIOUS
<1>1. /\ info \in ClaimInfo /\ info.claimed \in Nat /\ info.reward \in Nat
      /\ info.latest \in Nat /\ info.mint \in Nat
      /\ info.claimed <= info.reward /\ info.mint <= info.latest /\ info.latest <= n1
      /\ info.latest - info.mint < l1 =>
           info.claimed * l1 <= info.reward * (info.latest - info.mint)
  BY DEF ClaimGood, ClaimInfo
<1>2. info.claimed * l2 <= info.claimed * l1
  <2>1. l2 * info.claimed <= l1 * info.claimed
    BY <1>1, MulMono
  <2> QED
    BY <1>1, <2>1
<1>3. /\ info.claimed * l2 \in Int /\ info.claimed * l1 \in Int
      /\ info.reward * (info.latest - info.mint) \in Int
  BY <1>1
<1>4. info.latest - info.mint < l2 => info.claimed * l2 <= info.reward * (info.latest - info.mint)
  BY <1>1, <1>2, <1>3
<1> QED
  BY <1>1, <1>4 DEF ClaimGood

(* A cycle's rewards add up to a natural.                                   *)
LEMMA TotalNat ==
  ASSUME NEW claims \in [Minter -> Seq(ClaimInfo)]
  PROVE  Total(claims) \in Nat
<1> DEFINE f == [who \in Minter |-> Rewards(claims[who])]
<1>1. \A who \in Minter : f[who] \in Nat
  <2> SUFFICES ASSUME NEW who \in Minter PROVE Rewards(claims[who]) \in Nat
    OBVIOUS
  <2> QED
    BY RewardsNat
<1>2. DOMAIN f = Minter /\ IsFiniteSet(Minter)
  BY RClaimAssumption
<1> HIDE DEF f
<1>3. SumFunction(f) \in Nat
  BY <1>1, <1>2, SumNat, SumOfFunction
<1> QED
  BY <1>3 DEF Total, f

\* The claims of one cycle.
ClaimsOf(s, c) == [who \in Minter |-> claimInfos[<<s, who, c>>]]

LEMMA RewardsOfTotal ==
  ASSUME NEW s, NEW c
  PROVE  RewardsOf(s, c) = Total(ClaimsOf(s, c))
<1>1. [who \in Minter |-> Rewards(claimInfos[<<s, who, c>>])] =
        [who \in Minter |-> Rewards(ClaimsOf(s, c)[who])]
  BY DEF ClaimsOf
<1> QED
  BY <1>1 DEF RewardsOf, Total

LEMMA AddActKeeps ==
  ASSUME RClaimInv, NEW s \in Series, NEW terms \in ActTerms, AddRewardAct(s, terms)
  PROVE  RClaimInv'
<1> DEFINE n == Len(acts[s])
           act == [terms |-> terms, left |-> terms.total]
<1>1. /\ n < MaxActs
      /\ acts' = [acts EXCEPT ![s] = Append(@, act)]
      /\ shortestLock' = [shortestLock EXCEPT ![s] = Append(@, terms.locked)]
      /\ UNCHANGED <<currentCycle, claimInfos, rethRewarder, fundAddress, claimNative, claimNow,
                     overcut>>
  BY DEF AddRewardAct
<1>2. /\ acts \in [Series -> Seq(MintRewardAct)] /\ shortestLock \in [Series -> Seq(Nat)]
      /\ n \in Nat /\ Len(shortestLock[s]) = n /\ MaxActs \in Nat
  BY RClaimAssumption DEF RClaimInv, ActTypes, ActsAligned
<1>3. terms.locked \in Nat /\ terms.total \in Nat /\ act \in MintRewardAct
  BY RClaimAssumption DEF ActTerms, MintRewardAct
<1> HIDE DEF act
<1>4. /\ acts' \in [Series -> Seq(MintRewardAct)] /\ shortestLock' \in [Series -> Seq(Nat)]
      /\ \A t \in Series \ {s} : acts'[t] = acts[t] /\ shortestLock'[t] = shortestLock[t]
      /\ acts'[s] = Append(acts[s], act) /\ shortestLock'[s] = Append(shortestLock[s], terms.locked)
  BY <1>1, <1>2, <1>3
<1>5. /\ Len(acts'[s]) = n + 1 /\ Len(shortestLock'[s]) = n + 1
      /\ DOMAIN acts'[s] = 1..(n + 1) /\ DOMAIN acts[s] = 1..n
      /\ acts'[s][n + 1] = act /\ shortestLock'[s][n + 1] = terms.locked
      /\ \A c \in 1..n : acts'[s][c] = acts[s][c] /\ shortestLock'[s][c] = shortestLock[s][c]
  BY <1>2, <1>3, <1>4
<1>6. ActTypes' /\ PayTypes'
  BY <1>1, <1>4 DEF RClaimInv, ActTypes, PayTypes
<1>7. ActsAligned'
  <2> SUFFICES ASSUME NEW t \in Series
               PROVE  /\ Len(acts'[t]) <= MaxActs /\ currentCycle[t] <= Len(acts'[t])
                      /\ Len(shortestLock'[t]) = Len(acts'[t])
                      /\ \A c \in DOMAIN acts'[t] : shortestLock'[t][c] <= acts'[t][c].terms.locked
    BY <1>1 DEF ActsAligned
  <2>1. CASE t # s
    BY <1>4, <2>1 DEF RClaimInv, ActsAligned
  <2>2. CASE t = s
    <3>1. /\ currentCycle[s] <= n /\ currentCycle[s] \in Nat
          /\ \A c \in 1..n : shortestLock[s][c] <= acts[s][c].terms.locked
      BY <1>5 DEF RClaimInv, ActsAligned, ActTypes
    <3>2. act.terms.locked = terms.locked
      BY DEF act
    <3>3. \A c \in 1..(n + 1) : shortestLock'[s][c] <= acts'[s][c].terms.locked
      <4> SUFFICES ASSUME NEW c \in 1..(n + 1)
                   PROVE  shortestLock'[s][c] <= acts'[s][c].terms.locked
        OBVIOUS
      <4>1. CASE c \in 1..n
        BY <1>5, <3>1, <4>1
      <4>2. CASE c = n + 1
        BY <1>3, <1>5, <3>2, <4>2
      <4> QED
        BY <1>2, <4>1, <4>2
    <3> QED
      BY <1>1, <1>2, <1>5, <2>2, <3>1, <3>3
  <2> QED
    BY <2>1, <2>2
<1>8. ASSUME NEW who \in Minter, n + 1 \in Cycle PROVE claimInfos[<<s, who, n + 1>>] = << >>
  BY <1>2, <1>8 DEF RClaimInv, ClaimsGood
<1>9. ClaimsGood'
  <2> SUFFICES ASSUME NEW t \in Series, NEW who \in Minter, NEW c \in Cycle
               PROVE  IF c <= Len(acts'[t])
                        THEN claimInfos[<<t, who, c>>] \in Seq(ClaimGood(shortestLock'[t][c], claimNow))
                        ELSE claimInfos[<<t, who, c>>] = << >>
    BY <1>1 DEF RClaimInv, ClaimsGood
  <2>1. IF c <= Len(acts[t])
          THEN claimInfos[<<t, who, c>>] \in Seq(ClaimGood(shortestLock[t][c], claimNow))
          ELSE claimInfos[<<t, who, c>>] = << >>
    BY DEF RClaimInv, ClaimsGood
  <2>2. CASE t # s
    BY <1>4, <2>1, <2>2
  <2>3. CASE t = s
    <3>1. CASE c <= n
      <4>1. c \in 1..n /\ c <= n + 1
        BY <1>2, <3>1 DEF Cycle
      <4> QED
        BY <1>5, <2>1, <2>3, <3>1, <4>1
    <3>2. CASE ~(c <= n)
      <4>1. claimInfos[<<t, who, c>>] = << >>
        BY <2>1, <2>3, <3>2
      <4>2. << >> \in Seq(ClaimGood(shortestLock'[t][c], claimNow))
        BY EmptySeq
      <4> QED
        BY <4>1, <4>2
    <3> QED
      BY <3>1, <3>2
  <2> QED
    BY <2>2, <2>3
<1>10. ActBudget'
  <2> SUFFICES ASSUME NEW t \in Series, NEW c \in DOMAIN acts'[t], <<t, c>> \notin overcut
               PROVE  RewardsOf(t, c) + acts'[t][c].left = acts'[t][c].terms.total
    BY <1>1 DEF ActBudget, RewardsOf
  <2>1. c \in DOMAIN acts[t] => RewardsOf(t, c) + acts[t][c].left = acts[t][c].terms.total
    BY DEF RClaimInv, ActBudget
  <2>2. CASE t # s
    BY <1>4, <2>1, <2>2
  <2>3. CASE t = s /\ c \in 1..n
    BY <1>5, <2>1, <2>3
  <2>4. CASE t = s /\ c = n + 1
    <3>1. n + 1 \in Cycle
      BY <1>1, <1>2 DEF Cycle
    <3>2. \A who \in Minter : Rewards(claimInfos[<<s, who, c>>]) = 0
      <4>1. Rewards(<< >>) = 0
        BY SumEmpty DEF Rewards, SumFunction
      <4> QED
        BY <1>8, <2>4, <3>1, <4>1
    <3>3. RewardsOf(s, c) = 0
      <4> DEFINE f == [who \in Minter |-> Rewards(claimInfos[<<s, who, c>>])]
      <4>1. \A who \in Minter : f[who] = 0
        BY <3>2
      <4>2. DOMAIN f = Minter /\ IsFiniteSet(Minter)
        BY RClaimAssumption
      <4> HIDE DEF f
      <4>3. SumFunction(f) = 0
        BY <4>1, <4>2, SumZero, SumOfFunction
      <4> QED
        BY <4>3 DEF RewardsOf, f
    <3> QED
      BY <1>3, <1>5, <2>4, <3>3 DEF act
  <2> QED
    BY <1>2, <1>5, <2>2, <2>3, <2>4
<1> QED
  BY <1>6, <1>7, <1>9, <1>10 DEF RClaimInv

(* Replacing one item of one of several lists changes nothing else.         *)
LEMMA ListItem ==
  ASSUME NEW K, NEW S, NEW f \in [K -> Seq(S)], NEW k \in K, NEW c \in DOMAIN f[k], NEW x \in S
  PROVE  LET g == [f EXCEPT ![k][c] = x] IN
         /\ g \in [K -> Seq(S)]
         /\ \A j \in K : Len(g[j]) = Len(f[j]) /\ DOMAIN g[j] = DOMAIN f[j]
         /\ g[k][c] = x
         /\ \A j \in K : j # k => g[j] = f[j]
         /\ \A d \in DOMAIN f[k] : d # c => g[k][d] = f[k][d]
<1> DEFINE list == [f[k] EXCEPT ![c] = x]
           g == [f EXCEPT ![k] = list]
<1>0. g = [f EXCEPT ![k][c] = x]
  OBVIOUS
<1>1. f[k] \in Seq(S) /\ Len(f[k]) \in Nat /\ DOMAIN f[k] = 1..Len(f[k])
  OBVIOUS
<1>2. list \in Seq(S) /\ Len(list) = Len(f[k]) /\ DOMAIN list = DOMAIN f[k]
      /\ list[c] = x /\ \A d \in DOMAIN f[k] : d # c => list[d] = f[k][d]
  BY <1>1
<1> HIDE DEF list
<1>3. g \in [K -> Seq(S)] /\ g[k] = list /\ \A j \in K : j # k => g[j] = f[j]
  BY <1>2
<1> HIDE DEF g
<1>4. \A j \in K : Len(g[j]) = Len(f[j]) /\ DOMAIN g[j] = DOMAIN f[j]
  BY <1>2, <1>3
<1> QED
  BY <1>0, <1>2, <1>3, <1>4

LEMMA UpdateActKeeps ==
  ASSUME RClaimInv, NEW s \in Series, NEW cycle \in Cycle, NEW terms \in ActTerms,
         UpdateRewardAct(s, cycle, terms)
  PROVE  RClaimInv'
<1> DEFINE old == acts[s][cycle]
           act == [terms |-> terms, left |-> LeftAfter(old, terms.total)]
           lock == Min({shortestLock[s][cycle], terms.locked})
<1>1. /\ cycle \in DOMAIN acts[s]
      /\ acts' = [acts EXCEPT ![s][cycle] = act]
      /\ overcut' = IF old.left + terms.total < old.terms.total
                      THEN overcut \cup {<<s, cycle>>} ELSE overcut
      /\ shortestLock' = [shortestLock EXCEPT ![s][cycle] = Min({@, terms.locked})]
      /\ UNCHANGED <<currentCycle, claimInfos, rethRewarder, fundAddress, claimNative, claimNow>>
  BY DEF UpdateRewardAct
<1>2. /\ acts \in [Series -> Seq(MintRewardAct)] /\ shortestLock \in [Series -> Seq(Nat)]
      /\ DOMAIN shortestLock[s] = DOMAIN acts[s]
  <2>1. /\ acts \in [Series -> Seq(MintRewardAct)] /\ shortestLock \in [Series -> Seq(Nat)]
        /\ Len(shortestLock[s]) = Len(acts[s])
    BY DEF RClaimInv, ActTypes, ActsAligned
  <2> QED
    BY <2>1
<1>3. /\ old \in MintRewardAct /\ old.left \in Nat /\ old.terms.total \in Nat
      /\ terms.total \in Nat /\ terms.locked \in Nat /\ shortestLock[s][cycle] \in Nat
  <2>1. old \in MintRewardAct /\ shortestLock[s][cycle] \in Nat
    BY <1>1, <1>2, ElementOfSeq
  <2> QED
    BY <2>1, RClaimAssumption DEF MintRewardAct, ActTerms
<1>4. act \in MintRewardAct /\ act.terms = terms
      /\ act.left = IF old.left + terms.total < old.terms.total THEN 0
                    ELSE (old.left + terms.total) - old.terms.total
  BY <1>3 DEF LeftAfter, MintRewardAct
<1>5. lock \in Nat /\ lock <= terms.locked /\ lock <= shortestLock[s][cycle]
  <2>1. lock = IF shortestLock[s][cycle] <= terms.locked THEN shortestLock[s][cycle]
               ELSE terms.locked
    <3> HIDE DEF lock
    <3>1. PICK a \in Int, b \in Int : a = shortestLock[s][cycle] /\ b = terms.locked
      BY <1>3
    <3>2. Min({a, b}) = IF a <= b THEN a ELSE b
      BY MinOfTwo
    <3> QED
      BY <3>1, <3>2 DEF lock
  <2> HIDE DEF lock
  <2> QED
    BY <1>3, <2>1
<1> HIDE DEF act
<1>6. /\ acts' \in [Series -> Seq(MintRewardAct)] /\ acts'[s][cycle] = act
      /\ \A t \in Series : Len(acts'[t]) = Len(acts[t]) /\ DOMAIN acts'[t] = DOMAIN acts[t]
      /\ \A t \in Series : t # s => acts'[t] = acts[t]
      /\ \A c \in DOMAIN acts[s] : c # cycle => acts'[s][c] = acts[s][c]
  BY <1>1, <1>2, <1>4, ListItem
<1>7. /\ shortestLock' \in [Series -> Seq(Nat)] /\ shortestLock'[s][cycle] = lock
      /\ \A t \in Series : Len(shortestLock'[t]) = Len(shortestLock[t])
      /\ \A t \in Series : t # s => shortestLock'[t] = shortestLock[t]
      /\ \A c \in DOMAIN acts[s] : c # cycle => shortestLock'[s][c] = shortestLock[s][c]
  <2>1. shortestLock' = [shortestLock EXCEPT ![s][cycle] = lock]
    BY <1>1
  <2> HIDE DEF lock
  <2> QED
    BY <1>1, <1>2, <1>5, <2>1, ListItem
<1> HIDE DEF lock
<1>8. ActTypes' /\ PayTypes'
  BY <1>1, <1>6, <1>7 DEF RClaimInv, ActTypes, PayTypes
<1>9. ASSUME NEW t \in Series, NEW c \in DOMAIN acts[t]
      PROVE  /\ shortestLock'[t][c] <= acts'[t][c].terms.locked
             /\ shortestLock'[t][c] \in Nat /\ shortestLock[t][c] \in Nat
             /\ shortestLock'[t][c] <= shortestLock[t][c]
  <2>1. shortestLock[t][c] <= acts[t][c].terms.locked /\ shortestLock[t][c] \in Nat
    <3>1. DOMAIN shortestLock[t] = DOMAIN acts[t]
      BY <1>2 DEF RClaimInv, ActsAligned
    <3> QED
      BY <1>2, <3>1, ElementOfSeq DEF RClaimInv, ActsAligned
  <2>2. CASE t = s /\ c = cycle
    BY <1>4, <1>5, <1>6, <1>7, <2>1, <2>2
  <2>3. CASE t = s /\ c # cycle
    BY <1>6, <1>7, <2>1, <2>3
  <2>4. CASE t # s
    BY <1>6, <1>7, <2>1, <2>4
  <2> QED
    BY <2>2, <2>3, <2>4
<1>10. ActsAligned'
  <2> SUFFICES ASSUME NEW t \in Series
               PROVE  /\ Len(acts'[t]) <= MaxActs /\ currentCycle[t] <= Len(acts'[t])
                      /\ Len(shortestLock'[t]) = Len(acts'[t])
                      /\ \A c \in DOMAIN acts'[t] : shortestLock'[t][c] <= acts'[t][c].terms.locked
    BY <1>1 DEF ActsAligned
  <2> QED
    BY <1>6, <1>7, <1>9 DEF RClaimInv, ActsAligned
<1>11. ClaimsGood'
  <2> SUFFICES ASSUME NEW t \in Series, NEW who \in Minter, NEW c \in Cycle
               PROVE  IF c <= Len(acts'[t])
                        THEN claimInfos[<<t, who, c>>] \in Seq(ClaimGood(shortestLock'[t][c], claimNow))
                        ELSE claimInfos[<<t, who, c>>] = << >>
    BY <1>1 DEF RClaimInv, ClaimsGood
  <2>1. IF c <= Len(acts[t])
          THEN claimInfos[<<t, who, c>>] \in Seq(ClaimGood(shortestLock[t][c], claimNow))
          ELSE claimInfos[<<t, who, c>>] = << >>
    BY DEF RClaimInv, ClaimsGood
  <2>2. Len(acts'[t]) = Len(acts[t])
    BY <1>6
  <2>3. CASE c <= Len(acts[t])
    <3>1. c \in DOMAIN acts[t]
      BY <1>2, <2>3 DEF Cycle
    <3>2. claimNow \in Nat
      BY DEF RClaimInv, PayTypes
    <3>3. ClaimGood(shortestLock[t][c], claimNow) \subseteq ClaimGood(shortestLock'[t][c], claimNow)
      BY <1>9, <3>1, <3>2, GoodMonotonic
    <3>4. claimInfos[<<t, who, c>>] \in Seq(ClaimGood(shortestLock[t][c], claimNow))
      BY <2>1, <2>3
    <3>5. claimInfos[<<t, who, c>>] \in Seq(ClaimGood(shortestLock'[t][c], claimNow))
      BY <3>3, <3>4, SeqMonotonic
    <3> QED
      BY <2>2, <2>3, <3>5
  <2> QED
    BY <2>1, <2>2, <2>3
<1>12. ActBudget'
  <2> SUFFICES ASSUME NEW t \in Series, NEW c \in DOMAIN acts'[t], <<t, c>> \notin overcut'
               PROVE  RewardsOf(t, c) + acts'[t][c].left = acts'[t][c].terms.total
    BY <1>1 DEF ActBudget, RewardsOf
  <2>1. c \in DOMAIN acts[t] /\ <<t, c>> \notin overcut
    BY <1>1, <1>6
  <2>2. RewardsOf(t, c) + acts[t][c].left = acts[t][c].terms.total
    BY <2>1 DEF RClaimInv, ActBudget
  <2>3. CASE t = s /\ c = cycle
    <3>1. RewardsOf(t, c) \in Nat
      <4>1. ClaimsOf(t, c) \in [Minter -> Seq(ClaimInfo)]
        BY <2>3 DEF ClaimsOf, RClaimInv, ClaimsGood
      <4> QED
        BY <4>1, TotalNat, RewardsOfTotal
    <3>2. ~(old.left + terms.total < old.terms.total)
      BY <1>1, <2>3
    <3> QED
      BY <1>3, <1>4, <1>6, <2>2, <2>3, <3>1, <3>2
  <2>4. CASE t = s /\ c # cycle
    BY <1>6, <2>1, <2>2, <2>4
  <2>5. CASE t # s
    BY <1>6, <2>2, <2>5
  <2> QED
    BY <2>3, <2>4, <2>5
<1> QED
  BY <1>8, <1>10, <1>11, <1>12 DEF RClaimInv

(* A mint counts in the act it is made in, or in none.                      *)
LEMMA MintCycleIsAct ==
  ASSUME RClaimInv, NEW s \in Series
  PROVE  MintCycle(s) \in 0..Len(acts[s])
<1> DEFINE n == Len(acts[s])
           later == (currentCycle[s] + 1)..n
           begun == {c \in later : Running(acts[s][c])
                       /\ \A d \in later : d < c => acts[s][d].terms.begin <= claimNow}
<1>1. n \in Nat /\ currentCycle[s] \in 0..n
  BY DEF RClaimInv, ActTypes, ActsAligned
<1>2. IsFiniteSet(later) /\ later \subseteq 0..n /\ later \subseteq Int
  <2>1. PICK a \in Int : a = currentCycle[s] + 1 /\ a >= 1
    BY <1>1
  <2>2. IsFiniteSet(a..n)
    BY <1>1, FS_Interval
  <2>3. a..n \subseteq 0..n /\ a..n \subseteq Int
    BY <1>1, <2>1
  <2> QED
    BY <2>1, <2>2, <2>3
<1>3. IsFiniteSet(begun) /\ begun \subseteq 0..n /\ begun \subseteq Int
  <2>1. begun \subseteq later
    OBVIOUS
  <2> HIDE DEF later, begun
  <2> QED
    BY <1>2, <2>1, FS_Subset
<1>4. NextCycle(s) = IF begun = {} THEN currentCycle[s] ELSE Min(begun)
  BY DEF NextCycle
<1>5. begun # {} => Min(begun) \in begun
  <2> HIDE DEF begun
  <2> QED
    BY <1>3, ExtremaExist DEF Min
<1>6. NextCycle(s) \in 0..n
  <2> HIDE DEF begun, n
  <2> QED
    BY <1>1, <1>3, <1>4, <1>5
<1> QED
  BY <1>1, <1>6 DEF MintCycle

LEMMA MintsKeep ==
  ASSUME RClaimInv, NEW s \in Series, NEW mints \in Seq(AnyMint), Mints(s, mints)
  PROVE  RClaimInv'
<1> DEFINE c == MintCycle(s)
           before == [act |-> acts[s][c], claims |-> ClaimsOf(s, c)]
           after == FoldLeft(Grant, before, mints)
<1>1. c \in 0..Len(acts[s])
  BY MintCycleIsAct
<1>2. /\ currentCycle' = [currentCycle EXCEPT ![s] = c]
      /\ UNCHANGED <<rethRewarder, fundAddress, claimNative, claimNow, overcut, shortestLock>>
  BY DEF Mints
<1>3. /\ c > 0 /\ Running(acts[s][c]) =>
            /\ acts' = [acts EXCEPT ![s][c] = after.act]
            /\ claimInfos' = [k \in DOMAIN claimInfos |->
                 IF k[1] = s /\ k[3] = c THEN after.claims[k[2]] ELSE claimInfos[k]]
      /\ ~(c > 0 /\ Running(acts[s][c])) => UNCHANGED <<acts, claimInfos>>
  BY DEF Mints, ClaimsOf
<1> HIDE DEF c
<1>4. /\ acts \in [Series -> Seq(MintRewardAct)] /\ claimNow \in Nat
      /\ shortestLock \in [Series -> Seq(Nat)]
      /\ claimInfos \in [Series \X Minter \X Cycle -> Seq(ClaimInfo)]
      /\ currentCycle \in [Series -> Nat] /\ currentCycle' \in [Series -> Nat]
      /\ \A t \in Series : currentCycle'[t] <= Len(acts[t])
      /\ \A t \in Series : Len(acts[t]) <= MaxActs /\ Len(acts[t]) \in Nat /\ MaxActs \in Nat
  <2>1. /\ acts \in [Series -> Seq(MintRewardAct)] /\ claimNow \in Nat
        /\ shortestLock \in [Series -> Seq(Nat)]
        /\ claimInfos \in [Series \X Minter \X Cycle -> Seq(ClaimInfo)]
        /\ currentCycle \in [Series -> Nat]
        /\ \A t \in Series : currentCycle[t] <= Len(acts[t])
        /\ \A t \in Series : Len(acts[t]) <= MaxActs /\ MaxActs \in Nat
    BY RClaimAssumption DEF RClaimInv, ActTypes, PayTypes, ActsAligned, ClaimsGood
  <2> QED
    BY <1>1, <1>2, <2>1
<1>5. CASE ~(c > 0 /\ Running(acts[s][c]))
  <2>1. UNCHANGED <<acts, claimInfos>>
    BY <1>3, <1>5
  <2>2. ActTypes' /\ PayTypes'
    BY <1>2, <1>4, <2>1 DEF RClaimInv, ActTypes, PayTypes
  <2>3. ActsAligned'
    BY <1>2, <1>4, <2>1 DEF RClaimInv, ActsAligned
  <2>4. ClaimsGood'
    BY <1>2, <2>1 DEF RClaimInv, ClaimsGood
  <2>5. ActBudget'
    BY <1>2, <2>1 DEF RClaimInv, ActBudget, RewardsOf
  <2> QED
    BY <2>2, <2>3, <2>4, <2>5 DEF RClaimInv
<1>6. CASE c > 0 /\ Running(acts[s][c])
  <2> DEFINE terms == acts[s][c].terms
             lock == shortestLock[s][c]
             budget == Total(ClaimsOf(s, c)) + acts[s][c].left
  <2>1. /\ acts' = [acts EXCEPT ![s][c] = after.act]
        /\ claimInfos' = [k \in Series \X Minter \X Cycle |->
                            IF k[1] = s /\ k[3] = c THEN after.claims[k[2]] ELSE claimInfos[k]]
    BY <1>3, <1>4, <1>6
  <2>2. /\ c \in DOMAIN acts[s] /\ c \in Cycle /\ c <= Len(acts[s])
        /\ acts[s][c] \in MintRewardAct /\ lock \in Nat
    <3>1. c \in 1..Len(acts[s])
      BY <1>1, <1>4, <1>6
    <3>2. Len(shortestLock[s]) = Len(acts[s])
      BY DEF RClaimInv, ActsAligned
    <3> QED
      BY <1>4, <3>1, <3>2, ElementOfSeq DEF Cycle
  <2>3. ClaimsOf(s, c) \in [Minter -> Seq(ClaimGood(lock, claimNow))]
        /\ ClaimsOf(s, c) \in [Minter -> Seq(ClaimInfo)]
    BY <2>2 DEF ClaimsOf, RClaimInv, ClaimsGood
  <2>4. before \in GrantStates(terms, lock, budget) /\ budget \in Int
    <3>1. Total(ClaimsOf(s, c)) \in Nat
      BY <2>3, TotalNat
    <3>2. acts[s][c].left \in Nat
      BY <2>2 DEF MintRewardAct
    <3> QED
      BY <2>2, <2>3, <3>1, <3>2 DEF GrantStates
  <2> HIDE DEF terms, lock, budget, before
  <2>5. after \in GrantStates(terms, lock, budget)
    <3>1. \A state \in GrantStates(terms, lock, budget), mint \in AnyMint :
            Grant(state, mint) \in GrantStates(terms, lock, budget)
      BY <1>4, <2>2, <2>4, GrantKeeps
    <3> QED
      BY <2>4, <3>1, GrantFold
  <2> HIDE DEF after
  <2>6. /\ after.act \in MintRewardAct /\ after.act.terms = terms
        /\ after.claims \in [Minter -> Seq(ClaimGood(lock, claimNow))]
        /\ Total(after.claims) + after.act.left = budget
    BY <2>5 DEF GrantStates
  <2>7. /\ acts' \in [Series -> Seq(MintRewardAct)] /\ acts'[s][c] = after.act
        /\ \A t \in Series : Len(acts'[t]) = Len(acts[t]) /\ DOMAIN acts'[t] = DOMAIN acts[t]
        /\ \A t \in Series : t # s => acts'[t] = acts[t]
        /\ \A d \in DOMAIN acts[s] : d # c => acts'[s][d] = acts[s][d]
    BY <1>4, <2>1, <2>2, <2>6, ListItem
  <2>8. ActTypes' /\ PayTypes'
    BY <1>2, <1>4, <2>7 DEF RClaimInv, ActTypes, PayTypes
  <2>9. ASSUME NEW t \in Series, NEW d \in DOMAIN acts[t] PROVE acts'[t][d].terms = acts[t][d].terms
    <3>1. CASE t = s /\ d = c
      BY <2>6, <2>7, <3>1 DEF terms
    <3>2. CASE t = s /\ d # c
      BY <2>7, <3>2
    <3>3. CASE t # s
      BY <2>7, <3>3
    <3> QED
      BY <3>1, <3>2, <3>3
  <2>10. ActsAligned'
    <3> SUFFICES ASSUME NEW t \in Series
                 PROVE  /\ Len(acts'[t]) <= MaxActs /\ currentCycle'[t] <= Len(acts'[t])
                        /\ Len(shortestLock[t]) = Len(acts'[t])
                        /\ \A d \in DOMAIN acts'[t] : shortestLock[t][d] <= acts'[t][d].terms.locked
      BY <1>2 DEF ActsAligned
    <3> QED
      BY <1>4, <2>7, <2>9 DEF RClaimInv, ActsAligned
  <2>11. ASSUME NEW t \in Series, NEW who \in Minter, NEW d \in Cycle
         PROVE  claimInfos'[<<t, who, d>>] = IF t = s /\ d = c THEN after.claims[who]
                                             ELSE claimInfos[<<t, who, d>>]
    BY <2>1
  <2>12. ClaimsGood'
    <3>1. \A t \in Series, who \in Minter, d \in Cycle :
            IF d <= Len(acts'[t])
              THEN claimInfos'[<<t, who, d>>] \in Seq(ClaimGood(shortestLock'[t][d], claimNow'))
              ELSE claimInfos'[<<t, who, d>>] = << >>
      <4> SUFFICES ASSUME NEW t \in Series, NEW who \in Minter, NEW d \in Cycle
                   PROVE  IF d <= Len(acts[t])
                            THEN claimInfos'[<<t, who, d>>] \in Seq(ClaimGood(shortestLock[t][d], claimNow))
                            ELSE claimInfos'[<<t, who, d>>] = << >>
        BY <1>2, <2>7
      <4>1. IF d <= Len(acts[t])
              THEN claimInfos[<<t, who, d>>] \in Seq(ClaimGood(shortestLock[t][d], claimNow))
              ELSE claimInfos[<<t, who, d>>] = << >>
        BY DEF RClaimInv, ClaimsGood
      <4>2. CASE t = s /\ d = c
        <5>1. claimInfos'[<<t, who, d>>] \in Seq(ClaimGood(lock, claimNow))
          BY <2>6, <2>11, <4>2
        <5> QED
          BY <2>2, <4>2, <5>1 DEF lock
      <4>3. CASE ~(t = s /\ d = c)
        <5>1. claimInfos'[<<t, who, d>>] = claimInfos[<<t, who, d>>]
          BY <2>11, <4>3
        <5> QED
          BY <4>1, <5>1
      <4> QED
        BY <4>2, <4>3
    <3>2. claimInfos' \in [Series \X Minter \X Cycle -> Seq(ClaimInfo)]
      <4>1. Seq(ClaimGood(lock, claimNow)) \subseteq Seq(ClaimInfo)
        <5>1. ClaimGood(lock, claimNow) \subseteq ClaimInfo
          BY DEF ClaimGood
        <5> QED
          BY <5>1, SeqMonotonic
      <4>2. \A who \in Minter : after.claims[who] \in Seq(ClaimInfo)
        BY <2>6, <4>1
      <4>3. \A k \in Series \X Minter \X Cycle :
              k[2] \in Minter /\ claimInfos[k] \in Seq(ClaimInfo)
        BY <1>4
      <4> QED
        BY <2>1, <4>2, <4>3
    <3> QED
      BY <3>1, <3>2 DEF ClaimsGood
  <2>13. ActBudget'
    <3> SUFFICES ASSUME NEW t \in Series, NEW d \in DOMAIN acts'[t], <<t, d>> \notin overcut
                 PROVE  RewardsOf(t, d)' + acts'[t][d].left = acts'[t][d].terms.total
      BY <1>2 DEF ActBudget
    <3>1. d \in DOMAIN acts[t] /\ d \in Cycle
      BY <1>4, <2>7 DEF Cycle
    <3>2. RewardsOf(t, d) + acts[t][d].left = acts[t][d].terms.total
      BY <3>1 DEF RClaimInv, ActBudget
    <3>3. RewardsOf(t, d)' = SumFunction([who \in Minter |-> Rewards(claimInfos'[<<t, who, d>>])])
      BY DEF RewardsOf, Rewards
    <3>4. CASE t = s /\ d = c
      <4>1. [who \in Minter |-> Rewards(claimInfos'[<<t, who, d>>])] =
              [who \in Minter |-> Rewards(after.claims[who])]
        BY <2>11, <3>1, <3>4
      <4>2. RewardsOf(t, d)' = Total(after.claims)
        BY <3>3, <4>1 DEF Total
      <4>3. RewardsOf(t, d) + acts[t][d].left = budget
        BY <3>4, RewardsOfTotal DEF budget
      <4> QED
        BY <2>6, <2>7, <3>2, <3>4, <4>2, <4>3 DEF terms
    <3>5. CASE ~(t = s /\ d = c)
      <4>1. [who \in Minter |-> Rewards(claimInfos'[<<t, who, d>>])] =
              [who \in Minter |-> Rewards(claimInfos[<<t, who, d>>])]
        BY <2>11, <3>1, <3>5
      <4>2. RewardsOf(t, d)' = RewardsOf(t, d)
        BY <3>3, <4>1 DEF RewardsOf
      <4>3. acts'[t][d] = acts[t][d]
        BY <2>7, <3>1, <3>5
      <4> QED
        BY <3>2, <4>2, <4>3
    <3> QED
      BY <3>4, <3>5
  <2> QED
    BY <2>8, <2>10, <2>12, <2>13 DEF RClaimInv
<1> QED
  BY <1>5, <1>6

(* A claim pays what has vested and keeps the rewards (claim_rtoken_reward). *)
LEMMA ClaimKeeps ==
  ASSUME RClaimInv, NEW s \in Series, NEW who \in Minter, NEW c \in Cycle, NEW i \in 1..MaxMints,
         ClaimRtokenReward(s, who, c, i)
  PROVE  RClaimInv'
<1> DEFINE key == <<s, who, c>>
           info == claimInfos[key][i]
           lock == shortestLock[s][c]
           locked == acts[s][c].terms.locked
           amount == ShouldClaim(info, locked)
           paid == AfterClaim(info, amount)
<1>1. /\ i \in DOMAIN claimInfos[key]
      /\ CanPay(claimNative, FundAccount, who, amount)
      /\ claimNative' = Paid(claimNative, FundAccount, who, amount)
      /\ claimInfos' = [claimInfos EXCEPT ![key][i] = paid]
      /\ UNCHANGED <<acts, currentCycle, rethRewarder, fundAddress, claimNow, overcut, shortestLock>>
  BY DEF ClaimRtokenReward
<1>2. /\ claimInfos \in [Series \X Minter \X Cycle -> Seq(ClaimInfo)]
      /\ key \in Series \X Minter \X Cycle
      /\ claimNow \in Nat /\ claimNative \in [Holders -> Nat]
  BY DEF RClaimInv, ClaimsGood, PayTypes
<1>3. c \in DOMAIN acts[s] /\ c <= Len(acts[s]) /\ claimInfos[key] \in Seq(ClaimGood(lock, claimNow))
  <2>1. IF c <= Len(acts[s]) THEN claimInfos[key] \in Seq(ClaimGood(lock, claimNow))
        ELSE claimInfos[key] = << >>
    BY DEF RClaimInv, ClaimsGood
  <2>2. claimInfos[key] # << >>
    BY <1>1
  <2>3. acts[s] \in Seq(MintRewardAct)
    BY DEF RClaimInv, ActTypes
  <2> QED
    BY <2>1, <2>2, <2>3 DEF Cycle
<1>4. lock \in Nat /\ locked \in Nat /\ lock <= locked
  <2>1. /\ acts[s] \in Seq(MintRewardAct) /\ shortestLock[s] \in Seq(Nat)
        /\ Len(shortestLock[s]) = Len(acts[s]) /\ lock <= locked
    BY <1>3 DEF RClaimInv, ActTypes, ActsAligned
  <2>2. acts[s][c] \in MintRewardAct /\ lock \in Nat
    BY <1>3, <2>1, ElementOfSeq DEF Cycle
  <2> QED
    BY <2>1, <2>2, RClaimAssumption DEF MintRewardAct, ActTerms
<1>5. info \in ClaimGood(lock, claimNow)
  BY <1>1, <1>3, ElementOfSeq
<1> HIDE DEF key, lock, locked, info
<1>6. amount \in Nat /\ paid \in ClaimGood(lock, claimNow) /\ paid.reward = info.reward
  BY <1>2, <1>4, <1>5, ClaimKeepsGood
<1> HIDE DEF amount, paid
<1>7. paid \in ClaimInfo
  BY <1>6 DEF ClaimGood
<1>8. /\ claimInfos' \in [Series \X Minter \X Cycle -> Seq(ClaimInfo)]
      /\ Len(claimInfos'[key]) = Len(claimInfos[key])
      /\ DOMAIN claimInfos'[key] = DOMAIN claimInfos[key]
      /\ claimInfos'[key][i] = paid
      /\ \A k \in Series \X Minter \X Cycle : k # key => claimInfos'[k] = claimInfos[k]
      /\ \A j \in DOMAIN claimInfos[key] : j # i => claimInfos'[key][j] = claimInfos[key][j]
  BY <1>1, <1>2, <1>7, ListItem
<1>9. ActTypes' /\ PayTypes' /\ ActsAligned'
  <2>1. claimNative' \in [Holders -> Nat]
    <3>1. FundAccount \in Holders /\ who \in Holders
      BY DEF Holders
    <3> QED
      BY <1>1, <1>2, <1>6, <3>1, PaidType
  <2> QED
    BY <1>1, <2>1 DEF RClaimInv, ActTypes, PayTypes, ActsAligned
<1>10. ClaimsGood'
  <2>1. claimInfos'[key] \in Seq(ClaimGood(lock, claimNow))
    <3>1. \A j \in DOMAIN claimInfos[key] : claimInfos'[key][j] \in ClaimGood(lock, claimNow)
      BY <1>3, <1>6, <1>8, ElementOfSeq
    <3>2. claimInfos'[key] \in Seq(ClaimInfo)
      BY <1>2, <1>8
    <3> QED
      BY <1>8, <3>1, <3>2
  <2>2. ASSUME NEW t \in Series, NEW w \in Minter, NEW d \in Cycle
        PROVE  IF d <= Len(acts[t])
                 THEN claimInfos'[<<t, w, d>>] \in Seq(ClaimGood(shortestLock[t][d], claimNow))
                 ELSE claimInfos'[<<t, w, d>>] = << >>
    <3>1. IF d <= Len(acts[t])
            THEN claimInfos[<<t, w, d>>] \in Seq(ClaimGood(shortestLock[t][d], claimNow))
            ELSE claimInfos[<<t, w, d>>] = << >>
      BY DEF RClaimInv, ClaimsGood
    <3>2. CASE <<t, w, d>> = key
      <4>1. t = s /\ w = who /\ d = c
        BY <3>2 DEF key
      <4> QED
        BY <1>3, <2>1, <3>2, <4>1 DEF lock
    <3>3. CASE <<t, w, d>> # key
      BY <1>8, <3>1, <3>3
    <3> QED
      BY <3>2, <3>3
  <2> QED
    BY <1>1, <1>8, <2>2 DEF ClaimsGood
<1>11. ASSUME NEW k \in Series \X Minter \X Cycle
       PROVE  Rewards(claimInfos'[k]) = Rewards(claimInfos[k])
  <2>1. CASE k = key
    <3>1. [j \in DOMAIN claimInfos'[key] |-> claimInfos'[key][j].reward] =
            [j \in DOMAIN claimInfos[key] |-> claimInfos[key][j].reward]
      <4>1. \A j \in DOMAIN claimInfos[key] : claimInfos'[key][j].reward = claimInfos[key][j].reward
        BY <1>6, <1>8 DEF info
      <4> QED
        BY <1>8, <4>1
    <3> QED
      BY <2>1, <3>1 DEF Rewards
  <2>2. CASE k # key
    BY <1>8, <2>2
  <2> QED
    BY <2>1, <2>2
<1>12. ActBudget'
  <2> SUFFICES ASSUME NEW t \in Series, NEW d \in DOMAIN acts[t], <<t, d>> \notin overcut
               PROVE  RewardsOf(t, d)' + acts[t][d].left = acts[t][d].terms.total
    BY <1>1 DEF ActBudget
  <2>1. d \in Cycle
    BY RClaimAssumption DEF RClaimInv, ActTypes, ActsAligned, Cycle
  <2>2. [w \in Minter |-> Rewards(claimInfos'[<<t, w, d>>])] =
          [w \in Minter |-> Rewards(claimInfos[<<t, w, d>>])]
    BY <1>11, <2>1
  <2>3. RewardsOf(t, d)' = RewardsOf(t, d)
    <3>1. RewardsOf(t, d)' = SumFunction([w \in Minter |-> Rewards(claimInfos'[<<t, w, d>>])])
      BY DEF RewardsOf, Rewards
    <3> QED
      BY <2>2, <3>1 DEF RewardsOf
  <2> QED
    BY <2>3 DEF RClaimInv, ActBudget
<1> QED
  BY <1>9, <1>10, <1>12 DEF RClaimInv

(* Root's addresses and the passing of blocks touch no act and no claim.    *)
LEMMA RestKeeps ==
  ASSUME RClaimInv, SetClaimAddresses \/ NextClaimBlock \/ UNCHANGED rclaimVars
  PROVE  RClaimInv'
<1>1. /\ UNCHANGED <<acts, currentCycle, claimInfos, claimNative, overcut, shortestLock>>
      /\ claimNow' \in Nat /\ claimNow \in Nat /\ claimNow <= claimNow'
      /\ rethRewarder' \in {Rewarder, Missing} /\ fundAddress' \in {FundAccount, Missing}
  BY DEF RClaimInv, PayTypes, SetClaimAddresses, NextClaimBlock, rclaimVars
<1>2. ActTypes' /\ PayTypes' /\ ActsAligned'
  BY <1>1 DEF RClaimInv, ActTypes, PayTypes, ActsAligned
<1>3. ClaimsGood'
  <2> SUFFICES ASSUME NEW s \in Series, NEW who \in Minter, NEW c \in Cycle, c <= Len(acts[s])
               PROVE  claimInfos[<<s, who, c>>] \in Seq(ClaimGood(shortestLock[s][c], claimNow'))
    BY <1>1 DEF RClaimInv, ClaimsGood
  <2>1. claimInfos[<<s, who, c>>] \in Seq(ClaimGood(shortestLock[s][c], claimNow))
    BY DEF RClaimInv, ClaimsGood
  <2>2. shortestLock[s][c] \in Nat
    <3>1. shortestLock[s] \in Seq(Nat) /\ Len(shortestLock[s]) = Len(acts[s])
      BY DEF RClaimInv, ActTypes, ActsAligned
    <3> QED
      BY <3>1, ElementOfSeq DEF Cycle
  <2>3. ClaimGood(shortestLock[s][c], claimNow) \subseteq ClaimGood(shortestLock[s][c], claimNow')
    BY <1>1, <2>2, GoodMonotonic
  <2> QED
    BY <2>1, <2>3, SeqMonotonic
<1>4. ActBudget'
  BY <1>1 DEF RClaimInv, ActBudget, RewardsOf
<1> QED
  BY <1>2, <1>3, <1>4 DEF RClaimInv

LEMMA RClaimNextInv == RClaimInv /\ [RClaimNext]_rclaimVars => RClaimInv'
<1> SUFFICES ASSUME RClaimInv, [RClaimNext]_rclaimVars PROVE RClaimInv'
  OBVIOUS
<1>1. "rtoken" \in Series /\ "reth" \in Series
  BY DEF Series
<1>2. CASE \E terms \in ActTerms : AddRewardAct("rtoken", terms) \/ AddRethRewardAct(terms)
  BY <1>1, <1>2, AddActKeeps DEF AddRethRewardAct
<1>3. CASE \E terms \in ActTerms, c \in Cycle :
             UpdateRewardAct("rtoken", c, terms) \/ UpdateRethRewardAct(c, terms)
  BY <1>1, <1>3, UpdateActKeeps DEF UpdateRethRewardAct
<1>4. CASE SetClaimAddresses \/ NextClaimBlock \/ UNCHANGED rclaimVars
  BY <1>4, RestKeeps
<1>5. ASSUME NEW who \in Minter, NEW value \in MintValue, UpdateClaimInfo(who, value)
      PROVE  RClaimInv'
  <2> DEFINE mints == <<[who |-> who, value |-> value]>>
  <2>1. mints \in Seq(AnyMint)
    BY RClaimAssumption DEF AnyMint
  <2>2. Mints("rtoken", mints)
    BY <1>5 DEF UpdateClaimInfo
  <2> QED
    BY <1>1, <2>1, <2>2, MintsKeep
<1>6. ASSUME NEW sender, NEW mints \in SeqOf(Mint, 2), UpdateREthClaimInfo(sender, mints)
      PROVE  RClaimInv'
  <2>1. mints \in Seq(AnyMint)
    <3>1. Mint \subseteq AnyMint
      BY RClaimAssumption DEF Mint, AnyMint
    <3>2. PICK m \in 0..2 : mints \in [1..m -> Mint]
      BY DEF SeqOf
    <3>3. mints \in [1..m -> AnyMint] /\ m \in Nat
      BY <3>1, <3>2
    <3> QED
      BY <3>3, SeqDef
  <2>2. Mints("reth", mints)
    BY <1>6 DEF UpdateREthClaimInfo
  <2> QED
    BY <1>1, <2>1, <2>2, MintsKeep
<1>7. CASE \E s \in Series, who \in Minter, c \in Cycle, i \in 1..MaxMints :
             ClaimRtokenReward(s, who, c, i)
  BY <1>7, ClaimKeeps
<1> QED
  BY <1>2, <1>3, <1>4, <1>5, <1>6, <1>7 DEF RClaimNext

(* The acts, claims and balances of claims/rclaim keep their types.         *)
THEOREM RClaimTypes == RClaimSpec => []RClaimTypeOK
<1>1. RClaimInv => RClaimTypeOK
  BY DEF RClaimInv, ActTypes, PayTypes, ClaimsGood, RClaimTypeOK
<1> QED
  BY RClaimInitInv, RClaimNextInv, <1>1, PTL DEF RClaimSpec

(* What an act's mints were granted and what is left of its budget add up   *)
(* to total_reward, whatever the number of acts, minters and mints and      *)
(* whatever root updates, unless root cut the total by more than was left.  *)
THEOREM BudgetKept == RClaimSpec => []ActBudget
<1>1. RClaimInv => ActBudget
  BY DEF RClaimInv
<1> QED
  BY RClaimInitInv, RClaimNextInv, <1>1, PTL DEF RClaimSpec

(* No sequence of claims is paid ahead of the shortest lock its act had,    *)
(* whatever the rounding of each claim (claim_rtoken_reward).               *)
THEOREM OnSchedule == RClaimSpec => []NeverAheadOfSchedule
<1>1. RClaimInv => NeverAheadOfSchedule
  <2> SUFFICES ASSUME RClaimInv PROVE NeverAheadOfSchedule
    OBVIOUS
  <2>1. ASSUME NEW s \in Series, NEW who \in Minter, NEW c \in Cycle,
               NEW i \in DOMAIN claimInfos[<<s, who, c>>]
        PROVE  claimInfos[<<s, who, c>>][i] \in ClaimGood(shortestLock[s][c], claimNow)
    <3>1. IF c <= Len(acts[s])
            THEN claimInfos[<<s, who, c>>] \in Seq(ClaimGood(shortestLock[s][c], claimNow))
            ELSE claimInfos[<<s, who, c>>] = << >>
      BY DEF RClaimInv, ClaimsGood
    <3>2. claimInfos[<<s, who, c>>] # << >>
      OBVIOUS
    <3> QED
      BY <3>1, <3>2, ElementOfSeq
  <2>2. ASSUME NEW lock, NEW info \in ClaimGood(lock, claimNow)
        PROVE  /\ info.claimed <= info.reward
               /\ info.latest - info.mint < lock =>
                    info.claimed * lock <= info.reward * (info.latest - info.mint)
    BY DEF ClaimGood
  <2> QED
    BY <2>1, <2>2 DEF NeverAheadOfSchedule
<1> QED
  BY RClaimInitInv, RClaimNextInv, <1>1, PTL DEF RClaimSpec

-----------------------------------------------------------------------------
(* claims/xclaim.                                                           *)

\* What is due to a claimant.
Due == [a \in Claimant |-> xClaims[a] - xClaimed[a]]

XClaimInv == XClaimTypeOK /\ PotCoversClaims

LEMMA XClaimInitInv == XClaimInit => XClaimInv
<1> SUFFICES ASSUME XClaimInit PROVE XClaimInv
  OBVIOUS
<1>1. XClaimTypeOK
  BY DEF XClaimInit, XClaimTypeOK, XToken!TokenLedger, XToken!NoTokens
<1>2. SumFunction(Due) = 0
  BY XClaimAssumption, SumZero, SumOfFunction DEF XClaimInit, Due
<1> QED
  BY <1>1, <1>2, XClaimAssumption
  DEF XClaimInit, XClaimInv, PotCoversClaims, Due, XToken!NoTokens

(* A transfer keeps the ledger's type.                                      *)
LEMMA XTransferred ==
  ASSUME NEW b \in XToken!TokenLedger, NEW from \in Claimant \cup {Pot},
         NEW to \in Claimant \cup {Pot}, NEW value \in Nat,
         XToken!CanTransfer(b, from, to, value)
  PROVE  /\ XToken!Transferred(b, from, to, value) \in XToken!TokenLedger
         /\ from # Pot => XToken!Transferred(b, from, to, value).free[Pot] >= b.free[Pot]
         /\ from = Pot => XToken!Transferred(b, from, to, value).free[Pot] >= b.free[Pot] - value
<1> USE DEF XToken!TokenLedger
<1>1. CASE XToken!Idle(from, to, value)
  BY <1>1 DEF XToken!Transferred
<1>2. CASE ~XToken!Idle(from, to, value)
  <2>1. from # to /\ b.free[from] >= value /\ b.free \in [Claimant \cup {Pot} -> Nat]
    BY <1>2 DEF XToken!Idle, XToken!CanTransfer
  <2>2. b.free[from] - value \in Nat /\ b.free[to] + value \in Nat
    BY <2>1
  <2>3. XToken!Transferred(b, from, to, value) =
          [b EXCEPT !.free = [b.free EXCEPT ![from] = b.free[from] - value, ![to] = b.free[to] + value]]
    BY <1>2, <2>1 DEF XToken!Transferred
  <2> QED
    BY <2>1, <2>2, <2>3
<1> QED
  BY <1>1, <1>2

LEMMA XClaimNextInv == XClaimInv /\ [XClaimNext]_xclaimVars => XClaimInv'
<1> SUFFICES ASSUME XClaimInv, [XClaimNext]_xclaimVars PROVE XClaimInv'
  OBVIOUS
<1> USE DEF XClaimInv
<1>0. /\ xClaims \in [Claimant -> Nat] /\ xClaimed \in [Claimant -> Nat] /\ xTotal \in Nat
      /\ xtokens \in XToken!TokenLedger /\ xtokens.free[Pot] \in Nat
      /\ xTotal = SumFunction(Due) /\ xtokens.free[Pot] >= xTotal
  BY DEF XClaimTypeOK, PotCoversClaims, Due, XToken!TokenLedger
<1>1. CASE SetProxyAccounts
  BY <1>1 DEF SetProxyAccounts, XClaimTypeOK, PotCoversClaims
<1>2. CASE FundPot
  <2>1. XToken!Minted(xtokens, Pot, PotTokens) \in XToken!TokenLedger
    <3>1. /\ xtokens \in [free : [Claimant \cup {Pot} -> Nat], issuance : Nat]
          /\ PotTokens \in Nat /\ XTokenLimit - 1 \in Nat
      BY <1>0, XClaimAssumption DEF XToken!TokenLedger
    <3>2. xtokens.free[Pot] + PotTokens \in Nat /\ xtokens.issuance + PotTokens \in Nat
      BY <3>1
    <3> QED
      BY <3>1, <3>2 DEF XToken!Minted, XToken!TokenLedger
  <2>2. XToken!Minted(xtokens, Pot, PotTokens).free[Pot] >= xTotal
    BY <1>0, XClaimAssumption DEF XToken!Minted, XToken!TokenLedger
  <2> QED
    BY <1>2, <2>1, <2>2 DEF FundPot, XClaimTypeOK, PotCoversClaims
<1>3. ASSUME NEW who \in Claimant, Claim(who) PROVE XClaimInv'
  <2> DEFINE due == xClaims[who] - xClaimed[who]
  <2>1. due \in Nat /\ due <= xTotal
    BY <1>0, <1>3 DEF Claim
  <2>2. /\ xtokens' \in XToken!TokenLedger
        /\ xtokens'.free[Pot] >= xtokens.free[Pot] - due
    BY <1>0, <1>3, <2>1, XTransferred DEF Claim
  <2>3. Due' = [Due EXCEPT ![who] = 0]
    BY <1>0, <1>3 DEF Claim, Due
  <2>4. SumFunction(Due') = SumFunction(Due) - due + 0
    <3>1. \A a \in Claimant : Due[a] \in Int /\ Due'[a] \in Int
      BY <1>0, <2>3 DEF Due
    <3>2. Due[who] = due /\ Due'[who] = 0 /\ \A a \in Claimant \ {who} : Due'[a] = Due[a]
      BY <2>3 DEF Due
    <3>3. DOMAIN Due = Claimant /\ DOMAIN Due' = Claimant
      BY DEF Due
    <3> QED
      BY <3>1, <3>2, <3>3, XClaimAssumption, SumChange, SumOfFunction
  <2>5. xTotal' = xTotal - due /\ xTotal' \in Nat
    BY <1>0, <1>3, <2>1 DEF Claim
  <2>6. XClaimTypeOK'
    BY <1>0, <1>3, <2>2, <2>5 DEF Claim, XClaimTypeOK
  <2>7. xtokens'.free[Pot] \in Nat
    BY <2>2 DEF XToken!TokenLedger
  <2> HIDE DEF due
  <2> QED
    BY <1>0, <2>1, <2>2, <2>4, <2>5, <2>6, <2>7 DEF PotCoversClaims, Due
<1>4. ASSUME NEW p \in Proxy, NEW who \in Claimant, NEW value \in ClaimValue,
             MintClaim(p, who, value)
      PROVE XClaimInv'
  <2>1. value \in Nat
    BY XClaimAssumption
  <2>3. Due' = [Due EXCEPT ![who] = @ + value]
    BY <1>0, <1>4, <2>1 DEF MintClaim, Due
  <2>4. SumFunction(Due') = SumFunction(Due) + value
    <3>1. \A a \in Claimant : Due[a] \in Int /\ Due'[a] \in Int
      BY <1>0, <2>1, <2>3 DEF Due
    <3>2. Due'[who] = Due[who] + value /\ \A a \in Claimant \ {who} : Due'[a] = Due[a]
      BY <2>3 DEF Due
    <3>3. DOMAIN Due = Claimant /\ DOMAIN Due' = Claimant
      BY DEF Due
    <3>4. SumFunction(Due') = SumFunction(Due) - Due[who] + Due'[who]
      BY <3>1, <3>2, <3>3, XClaimAssumption, SumChange, SumOfFunction
    <3> QED
      BY <1>0, <3>1, <3>2, <3>4, <2>1
  <2>6. XClaimTypeOK'
    BY <1>0, <1>4, <2>1 DEF MintClaim, XClaimTypeOK
  <2> QED
    BY <1>0, <1>4, <2>1, <2>4, <2>6 DEF MintClaim, PotCoversClaims, Due
<1>5. ASSUME NEW who \in Claimant, NEW to \in Claimant \cup {Pot}, NEW value \in ClaimValue,
             GiveXtokens(who, to, value)
      PROVE XClaimInv'
  <2>1. value \in Nat /\ who # Pot
    BY XClaimAssumption
  <2>2. /\ xtokens' \in XToken!TokenLedger
        /\ xtokens'.free[Pot] >= xtokens.free[Pot]
    BY <1>0, <1>5, <2>1, XTransferred DEF GiveXtokens
  <2>3. xtokens'.free[Pot] \in Nat
    BY <2>2 DEF XToken!TokenLedger
  <2>4. XClaimTypeOK'
    BY <1>5, <2>2 DEF GiveXtokens, XClaimTypeOK
  <2> QED
    BY <1>0, <1>5, <2>2, <2>3, <2>4 DEF GiveXtokens, PotCoversClaims, Due
<1>6. CASE UNCHANGED xclaimVars
  BY <1>6 DEF xclaimVars, XClaimTypeOK, PotCoversClaims
<1> QED
  BY <1>1, <1>2, <1>3, <1>4, <1>5, <1>6 DEF XClaimNext

(* Types of claims, total and ledger: Total is never decremented below zero *)
(* (claim).                                                                 *)
THEOREM XClaimTypes == XClaimSpec => []XClaimTypeOK
<1>1. XClaimInv => XClaimTypeOK
  BY DEF XClaimInv
<1> QED
  BY XClaimInitInv, XClaimNextInv, <1>1, PTL DEF XClaimSpec

(* The pot holds what is due to all claimants together, so PotUnderflow is  *)
(* never met, for any number of claimants and proxies (mint_claim, claim).  *)
THEOREM PotCovers == XClaimSpec => []PotCoversClaims
<1>1. XClaimInv => PotCoversClaims
  BY DEF XClaimInv
<1> QED
  BY XClaimInitInv, XClaimNextInv, <1>1, PTL DEF XClaimSpec

-----------------------------------------------------------------------------
(* bridge/swap: the ledgers.                                                *)

LEMMA HolderFinite ==
  /\ IsFiniteSet(Holder) /\ User \subseteq Holder /\ Bridge \in Holder /\ Recipient \in Holder
  /\ Bridge # Recipient /\ Bridge \notin User /\ Recipient \notin User
<1>1. IsFiniteSet({Bridge, Recipient})
  <2>1. IsFiniteSet({Bridge}) /\ IsFiniteSet({Recipient})
    BY FS_Singleton
  <2>2. {Bridge, Recipient} = {Bridge} \cup {Recipient}
    OBVIOUS
  <2> QED
    BY <2>1, <2>2, FS_Union
<1>2. IsFiniteSet(Holder)
  BY <1>1, FS_Union, BridgeSwapAssumption DEF Holder
<1> QED
  BY <1>2, BridgeSwapAssumption DEF Holder

(* The sum of the balances, as the ledger's module has it.                  *)
LEMMA HeldIsSum == \A b : RT!Held(b) = SumFunction(b.free)
<1>1. \A f : RT!SumFunction(f) = SumFunction(f)
  BY DEF RT!SumFunction, SumFunction, RT!SumFunctionOnSet, SumFunctionOnSet,
     RT!FoldFunctionOnSet, FoldFunctionOnSet, RT!MapThenFoldSet, MapThenFoldSet
<1> QED
  BY <1>1 DEF RT!Held

\* A ledger whose issuance is the sum of its balances.
Sound(b) == b \in RT!TokenLedger /\ b.issuance = RT!Held(b)

(* One balance that changes changes the sum by as much.                     *)
LEMMA HeldChange ==
  ASSUME NEW f \in [Holder -> Nat], NEW who \in Holder, NEW v \in Nat
  PROVE  /\ SumFunction([f EXCEPT ![who] = v]) = SumFunction(f) + (v - f[who])
         /\ SumFunction(f) \in Nat /\ f[who] <= SumFunction(f)
<1> DEFINE g == [f EXCEPT ![who] = v]
<1>1. /\ DOMAIN f = Holder /\ DOMAIN g = Holder /\ g[who] = v
      /\ \A x \in Holder : f[x] \in Int /\ g[x] \in Int /\ f[x] \in Nat
      /\ \A x \in Holder \ {who} : g[x] = f[x]
  OBVIOUS
<1> HIDE DEF g
<1>2. SumFunctionOnSet(g, Holder) = SumFunctionOnSet(f, Holder) - f[who] + g[who]
  BY <1>1, HolderFinite, SumChange
<1>3. SumFunctionOnSet(f, Holder) \in Nat /\ f[who] <= SumFunctionOnSet(f, Holder)
  BY <1>1, HolderFinite, SumNat
<1>4. SumFunction(g) = SumFunctionOnSet(g, Holder) /\ SumFunction(f) = SumFunctionOnSet(f, Holder)
  BY <1>1, SumOfFunction
<1>5. SumFunction(g) = SumFunction(f) + (v - f[who])
  BY <1>1, <1>2, <1>3, <1>4
<1> QED
  BY <1>3, <1>4, <1>5 DEF g

(* A transfer keeps the issuance and the sum, and adds to the bridge only   *)
(* what is sent to it.                                                      *)
LEMMA TransferredSound ==
  ASSUME NEW b \in RT!TokenLedger, NEW from \in Holder, NEW to \in Holder, NEW value \in Nat,
         RT!Idle(from, to, value) \/ b.free[from] >= value
  PROVE  LET c == RT!Transferred(b, from, to, value) IN
         /\ c \in RT!TokenLedger /\ c.issuance = b.issuance
         /\ Sound(b) => Sound(c)
         /\ from # Bridge => c.free[Bridge] >= b.free[Bridge]
         /\ from # Bridge /\ to = Bridge => c.free[Bridge] = b.free[Bridge] + value
         /\ from = Bridge /\ to # Bridge => c.free[Bridge] = b.free[Bridge] - value
<1> DEFINE c == RT!Transferred(b, from, to, value)
<1>1. CASE RT!Idle(from, to, value)
  <2>1. c = b /\ (value = 0 \/ from = to) /\ b.free[Bridge] \in Nat
    BY <1>1, HolderFinite DEF RT!Transferred, RT!Idle, RT!TokenLedger
  <2> QED
    BY <2>1
<1>2. CASE ~RT!Idle(from, to, value)
  <2> DEFINE f == b.free
             g == [f EXCEPT ![from] = @ - value, ![to] = @ + value]
  <2>1. /\ from # to /\ f \in [Holder -> Nat] /\ b.issuance \in Nat /\ f[from] >= value
        /\ b = [free |-> b.free, issuance |-> b.issuance]
    BY <1>2 DEF RT!Idle, RT!TokenLedger
  <2>2. c = [free |-> g, issuance |-> b.issuance]
    BY <1>2, <2>1 DEF RT!Transferred
  <2>3. g \in [Holder -> Nat] /\ SumFunction(g) = SumFunction(f)
    BY <2>1, HolderFinite, MoveKeepsSum
  <2>4. /\ g[from] = f[from] - value /\ g[to] = f[to] + value
        /\ \A x \in Holder : x # from /\ x # to => g[x] = f[x]
    BY <2>1
  <2>5. c \in RT!TokenLedger /\ c.issuance = b.issuance /\ c.free = g
    BY <2>1, <2>2, <2>3 DEF RT!TokenLedger
  <2> HIDE DEF c, f, g
  <2>6. Sound(b) => Sound(c)
    BY <2>3, <2>5, HeldIsSum DEF Sound, f
  <2>7. f[Bridge] \in Nat /\ f[from] \in Nat /\ f[to] \in Nat
    BY <2>1, HolderFinite
  <2> QED
    BY <2>1, <2>4, <2>5, <2>6, <2>7, HolderFinite DEF f, c
<1> QED
  BY <1>1, <1>2

LEMMA BurnedSound ==
  ASSUME NEW b \in RT!TokenLedger, NEW who \in Holder, NEW value \in Nat, b.free[who] >= value
  PROVE  LET c == XT!Burned(b, who, value) IN
         /\ c \in RT!TokenLedger
         /\ Sound(b) => Sound(c) /\ c.issuance = b.issuance - value /\ b.issuance >= value
<1> DEFINE c == XT!Burned(b, who, value)
           f == b.free
           v == f[who] - value
           g == [f EXCEPT ![who] = v]
           rest == IF b.issuance >= value THEN b.issuance - value ELSE 0
<1>1. /\ f \in [Holder -> Nat] /\ b.issuance \in Nat /\ v \in Nat /\ f[who] \in Nat /\ v = f[who] - value
      /\ f[who] >= value
      /\ b = [free |-> b.free, issuance |-> b.issuance]
  BY DEF RT!TokenLedger
<1>2. c = [free |-> g, issuance |-> rest]
  BY <1>1 DEF XT!Burned
<1>3. rest \in Nat /\ g \in [Holder -> Nat]
  BY <1>1
<1> HIDE DEF v
<1>4. SumFunction(g) = SumFunction(f) + (v - f[who]) /\ SumFunction(f) \in Nat
      /\ f[who] <= SumFunction(f)
  BY <1>1, HeldChange
<1>5. SumFunction(g) = SumFunction(f) - value /\ SumFunction(f) >= value
  BY <1>1, <1>4
<1>6. c \in RT!TokenLedger /\ c.free = g /\ c.issuance = rest
  BY <1>2, <1>3 DEF RT!TokenLedger
<1> HIDE DEF c, f, g
<1>7. ASSUME Sound(b) PROVE Sound(c) /\ c.issuance = b.issuance - value /\ b.issuance >= value
  <2>1. b.issuance = SumFunction(f)
    BY <1>7, HeldIsSum DEF Sound, f
  <2>2. rest = b.issuance - value /\ b.issuance >= value
    BY <1>1, <1>5, <2>1
  <2> QED
    BY <1>5, <1>6, <2>1, <2>2, HeldIsSum DEF Sound
<1> QED
  BY <1>6, <1>7 DEF c

LEMMA MintedSound ==
  ASSUME NEW b \in RT!TokenLedger, NEW who \in Holder, NEW value \in Nat
  PROVE  LET c == XT!Minted(b, who, value) IN
         /\ TokenLimit # 0 => c \in RT!TokenLedger
         /\ Sound(b) /\ b.issuance + value < TokenLimit =>
              Sound(c) /\ c.issuance = b.issuance + value
<1> DEFINE c == XT!Minted(b, who, value)
           f == b.free
           v == f[who] + value
           g == [f EXCEPT ![who] = v]
           sum == IF b.issuance + value < TokenLimit THEN b.issuance + value ELSE TokenLimit - 1
<1>1. /\ f \in [Holder -> Nat] /\ b.issuance \in Nat /\ v \in Nat /\ f[who] \in Nat /\ v = f[who] + value
      /\ b = [free |-> b.free, issuance |-> b.issuance]
  BY DEF RT!TokenLedger
<1>2. c = [free |-> g, issuance |-> sum]
  BY <1>1 DEF XT!Minted
<1>3. (TokenLimit # 0 => sum \in Nat) /\ g \in [Holder -> Nat] /\ TokenLimit \in Nat
  BY <1>1, BridgeSwapAssumption
<1> HIDE DEF v
<1>4. SumFunction(g) = SumFunction(f) + (v - f[who]) /\ SumFunction(f) \in Nat
  BY <1>1, HeldChange
<1>5. SumFunction(g) = SumFunction(f) + value
  BY <1>1, <1>4
<1>6. (TokenLimit # 0 => c \in RT!TokenLedger) /\ c.free = g /\ c.issuance = sum
  BY <1>2, <1>3 DEF RT!TokenLedger
<1> HIDE DEF c, f, g
<1>7. ASSUME Sound(b), b.issuance + value < TokenLimit
      PROVE  Sound(c) /\ c.issuance = b.issuance + value
  <2>1. b.issuance = SumFunction(f)
    BY <1>7, HeldIsSum DEF Sound, f
  <2>2. sum = b.issuance + value /\ TokenLimit # 0
    BY <1>1, <1>7
  <2> QED
    BY <1>5, <1>6, <2>1, <2>2, HeldIsSum DEF Sound
<1> QED
  BY <1>6, <1>7 DEF c

-----------------------------------------------------------------------------
(* bridge/swap: what the other side holds.                                  *)

(* The amounts of a set of returns; a new return adds its own.              *)
LEMMA AmountAdd ==
  ASSUME NEW S, IsFiniteSet(S), S \subseteq Return, NEW x \in Return, x \notin S
  PROVE  Amount(S) \in Nat /\ Amount(S \cup {x}) = Amount(S) + x.amount
<1> DEFINE T == S \cup {x}
           f == [ret \in S |-> ret.amount]
           g == [ret \in T |-> ret.amount]
<1>1. IsFiniteSet(T) /\ x \in T /\ T \ {x} = S
  BY FS_AddElement
<1>2. /\ DOMAIN f = S /\ DOMAIN g = T /\ g[x] = x.amount /\ x.amount \in Int
      /\ \A r \in S : f[r] = g[r] /\ f[r] \in Nat
      /\ \A r \in T : g[r] \in Int
  BY DEF Return
<1> HIDE DEF T, f, g
<1>3. SumFunctionOnSet(f, S) \in Nat
  BY <1>2, SumNat
<1>4. SumFunctionOnSet(g, T) = g[x] + SumFunctionOnSet(g, S)
  <2>1. SumFunctionOnSet(g, T) = g[x] + SumFunctionOnSet(g, T \ {x})
    BY <1>1, <1>2, SumRemove
  <2> QED
    BY <1>1, <2>1
<1>5. SumFunctionOnSet(g, S) = SumFunctionOnSet(f, S)
  BY <1>2, SumSame
<1>6. SumFunction(f) \in Nat /\ SumFunction(g) = SumFunction(f) + x.amount
  BY <1>2, <1>3, <1>4, <1>5, SumOfFunction
<1> QED
  BY <1>6 DEF Amount, T, f, g

LEMMA AmountNat ==
  ASSUME NEW S, IsFiniteSet(S), S \subseteq Return
  PROVE  Amount(S) \in Nat
<1> DEFINE f == [ret \in S |-> ret.amount]
<1>1. DOMAIN f = S /\ \A r \in S : f[r] \in Nat
  BY DEF Return
<1> HIDE DEF f
<1>2. SumFunction(f) \in Nat
  BY <1>1, SumNat, SumOfFunction
<1> QED
  BY <1>2 DEF Amount, f

\* The types the conservation rests on.
SwapTypes ==
  /\ native \in [Holder -> Nat]
  /\ chainFees \in [Chain -> Nat \cup {None}]
  /\ tokens \in [Symbol -> RT!TokenLedger]
  /\ abroad \in [Resource -> Nat]
  /\ returning \subseteq Return /\ IsFiniteSet(returning)
  /\ resourceSymbol \in [RResource \cup XResource -> Symbol \cup {None}]
  /\ symbolResource \in [Symbol -> (RResource \cup XResource) \cup {None}]
  /\ mappings \subseteq Pair

\* The returns of one resource that are under way.
Under(r) == {ret \in returning : ret.resource = r}

LEMMA ForeignNat ==
  ASSUME SwapTypes, NEW r \in Resource
  PROVE  Foreign(r) \in Nat /\ Amount(Under(r)) \in Nat /\ IsFiniteSet(Under(r))
<1>1. IsFiniteSet(Under(r)) /\ Under(r) \subseteq Return
  <2>1. Under(r) \subseteq returning
    BY DEF Under
  <2> QED
    BY <2>1, FS_Subset DEF SwapTypes
<1>2. Amount(Under(r)) \in Nat
  BY <1>1, AmountNat
<1>3. Foreign(r) = abroad[r] + Amount(Under(r))
  BY DEF Foreign, Under
<1> QED
  BY <1>1, <1>2, <1>3 DEF SwapTypes

LEMMA ResourcesOfFinite ==
  ASSUME NEW s
  PROVE  IsFiniteSet(ResourcesOf(s)) /\ ResourcesOf(s) \subseteq RResource \cup XResource
         /\ ResourcesOf(s) \subseteq Resource
<1>1. ResourcesOf(s) \subseteq RResource \cup XResource /\ RResource \cup XResource \subseteq Resource
  BY BridgeSwapAssumption DEF ResourcesOf
<1>2. ResourcesOf(s) \subseteq Resource
  BY <1>1
<1>3. IsFiniteSet(Resource)
  BY BridgeSwapAssumption
<1> QED
  BY <1>1, <1>2, <1>3, FS_Subset

LEMMA ForeignOfSum ==
  ASSUME SwapTypes, NEW s
  PROVE  /\ ForeignOf(s) = SumFunctionOnSet([r \in ResourcesOf(s) |-> Foreign(r)], ResourcesOf(s))
         /\ ForeignOf(s) \in Nat
         /\ \A r \in ResourcesOf(s) : Foreign(r) <= ForeignOf(s)
<1> DEFINE f == [r \in ResourcesOf(s) |-> Foreign(r)]
<1>1. DOMAIN f = ResourcesOf(s) /\ \A r \in ResourcesOf(s) : f[r] = Foreign(r) /\ f[r] \in Nat
  BY ResourcesOfFinite, ForeignNat
<1>2. ForeignOf(s) = SumFunction(f)
  BY DEF ForeignOf
<1> HIDE DEF f
<1>3. /\ SumFunction(f) = SumFunctionOnSet(f, ResourcesOf(s))
      /\ SumFunctionOnSet(f, ResourcesOf(s)) \in Nat
      /\ \A r \in ResourcesOf(s) : f[r] <= SumFunctionOnSet(f, ResourcesOf(s))
  BY <1>1, ResourcesOfFinite, SumNat, SumOfFunction
<1> QED
  BY <1>1, <1>2, <1>3 DEF f

(* The sum over a symbol's resources changes as one of them does, and stays *)
(* when none of them does.                                                  *)
LEMMA ForeignOfChange ==
  ASSUME SwapTypes, NEW s, mappings' = mappings,
         NEW q \in ResourcesOf(s), NEW d \in Int, Foreign(q)' = Foreign(q) + d,
         \A r \in Resource : r # q => Foreign(r)' = Foreign(r)
  PROVE  ForeignOf(s)' = ForeignOf(s) + d
<1> DEFINE S == ResourcesOf(s)
           f == [r \in S |-> Foreign(r)]
           g == [r \in S |-> Foreign(r)']
<1>1. S \subseteq Resource /\ IsFiniteSet(S) /\ q \in S
  BY ResourcesOfFinite
<1>2. \A r \in Resource : Foreign(r) \in Nat /\ Foreign(r)' \in Int
  <2>1. \A r \in Resource : Foreign(r) \in Nat
    BY ForeignNat
  <2> QED
    BY <2>1
<1>3. ResourcesOf(s)' = S
  BY DEF ResourcesOf
<1> HIDE DEF S
<1>4. /\ \A r \in S : f[r] \in Int /\ g[r] \in Int
      /\ \A r \in S \ {q} : g[r] = f[r]
      /\ f[q] = Foreign(q) /\ g[q] = Foreign(q) + d
      /\ DOMAIN f = S /\ DOMAIN g = S
  BY <1>1, <1>2
<1>5. ForeignOf(s)' = SumFunction(g) /\ ForeignOf(s) = SumFunction(f)
  <2>1. ForeignOf(s)' = SumFunction([r \in ResourcesOf(s)' |-> Foreign(r)'])
    BY DEF ForeignOf
  <2> QED
    BY <1>3, <2>1 DEF ForeignOf, S
<1> HIDE DEF f, g
<1>6. SumFunctionOnSet(g, S) = SumFunctionOnSet(f, S) - f[q] + g[q] /\ SumFunctionOnSet(f, S) \in Int
  BY <1>1, <1>4, SumChange, SumInt
<1>7. SumFunction(g) = SumFunctionOnSet(g, S) /\ SumFunction(f) = SumFunctionOnSet(f, S)
  BY <1>4, SumOfFunction
<1>8. Foreign(q) \in Nat
  BY <1>1, <1>2
<1> QED
  BY <1>4, <1>5, <1>6, <1>7, <1>8

LEMMA ForeignOfSame ==
  ASSUME NEW s, ResourcesOf(s)' = ResourcesOf(s),
         \A r \in ResourcesOf(s) : Foreign(r)' = Foreign(r)
  PROVE  ForeignOf(s)' = ForeignOf(s)
<1>1. ForeignOf(s)' = SumFunction([r \in ResourcesOf(s)' |-> Foreign(r)'])
  BY DEF ForeignOf
<1>2. [r \in ResourcesOf(s) |-> Foreign(r)'] = [r \in ResourcesOf(s) |-> Foreign(r)]
  OBVIOUS
<1> QED
  BY <1>1, <1>2 DEF ForeignOf

(* A transfer that is announced adds its value to what is abroad.           *)
LEMMA AnnounceForeign ==
  ASSUME SwapTypes, NEW q \in Resource, NEW v \in Nat, returning' = returning,
         abroad' = [abroad EXCEPT ![q] = @ + v]
  PROVE  Foreign(q)' = Foreign(q) + v /\ \A r \in Resource : r # q => Foreign(r)' = Foreign(r)
<1>1. \A r \in Resource : Foreign(r)' = abroad'[r] + Amount(Under(r))
  BY DEF Foreign, Under, Amount
<1>2. \A r \in Resource : Foreign(r) = abroad[r] + Amount(Under(r)) /\ abroad[r] \in Nat
  BY DEF Foreign, Under, SwapTypes
<1>3. abroad'[q] = abroad[q] + v /\ \A r \in Resource : r # q => abroad'[r] = abroad[r]
  BY DEF SwapTypes
<1>4. Amount(Under(q)) \in Nat
  BY ForeignNat
<1> QED
  BY <1>1, <1>2, <1>3, <1>4

(* A return that is executed is no longer held by the other side.           *)
LEMMA PaidForeign ==
  ASSUME SwapTypes, NEW ret \in returning, abroad' = abroad, returning' = returning \ {ret}
  PROVE  /\ ret.resource \in Resource /\ ret.amount \in Nat
         /\ Foreign(ret.resource)' = Foreign(ret.resource) - ret.amount
         /\ Foreign(ret.resource) >= ret.amount
         /\ \A r \in Resource : r # ret.resource => Foreign(r)' = Foreign(r)
<1> DEFINE q == ret.resource
           S == Under(q) \ {ret}
<1>1. q \in Resource /\ ret.amount \in Nat /\ ret \in Return
  BY DEF SwapTypes, Return
<1>2. \A r \in Resource : Foreign(r)' = abroad[r] + Amount({x \in returning' : x.resource = r})
  BY DEF Foreign, Amount
<1>3. \A r \in Resource : Foreign(r) = abroad[r] + Amount(Under(r)) /\ abroad[r] \in Nat
  BY DEF Foreign, Under, SwapTypes
<1>4. {x \in returning' : x.resource = q} = S
      /\ \A r \in Resource : r # q => {x \in returning' : x.resource = r} = Under(r)
  BY DEF Under
<1>5. IsFiniteSet(Under(q)) /\ Under(q) \subseteq Return
  BY <1>1, ForeignNat DEF Under, SwapTypes
<1>6. S \cup {ret} = Under(q) /\ S \subseteq Under(q)
  BY DEF Under
<1> HIDE DEF S
<1>7. IsFiniteSet(S) /\ S \subseteq Return /\ ret \notin S
  BY <1>5, <1>6, FS_Subset DEF S
<1>8. Amount(S) \in Nat /\ Amount(S \cup {ret}) = Amount(S) + ret.amount
  BY <1>1, <1>7, AmountAdd
<1>9. Foreign(q) = abroad[q] + (Amount(S) + ret.amount) /\ Foreign(q)' = abroad[q] + Amount(S)
  BY <1>1, <1>2, <1>3, <1>4, <1>6, <1>8
<1>10. \A r \in Resource : r # q => Foreign(r)' = Foreign(r)
  BY <1>2, <1>3, <1>4
<1> QED
  BY <1>1, <1>3, <1>8, <1>9, <1>10

(* A return that is opened moves its amount, and no more.                   *)
LEMMA ReturnForeign ==
  ASSUME SwapTypes, NEW ret \in Return, RemoteReturn(ret)
  PROVE  \A r \in Resource : Foreign(r)' = Foreign(r)
<1> DEFINE q == ret.resource
<1>1. q \in Resource /\ ret.amount \in Nat
  BY DEF Return
<1>2. /\ ret \notin returning /\ abroad[q] >= ret.amount
      /\ abroad' = [abroad EXCEPT ![q] = @ - ret.amount] /\ returning' = returning \cup {ret}
  BY DEF RemoteReturn
<1>3. \A r \in Resource : Foreign(r)' = abroad'[r] + Amount({x \in returning' : x.resource = r})
  BY DEF Foreign, Amount
<1>4. \A r \in Resource : Foreign(r) = abroad[r] + Amount(Under(r)) /\ abroad[r] \in Nat
  BY DEF Foreign, Under, SwapTypes
<1>5. {x \in returning' : x.resource = q} = Under(q) \cup {ret}
      /\ \A r \in Resource : r # q => {x \in returning' : x.resource = r} = Under(r)
  BY <1>2 DEF Under
<1>6. IsFiniteSet(Under(q)) /\ Under(q) \subseteq Return /\ ret \notin Under(q)
  BY <1>1, <1>2, ForeignNat DEF Under, SwapTypes
<1>7. Amount(Under(q)) \in Nat /\ Amount(Under(q) \cup {ret}) = Amount(Under(q)) + ret.amount
  BY <1>6, AmountAdd
<1>8. abroad'[q] = abroad[q] - ret.amount /\ \A r \in Resource : r # q => abroad'[r] = abroad[r]
  BY <1>1, <1>2 DEF SwapTypes
<1>9. Foreign(q)' = Foreign(q)
  BY <1>1, <1>3, <1>4, <1>5, <1>7, <1>8
<1> QED
  BY <1>3, <1>4, <1>5, <1>8, <1>9

-----------------------------------------------------------------------------
(* bridge/swap: nothing is created or lost.                                 *)

Supply == StartTokens * Cardinality(User)

\* One symbol's share of BothSidesConserved.
Balanced(s) ==
  /\ Sound(tokens[s])
  /\ IF s \in Burnt THEN tokens[s].issuance + ForeignOf(s) = Supply
     ELSE tokens[s].issuance = Supply /\ tokens[s].free[Bridge] >= ForeignOf(s)

NativeCovered == native[Bridge] >= Foreign(NativeTokenId) + Reserve
SymbolsBalanced == \A s \in Symbol : Exclusive(s) => Balanced(s)

\* Every map entry was once set, and a resource that never was is unused.
MapsRecorded ==
  /\ \A r \in RResource \cup XResource :
       resourceSymbol[r] # None => <<r, resourceSymbol[r]>> \in mappings
  /\ \A s \in Symbol : symbolResource[s] # None => <<symbolResource[s], s>> \in mappings
UnmappedUnused ==
  \A r \in RResource \cup XResource :
    (\A s \in Symbol : <<r, s>> \notin mappings) => Foreign(r) = 0

SwapInv == SwapTypes /\ MapsRecorded /\ UnmappedUnused /\ NativeCovered /\ SymbolsBalanced

LEMMA SupplyFacts ==
  /\ Supply \in Nat /\ Supply < TokenLimit /\ TokenLimit \in Nat /\ TokenLimit # 0 /\ Reserve \in Nat
  /\ NativeTokenId \in Resource /\ RResource \cup XResource \subseteq Resource
  /\ NativeTokenId \notin RResource \cup XResource
<1>1. Cardinality(User) \in Nat /\ StartTokens \in Nat
  BY BridgeSwapAssumption, FS_CardinalityType
<1>2. Supply \in Nat
  BY <1>1 DEF Supply
<1> QED
  BY <1>2, BridgeSwapAssumption DEF Supply

LEMMA SwapInit == Init => SwapInv
<1> SUFFICES ASSUME Init PROVE SwapInv
  OBVIOUS
<1> DEFINE f == [a \in Holder |-> IF a \in User THEN StartTokens ELSE 0]
           ledger == [free |-> f, issuance |-> Supply]
<1>1. /\ tokens = [s \in Symbol |-> ledger] /\ abroad = [r \in Resource |-> 0] /\ returning = {}
      /\ mappings = {} /\ resourceSymbol = [r \in RResource \cup XResource |-> None]
      /\ symbolResource = [s \in Symbol |-> None] /\ chainFees = [c \in Chain |-> None]
      /\ native = [a \in Holder |-> IF a = Bridge THEN Reserve
                                    ELSE IF a = Recipient THEN RecipientFunds ELSE NativeGrant]
  BY DEF Init, Supply
<1>2. ledger \in RT!TokenLedger
  <2>1. StartTokens \in Nat
    BY BridgeSwapAssumption
  <2> QED
    BY <2>1, SupplyFacts DEF RT!TokenLedger
<1>3. Sound(ledger)
  <2>1. \A a \in Holder : f[a] = IF a \in User THEN StartTokens ELSE 0
    OBVIOUS
  <2>2. DOMAIN f = Holder /\ StartTokens \in Nat
    BY BridgeSwapAssumption
  <2>3. Holder \cap User = User
    BY DEF Holder
  <2>4. ledger.free = f /\ ledger.issuance = Supply
    OBVIOUS
  <2> HIDE DEF f, ledger
  <2>5. SumFunctionOnSet(f, Holder) = StartTokens * Cardinality(Holder \cap User)
    BY <2>1, <2>2, HolderFinite, SumConstant
  <2>6. SumFunction(f) = Supply
    BY <2>2, <2>3, <2>5, SumOfFunction DEF Supply
  <2> QED
    BY <1>2, <2>4, <2>6, HeldIsSum DEF Sound
<1>4. SwapTypes
  <2>1. native \in [Holder -> Nat]
    BY <1>1, BridgeSwapAssumption
  <2> HIDE DEF ledger
  <2> QED
    BY <1>1, <1>2, <2>1, FS_EmptySet DEF SwapTypes
<1>5. \A r \in Resource : Foreign(r) = 0
  <2>1. Amount({}) = 0
    BY SumEmpty DEF Amount, SumFunction
  <2>2. \A r \in Resource : {ret \in returning : ret.resource = r} = {} /\ abroad[r] = 0
    BY <1>1
  <2> QED
    BY <2>1, <2>2 DEF Foreign
<1>6. \A s : ResourcesOf(s) = {}
  BY <1>1 DEF ResourcesOf
<1>7. \A s : ForeignOf(s) = 0
  BY <1>6, SumEmpty DEF ForeignOf, SumFunction
<1>8. NativeCovered
  BY <1>1, <1>5, SupplyFacts, HolderFinite DEF NativeCovered
<1>9. SymbolsBalanced
  <2>1. ledger.issuance = Supply /\ ledger.free[Bridge] = 0
    BY HolderFinite
  <2>2. \A s \in Symbol : tokens[s] = ledger
    BY <1>1
  <2> HIDE DEF ledger
  <2>3. \A s \in Symbol : Balanced(s)
    BY <1>3, <1>7, <2>1, <2>2, SupplyFacts DEF Balanced
  <2> QED
    BY <2>3 DEF SymbolsBalanced
<1>10. MapsRecorded
  BY <1>1 DEF MapsRecorded
<1>11. UnmappedUnused
  BY <1>5, SupplyFacts DEF UnmappedUnused
<1> QED
  BY <1>4, <1>8, <1>9, <1>10, <1>11 DEF SwapInv

(* Calls that leave balances and transfers alone keep every sum.            *)
LEMMA AdminKeeps ==
  ASSUME SwapInv, SwapTypes', MapsRecorded',
         UNCHANGED <<native, tokens, abroad, returning, mappings>>
  PROVE  SwapInv'
<1>1. \A r : Foreign(r)' = Foreign(r)
  BY DEF Foreign, Amount
<1>2. \A s : ResourcesOf(s)' = ResourcesOf(s) /\ Exclusive(s)' = Exclusive(s)
  BY DEF ResourcesOf, Exclusive
<1>3. \A s : ForeignOf(s)' = ForeignOf(s)
  BY <1>1, <1>2, ForeignOfSame
<1>4. NativeCovered' /\ UnmappedUnused'
  BY <1>1 DEF SwapInv, NativeCovered, UnmappedUnused
<1>5. SymbolsBalanced'
  <2> SUFFICES ASSUME NEW s \in Symbol, Exclusive(s) PROVE Balanced(s)'
    BY <1>2 DEF SymbolsBalanced
  <2>1. Balanced(s)
    BY DEF SwapInv, SymbolsBalanced
  <2> QED
    BY <1>3, <2>1 DEF Balanced, Sound
<1> QED
  BY <1>4, <1>5 DEF SwapInv

(* A new pair brings its resource to the symbol; if the symbol's resources  *)
(* are still its own, the resource was never used                           *)
(* (map_resource_and_rsymbol, map_resource_and_xsymbol).                    *)
LEMMA MapKeeps ==
  ASSUME SwapInv, NEW q \in RResource \cup XResource, NEW u \in Symbol, MapResourceAndSymbol(q, u)
  PROVE  SwapInv'
<1>1. /\ <<q, u>> \in Pair
      /\ resourceSymbol' = [resourceSymbol EXCEPT ![q] = u]
      /\ symbolResource' = [symbolResource EXCEPT ![u] = q]
      /\ mappings' = mappings \cup {<<q, u>>}
      /\ UNCHANGED <<chainFees, native, tokens, abroad, returning>>
  BY DEF MapResourceAndSymbol, config
<1>2. SwapTypes'
  BY <1>1 DEF SwapInv, SwapTypes
<1>3. MapsRecorded'
  <2>1. \A r \in RResource \cup XResource :
          resourceSymbol'[r] = IF r = q THEN u ELSE resourceSymbol[r]
    BY <1>1 DEF SwapInv, SwapTypes
  <2>2. \A s \in Symbol : symbolResource'[s] = IF s = u THEN q ELSE symbolResource[s]
    BY <1>1 DEF SwapInv, SwapTypes
  <2> QED
    BY <1>1, <2>1, <2>2 DEF SwapInv, MapsRecorded
<1>4. \A r : Foreign(r)' = Foreign(r)
  BY <1>1 DEF Foreign, Amount
<1>5. NativeCovered' /\ UnmappedUnused'
  BY <1>1, <1>4 DEF SwapInv, NativeCovered, UnmappedUnused
<1>6. ASSUME NEW s \in Symbol, Exclusive(s)' PROVE Balanced(s)'
  <2>1. Exclusive(s)
    BY <1>1, <1>6 DEF Exclusive, ResourcesOf
  <2>2. Balanced(s)
    BY <2>1 DEF SwapInv, SymbolsBalanced
  <2>3. ForeignOf(s)' = ForeignOf(s)
    <3>1. CASE <<q, s>> \in mappings' /\ <<q, s>> \notin mappings
      <4> DEFINE S == ResourcesOf(s)
                 T == S \cup {q}
                 f == [r \in S |-> Foreign(r)]
                 g == [r \in T |-> Foreign(r)]
      <4>1. s = u
        BY <1>1, <3>1
      <4>2. ResourcesOf(s)' = T /\ q \notin S
        BY <1>1, <3>1, <4>1 DEF ResourcesOf
      <4>3. \A t \in Symbol : <<q, t>> \notin mappings
        BY <1>1, <1>6, <3>1, <4>1, <4>2 DEF Exclusive
      <4>4. Foreign(q) = 0
        BY <4>3 DEF SwapInv, UnmappedUnused
      <4>5. IsFiniteSet(S) /\ IsFiniteSet(T) /\ T \ {q} = S /\ q \in T
        BY <4>2, ResourcesOfFinite, FS_AddElement
      <4>6. \A r \in S : f[r] = Foreign(r) /\ g[r] = Foreign(r) /\ Foreign(r) \in Nat
        BY ResourcesOfFinite, ForeignNat DEF SwapInv
      <4>7. /\ DOMAIN f = S /\ DOMAIN g = T /\ g[q] = 0
            /\ \A r \in T : g[r] \in Int
            /\ \A r \in S : f[r] = g[r]
        BY <4>4, <4>6
      <4>8. ForeignOf(s) = SumFunction(f) /\ ForeignOf(s)' = SumFunction(g)
        <5>1. ForeignOf(s)' = SumFunction([r \in ResourcesOf(s)' |-> Foreign(r)'])
          BY DEF ForeignOf
        <5>2. [r \in ResourcesOf(s)' |-> Foreign(r)'] = g
          BY <1>4, <4>2
        <5> QED
          BY <5>1, <5>2 DEF ForeignOf
      <4> HIDE DEF S, T, f, g
      <4>9. SumFunctionOnSet(g, T) = g[q] + SumFunctionOnSet(g, S)
        <5>1. SumFunctionOnSet(g, T) = g[q] + SumFunctionOnSet(g, T \ {q})
          BY <4>5, <4>7, SumRemove
        <5> QED
          BY <4>5, <5>1
      <4>10. SumFunctionOnSet(g, S) = SumFunctionOnSet(f, S)
        BY <4>5, <4>7, SumSame
      <4>11. SumFunctionOnSet(f, S) \in Int
        BY <4>5, <4>6, SumInt
      <4> QED
        BY <4>7, <4>8, <4>9, <4>10, <4>11, SumOfFunction
    <3>2. CASE ~(<<q, s>> \in mappings' /\ <<q, s>> \notin mappings)
      <4>1. ResourcesOf(s)' = ResourcesOf(s)
        BY <1>1, <3>2 DEF ResourcesOf
      <4> QED
        BY <1>4, <4>1, ForeignOfSame
    <3> QED
      BY <3>1, <3>2
  <2> QED
    BY <1>1, <2>2, <2>3 DEF Balanced, Sound
<1> QED
  BY <1>2, <1>3, <1>5, <1>6 DEF SwapInv, SymbolsBalanced

LEMMA PaidFacts ==
  ASSUME NEW n \in [Holder -> Nat], NEW from \in Holder, NEW to \in Holder, from # to,
         NEW value \in Nat, CanPay(n, from, to, value)
  PROVE  /\ Paid(n, from, to, value) \in [Holder -> Nat]
         /\ Paid(n, from, to, value)[from] = n[from] - value
         /\ Paid(n, from, to, value)[to] = n[to] + value
         /\ \A a \in Holder : a # from /\ a # to => Paid(n, from, to, value)[a] = n[a]
<1>1. n[from] >= value
  BY DepositAssumption DEF CanPay
<1>2. n[from] - value \in Nat /\ n[to] + value \in Nat
  BY <1>1
<1> QED
  BY <1>2 DEF Paid

(* The symbols are untouched when their resources and ledgers are.          *)
LEMMA SymbolsKept ==
  ASSUME SwapInv, tokens' = tokens, mappings' = mappings,
         \A r \in RResource \cup XResource : Foreign(r)' = Foreign(r)
  PROVE  SymbolsBalanced' /\ UnmappedUnused'
<1>1. \A s : ResourcesOf(s)' = ResourcesOf(s) /\ Exclusive(s)' = Exclusive(s)
  BY DEF ResourcesOf, Exclusive
<1>2. \A s : ForeignOf(s)' = ForeignOf(s)
  BY <1>1, ResourcesOfFinite, ForeignOfSame
<1>3. SymbolsBalanced'
  <2> SUFFICES ASSUME NEW s \in Symbol, Exclusive(s) PROVE Balanced(s)'
    BY <1>1 DEF SymbolsBalanced
  <2>1. Balanced(s)
    BY DEF SwapInv, SymbolsBalanced
  <2> QED
    BY <1>2, <2>1 DEF Balanced, Sound
<1>4. UnmappedUnused'
  BY DEF SwapInv, UnmappedUnused
<1> QED
  BY <1>3, <1>4

(* The bridge account gains at least the value, whether or not the fee can  *)
(* be paid on; what is taken without being sent is never abroad             *)
(* (transfer_native).                                                       *)
LEMMA TransferNativeKeeps ==
  ASSUME SwapInv, NEW who \in User, NEW v \in Value, NEW dest \in Chain,
         TransferNative(who, v, dest)
  PROVE  /\ SwapInv'
         /\ unsent' # unsent =>
              native[Bridge] < ExistentialDeposit \/ native[Recipient] < ExistentialDeposit
<1> DEFINE fee == chainFees[dest]
           locked == Paid(native, who, Bridge, v + fee)
           covered == CanPay(locked, Bridge, Recipient, fee)
<1>1. /\ ChainWhitelisted(dest) /\ fee # None
      /\ CanPay(native, who, Bridge, v + fee)
      /\ UNCHANGED <<paused, chainFees, recipientSet, resourceSymbol, symbolResource, mappings,
                     tokens, returning>>
  BY DEF TransferNative, Swapable, config, maps
<1>2. /\ covered => native' = Paid(locked, Bridge, Recipient, fee)
                    /\ abroad' = [abroad EXCEPT ![NativeTokenId] = @ + v] /\ unsent' = unsent
      /\ ~covered => native' = locked /\ abroad' = abroad
  BY <1>1 DEF TransferNative, Announce
<1>3. /\ native \in [Holder -> Nat] /\ fee \in Nat /\ v \in Nat /\ v + fee \in Nat
      /\ who \in Holder /\ who # Bridge /\ who # Recipient
      /\ NativeTokenId \in Resource /\ abroad \in [Resource -> Nat] /\ SwapTypes
  BY <1>1, HolderFinite, SupplyFacts, BridgeSwapAssumption DEF SwapInv, SwapTypes
<1>4. /\ locked \in [Holder -> Nat] /\ locked[Bridge] = native[Bridge] + (v + fee)
      /\ locked[Recipient] = native[Recipient]
  <2>1. PICK sum \in Nat : sum = v + fee
    BY <1>3
  <2> QED
    BY <1>1, <1>3, <2>1, PaidFacts, HolderFinite
<1>5. native[Bridge] \in Nat /\ native[Recipient] \in Nat
  BY <1>3, HolderFinite
<1> HIDE DEF fee, locked
<1>6. CASE covered
  <2>1. native' \in [Holder -> Nat] /\ native'[Bridge] = locked[Bridge] - fee
    BY <1>2, <1>3, <1>4, <1>6, PaidFacts, HolderFinite
  <2>2. abroad' \in [Resource -> Nat] /\ abroad' = [abroad EXCEPT ![NativeTokenId] = @ + v]
    BY <1>2, <1>3, <1>6
  <2>3. /\ Foreign(NativeTokenId)' = Foreign(NativeTokenId) + v
        /\ \A r \in Resource : r # NativeTokenId => Foreign(r)' = Foreign(r)
    BY <1>1, <1>3, <2>2, AnnounceForeign
  <2>4. NativeCovered'
    <3>1. Foreign(NativeTokenId) \in Nat /\ Reserve \in Nat
      BY <1>3, ForeignNat, SupplyFacts
    <3>2. native[Bridge] >= Foreign(NativeTokenId) + Reserve
      BY DEF SwapInv, NativeCovered
    <3> QED
      BY <1>3, <1>4, <1>5, <2>1, <2>3, <3>1, <3>2 DEF NativeCovered
  <2>5. SymbolsBalanced' /\ UnmappedUnused'
    BY <1>1, <2>3, SupplyFacts, SymbolsKept
  <2>6. SwapTypes' /\ MapsRecorded'
    BY <1>1, <2>1, <2>2 DEF SwapInv, SwapTypes, MapsRecorded
  <2> QED
    BY <1>2, <1>6, <2>4, <2>5, <2>6 DEF SwapInv
<1>7. CASE ~covered
  <2>1. native' = locked /\ abroad' = abroad
    BY <1>2, <1>7
  <2>2. \A r : Foreign(r)' = Foreign(r)
    BY <1>1, <2>1 DEF Foreign, Amount
  <2>3. NativeCovered'
    <3>1. Foreign(NativeTokenId) \in Nat /\ Reserve \in Nat
      BY <1>3, ForeignNat, SupplyFacts
    <3>2. native[Bridge] >= Foreign(NativeTokenId) + Reserve
      BY DEF SwapInv, NativeCovered
    <3> QED
      BY <1>3, <1>4, <1>5, <2>1, <2>2, <3>1, <3>2 DEF NativeCovered
  <2>4. SymbolsBalanced' /\ UnmappedUnused'
    BY <1>1, <2>2, SymbolsKept
  <2>5. SwapTypes' /\ MapsRecorded'
    BY <1>1, <1>4, <2>1 DEF SwapInv, SwapTypes, MapsRecorded
  <2>6. native[Bridge] < ExistentialDeposit \/ native[Recipient] < ExistentialDeposit
    <3>1. ~(locked[Bridge] >= fee + ExistentialDeposit
              /\ locked[Recipient] + fee >= ExistentialDeposit)
      BY <1>7 DEF CanPay
    <3> QED
      BY <1>3, <1>4, <1>5, <3>1, DepositAssumption
  <2> QED
    BY <2>3, <2>4, <2>5, <2>6 DEF SwapInv
<1> QED
  BY <1>6, <1>7

(* A return of native tokens leaves the bridge account what is still        *)
(* abroad (transfer_native_back).                                           *)
LEMMA TransferNativeBackKeeps ==
  ASSUME SwapInv, NEW ret \in returning, TransferNativeBack(ret)
  PROVE  SwapInv'
<1>1. /\ ret.resource = NativeTokenId /\ CanPay(native, Bridge, ret.to, ret.amount)
      /\ native' = Paid(native, Bridge, ret.to, ret.amount) /\ returning' = returning \ {ret}
      /\ UNCHANGED <<chainFees, resourceSymbol, symbolResource, mappings, tokens, abroad>>
  BY DEF TransferNativeBack, config, maps
<1>2. /\ SwapTypes /\ native \in [Holder -> Nat] /\ ret.to \in Holder /\ ret.to # Bridge
      /\ ret.amount \in Nat /\ Bridge \in Holder
  BY HolderFinite DEF SwapInv, SwapTypes, Return
<1>3. native' \in [Holder -> Nat] /\ native'[Bridge] = native[Bridge] - ret.amount
  <2>1. PICK to \in Holder, amount \in Nat : to = ret.to /\ amount = ret.amount
    BY <1>2
  <2> QED
    BY <1>1, <1>2, <2>1, PaidFacts
<1>4. /\ Foreign(NativeTokenId)' = Foreign(NativeTokenId) - ret.amount
      /\ \A r \in Resource : r # NativeTokenId => Foreign(r)' = Foreign(r)
  BY <1>1, <1>2, PaidForeign
<1>5. NativeCovered'
  <2>1. Foreign(NativeTokenId) \in Nat /\ Reserve \in Nat /\ native[Bridge] \in Nat
    BY <1>2, ForeignNat, SupplyFacts
  <2>2. native[Bridge] >= Foreign(NativeTokenId) + Reserve
    BY DEF SwapInv, NativeCovered
  <2> QED
    BY <1>2, <1>3, <1>4, <2>1, <2>2 DEF NativeCovered
<1>6. SymbolsBalanced' /\ UnmappedUnused'
  BY <1>1, <1>4, SupplyFacts, SymbolsKept
<1>7. SwapTypes' /\ MapsRecorded'
  <2>1. returning' \subseteq Return /\ IsFiniteSet(returning')
    BY <1>1, FS_Subset DEF SwapInv, SwapTypes
  <2> QED
    BY <1>1, <1>3, <2>1 DEF SwapInv, SwapTypes, MapsRecorded
<1> QED
  BY <1>5, <1>6, <1>7 DEF SwapInv

LEMMA RemoteReturnKeeps ==
  ASSUME SwapInv, NEW ret \in Return, RemoteReturn(ret)
  PROVE  SwapInv'
<1>1. /\ abroad[ret.resource] >= ret.amount
      /\ abroad' = [abroad EXCEPT ![ret.resource] = @ - ret.amount]
      /\ returning' = returning \cup {ret}
      /\ UNCHANGED <<chainFees, resourceSymbol, symbolResource, mappings, tokens, native>>
  BY DEF RemoteReturn, config, maps
<1>2. SwapTypes /\ ret.resource \in Resource /\ ret.amount \in Nat
  BY DEF SwapInv, Return
<1>3. \A r \in Resource : Foreign(r)' = Foreign(r)
  BY <1>2, ReturnForeign
<1>4. NativeCovered'
  BY <1>1, <1>3, SupplyFacts DEF SwapInv, NativeCovered
<1>5. SymbolsBalanced' /\ UnmappedUnused'
  BY <1>1, <1>3, SupplyFacts, SymbolsKept
<1>6. SwapTypes' /\ MapsRecorded'
  <2>1. returning' \subseteq Return /\ IsFiniteSet(returning')
    BY <1>1, FS_AddElement DEF SwapInv, SwapTypes
  <2>2. abroad' \in [Resource -> Nat]
    <3>1. abroad[ret.resource] - ret.amount \in Nat
      BY <1>1, <1>2 DEF SwapTypes
    <3> QED
      BY <1>1, <1>2, <3>1 DEF SwapTypes
  <2> QED
    BY <1>1, <2>1, <2>2 DEF SwapInv, SwapTypes, MapsRecorded
<1> QED
  BY <1>4, <1>5, <1>6 DEF SwapInv

(* A transfer of one symbol under one of its resources leaves the symbols   *)
(* that share no resource with it alone.                                    *)
LEMMA OneSymbol ==
  ASSUME SwapInv, NEW u \in Symbol, NEW q \in RResource \cup XResource, <<q, u>> \in mappings,
         mappings' = mappings, \A t \in Symbol : t # u => tokens'[t] = tokens[t],
         \A r \in Resource : r # q => Foreign(r)' = Foreign(r),
         Exclusive(u) => Balanced(u)'
  PROVE  SymbolsBalanced' /\ UnmappedUnused'
<1>1. \A s : ResourcesOf(s)' = ResourcesOf(s) /\ Exclusive(s)' = Exclusive(s)
  BY DEF ResourcesOf, Exclusive
<1>2. ASSUME NEW s \in Symbol, Exclusive(s), s # u PROVE Balanced(s)'
  <2>1. q \notin ResourcesOf(s)
    BY <1>2 DEF Exclusive
  <2>2. \A r \in ResourcesOf(s) : Foreign(r)' = Foreign(r)
    BY <2>1, ResourcesOfFinite
  <2>3. ForeignOf(s)' = ForeignOf(s)
    BY <1>1, <2>2, ForeignOfSame
  <2>4. Balanced(s)
    BY <1>2 DEF SwapInv, SymbolsBalanced
  <2> QED
    BY <1>2, <2>3, <2>4 DEF Balanced, Sound
<1>3. SymbolsBalanced'
  BY <1>1, <1>2 DEF SymbolsBalanced
<1>4. UnmappedUnused'
  BY SupplyFacts DEF SwapInv, UnmappedUnused
<1> QED
  BY <1>3, <1>4

(* A token that goes out is burnt or locked, and as much is announced       *)
(* (transfer_rtoken, transfer_xtoken).                                      *)
LEMMA TransferTokenKeeps ==
  ASSUME SwapInv, NEW who \in User, NEW u \in Symbol, NEW v \in Value, NEW dest \in Chain,
         TransferToken(who, u, v, dest)
  PROVE  SwapInv' /\ unsent' = unsent
<1>0. PICK q : q = symbolResource[u]
  OBVIOUS
<1> DEFINE b == tokens[u]
           c == IF u \in Burnt THEN XT!Burned(b, who, v) ELSE RT!Transferred(b, who, Bridge, v)
           fee == chainFees[dest]
<1>1. /\ ChainWhitelisted(dest) /\ fee # None /\ q # None /\ b.free[who] >= v
      /\ CanPay(native, who, Recipient, fee) /\ native' = Paid(native, who, Recipient, fee)
      /\ tokens' = [tokens EXCEPT ![u] = c]
      /\ UNCHANGED <<chainFees, resourceSymbol, symbolResource, mappings, returning>>
  BY <1>0 DEF TransferToken, Swapable, config, maps
<1>2. abroad' = [abroad EXCEPT ![q] = @ + v] /\ unsent' = unsent
  BY <1>0, <1>1 DEF TransferToken, Announce
<1>3. /\ SwapTypes /\ native \in [Holder -> Nat] /\ tokens \in [Symbol -> RT!TokenLedger]
      /\ b \in RT!TokenLedger /\ fee \in Nat /\ v \in Nat /\ abroad \in [Resource -> Nat]
      /\ who \in Holder /\ who # Bridge /\ who # Recipient
      /\ q \in RResource \cup XResource /\ q \in Resource /\ q # NativeTokenId
      /\ <<q, u>> \in mappings
  <2>1. q \in RResource \cup XResource /\ <<q, u>> \in mappings
    BY <1>0, <1>1 DEF SwapInv, SwapTypes, MapsRecorded
  <2>2. fee \in Nat
    BY <1>1 DEF SwapInv, SwapTypes
  <2> QED
    BY <2>1, <2>2, HolderFinite, SupplyFacts, BridgeSwapAssumption DEF SwapInv, SwapTypes
<1>4. native' \in [Holder -> Nat] /\ native'[Bridge] = native[Bridge]
  BY <1>1, <1>3, PaidFacts, HolderFinite
<1>5. /\ Foreign(q)' = Foreign(q) + v
      /\ \A r \in Resource : r # q => Foreign(r)' = Foreign(r)
  BY <1>1, <1>2, <1>3, AnnounceForeign
<1>6. c \in RT!TokenLedger
  <2>1. XT!Burned(b, who, v) \in RT!TokenLedger
    BY <1>1, <1>3, BurnedSound
  <2>2. RT!Transferred(b, who, Bridge, v) \in RT!TokenLedger
    BY <1>1, <1>3, TransferredSound, HolderFinite
  <2> QED
    BY <2>1, <2>2
<1>7. ASSUME Exclusive(u) PROVE Balanced(u)'
  <2>1. Balanced(u)
    BY <1>7 DEF SwapInv, SymbolsBalanced
  <2>2. ForeignOf(u)' = ForeignOf(u) + v /\ ForeignOf(u) \in Nat
    <3>1. q \in ResourcesOf(u)
      BY <1>3 DEF ResourcesOf
    <3>2. PICK d \in Int : d = v /\ Foreign(q)' = Foreign(q) + d
      BY <1>3, <1>5
    <3>3. ForeignOf(u)' = ForeignOf(u) + d
      BY <1>1, <1>3, <1>5, <3>1, <3>2, ForeignOfChange
    <3> QED
      BY <1>3, <3>2, <3>3, ForeignOfSum
  <2>3. tokens'[u] = c
    BY <1>1, <1>3
  <2>4. CASE u \in Burnt
    <3>1. Sound(c) /\ c.issuance = b.issuance - v
      BY <1>1, <1>3, <2>1, <2>4, BurnedSound DEF Balanced
    <3>2. b.issuance + ForeignOf(u) = Supply /\ b.issuance \in Nat
      BY <1>3, <2>1, <2>4 DEF Balanced, RT!TokenLedger
    <3>3. c.issuance + ForeignOf(u)' = Supply
      BY <1>3, <2>2, <3>1, <3>2
    <3> HIDE DEF c
    <3> QED
      BY <2>3, <2>4, <3>1, <3>3 DEF Balanced, Sound
  <2>5. CASE u \notin Burnt
    <3>1. /\ Sound(c) /\ c.issuance = b.issuance
          /\ c.free[Bridge] = b.free[Bridge] + v
      BY <1>1, <1>3, <2>1, <2>5, TransferredSound, HolderFinite DEF Balanced
    <3>2. b.issuance = Supply /\ b.free[Bridge] >= ForeignOf(u) /\ b.free[Bridge] \in Nat
      BY <1>3, <2>1, <2>5, HolderFinite DEF Balanced, RT!TokenLedger
    <3>3. c.free[Bridge] >= ForeignOf(u)'
      BY <1>3, <2>2, <3>1, <3>2
    <3> HIDE DEF c
    <3> QED
      BY <2>3, <2>5, <3>1, <3>2, <3>3 DEF Balanced, Sound
  <2> QED
    BY <2>4, <2>5
<1> HIDE DEF c
<1>8. SymbolsBalanced' /\ UnmappedUnused'
  BY <1>1, <1>3, <1>5, <1>7, OneSymbol
<1>9. NativeCovered'
  BY <1>3, <1>4, <1>5, SupplyFacts DEF SwapInv, NativeCovered
<1>10. SwapTypes' /\ MapsRecorded'
  BY <1>1, <1>2, <1>3, <1>4, <1>6 DEF SwapInv, SwapTypes, MapsRecorded
<1> QED
  BY <1>2, <1>8, <1>9, <1>10 DEF SwapInv

(* A token that comes back is minted or unlocked under the symbol its       *)
(* resource has now (transfer_rtoken_back, transfer_xtoken_back).           *)
LEMMA TransferTokenBackKeeps ==
  ASSUME SwapInv, NEW ret \in returning, TransferTokenBack(ret)
  PROVE  SwapInv'
<1>0. PICK u : u = resourceSymbol[ret.resource]
  OBVIOUS
<1> DEFINE q == ret.resource
           b == tokens[u]
           v == ret.amount
           c == IF u \in Burnt THEN XT!Minted(b, ret.to, v) ELSE RT!Transferred(b, Bridge, ret.to, v)
<1>1. /\ q # NativeTokenId /\ u # None
      /\ IF u \in Burnt THEN XT!CanMint(b, ret.to, v) ELSE RT!CanTransfer(b, Bridge, ret.to, v)
      /\ tokens' = [tokens EXCEPT ![u] = c] /\ returning' = returning \ {ret}
      /\ UNCHANGED <<chainFees, resourceSymbol, symbolResource, mappings, native, abroad>>
  BY <1>0 DEF TransferTokenBack, config, maps
<1>2. /\ SwapTypes /\ tokens \in [Symbol -> RT!TokenLedger]
      /\ ret.to \in Holder /\ ret.to # Bridge /\ v \in Nat \ {0} /\ Bridge \in Holder
      /\ q \in RResource \cup XResource /\ q \in Resource
      /\ u \in Symbol /\ b \in RT!TokenLedger /\ <<q, u>> \in mappings
  <2>1. ret \in Return /\ SwapTypes
    BY DEF SwapInv, SwapTypes
  <2>2. q \in RResource \cup XResource /\ q \in Resource
    BY <1>1, <2>1, BridgeSwapAssumption DEF Return
  <2>3. u \in Symbol /\ <<q, u>> \in mappings
    BY <1>0, <1>1, <2>2 DEF SwapInv, SwapTypes, MapsRecorded
  <2> QED
    BY <2>1, <2>2, <2>3, HolderFinite DEF SwapTypes, Return
<1>3. /\ Foreign(q)' = Foreign(q) - v /\ Foreign(q) >= v
      /\ \A r \in Resource : r # q => Foreign(r)' = Foreign(r)
  BY <1>1, <1>2, PaidForeign
<1>4. PICK to \in Holder : to = ret.to /\ to # Bridge
  BY <1>2
<1>5. u \notin Burnt => b.free[Bridge] >= v
  BY <1>1, <1>2 DEF RT!CanTransfer, RT!Idle
<1> HIDE DEF v, q
<1>6. c \in RT!TokenLedger
  <2>1. XT!Minted(b, to, v) \in RT!TokenLedger
    BY <1>2, MintedSound, SupplyFacts
  <2>2. u \notin Burnt => RT!Transferred(b, Bridge, to, v) \in RT!TokenLedger
    BY <1>2, <1>5, TransferredSound
  <2> QED
    BY <1>4, <2>1, <2>2
<1>7. ASSUME Exclusive(u) PROVE Balanced(u)'
  <2>1. Balanced(u)
    BY <1>2, <1>7 DEF SwapInv, SymbolsBalanced
  <2>2. ForeignOf(u)' = ForeignOf(u) - v /\ ForeignOf(u) \in Nat /\ ForeignOf(u) >= v
    <3>1. q \in ResourcesOf(u)
      BY <1>2 DEF ResourcesOf
    <3>2. ForeignOf(u) \in Nat /\ Foreign(q) <= ForeignOf(u) /\ Foreign(q) \in Nat
      BY <1>2, <3>1, ForeignOfSum, ForeignNat
    <3>3. PICK d \in Int : d = 0 - v /\ Foreign(q)' = Foreign(q) + d
      BY <1>2, <1>3, <3>2
    <3>4. ForeignOf(u)' = ForeignOf(u) + d
      BY <1>1, <1>2, <1>3, <3>1, <3>3, ForeignOfChange
    <3> QED
      BY <1>2, <1>3, <3>2, <3>3, <3>4
  <2>3. tokens'[u] = c
    BY <1>1, <1>2
  <2>4. b.issuance \in Nat /\ b.free[Bridge] \in Nat
    BY <1>2 DEF RT!TokenLedger
  <2>5. CASE u \in Burnt
    <3>1. c = XT!Minted(b, to, v) /\ b.issuance + ForeignOf(u) = Supply /\ Sound(b)
      BY <1>4, <2>1, <2>5 DEF Balanced
    <3>2. b.issuance + v < TokenLimit
      BY <1>2, <2>2, <2>4, <3>1, SupplyFacts
    <3> HIDE DEF b, c
    <3>3. Sound(c) /\ c.issuance = b.issuance + v
      BY <1>2, <3>1, <3>2, MintedSound
    <3>4. c.issuance + ForeignOf(u)' = Supply
      BY <1>2, <2>2, <2>4, <3>1, <3>3
    <3> QED
      BY <2>3, <2>5, <3>3, <3>4 DEF Balanced, Sound
  <2>6. CASE u \notin Burnt
    <3>1. c = RT!Transferred(b, Bridge, to, v) /\ b.issuance = Supply /\ Sound(b)
          /\ b.free[Bridge] >= ForeignOf(u)
      BY <1>4, <2>1, <2>6 DEF Balanced
    <3> HIDE DEF b, c
    <3>2. Sound(c) /\ c.issuance = b.issuance /\ c.free[Bridge] = b.free[Bridge] - v
      BY <1>2, <1>4, <1>5, <2>6, <3>1, TransferredSound
    <3>3. c.free[Bridge] >= ForeignOf(u)'
      BY <1>2, <2>2, <2>4, <3>1, <3>2
    <3> QED
      BY <2>3, <2>6, <3>1, <3>2, <3>3 DEF Balanced, Sound
  <2> QED
    BY <2>5, <2>6
<1> HIDE DEF b, c
<1>8. SymbolsBalanced' /\ UnmappedUnused'
  BY <1>1, <1>2, <1>3, <1>7, OneSymbol
<1>9. NativeCovered'
  BY <1>1, <1>2, <1>3, SupplyFacts DEF SwapInv, NativeCovered
<1>10. SwapTypes' /\ MapsRecorded'
  <2>1. returning' \subseteq Return /\ IsFiniteSet(returning')
    BY <1>1, FS_Subset DEF SwapInv, SwapTypes
  <2> QED
    BY <1>1, <1>2, <1>6, <2>1 DEF SwapInv, SwapTypes, MapsRecorded
<1> QED
  BY <1>8, <1>9, <1>10 DEF SwapInv

(* A holder's transfer moves tokens between accounts, the bridge's only as  *)
(* their destination (transfer of rtoken/balances and xtoken/balances).     *)
LEMMA HolderTransferKeeps ==
  ASSUME SwapInv, NEW from \in User, NEW to \in User \cup {Bridge}, NEW u \in Symbol, NEW v \in Value,
         HolderTransfer(from, to, u, v)
  PROVE  SwapInv'
<1> DEFINE b == tokens[u]
           c == RT!Transferred(b, from, to, v)
<1>1. /\ RT!CanTransfer(b, from, to, v) /\ tokens' = [tokens EXCEPT ![u] = c]
      /\ UNCHANGED <<chainFees, resourceSymbol, symbolResource, mappings, native, abroad, returning>>
  BY DEF HolderTransfer, config, maps
<1>2. /\ from \in Holder /\ to \in Holder /\ from # Bridge /\ v \in Nat
      /\ tokens \in [Symbol -> RT!TokenLedger] /\ b \in RT!TokenLedger /\ Bridge \in Holder
  BY HolderFinite, BridgeSwapAssumption DEF SwapInv, SwapTypes
<1>3. RT!Idle(from, to, v) \/ b.free[from] >= v
  BY <1>1 DEF RT!CanTransfer
<1> HIDE DEF b
<1>4. /\ c \in RT!TokenLedger /\ c.issuance = b.issuance /\ (Sound(b) => Sound(c))
      /\ c.free[Bridge] >= b.free[Bridge]
  BY <1>2, <1>3, TransferredSound
<1> HIDE DEF c
<1>5. \A r : Foreign(r)' = Foreign(r)
  BY <1>1 DEF Foreign, Amount
<1>6. \A s : ResourcesOf(s)' = ResourcesOf(s) /\ Exclusive(s)' = Exclusive(s)
  BY <1>1 DEF ResourcesOf, Exclusive
<1>7. \A s : ForeignOf(s)' = ForeignOf(s)
  BY <1>5, <1>6, ForeignOfSame
<1>8. SymbolsBalanced'
  <2> SUFFICES ASSUME NEW s \in Symbol, Exclusive(s) PROVE Balanced(s)'
    BY <1>6 DEF SymbolsBalanced
  <2>1. Balanced(s)
    BY DEF SwapInv, SymbolsBalanced
  <2>2. CASE s # u
    BY <1>1, <1>2, <1>7, <2>1, <2>2 DEF Balanced, Sound
  <2>3. CASE s = u
    <3>1. tokens'[s] = c /\ tokens[s] = b
      BY <1>1, <1>2, <2>3 DEF b
    <3>2. ForeignOf(s) \in Nat /\ b.free[Bridge] \in Nat /\ c.free[Bridge] \in Nat
      BY <1>2, <1>4, ForeignOfSum DEF SwapInv, RT!TokenLedger
    <3>3. c.free[Bridge] >= ForeignOf(s) \/ s \in Burnt
      BY <1>4, <2>1, <3>1, <3>2 DEF Balanced
    <3>4. Sound(c) /\ c.issuance = b.issuance
      BY <1>4, <2>1, <3>1 DEF Balanced
    <3> QED
      BY <1>7, <2>1, <3>1, <3>3, <3>4 DEF Balanced, Sound
  <2> QED
    BY <2>2, <2>3
<1>9. NativeCovered' /\ UnmappedUnused'
  BY <1>1, <1>5 DEF SwapInv, NativeCovered, UnmappedUnused
<1>10. SwapTypes' /\ MapsRecorded'
  BY <1>1, <1>2, <1>4 DEF SwapInv, SwapTypes, MapsRecorded
<1> QED
  BY <1>8, <1>9, <1>10 DEF SwapInv

(* The inductive step, with what a step may do to the history of tokens     *)
(* that were taken and not sent.                                            *)
LEMMA SwapNext ==
  ASSUME SwapInv, [Next]_vars
  PROVE  /\ SwapInv'
         /\ unsent' # unsent =>
              native[Bridge] < ExistentialDeposit \/ native[Recipient] < ExistentialDeposit
<1>1. ASSUME Configure \/ (\E c \in Chain : ChainCall(c)) \/ UNCHANGED vars
      PROVE  SwapInv' /\ unsent' = unsent
  <2>1. /\ UNCHANGED <<native, tokens, abroad, returning, mappings, resourceSymbol, symbolResource,
                       unsent>>
        /\ chainFees' \in [Chain -> Nat \cup {None}]
    <3>1. CASE Configure
      BY <3>1, BridgeSwapAssumption DEF Configure, maps, SwapInv, SwapTypes
    <3>2. CASE \E c \in Chain : ChainCall(c)
      BY <3>2 DEF ChainCall, config, maps, SwapInv, SwapTypes
    <3>3. CASE UNCHANGED vars
      BY <3>3 DEF vars, config, maps, SwapInv, SwapTypes
    <3> QED
      BY <1>1, <3>1, <3>2, <3>3
  <2>2. SwapTypes' /\ MapsRecorded'
    BY <2>1 DEF SwapInv, SwapTypes, MapsRecorded
  <2> QED
    BY <2>1, <2>2, AdminKeeps
<1>2. ASSUME NEW r \in RResource \cup XResource, NEW s \in Symbol, MapResourceAndSymbol(r, s)
      PROVE  SwapInv' /\ unsent' = unsent
  BY <1>2, MapKeeps DEF MapResourceAndSymbol
<1>3. ASSUME NEW r \in RResource \cup XResource, NEW s \in Symbol, UnmapResourceAndSymbol(r, s)
      PROVE  SwapInv' /\ unsent' = unsent
  <2>1. /\ resourceSymbol' = [resourceSymbol EXCEPT ![r] = None]
        /\ symbolResource' = [symbolResource EXCEPT ![s] = None]
        /\ UNCHANGED <<chainFees, mappings, native, tokens, abroad, returning, unsent>>
    BY <1>3 DEF UnmapResourceAndSymbol, config
  <2>2. SwapTypes'
    BY <2>1 DEF SwapInv, SwapTypes
  <2>3. MapsRecorded'
    <3>1. \A x \in RResource \cup XResource :
            resourceSymbol'[x] = IF x = r THEN None ELSE resourceSymbol[x]
      BY <2>1 DEF SwapInv, SwapTypes
    <3>2. \A x \in Symbol : symbolResource'[x] = IF x = s THEN None ELSE symbolResource[x]
      BY <2>1 DEF SwapInv, SwapTypes
    <3> QED
      BY <2>1, <3>1, <3>2 DEF SwapInv, MapsRecorded
  <2> QED
    BY <2>1, <2>2, <2>3, AdminKeeps
<1>4. ASSUME NEW from \in User, NEW to \in User \cup {Bridge}, NEW s \in Symbol, NEW v \in Value,
             HolderTransfer(from, to, s, v)
      PROVE  SwapInv' /\ unsent' = unsent
  BY <1>4, HolderTransferKeeps DEF HolderTransfer
<1>5. ASSUME NEW r \in Resource, NEW to \in User, NEW v \in Value \ {0},
             RemoteReturn([resource |-> r, to |-> to, amount |-> v])
      PROVE  SwapInv' /\ unsent' = unsent
  <2>1. [resource |-> r, to |-> to, amount |-> v] \in Return
    BY BridgeSwapAssumption DEF Return
  <2> QED
    BY <1>5, <2>1, RemoteReturnKeeps DEF RemoteReturn
<1>6. ASSUME NEW ret \in returning, TransferNativeBack(ret) \/ TransferTokenBack(ret)
      PROVE  SwapInv' /\ unsent' = unsent
  <2>1. unsent' = unsent
    BY <1>6 DEF TransferNativeBack, TransferTokenBack
  <2> QED
    BY <1>6, <2>1, TransferNativeBackKeeps, TransferTokenBackKeeps
<1> QED
  BY <1>1, <1>2, <1>3, <1>4, <1>5, <1>6, TransferNativeKeeps, TransferTokenKeeps DEF Next

(* The native tokens and rtokens locked in the bridge account cover all     *)
(* that the other side holds, and of a token that is burnt on the way out   *)
(* the two sides together keep what there was, whatever the users, chains,  *)
(* resources and symbols and whatever the admin maps, for every symbol that *)
(* never shared a resource.                                                 *)
THEOREM SidesConserved == Spec => []BothSidesConserved
<1>1. SwapInv => BothSidesConserved
  <2> SUFFICES ASSUME SwapInv PROVE BothSidesConserved
    OBVIOUS
  <2>1. native[Bridge] >= Foreign(NativeTokenId) + Reserve
    BY DEF SwapInv, NativeCovered
  <2>2. \A s \in Symbol : Exclusive(s) => Balanced(s)
    BY DEF SwapInv, SymbolsBalanced
  <2> QED
    BY <2>1, <2>2 DEF BothSidesConserved, Balanced, Sound, Supply
<1>2. SwapInv /\ [Next]_vars => SwapInv'
  BY SwapNext
<1> QED
  BY SwapInit, <1>1, <1>2, PTL DEF Spec

(* A transfer out takes tokens without announcing them only when the bridge *)
(* account or the fee recipient is below the existential deposit            *)
(* (transfer_native); no other error comes after tokens were taken.         *)
THEOREM TakenIfSent == Spec => TakenOnlyIfSent
<1>1. SwapInv /\ [Next]_vars => SwapInv'
  BY SwapNext
<1>2. SwapInv /\ [Next]_vars =>
        [unsent' # unsent =>
           native[Bridge] < ExistentialDeposit \/ native[Recipient] < ExistentialDeposit]_vars
  BY SwapNext
<1> QED
  BY SwapInit, <1>1, <1>2, PTL DEF Spec, TakenOnlyIfSent

=============================================================================
