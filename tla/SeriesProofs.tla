---------------------------- MODULE SeriesProofs ----------------------------
(***************************************************************************)
(* Proofs about rtoken/series: the signature a deposit is bonded with      *)
(* (Signatures), bonding itself (RTokenSeries), the unlocking lists and    *)
(* the announcement of collected signatures (RTokenUnbond).                *)
(*                                                                         *)
(* The modules share no variable; each part below has its own inductive    *)
(* invariant.                                                              *)
(***************************************************************************)
EXTENDS RTokenSeries, RTokenUnbond, Signatures, CountingLemmas

-----------------------------------------------------------------------------
(* The signatures of bonding users.                                         *)

\* A bond other than Tendermint's stands for the signature it was shown, in
\* the message format of its chain.
Accepted(b) ==
  /\ b.symbol \in BondSymbol
  /\ ChainType(b.symbol) # "Tendermint" =>
       /\ b.signature.key = b.key /\ b.signature.account = b.account
       /\ b.signature.format = MessageFormat(ChainType(b.symbol))

(* A verdict of Pass on a chain other than Tendermint is for the account and *)
(* the key of the signature, in the chain's format (verify_signature).      *)
LEMMA PassMeansSigned ==
  ASSUME NEW symbol \in BondSymbol, NEW k \in Key, NEW s \in Signature, NEW account \in Bonder,
         VerifySignature(symbol, k, s, account) = "Pass",
         ChainType(symbol) # "Tendermint"
  PROVE  s.key = k /\ s.account = account /\ s.format = MessageFormat(ChainType(symbol))
<1> DEFINE chain == ChainType(symbol)
           format == MessageFormat(chain)
<1>1. chain \in {"Substrate", "Solana", "Ethereum"}
  BY DEF ChainType, BondSymbol
<1>2. CASE chain = "Substrate"
  <2>1. SubstrateVerify(k, s, account, format) = "Pass"
    BY <1>2 DEF VerifySignature
  <2>2. \E scheme : Verifies(scheme, k, s, account, format)
    BY <2>1 DEF SubstrateVerify
  <2> HIDE DEF format
  <2> QED
    BY <2>2 DEF Verifies, format
<1>3. CASE chain = "Solana"
  <2>1. Ed25519Verify(k, s, account, format) = "Pass"
    BY <1>3 DEF VerifySignature
  <2>2. Verifies("ed25519", k, s, account, format)
    BY <2>1 DEF Ed25519Verify
  <2> HIDE DEF format
  <2> QED
    BY <2>2 DEF Verifies, format
<1>4. CASE chain = "Ethereum"
  <2>1. EthereumVerify(k, s, account, format) = "Pass"
    BY <1>4 DEF VerifySignature
  <2>2. k \in EthRecover(s, account, format)
    BY <2>1 DEF EthereumVerify
  <2> QED
    BY <2>2 DEF EthRecover
<1> QED
  BY <1>1, <1>2, <1>3, <1>4

(* Each kind of chain has its own message (verify_signature, bondable).      *)
LEMMA FormatsDiffer ==
  ASSUME NEW s1 \in BondSymbol, NEW s2 \in BondSymbol,
         ChainType(s1) # "Tendermint", ChainType(s2) # "Tendermint",
         MessageFormat(ChainType(s1)) = MessageFormat(ChainType(s2))
  PROVE  ChainType(s1) = ChainType(s2)
<1>1. \A symbol \in BondSymbol : ChainType(symbol) \in {"Substrate", "Tendermint", "Solana", "Ethereum"}
  BY DEF ChainType, BondSymbol
<1>2. /\ MessageFormat("Substrate") = "tagged" /\ MessageFormat("Solana") = "hex"
      /\ MessageFormat("Ethereum") = "prefixed hex"
  BY DEF MessageFormat
<1> QED
  BY <1>1, <1>2

SignaturesInv == attested \subseteq Signature /\ \A b \in bonders : Accepted(b)

(* A signature is accepted for one account, one key and one kind of chain,  *)
(* whatever the number of owners, keys and accounts (bondable,              *)
(* verify_signature).                                                       *)
THEOREM SignaturesApart == SignaturesSpec => []SignatureIsForOneAccount
<1>1. SignaturesInit => SignaturesInv
  BY DEF SignaturesInit, SignaturesInv
<1>2. SignaturesInv /\ [SignaturesNext]_signatureVars => SignaturesInv'
  <2> SUFFICES ASSUME SignaturesInv, [SignaturesNext]_signatureVars PROVE SignaturesInv'
    OBVIOUS
  <2>1. ASSUME NEW s \in Signature, Attest(s) PROVE SignaturesInv'
    BY <2>1 DEF SignaturesInv, Attest
  <2>2. ASSUME NEW s \in attested, NEW symbol \in BondSymbol, NEW k \in Key,
               NEW account \in Bonder, CheckBonder(symbol, k, s, account)
        PROVE  SignaturesInv'
    <3> DEFINE new == [symbol |-> symbol, key |-> k, signature |-> s, account |-> account]
    <3>1. /\ VerifySignature(symbol, k, s, account) = "Pass" /\ s \in Signature
          /\ bonders' = bonders \cup {new} /\ attested' = attested
      BY <2>2 DEF CheckBonder, SignaturesInv
    <3>2. ChainType(symbol) # "Tendermint" =>
            s.key = k /\ s.account = account /\ s.format = MessageFormat(ChainType(symbol))
      BY <2>2, <3>1, PassMeansSigned
    <3>3. new.symbol = symbol /\ new.key = k /\ new.signature = s /\ new.account = account
      OBVIOUS
    <3> HIDE DEF new
    <3>4. Accepted(new)
      BY <3>2, <3>3 DEF Accepted
    <3> QED
      BY <3>1, <3>4 DEF SignaturesInv
  <2>3. CASE UNCHANGED signatureVars
    BY <2>3 DEF signatureVars, SignaturesInv
  <2> QED
    BY <2>1, <2>2, <2>3 DEF SignaturesNext
<1>3. SignaturesInv => SignatureIsForOneAccount
  BY FormatsDiffer DEF SignaturesInv, SignatureIsForOneAccount, Accepted
<1> QED
  BY <1>1, <1>2, <1>3, PTL DEF SignaturesSpec

-----------------------------------------------------------------------------
(* The signatures relayers collect for a pool's transactions.               *)

Signers(key) == {who \in Relayer : <<who, key>> \in signed}

\* A transaction has as many signatures as signers, and is announced when
\* they are enough.
SigningInv ==
  /\ signatures \in [TxKey -> Seq(Relayer)]
  /\ multiThreshold \in [Pool -> Nat]
  /\ \A key \in TxKey : IsFiniteSet(Signers(key)) /\ Cardinality(Signers(key)) = Len(signatures[key])
  /\ EnoughIsAnnounced

LEMMA SigningInit == UnbondInit => SigningInv
<1> SUFFICES ASSUME UnbondInit PROVE SigningInv
  OBVIOUS
<1>1. signatures = [k \in TxKey |-> << >>] /\ signed = {} /\ multiThreshold = [p \in Pool |-> 0]
      /\ enough = {}
  BY DEF UnbondInit
<1>2. \A key \in TxKey : Signers(key) = {} /\ Len(signatures[key]) = 0
  BY <1>1 DEF Signers
<1>3. EnoughIsAnnounced
  <2>1. \A key \in TxKey : key[2] \in Pool
    BY DEF TxKey
  <2> QED
    BY <1>1, <2>1 DEF EnoughIsAnnounced
<1> QED
  BY <1>1, <1>2, <1>3, FS_EmptySet DEF SigningInv

(* A new threshold for a pool nobody has signed for announces nothing.      *)
LEMMA ThresholdKeepsSigning ==
  ASSUME SigningInv, NEW pool \in Pool, NEW t \in Threshold, AddSubAccountsAndThreshold(pool, t)
  PROVE  SigningInv'
<1>1. /\ multiThreshold' = [multiThreshold EXCEPT ![pool] = t]
      /\ rethreshed' = IF \E k \in TxKey : k[2] = pool /\ signatures[k] # << >>
                         THEN rethreshed \cup {pool} ELSE rethreshed
      /\ signatures' = signatures /\ signed' = signed /\ enough' = enough
  BY DEF AddSubAccountsAndThreshold
<1>2. multiThreshold' \in [Pool -> Nat] /\ t \in Nat
  BY <1>1, UnbondAssumption DEF SigningInv
<1>3. \A key \in TxKey : Signers(key)' = Signers(key)
  BY <1>1 DEF Signers
<1>4. EnoughIsAnnounced'
  <2> SUFFICES ASSUME NEW key \in TxKey, key[2] \notin rethreshed'
               PROVE  (key \in enough) = (multiThreshold'[key[2]] > 0
                                           /\ Cardinality(Signers(key)) >= multiThreshold'[key[2]])
    BY <1>1 DEF EnoughIsAnnounced, Signers
  <2>1. key[2] \notin rethreshed /\ key[2] \in Pool
    BY <1>1 DEF TxKey
  <2>2. (key \in enough) = (multiThreshold[key[2]] > 0
                             /\ Cardinality(Signers(key)) >= multiThreshold[key[2]])
    BY <2>1 DEF SigningInv, EnoughIsAnnounced, Signers
  <2>3. CASE key[2] = pool
    <3>1. signatures[key] = << >>
      BY <1>1, <2>3
    <3>2. Cardinality(Signers(key)) = 0
      BY <3>1 DEF SigningInv
    <3>3. multiThreshold[key[2]] \in Nat /\ multiThreshold'[key[2]] \in Nat
      BY <1>2, <2>1 DEF SigningInv
    <3> QED
      BY <2>2, <3>2, <3>3
  <2>4. CASE key[2] # pool
    <3>1. multiThreshold'[key[2]] = multiThreshold[key[2]]
      BY <1>1, <2>1, <2>4 DEF SigningInv
    <3> QED
      BY <2>2, <3>1
  <2> QED
    BY <2>3, <2>4
<1> QED
  BY <1>1, <1>2, <1>3, <1>4 DEF SigningInv

(* The signature that makes the threshold comes once (submit_signatures).   *)
LEMMA SubmitKeepsSigning ==
  ASSUME SigningInv, NEW who \in Relayer, NEW key \in TxKey, NEW sig \in Relayer,
         SubmitSignatures(who, key, sig)
  PROVE  SigningInv'
<1>1. /\ <<who, key>> \notin signed
      /\ signatures' = [signatures EXCEPT ![key] = Append(@, sig)]
      /\ signed' = signed \cup {<<who, key>>}
      /\ enough' = IF Len(signatures'[key]) = multiThreshold[key[2]] THEN enough \cup {key} ELSE enough
      /\ multiThreshold' = multiThreshold /\ rethreshed' = rethreshed
  BY DEF SubmitSignatures
<1>2. /\ signatures \in [TxKey -> Seq(Relayer)] /\ multiThreshold \in [Pool -> Nat]
      /\ \A k \in TxKey : IsFiniteSet(Signers(k)) /\ Cardinality(Signers(k)) = Len(signatures[k])
  BY DEF SigningInv
<1>3. /\ signatures' \in [TxKey -> Seq(Relayer)]
      /\ Len(signatures'[key]) = Len(signatures[key]) + 1
      /\ \A k \in TxKey : k # key => signatures'[k] = signatures[k]
  BY <1>1, <1>2
<1>4. /\ Signers(key)' = Signers(key) \cup {who} /\ who \notin Signers(key)
      /\ \A k \in TxKey : k # key => Signers(k)' = Signers(k)
  BY <1>1 DEF Signers
<1>5. IsFiniteSet(Signers(key)') /\ Cardinality(Signers(key)') = Cardinality(Signers(key)) + 1
  BY <1>2, <1>4, FS_AddElement
<1>6. \A k \in TxKey : IsFiniteSet(Signers(k)') /\ Cardinality(Signers(k)') = Len(signatures'[k])
  <2> SUFFICES ASSUME NEW k \in TxKey
               PROVE  IsFiniteSet(Signers(k)') /\ Cardinality(Signers(k)') = Len(signatures'[k])
    OBVIOUS
  <2>1. CASE k = key
    BY <1>2, <1>3, <1>5, <2>1
  <2>2. CASE k # key
    BY <1>2, <1>3, <1>4, <2>2
  <2> QED
    BY <2>1, <2>2
<1>7. EnoughIsAnnounced'
  <2> SUFFICES ASSUME NEW k \in TxKey, k[2] \notin rethreshed
               PROVE  (k \in enough') = (multiThreshold[k[2]] > 0
                                          /\ Cardinality(Signers(k)') >= multiThreshold[k[2]])
    BY <1>1 DEF EnoughIsAnnounced, Signers
  <2>1. (k \in enough) = (multiThreshold[k[2]] > 0
                           /\ Cardinality(Signers(k)) >= multiThreshold[k[2]])
    BY DEF SigningInv, EnoughIsAnnounced, Signers
  <2>2. CASE k = key
    <3>1. Len(signatures[key]) \in Nat /\ multiThreshold[key[2]] \in Nat
      BY <1>2 DEF TxKey
    <3>2. (key \in enough') = (key \in enough \/ Len(signatures[key]) + 1 = multiThreshold[key[2]])
      BY <1>1, <1>3
    <3>3. Cardinality(Signers(key)') = Len(signatures[key]) + 1
          /\ Cardinality(Signers(key)) = Len(signatures[key])
      BY <1>2, <1>5
    <3> QED
      BY <2>1, <2>2, <3>1, <3>2, <3>3
  <2>3. CASE k # key
    <3>1. (k \in enough') = (k \in enough)
      BY <1>1, <2>3
    <3>2. Signers(k)' = Signers(k)
      BY <1>4, <2>3
    <3> QED
      BY <2>1, <3>1, <3>2
  <2> QED
    BY <2>2, <2>3
<1> QED
  BY <1>1, <1>2, <1>3, <1>6, <1>7 DEF SigningInv

(* A transaction is announced exactly when enough relayers have signed it,  *)
(* whatever the number of relayers, pools and transactions                  *)
(* (submit_signatures), while root leaves its pool's threshold alone.       *)
THEOREM AnnouncedWhenEnough == UnbondSpec => []EnoughIsAnnounced
<1>1. SigningInv /\ [UnbondNext]_unbondVars => SigningInv'
  <2> SUFFICES ASSUME SigningInv, [UnbondNext]_unbondVars PROVE SigningInv'
    OBVIOUS
  <2>1. ASSUME UNCHANGED signVars PROVE SigningInv'
    <3>1. UNCHANGED <<signatures, signed, multiThreshold, enough, rethreshed>>
      BY <2>1 DEF signVars
    <3>2. \A key \in TxKey : Signers(key)' = Signers(key)
      BY <3>1 DEF Signers
    <3>3. EnoughIsAnnounced'
      BY <3>1 DEF SigningInv, EnoughIsAnnounced
    <3> QED
      BY <3>1, <3>2, <3>3 DEF SigningInv
  <2>2. SetChainEra \/ (\E d \in Duration : SetChainBondingDuration(d))
          \/ (\E limit \in Limit : SetEraUnbondLimit(limit)) => UNCHANGED signVars
    BY DEF SetChainEra, SetChainBondingDuration, SetEraUnbondLimit
  <2>3. (\E who \in Account, pool \in Pool : LiquidityUnbond(who, pool)) => UNCHANGED signVars
    BY DEF LiquidityUnbond
  <2>4. (\E pool \in Pool, list \in Nominees :
           InitNominations(pool, list) \/ \E era \in Era : UpdateNominations(pool, list, era))
          => UNCHANGED signVars
    BY DEF InitNominations, UpdateNominations
  <2>5. (\E pool \in Pool, old, new \in Validator : UpdateValidator(pool, old, new))
          => UNCHANGED signVars
    BY DEF UpdateValidator
  <2>6. CASE \E pool \in Pool, t \in Threshold : AddSubAccountsAndThreshold(pool, t)
    BY <2>6, ThresholdKeepsSigning
  <2>7. CASE \E who \in Relayer, key \in TxKey, sig \in Relayer : SubmitSignatures(who, key, sig)
    BY <2>7, SubmitKeepsSigning
  <2>8. UNCHANGED unbondVars => UNCHANGED signVars
    BY DEF unbondVars
  <2> QED
    BY <2>1, <2>2, <2>3, <2>4, <2>5, <2>6, <2>7, <2>8 DEF UnbondNext
<1>2. SigningInv => EnoughIsAnnounced
  BY DEF SigningInv
<1> QED
  BY SigningInit, <1>1, <1>2, PTL DEF UnbondSpec

-----------------------------------------------------------------------------
(* Bonding: the types.                                                      *)

LEMMA ChainStepTypes ==
  ASSUME ChainTypeOK, NEW c \in Chain,
         WhitelistChain(c) \/ RemoveWhitelistChain(c) \/ TransferFungible(c)
  PROVE  ChainTypeOK'
<1>1. CASE WhitelistChain(c)
  BY <1>1 DEF ChainTypeOK, WhitelistChain, ChainWhitelisted
<1>2. CASE RemoveWhitelistChain(c)
  BY <1>2 DEF ChainTypeOK, RemoveWhitelistChain, ChainWhitelisted
<1>3. CASE TransferFungible(c)
  <2>1. chainNonces[c] \in Nat /\ outbox[c] \in Seq(Transfer) /\ epoch[c] \in Nat
    BY <1>3 DEF ChainTypeOK, TransferFungible, ChainWhitelisted
  <2>2. [epoch |-> epoch[c], nonce |-> chainNonces[c] + 1] \in Transfer
    BY <2>1 DEF Transfer
  <2> QED
    BY <1>3, <2>1, <2>2 DEF ChainTypeOK, TransferFungible, ChainWhitelisted
<1> QED
  BY <1>1, <1>2, <1>3

\* What the bonding calls do to records and balances, typed.
BondTypes ==
  /\ records \subseteq BondId
  /\ bondStates \in [Tx -> BondState \cup {None}]
  /\ swaps \in [BondId -> BondSwap \cup {None}]
  /\ bridgeBalance \in Nat
  /\ mints \in [BondId -> Nat]

ConfigTypes ==
  /\ now \in Nat
  /\ switches \subseteq Switch
  /\ feeReceiver \in BOOLEAN
  /\ refundExpire \in Nat \cup {None}
  /\ paused \in BOOLEAN
  /\ chainFees \in [Chain -> Nat \cup {None}]
  /\ swapReceiver \in BOOLEAN
  /\ mapped \in BOOLEAN

LEMMA TypeParts == TypeOK <=> ChainTypeOK /\ ConfigTypes /\ BondTypes /\ cutOff \in BOOLEAN
  BY DEF TypeOK, ConfigTypes, BondTypes

\* A record and its deposit, and a swap with one field changed.
LEMMA RecordFacts ==
  ASSUME BondTypes, NEW b \in BondId
  PROVE  /\ TxOf[b] \in Tx /\ bondStates[TxOf[b]] \in BondState \cup {None}
         /\ swaps[b] # None => swaps[b] \in BondSwap
         /\ mints[b] \in Nat
  BY SeriesAssumption DEF BondTypes

LEMMA SwapIsSome == \A s \in BondSwap : s # None
  BY SeriesAssumption

LEMMA PaidOut ==
  ASSUME bridgeBalance \in Nat, NEW fee \in Nat, TransferOut(fee)
  PROVE  bridgeBalance' \in Nat /\ bridgeBalance' = bridgeBalance - fee
  BY SeriesAssumption DEF TransferOut

LEMMA SeriesInitTypes == Init => TypeOK
<1> SUFFICES ASSUME Init PROVE TypeOK
  OBVIOUS
<1>1. ChainTypeOK
  <2>1. << >> \in Seq(Transfer)
    OBVIOUS
  <2>2. outbox \in [Chain -> Seq(Transfer)]
    BY <2>1 DEF Init, ChainInit
  <2> QED
    BY <2>2 DEF Init, ChainInit, ChainTypeOK, ChainWhitelisted
<1>2. ConfigTypes
  BY DEF Init, ConfigTypes
<1>3. BondTypes
  BY SeriesAssumption DEF Init, BondTypes
<1> QED
  BY <1>1, <1>2, <1>3, TypeParts DEF Init

-----------------------------------------------------------------------------
(* Bonding: what a deposit is minted for and which fees are held.           *)

\* The fee the bridge account holds for a record.
FeeOf(b) == IF Pending(b) THEN swaps[b].fee ELSE 0

LEMMA FeeType ==
  ASSUME BondTypes
  PROVE  \A b \in BondId : FeeOf(b) \in Nat
  BY DEF BondTypes, FeeOf, Pending, Open, BondSwap

(* A call that touches the swap of one record changes the fees held by that *)
(* record's share.                                                          *)
LEMMA FeesChange ==
  ASSUME BondTypes, BondTypes', NEW b \in BondId, \A c \in BondId \ {b} : swaps'[c] = swaps[c]
  PROVE  HeldFees \in Int /\ HeldFees' = HeldFees - FeeOf(b) + FeeOf(b)'
<1> DEFINE f == [c \in BondId |-> FeeOf(c)]
           g == [c \in BondId |-> FeeOf(c)']
<1>1. \A c \in BondId : f[c] \in Int /\ g[c] \in Int
  BY FeeType DEF BondTypes, FeeOf, Pending, Open, BondSwap
<1>2. \A c \in BondId \ {b} : g[c] = f[c]
  BY DEF FeeOf, Pending, Open
<1>3. IsFiniteSet(BondId)
  BY SeriesAssumption
<1>4. HeldFees = SumFunction(f) /\ HeldFees' = SumFunction(g)
  BY DEF HeldFees, FeeOf
<1>5. f[b] = FeeOf(b) /\ g[b] = FeeOf(b)' /\ DOMAIN f = BondId /\ DOMAIN g = BondId
  OBVIOUS
<1> HIDE DEF f, g
<1>6. SumFunction(f) = SumFunctionOnSet(f, BondId) /\ SumFunction(g) = SumFunctionOnSet(g, BondId)
  BY <1>5, SumOfFunction
<1>7. SumFunctionOnSet(f, BondId) \in Int
  BY <1>1, <1>3, SumInt
<1>8. SumFunctionOnSet(g, BondId) = SumFunctionOnSet(f, BondId) - f[b] + g[b]
  BY <1>1, <1>2, <1>3, SumChange
<1> QED
  BY <1>4, <1>5, <1>6, <1>7, <1>8

LEMMA FeesSame ==
  ASSUME swaps' = swaps
  PROVE  HeldFees' = HeldFees
  BY DEF HeldFees, Pending, Open

(* A mint counts for its record's deposit and for no other.                 *)
LEMMA MintsChange ==
  ASSUME BondTypes, NEW b \in BondId, mints' = [mints EXCEPT ![b] = @ + 1], NEW t \in Tx
  PROVE  MintsOf(t) \in Int /\ MintsOf(t)' = IF TxOf[b] = t THEN MintsOf(t) + 1 ELSE MintsOf(t)
<1> DEFINE S == {c \in BondId : TxOf[c] = t}
<1>1. IsFiniteSet(S)
  BY SeriesAssumption, FS_Subset
<1>2. \A c \in S : mints[c] \in Int /\ mints'[c] \in Int
  BY DEF BondTypes
<1>3. SumFunctionOnSet(mints, S) \in Int
  BY <1>1, <1>2, SumInt
<1>4. CASE b \in S
  <2>1. \A c \in S \ {b} : mints'[c] = mints[c]
    BY DEF BondTypes
  <2>2. SumFunctionOnSet(mints', S) = SumFunctionOnSet(mints, S) - mints[b] + mints'[b]
    <3> HIDE DEF S
    <3> QED
      BY ONLY <1>1, <1>2, <1>4, <2>1, SumChange
  <2>3. mints'[b] = mints[b] + 1 /\ mints[b] \in Int
    BY DEF BondTypes
  <2> QED
    BY <1>3, <1>4, <2>2, <2>3 DEF MintsOf
<1>5. CASE b \notin S
  <2>1. \A c \in S : mints[c] = mints'[c]
    BY <1>5 DEF BondTypes
  <2>2. SumFunctionOnSet(mints, S) = SumFunctionOnSet(mints', S)
    BY <1>1, <2>1, SumSame
  <2> QED
    BY <1>3, <1>5, <2>2 DEF MintsOf
<1> QED
  BY <1>4, <1>5

LEMMA MintsSame ==
  ASSUME mints' = mints, NEW t
  PROVE  MintsOf(t)' = MintsOf(t)
  BY DEF MintsOf

-----------------------------------------------------------------------------
(* Bonding: the inductive invariant.                                        *)

\* Swaps belong to records, and the deposit of one that was sent is closed.
SwapsFiled ==
  \A b \in BondId : swaps[b] # None =>
    b \in records /\ (swaps[b].state = "Success" => bondStates[TxOf[b]] = "Success")

\* As long as no chain was removed under an open swap, all can be sent.
SwapsSendable == ~cutOff => \A b \in BondId : Open(b) => ChainWhitelisted(swaps[b].dest)

BondInv == TypeOK /\ SwapsFiled /\ SwapsSendable /\ DepositMintedOnce /\ FeesCovered

LEMMA BondInit == Init => BondInv
<1> SUFFICES ASSUME Init PROVE BondInv
  OBVIOUS
<1>1. TypeOK
  BY SeriesInitTypes
<1>2. SwapsFiled /\ SwapsSendable
  BY DEF Init, SwapsFiled, SwapsSendable, Open
<1>3. DepositMintedOnce
  <2>1. ASSUME NEW t \in Tx PROVE MintsOf(t) = 0 /\ bondStates[t] # "Success"
    <3>1. IsFiniteSet({b \in BondId : TxOf[b] = t})
      BY SeriesAssumption, FS_Subset
    <3>2. \A b \in {c \in BondId : TxOf[c] = t} : mints[b] = 0
      BY DEF Init
    <3>3. bondStates[t] = None
      BY DEF Init
    <3> QED
      BY <3>1, <3>2, <3>3, SumZero, SeriesAssumption DEF MintsOf, BondState
  <2> QED
    BY <2>1 DEF DepositMintedOnce
<1>4. HeldFees = 0
  <2> DEFINE f == [b \in BondId |-> IF Pending(b) THEN swaps[b].fee ELSE 0]
  <2>1. \A b \in BondId : f[b] = 0
    BY DEF Init, Pending, Open
  <2>2. DOMAIN f = BondId /\ IsFiniteSet(BondId)
    BY SeriesAssumption
  <2>3. HeldFees = SumFunction(f)
    BY DEF HeldFees
  <2> HIDE DEF f
  <2> QED
    BY <2>1, <2>2, <2>3, SumOfFunction, SumZero
<1>5. FeesCovered
  BY <1>4, SeriesAssumption DEF Init, FeesCovered
<1> QED
  BY <1>1, <1>2, <1>3, <1>5 DEF BondInv

(* Calls that leave records, swaps and mints alone and take no chain from   *)
(* an open swap.                                                            *)
LEMMA BondIdle ==
  ASSUME BondInv, TypeOK', UNCHANGED bondVars, cutOff => cutOff',
         ~cutOff' => \A b \in BondId : Open(b) => ChainWhitelisted(swaps[b].dest)'
  PROVE  BondInv'
<1>1. SwapsFiled' /\ SwapsSendable'
  BY DEF BondInv, bondVars, SwapsFiled, SwapsSendable, Open
<1>2. DepositMintedOnce'
  BY MintsSame DEF BondInv, bondVars, DepositMintedOnce
<1>3. FeesCovered'
  BY FeesSame DEF BondInv, bondVars, FeesCovered
<1> QED
  BY <1>1, <1>2, <1>3 DEF BondInv

LEMMA ConfigKeeps ==
  ASSUME BondInv, ConfigCall \/ NextBlock
  PROVE  BondInv'
<1>1. ChainTypeOK /\ ConfigTypes /\ BondTypes /\ cutOff \in BOOLEAN
  BY TypeParts DEF BondInv
<1>2. UNCHANGED chainVars /\ UNCHANGED bondVars /\ cutOff' = cutOff
  BY DEF ConfigCall, NextBlock
<1>3. ChainTypeOK' /\ BondTypes' /\ cutOff' \in BOOLEAN
  BY <1>1, <1>2 DEF chainVars, bondVars, ChainTypeOK, BondTypes, ChainWhitelisted
<1>4. ConfigTypes'
  <2>1. CASE NextBlock
    BY <1>1, <2>1 DEF NextBlock, ConfigTypes, bridgeConfig, seriesConfig
  <2>2. CASE SeriesConfigure /\ UNCHANGED bridgeConfig /\ UNCHANGED now
    BY <1>1, <2>2 DEF SeriesConfigure, ConfigTypes, bridgeConfig
  <2>3. CASE SwapRefundExpire /\ UNCHANGED bridgeConfig /\ UNCHANGED now
    BY <1>1, <2>3, SeriesAssumption DEF SwapRefundExpire, ConfigTypes, bridgeConfig
  <2>4. CASE BridgeConfigure /\ UNCHANGED seriesConfig /\ UNCHANGED now
    <3>1. \A c \in Chain, fee \in Fee : [chainFees EXCEPT ![c] = fee] \in [Chain -> Nat \cup {None}]
      BY <1>1, SeriesAssumption DEF ConfigTypes
    <3> QED
      BY <1>1, <2>4, <3>1 DEF BridgeConfigure, ConfigTypes, seriesConfig
  <2>5. CASE MapSymbol /\ UNCHANGED seriesConfig /\ UNCHANGED now
    BY <1>1, <2>5 DEF MapSymbol, ConfigTypes, seriesConfig
  <2> QED
    BY <2>1, <2>2, <2>3, <2>4, <2>5 DEF ConfigCall
<1>5. TypeOK'
  <2>1. (TypeOK <=> ChainTypeOK /\ ConfigTypes /\ BondTypes /\ cutOff \in BOOLEAN)'
    BY DEF TypeOK, ConfigTypes, BondTypes
  <2> QED
    BY <1>3, <1>4, <2>1
<1>6. ~cutOff' => \A b \in BondId : Open(b) => ChainWhitelisted(swaps[b].dest)'
  BY <1>2 DEF BondInv, SwapsSendable, chainVars, bondVars, ChainWhitelisted
<1> QED
  BY <1>2, <1>5, <1>6, BondIdle

LEMMA ChainCallKeeps ==
  ASSUME BondInv, NEW c \in Chain, ChainCall(c)
  PROVE  BondInv'
<1>1. ChainTypeOK /\ ConfigTypes /\ BondTypes /\ cutOff \in BOOLEAN
  BY TypeParts DEF BondInv
<1>2. UNCHANGED bondVars /\ UNCHANGED <<now, bridgeConfig, seriesConfig>>
      /\ (WhitelistChain(c) \/ RemoveWhitelistChain(c))
      /\ cutOff' = (cutOff \/ (ChainWhitelisted(c) /\ \E b \in BondId : Open(b) /\ swaps[b].dest = c))
  BY DEF ChainCall
<1>3. TypeOK'
  <2>1. ChainTypeOK'
    BY <1>1, <1>2, ChainStepTypes
  <2>2. ConfigTypes' /\ BondTypes'
    BY <1>1, <1>2 DEF bondVars, bridgeConfig, seriesConfig, ConfigTypes, BondTypes
  <2>3. cutOff' \in BOOLEAN
    BY <1>2
  <2> QED
    BY <2>1, <2>2, <2>3 DEF TypeOK, ConfigTypes, BondTypes
<1>4. \A d \in Chain : d # c \/ ~ChainWhitelisted(c) => (ChainWhitelisted(d) => ChainWhitelisted(d)')
  BY <1>1, <1>2 DEF ChainTypeOK, WhitelistChain, RemoveWhitelistChain, ChainWhitelisted
<1>5. ASSUME ~cutOff', NEW b \in BondId, Open(b)
      PROVE  ChainWhitelisted(swaps[b].dest)'
  <2>1. swaps[b] \in BondSwap /\ swaps[b].dest \in Chain /\ swaps'[b] = swaps[b]
    BY <1>1, <1>2, <1>5, RecordFacts DEF Open, BondSwap, bondVars
  <2>2. ~cutOff /\ (swaps[b].dest # c \/ ~ChainWhitelisted(c))
    BY <1>2, <1>5
  <2>3. ChainWhitelisted(swaps[b].dest)
    BY <1>5, <2>2 DEF BondInv, SwapsSendable
  <2> QED
    BY <1>4, <2>1, <2>2, <2>3 DEF ChainWhitelisted
<1>6. cutOff => cutOff'
  BY <1>2
<1> QED
  BY <1>2, <1>3, <1>5, <1>6, BondIdle

\* The two things a call on a record may do to its deposit: leave it short of
\* or at Success as it was, or mint for it and close it.
DepositStep(b) ==
  \/ mints' = mints /\ (bondStates'[TxOf[b]] = "Success" <=> bondStates[TxOf[b]] = "Success")
  \/ /\ mints' = [mints EXCEPT ![b] = @ + 1]
     /\ bondStates[TxOf[b]] # "Success" /\ bondStates'[TxOf[b]] = "Success"

\* The swap of a record is not passed after its fee was refunded.
RefundFinal(b) == swaps[b] # None /\ swaps[b].refunded => swaps[b].state = "Fail"

\* The balance follows the fees held, unless a refunded swap is passed.
FeeStep(b) ==
  RefundFinal(b)' =>
    RefundFinal(b) /\ bridgeBalance' = bridgeBalance - FeeOf(b) + FeeOf(b)'

(* A call on one record keeps the invariant if it does so for that record.  *)
LEMMA RecordStep ==
  ASSUME BondInv, NEW b \in BondId, ChainTypeOK', ConfigTypes', BondTypes', cutOff' = cutOff,
         \A c \in Chain : ChainWhitelisted(c)' = ChainWhitelisted(c),
         records \subseteq records',
         \A c \in BondId \ {b} : swaps'[c] = swaps[c],
         \A t \in Tx \ {TxOf[b]} : bondStates'[t] = bondStates[t],
         bondStates[TxOf[b]] = "Success" => bondStates'[TxOf[b]] = "Success",
         swaps'[b] # None =>
           b \in records' /\ (swaps'[b].state = "Success" => bondStates'[TxOf[b]] = "Success"),
         ~cutOff /\ Open(b)' => ChainWhitelisted(swaps'[b].dest),
         ~cutOff => DepositStep(b) /\ FeeStep(b)
  PROVE  BondInv'
<1>1. BondTypes /\ \A c \in BondId : TxOf[c] \in Tx
  BY TypeParts, SeriesAssumption DEF BondInv
<1>2. TypeOK'
  BY DEF BondInv, TypeOK, ConfigTypes, BondTypes
<1>3. SwapsFiled'
  BY <1>1 DEF BondInv, SwapsFiled
<1>4. SwapsSendable'
  <2>1. \A c \in BondId : swaps'[c] # None => swaps'[c].dest \in Chain
    BY DEF BondTypes, BondSwap
  <2>2. \A c \in BondId \ {b} : Open(c)' = Open(c)
    BY DEF Open
  <2>3. ASSUME ~cutOff', NEW c \in BondId, Open(c)' PROVE ChainWhitelisted(swaps[c].dest)'
    <3>1. swaps'[c].dest \in Chain
      BY <2>1, <2>3 DEF Open
    <3>2. ChainWhitelisted(swaps'[c].dest)
      BY <2>2, <2>3 DEF BondInv, SwapsSendable
    <3>3. ChainWhitelisted(swaps'[c].dest) <=> ChainWhitelisted(swaps[c].dest)'
      BY <3>1 DEF ChainWhitelisted
    <3> QED
      BY <3>2, <3>3
  <2> QED
    BY <2>3 DEF SwapsSendable
<1>5. DepositMintedOnce'
  <2> SUFFICES ASSUME ~cutOff', NEW t \in Tx
               PROVE  MintsOf(t)' = IF bondStates'[t] = "Success" THEN 1 ELSE 0
    BY DEF DepositMintedOnce
  <2>1. MintsOf(t) = IF bondStates[t] = "Success" THEN 1 ELSE 0
    BY DEF BondInv, DepositMintedOnce
  <2>2. CASE mints' = mints
    BY <2>1, <2>2, <1>1, MintsSame, MintsChange DEF DepositStep
  <2>3. CASE mints' = [mints EXCEPT ![b] = @ + 1]
    <3>1. MintsOf(t)' = IF TxOf[b] = t THEN MintsOf(t) + 1 ELSE MintsOf(t)
      BY <1>1, <2>3, MintsChange
    <3>2. mints' # mints
      BY <1>1, <2>3 DEF BondTypes
    <3>3. bondStates[TxOf[b]] # "Success" /\ bondStates'[TxOf[b]] = "Success"
      BY <3>2 DEF DepositStep
    <3> QED
      BY <2>1, <3>1, <3>3
  <2> QED
    BY <2>2, <2>3 DEF DepositStep
<1>6. FeesCovered'
  <2> SUFFICES ASSUME ~cutOff', \A c \in BondId : RefundFinal(c)'
               PROVE  bridgeBalance' = Reserve + HeldFees'
    BY DEF FeesCovered, RefundFinal
  <2>1. \A c \in BondId \ {b} : RefundFinal(c)' => RefundFinal(c)
    BY DEF RefundFinal
  <2>2. RefundFinal(b) /\ bridgeBalance' = bridgeBalance - FeeOf(b) + FeeOf(b)'
    BY DEF FeeStep
  <2>3. bridgeBalance = Reserve + HeldFees
    BY <2>1, <2>2 DEF BondInv, FeesCovered, RefundFinal
  <2>4. HeldFees \in Int /\ HeldFees' = HeldFees - FeeOf(b) + FeeOf(b)'
    BY <1>1, FeesChange
  <2>5. FeeOf(b) \in Nat /\ FeeOf(b)' \in Nat /\ Reserve \in Nat
    BY <1>1, FeeType, SeriesAssumption DEF BondTypes, FeeOf, Pending, Open, BondSwap
  <2> QED
    BY <2>2, <2>3, <2>4, <2>5
<1> QED
  BY <1>2, <1>3, <1>4, <1>5, <1>6 DEF BondInv

\* What all calls on records leave alone.
RecordFrame == UNCHANGED <<now, bridgeConfig, seriesConfig, cutOff>>

LEMMA FrameFacts ==
  ASSUME BondInv, RecordFrame
  PROVE  ConfigTypes' /\ cutOff' = cutOff
  BY TypeParts DEF BondInv, RecordFrame, ConfigTypes, bridgeConfig, seriesConfig

LEMMA ChainsSame ==
  ASSUME BondInv, UNCHANGED chainVars
  PROVE  ChainTypeOK' /\ \A c \in Chain : ChainWhitelisted(c)' = ChainWhitelisted(c)
  BY TypeParts DEF BondInv, ChainTypeOK, chainVars, ChainWhitelisted

LEMMA BondKeeps ==
  ASSUME BondInv, NEW b \in BondId, LiquidityBond(b) \/ \E dest \in Chain : LiquidityBondAndSwap(b, dest)
  PROVE  BondInv'
<1>1. BondTypes /\ ConfigTypes /\ ChainTypeOK
  BY TypeParts DEF BondInv
<1>2. Claimed(b) /\ Bondable(b)
  BY DEF LiquidityBond, LiquidityBondAndSwap
<1>3. RecordFrame /\ UNCHANGED chainVars /\ mints' = mints /\ records' = records \cup {b}
      /\ bondStates' = [bondStates EXCEPT ![TxOf[b]] = "Dealing"]
  BY <1>2 DEF Claimed, RecordFrame
<1>4. swaps[b] = None /\ bondStates[TxOf[b]] # "Success" /\ TxOf[b] \in Tx
  <2>1. b \notin records /\ bondStates[TxOf[b]] \in {None, "Fail"}
    BY <1>2 DEF Bondable, IsTxhashAvailable
  <2> QED
    BY <2>1, SeriesAssumption DEF BondInv, SwapsFiled, BondState
<1>5. bondStates' \in [Tx -> BondState \cup {None}] /\ bondStates'[TxOf[b]] = "Dealing"
      /\ (\A t \in Tx \ {TxOf[b]} : bondStates'[t] = bondStates[t]) /\ records' \subseteq BondId
      /\ mints' \in [BondId -> Nat] /\ b \in records' /\ records \subseteq records'
  BY <1>1, <1>3, <1>4 DEF BondTypes, BondState
<1>6. DepositStep(b)
  BY <1>3, <1>4, <1>5 DEF DepositStep
<1>7. CASE UNCHANGED <<swaps, bridgeBalance>>
  <2>1. BondTypes'
    BY <1>1, <1>5, <1>7 DEF BondTypes
  <2>2. FeeOf(b) = 0 /\ FeeOf(b)' = 0 /\ ~Open(b)'
    BY <1>4, <1>7 DEF FeeOf, Pending, Open
  <2>3. FeeStep(b)
    BY <1>1, <1>4, <1>7, <2>2 DEF FeeStep, RefundFinal, BondTypes
  <2>4. ConfigTypes' /\ cutOff' = cutOff /\ ChainTypeOK'
        /\ \A c \in Chain : ChainWhitelisted(c)' = ChainWhitelisted(c)
    BY <1>3, FrameFacts, ChainsSame
  <2>5. swaps'[b] = None /\ \A c \in BondId \ {b} : swaps'[c] = swaps[c]
    BY <1>4, <1>7
  <2> QED
    BY <1>4, <1>5, <1>6, <2>1, <2>2, <2>3, <2>4, <2>5, RecordStep
<1>8. ASSUME NEW dest \in Chain, LiquidityBondAndSwap(b, dest) PROVE BondInv'
  <2> DEFINE new == [fee |-> chainFees[dest], dest |-> dest, expire |-> 0,
                     state |-> "Dealing", refunded |-> FALSE]
  <2>1. chainFees[dest] \in Nat /\ ChainWhitelisted(dest)
    BY <1>1, <1>8 DEF LiquidityBondAndSwap, Swapable, ConfigTypes
  <2>2. new \in BondSwap /\ new # None
    <3>1. new \in BondSwap
      BY <2>1 DEF BondSwap, BondState
    <3> QED
      BY <3>1, SwapIsSome
  <2>3. swaps' = [swaps EXCEPT ![b] = new] /\ bridgeBalance' = bridgeBalance + chainFees[dest]
    BY <1>8 DEF LiquidityBondAndSwap
  <2>4. swaps'[b] = new /\ \A c \in BondId \ {b} : swaps'[c] = swaps[c]
    BY <1>1, <2>3 DEF BondTypes
  <2>5. BondTypes'
    BY <1>1, <1>5, <2>1, <2>2, <2>3 DEF BondTypes
  <2>6. FeeOf(b) = 0 /\ FeeOf(b)' = chainFees[dest]
    BY <1>4, <2>2, <2>4 DEF FeeOf, Pending, Open
  <2>7. FeeStep(b)
    BY <1>1, <1>4, <2>1, <2>3, <2>6 DEF FeeStep, RefundFinal, BondTypes
  <2>8. ConfigTypes' /\ cutOff' = cutOff /\ ChainTypeOK'
        /\ \A c \in Chain : ChainWhitelisted(c)' = ChainWhitelisted(c)
    BY <1>3, FrameFacts, ChainsSame
  <2>9. swaps'[b].dest = dest /\ swaps'[b].state # "Success"
    BY <2>4
  <2> QED
    BY <1>4, <1>5, <1>6, <2>1, <2>4, <2>5, <2>7, <2>8, <2>9, RecordStep
<1> QED
  BY <1>7, <1>8 DEF LiquidityBond

\* A record that can be executed is not closed, and its swap not sent.
LEMMA ExecutableFacts ==
  ASSUME BondInv, NEW b \in BondId, Executable(b)
  PROVE  /\ BondTypes /\ TxOf[b] \in Tx /\ b \in records
         /\ bondStates[TxOf[b]] # "Success"
         /\ swaps[b] # None => swaps[b] \in BondSwap /\ swaps[b].state # "Success" /\ Open(b)
<1>1. BondTypes /\ bondStates[TxOf[b]] \in {"Dealing", "Fail"} /\ b \in records
  BY TypeParts DEF BondInv, Executable, IsTxhashExecutable
<1> QED
  BY <1>1, RecordFacts DEF BondInv, SwapsFiled, Open

LEMMA FailKeeps ==
  ASSUME BondInv, NEW b \in BondId, ExecuteFail(b)
  PROVE  BondInv'
<1>1. Executable(b) /\ BondTypes /\ TxOf[b] \in Tx /\ b \in records /\ bondStates[TxOf[b]] # "Success"
      /\ (swaps[b] # None => swaps[b] \in BondSwap /\ swaps[b].state # "Success" /\ Open(b))
  BY ExecutableFacts DEF ExecuteFail
<1>2. RecordFrame /\ UNCHANGED chainVars /\ mints' = mints /\ records' = records
      /\ bridgeBalance' = bridgeBalance /\ bondStates' = [bondStates EXCEPT ![TxOf[b]] = "Fail"]
  BY DEF ExecuteFail, RecordFrame
<1>3. ConfigTypes' /\ cutOff' = cutOff /\ ChainTypeOK'
      /\ \A c \in Chain : ChainWhitelisted(c)' = ChainWhitelisted(c)
  BY <1>2, FrameFacts, ChainsSame
<1>4. bondStates' \in [Tx -> BondState \cup {None}] /\ bondStates'[TxOf[b]] = "Fail"
      /\ (\A t \in Tx \ {TxOf[b]} : bondStates'[t] = bondStates[t])
  BY <1>1, <1>2 DEF BondTypes, BondState
<1>5. DepositStep(b)
  BY <1>1, <1>2, <1>4 DEF DepositStep
<1>6. CASE swaps[b] # None /\ ~swaps[b].refunded
  <2> DEFINE old == swaps[b]
             new == [old EXCEPT !.expire = refundExpire + now, !.state = "Fail"]
  <2>1. refundExpire \in Nat /\ now \in Nat
    BY <1>6, TypeParts DEF ExecuteFail, BondInv, ConfigTypes
  <2>2. swaps' = [swaps EXCEPT ![b] = new]
    BY <1>1, <1>6 DEF ExecuteFail, BondTypes
  <2>3. new \in BondSwap /\ new.fee = old.fee /\ new.dest = old.dest /\ new.refunded = old.refunded
        /\ new.state = "Fail" /\ new # None
    <3>1. old \in BondSwap
      BY <1>1, <1>6
    <3>2. new \in BondSwap
      <4>1. refundExpire + now \in Nat /\ "Fail" \in BondState
        BY <2>1 DEF BondState
      <4> QED
        BY <3>1, <4>1 DEF BondSwap
    <3>3. new.fee = old.fee /\ new.dest = old.dest /\ new.refunded = old.refunded /\ new.state = "Fail"
      BY <3>1 DEF BondSwap
    <3> QED
      BY <3>2, <3>3, SwapIsSome
  <2>4. swaps'[b] = new /\ \A c \in BondId \ {b} : swaps'[c] = swaps[c]
    BY <1>1, <2>2 DEF BondTypes
  <2>5. BondTypes'
    BY <1>1, <1>2, <1>4, <2>2, <2>3 DEF BondTypes
  <2>6. FeeOf(b)' = FeeOf(b) /\ FeeOf(b) \in Nat
    BY <1>1, <1>6, <2>3, <2>4, FeeType DEF FeeOf, Pending, Open
  <2>7. FeeStep(b)
    BY <1>1, <1>2, <1>6, <2>6 DEF FeeStep, RefundFinal, BondTypes
  <2>8. ~cutOff => ChainWhitelisted(old.dest)
    BY <1>1, <1>6 DEF BondInv, SwapsSendable
  <2> HIDE DEF new
  <2> QED
    BY <1>1, <1>2, <1>3, <1>4, <1>5, <2>3, <2>4, <2>5, <2>7, <2>8, RecordStep
<1>7. CASE ~(swaps[b] # None /\ ~swaps[b].refunded)
  <2>1. swaps' = swaps
    BY <1>7 DEF ExecuteFail
  <2>2. BondTypes'
    BY <1>1, <1>2, <1>4, <2>1 DEF BondTypes
  <2>3. FeeOf(b)' = FeeOf(b) /\ FeeOf(b) \in Nat /\ Open(b)' = Open(b)
    BY <1>1, <2>1, FeeType DEF FeeOf, Pending, Open
  <2>4. FeeStep(b)
    BY <1>1, <1>2, <2>1, <2>3 DEF FeeStep, RefundFinal, BondTypes
  <2>5. ~cutOff /\ Open(b) => ChainWhitelisted(swaps'[b].dest)
    BY <2>1 DEF BondInv, SwapsSendable
  <2> QED
    BY <1>1, <1>2, <1>3, <1>4, <1>5, <2>1, <2>2, <2>3, <2>4, <2>5, RecordStep
<1> QED
  BY <1>6, <1>7

LEMMA PassKeeps ==
  ASSUME BondInv, NEW b \in BondId, ExecutePass(b)
  PROVE  BondInv'
<1>1. Executable(b) /\ BondTypes /\ TxOf[b] \in Tx /\ b \in records /\ bondStates[TxOf[b]] # "Success"
  BY ExecutableFacts DEF ExecutePass
<1>2. RecordFrame /\ UNCHANGED chainVars /\ records' = records /\ swaps' = swaps
      /\ mints' = [mints EXCEPT ![b] = @ + 1] /\ swaps[b] = None
      /\ bridgeBalance' = bridgeBalance /\ bondStates' = [bondStates EXCEPT ![TxOf[b]] = "Success"]
  BY DEF ExecutePass, RecordFrame
<1>3. ConfigTypes' /\ cutOff' = cutOff /\ ChainTypeOK'
      /\ \A c \in Chain : ChainWhitelisted(c)' = ChainWhitelisted(c)
  BY <1>2, FrameFacts, ChainsSame
<1>4. BondTypes' /\ bondStates'[TxOf[b]] = "Success"
      /\ (\A t \in Tx \ {TxOf[b]} : bondStates'[t] = bondStates[t])
  BY <1>1, <1>2 DEF BondTypes, BondState
<1>5. DepositStep(b)
  BY <1>1, <1>2, <1>4 DEF DepositStep
<1>6. FeeOf(b)' = 0 /\ FeeOf(b) = 0 /\ ~Open(b)'
  BY <1>2 DEF FeeOf, Pending, Open
<1>7. FeeStep(b)
  BY <1>1, <1>2, <1>6 DEF FeeStep, RefundFinal, BondTypes
<1> QED
  BY <1>1, <1>2, <1>3, <1>4, <1>5, <1>6, <1>7, RecordStep

LEMMA PassSwapKeeps ==
  ASSUME BondInv, NEW b \in BondId, ExecutePassSwap(b)
  PROVE  BondInv'
<1> DEFINE old == swaps[b]
           new == [old EXCEPT !.state = "Success"]
<1>1. Executable(b) /\ BondTypes /\ TxOf[b] \in Tx /\ b \in records /\ bondStates[TxOf[b]] # "Success"
      /\ old \in BondSwap /\ old.state # "Success" /\ Open(b)
  BY ExecutableFacts DEF ExecutePassSwap, SwapPaid
<1>2. RecordFrame /\ TransferFungible(old.dest) /\ records' = records
      /\ mints' = [mints EXCEPT ![b] = @ + 1] /\ TransferOut(old.fee)
      /\ swaps' = [swaps EXCEPT ![b] = new]
      /\ bondStates' = [bondStates EXCEPT ![TxOf[b]] = "Success"]
  BY <1>1 DEF ExecutePassSwap, SwapPaid, RecordFrame, BondTypes
<1>3. old.dest \in Chain /\ old.fee \in Nat
  BY <1>1 DEF BondSwap
<1>4. ConfigTypes' /\ cutOff' = cutOff
  BY <1>2, FrameFacts
<1>5. ChainTypeOK /\ ChainTypeOK'
  BY <1>2, <1>3, ChainStepTypes, TypeParts DEF BondInv
<1>6. \A c \in Chain : ChainWhitelisted(c)' = ChainWhitelisted(c)
  <2>1. chainNonces[old.dest] \in Nat /\ chainNonces' = [chainNonces EXCEPT ![old.dest] = chainNonces[old.dest] + 1]
        /\ chainNonces \in [Chain -> Nat \cup {None}] /\ chainNonces[old.dest] # None
    BY <1>2, <1>3, <1>5 DEF TransferFungible, ChainTypeOK, ChainWhitelisted
  <2>2. chainNonces'[old.dest] \in Nat /\ None \notin Nat
    BY <1>3, <2>1, BridgeChainsAssumption
  <2>3. \A c \in Chain \ {old.dest} : chainNonces'[c] = chainNonces[c]
    BY <2>1
  <2> QED
    BY <2>1, <2>2, <2>3 DEF ChainWhitelisted
<1>7. new \in BondSwap /\ new.refunded = old.refunded /\ new.state = "Success" /\ new # None
  <2>1. new \in BondSwap
    BY <1>1 DEF BondSwap, BondState
  <2>2. new.refunded = old.refunded /\ new.state = "Success"
    BY <1>1 DEF BondSwap
  <2> QED
    BY <2>1, <2>2, SwapIsSome
<1>8. bridgeBalance' \in Nat /\ bridgeBalance' = bridgeBalance - old.fee
  BY <1>1, <1>2, <1>3, PaidOut DEF BondTypes
<1>9. BondTypes' /\ bondStates'[TxOf[b]] = "Success" /\ swaps'[b] = new
      /\ (\A t \in Tx \ {TxOf[b]} : bondStates'[t] = bondStates[t])
      /\ \A c \in BondId \ {b} : swaps'[c] = swaps[c]
  <2> HIDE DEF new
  <2> QED
    BY <1>1, <1>2, <1>7, <1>8 DEF BondTypes, BondState
<1>10. DepositStep(b)
  BY <1>1, <1>2, <1>9 DEF DepositStep
<1>11. FeeOf(b)' = 0 /\ ~Open(b)'
  BY <1>7, <1>9 DEF FeeOf, Pending, Open
<1>12. ASSUME RefundFinal(b)' PROVE ~old.refunded
  BY <1>7, <1>9, <1>12 DEF RefundFinal
<1>13. FeeStep(b)
  <2>1. ~old.refunded => FeeOf(b) = old.fee /\ RefundFinal(b)
    BY <1>1 DEF FeeOf, Pending, RefundFinal
  <2> QED
    BY <1>1, <1>3, <1>8, <1>11, <1>12, <2>1 DEF FeeStep, BondTypes
<1> HIDE DEF new
<1> QED
  BY <1>1, <1>2, <1>4, <1>5, <1>6, <1>7, <1>9, <1>10, <1>11, <1>13, RecordStep

LEMMA PassUnsentKeeps ==
  ASSUME BondInv, NEW b \in BondId, ExecutePassUnsent(b)
  PROVE  BondInv'
<1>1. Executable(b) /\ BondTypes /\ TxOf[b] \in Tx /\ b \in records
      /\ swaps[b] \in BondSwap /\ Open(b)
  BY ExecutableFacts DEF ExecutePassUnsent, SwapPaid
<1>2. RecordFrame /\ UNCHANGED chainVars /\ records' = records /\ swaps' = swaps
      /\ mints' = [mints EXCEPT ![b] = @ + 1] /\ TransferOut(swaps[b].fee)
      /\ bondStates' = bondStates /\ ~ChainWhitelisted(swaps[b].dest)
  BY DEF ExecutePassUnsent, SwapPaid, RecordFrame
<1>3. ConfigTypes' /\ cutOff' = cutOff /\ ChainTypeOK'
      /\ \A c \in Chain : ChainWhitelisted(c)' = ChainWhitelisted(c)
  BY <1>2, FrameFacts, ChainsSame
<1>4. cutOff
  BY <1>1, <1>2 DEF BondInv, SwapsSendable
<1>5. swaps[b].fee \in Nat
  BY <1>1 DEF BondSwap
<1>6. BondTypes'
  BY <1>1, <1>2, <1>5, PaidOut DEF BondTypes
<1> QED
  BY <1>1, <1>2, <1>3, <1>4, <1>6, RecordStep DEF BondInv, SwapsFiled

LEMMA RefundKeeps ==
  ASSUME BondInv, NEW b \in BondId, RefundSwapFee(b)
  PROVE  BondInv'
<1> DEFINE old == swaps[b]
           new == [old EXCEPT !.refunded = TRUE]
<1>1. BondTypes /\ TxOf[b] \in Tx
  BY TypeParts, RecordFacts DEF BondInv
<1>2. old \in BondSwap /\ old.state = "Fail" /\ ~old.refunded /\ old # None
  BY <1>1, RecordFacts DEF RefundSwapFee, Refundable
<1>3. RecordFrame /\ UNCHANGED chainVars /\ records' = records /\ mints' = mints
      /\ TransferOut(old.fee) /\ swaps' = [swaps EXCEPT ![b] = new] /\ bondStates' = bondStates
  BY <1>1 DEF RefundSwapFee, RecordFrame, BondTypes
<1>4. old.fee \in Nat
  BY <1>2 DEF BondSwap
<1>5. ConfigTypes' /\ cutOff' = cutOff /\ ChainTypeOK'
      /\ \A c \in Chain : ChainWhitelisted(c)' = ChainWhitelisted(c)
  BY <1>3, FrameFacts, ChainsSame
<1>6. new \in BondSwap /\ new.refunded /\ new.state = "Fail" /\ new.dest = old.dest /\ new # None
  <2>1. new \in BondSwap
    BY <1>2 DEF BondSwap
  <2>2. new.refunded = TRUE /\ new.state = old.state /\ new.dest = old.dest
    BY <1>2 DEF BondSwap
  <2> QED
    BY <1>2, <2>1, <2>2, SwapIsSome
<1>7. bridgeBalance' \in Nat /\ bridgeBalance' = bridgeBalance - old.fee
  BY <1>1, <1>3, <1>4, PaidOut DEF BondTypes
<1>8. BondTypes' /\ swaps'[b] = new /\ \A c \in BondId \ {b} : swaps'[c] = swaps[c]
  <2> HIDE DEF new
  <2> QED
    BY <1>1, <1>3, <1>6, <1>7 DEF BondTypes
<1>9. DepositStep(b)
  BY <1>3 DEF DepositStep
<1>10. FeeOf(b)' = 0 /\ FeeOf(b) = old.fee
  BY <1>2, <1>6, <1>8 DEF FeeOf, Pending, Open
<1>11. FeeStep(b)
  BY <1>1, <1>2, <1>4, <1>7, <1>10 DEF FeeStep, RefundFinal, BondTypes
<1>12. b \in records /\ (~cutOff => ChainWhitelisted(old.dest))
  BY <1>2 DEF BondInv, SwapsFiled, SwapsSendable, Open
<1> HIDE DEF new
<1> QED
  BY <1>1, <1>3, <1>5, <1>6, <1>8, <1>9, <1>11, <1>12, RecordStep

LEMMA BondNext == BondInv /\ [Next]_vars => BondInv'
<1> SUFFICES ASSUME BondInv, [Next]_vars PROVE BondInv'
  OBVIOUS
<1>1. CASE ConfigCall \/ NextBlock
  BY <1>1, ConfigKeeps
<1>2. ASSUME NEW c \in Chain, ChainCall(c) PROVE BondInv'
  BY <1>2, ChainCallKeeps
<1>3. ASSUME NEW b \in BondId,
             LiquidityBond(b) \/ \E dest \in Chain : LiquidityBondAndSwap(b, dest)
      PROVE  BondInv'
  BY <1>3, BondKeeps
<1>4. ASSUME NEW b \in BondId, ExecuteFail(b) PROVE BondInv'
  BY <1>4, FailKeeps
<1>5. ASSUME NEW b \in BondId, ExecutePass(b) PROVE BondInv'
  BY <1>5, PassKeeps
<1>6. ASSUME NEW b \in BondId, ExecutePassSwap(b) PROVE BondInv'
  BY <1>6, PassSwapKeeps
<1>7. ASSUME NEW b \in BondId, ExecutePassUnsent(b) PROVE BondInv'
  BY <1>7, PassUnsentKeeps
<1>8. ASSUME NEW b \in BondId, RefundSwapFee(b) PROVE BondInv'
  BY <1>8, RefundKeeps
<1>9. CASE UNCHANGED vars
  <2>1. UNCHANGED bondVars /\ UNCHANGED chainVars /\ cutOff' = cutOff
    BY <1>9 DEF vars
  <2>2. TypeOK'
    BY <1>9 DEF BondInv, TypeOK, ChainTypeOK, ChainWhitelisted, vars, chainVars, bondVars,
                bridgeConfig, seriesConfig
  <2>3. ~cutOff' => \A b \in BondId : Open(b) => ChainWhitelisted(swaps[b].dest)'
    BY <2>1 DEF BondInv, SwapsSendable, ChainWhitelisted, chainVars, bondVars
  <2> QED
    BY <2>1, <2>2, <2>3, BondIdle
<1> QED
  BY <1>1, <1>2, <1>3, <1>4, <1>5, <1>6, <1>7, <1>8, <1>9 DEF Next

(* Types of the bonding state: in particular the bridge account is never    *)
(* drawn below zero by fees and refunds.                                    *)
THEOREM SeriesTypes == Spec => []TypeOK
<1>1. BondInv => TypeOK
  BY DEF BondInv
<1> QED
  BY BondInit, BondNext, <1>1, PTL DEF Spec

(* A deposit is minted for exactly once when its state is Success and not   *)
(* before, for any number of records that claim it and any order of         *)
(* verdicts, refunds and repeated dispatches, unless a chain was removed    *)
(* under an open swap (execute_bond_record).                                *)
THEOREM MintedOnce == Spec => []DepositMintedOnce
<1>1. BondInv => DepositMintedOnce
  BY DEF BondInv
<1> QED
  BY BondInit, BondNext, <1>1, PTL DEF Spec

(* The bridge account holds the fees of all swaps that are neither sent nor *)
(* refunded, for any number of records and any fees (liquidity_bond_and_    *)
(* swap, execute_bond_record, refund_swap_fee).                             *)
THEOREM FeesHeld == Spec => []FeesCovered
<1>1. BondInv => FeesCovered
  BY DEF BondInv
<1> QED
  BY BondInit, BondNext, <1>1, PTL DEF Spec

LEMMA ClosedNext ==
  ASSUME BondInv, [Next]_vars, NEW b \in BondId, swaps[b] # None, swaps[b].state = "Success"
  PROVE  swaps'[b] = swaps[b] /\ bondStates'[TxOf[b]] = "Success"
<1>1. BondTypes /\ bondStates[TxOf[b]] = "Success" /\ TxOf[b] \in Tx
  BY TypeParts, RecordFacts DEF BondInv, SwapsFiled
<1>2. CASE UNCHANGED <<swaps, bondStates>>
  BY <1>1, <1>2
<1>3. ASSUME NEW c \in BondId, Bondable(c) \/ Executable(c) PROVE TxOf[c] # TxOf[b] /\ c # b
  <2>1. bondStates[TxOf[c]] # "Success"
    BY <1>3, SeriesAssumption
       DEF Bondable, IsTxhashAvailable, Executable, IsTxhashExecutable, BondState
  <2> QED
    BY <1>1, <2>1
<1>4. ASSUME NEW c \in BondId, c # b, NEW s, swaps' = [swaps EXCEPT ![c] = s]
      PROVE  swaps'[b] = swaps[b]
  BY <1>1, <1>4 DEF BondTypes
<1>5. ASSUME NEW c \in BondId, TxOf[c] # TxOf[b], NEW s, bondStates' = [bondStates EXCEPT ![TxOf[c]] = s]
      PROVE  bondStates'[TxOf[b]] = "Success"
  BY <1>1, <1>5 DEF BondTypes
<1>6. ASSUME NEW c \in BondId,
             LiquidityBond(c) \/ \E dest \in Chain : LiquidityBondAndSwap(c, dest)
      PROVE  swaps'[b] = swaps[b] /\ bondStates'[TxOf[b]] = "Success"
  <2>1. Bondable(c) /\ bondStates' = [bondStates EXCEPT ![TxOf[c]] = "Dealing"]
    BY <1>6 DEF LiquidityBond, LiquidityBondAndSwap, Claimed
  <2>2. swaps' = swaps \/ \E s : swaps' = [swaps EXCEPT ![c] = s]
    BY <1>6 DEF LiquidityBond, LiquidityBondAndSwap
  <2> QED
    BY <1>3, <1>4, <1>5, <2>1, <2>2
<1>7. ASSUME NEW c \in BondId, ExecuteFail(c) \/ ExecutePass(c) \/ ExecutePassSwap(c)
      PROVE  swaps'[b] = swaps[b] /\ bondStates'[TxOf[b]] = "Success"
  <2>1. Executable(c) /\ \E s : bondStates' = [bondStates EXCEPT ![TxOf[c]] = s]
    BY <1>7 DEF ExecuteFail, ExecutePass, ExecutePassSwap, SwapPaid
  <2>2. swaps' = swaps \/ \E s : swaps' = [swaps EXCEPT ![c] = s]
    BY <1>7 DEF ExecuteFail, ExecutePass, ExecutePassSwap
  <2> QED
    BY <1>3, <1>4, <1>5, <2>1, <2>2
<1>8. ASSUME NEW c \in BondId, RefundSwapFee(c)
      PROVE  swaps'[b] = swaps[b] /\ bondStates'[TxOf[b]] = "Success"
  <2>1. c # b /\ bondStates' = bondStates
    BY <1>8 DEF RefundSwapFee, Refundable
  <2>2. \E s : swaps' = [swaps EXCEPT ![c] = s]
    BY <1>8 DEF RefundSwapFee
  <2> QED
    BY <1>1, <1>4, <2>1, <2>2
<1>9. ASSUME NEW c \in BondId, ExecutePassUnsent(c) PROVE UNCHANGED <<swaps, bondStates>>
  BY <1>9 DEF ExecutePassUnsent
<1>10. CASE ConfigCall \/ NextBlock \/ (\E c \in Chain : ChainCall(c)) \/ UNCHANGED vars
  BY <1>2, <1>10 DEF ConfigCall, NextBlock, ChainCall, vars, bondVars
<1> QED
  BY <1>2, <1>6, <1>7, <1>8, <1>9, <1>10 DEF Next

(* A swap that was sent on stays as it is and its deposit stays closed, for *)
(* any later claim, verdict or refund (is_txhash_available,                 *)
(* is_txhash_executable, refundable).                                       *)
THEOREM SentClosed == Spec => SentSwapIsClosed
<1>1. BondInv /\ [Next]_vars =>
        [\A b \in BondId : swaps[b] # None /\ swaps[b].state = "Success" =>
           swaps'[b] = swaps[b] /\ bondStates'[TxOf[b]] = "Success"]_vars
  BY ClosedNext
<1> QED
  BY BondInit, BondNext, <1>1, PTL DEF Spec, SentSwapIsClosed

-----------------------------------------------------------------------------
(* The unlocking lists: how often an entry occurs in a list.                *)

\* Occurrences among the first n entries.
Among(list, n, x) == Cardinality({i \in 1..n : list[i] = x})

LEMMA AmongNone ==
  ASSUME NEW list, NEW n \in Nat, NEW x, \A i \in 1..n : list[i] # x
  PROVE  Among(list, n, x) = 0
<1>1. {i \in 1..n : list[i] = x} = {}
  OBVIOUS
<1> QED
  BY <1>1, FS_EmptySet DEF Among

LEMMA AmongFinite ==
  ASSUME NEW list, NEW n \in Nat, NEW x
  PROVE  IsFiniteSet({i \in 1..n : list[i] = x}) /\ Among(list, n, x) \in Nat
<1> DEFINE A == {i \in 1..n : list[i] = x}
<1>1. IsFiniteSet(1..n) /\ A \subseteq 1..n
  BY FS_Interval
<1> HIDE DEF A
<1>2. IsFiniteSet(A) /\ Cardinality(A) \in Nat
  BY <1>1, FS_Subset, FS_CardinalityType
<1> QED
  BY <1>2 DEF A, Among

LEMMA AmongStep ==
  ASSUME NEW list, NEW n \in Nat, NEW x
  PROVE  Among(list, n + 1, x) = Among(list, n, x) + (IF list[n + 1] = x THEN 1 ELSE 0)
<1> DEFINE A == {i \in 1..n : list[i] = x}
<1>1. IsFiniteSet(A) /\ Among(list, n, x) \in Nat
  BY AmongFinite
<1>2. n + 1 \notin A
  OBVIOUS
<1>3. {i \in 1..(n + 1) : list[i] = x} = IF list[n + 1] = x THEN A \cup {n + 1} ELSE A
  OBVIOUS
<1>4. Among(list, n, x) = Cardinality(A)
  BY DEF Among
<1> HIDE DEF A
<1>5. Cardinality(A \cup {n + 1}) = Cardinality(A) + 1
  BY <1>1, <1>2, FS_AddElement
<1>6. Among(list, n + 1, x) = IF list[n + 1] = x THEN Cardinality(A) + 1 ELSE Cardinality(A)
  BY <1>3, <1>5 DEF Among
<1> QED
  BY <1>1, <1>4, <1>6

LEMMA CountIsAmong ==
  ASSUME NEW T, NEW list \in Seq(T), NEW x
  PROVE  Count(list, x) = Among(list, Len(list), x) /\ Count(list, x) \in Nat
<1>1. DOMAIN list = 1..Len(list) /\ Len(list) \in Nat
  OBVIOUS
<1>2. Count(list, x) = Among(list, Len(list), x)
  BY <1>1 DEF Count, Among
<1>3. Among(list, Len(list), x) \in Nat
  BY <1>1, AmongFinite
<1> QED
  BY <1>2, <1>3

\* Lists that agree on their first entries have as many occurrences there.
LEMMA AmongSame ==
  ASSUME NEW s, NEW t, NEW n \in Nat, NEW x, \A i \in 1..n : s[i] = t[i]
  PROVE  Among(s, n, x) = Among(t, n, x)
<1>1. {i \in 1..n : s[i] = x} = {i \in 1..n : t[i] = x}
  OBVIOUS
<1> QED
  BY <1>1 DEF Among

LEMMA CountAppend ==
  ASSUME NEW T, NEW list \in Seq(T), NEW y \in T, NEW x
  PROVE  /\ Count(list, x) \in Nat
         /\ Count(Append(list, y), x) = Count(list, x) + (IF y = x THEN 1 ELSE 0)
<1> DEFINE new == Append(list, y)
           n == Len(list)
<1>1. new \in Seq(T) /\ Len(new) = n + 1 /\ n \in Nat /\ new[n + 1] = y /\ \A i \in 1..n : new[i] = list[i]
  OBVIOUS
<1> HIDE DEF new, n
<1>2. Among(new, n, x) = Among(list, n, x)
  BY <1>1, AmongSame
<1>3. Among(new, n + 1, x) = Among(new, n, x) + (IF new[n + 1] = x THEN 1 ELSE 0)
  BY <1>1, AmongStep
<1>4. Count(list, x) = Among(list, n, x) /\ Count(list, x) \in Nat /\ Count(new, x) = Among(new, n + 1, x)
  BY <1>1, CountIsAmong DEF n
<1> QED
  BY <1>1, <1>2, <1>3, <1>4 DEF new

(* Draining the first d entries drops no occurrence of an entry that is not *)
(* among them.                                                              *)
LEMMA CountDrained ==
  ASSUME NEW T, NEW list \in Seq(T), NEW d \in Nat, d <= Len(list), NEW x,
         \A i \in 1..d : list[i] # x
  PROVE  Count(SubSeq(list, d + 1, Len(list)), x) = Count(list, x)
<1> DEFINE rest == SubSeq(list, d + 1, Len(list))
           m == Len(list)
           K == {n \in Nat : n + d <= m => Among(rest, n, x) = Among(list, n + d, x)}
<1>1. m \in Nat /\ \A i \in (d + 1)..m : list[i] \in T
  OBVIOUS
<1>2. rest \in Seq(T) /\ Len(rest) = m - d /\ \A i \in 1..(m - d) : rest[i] = list[d + i]
  <2>1. /\ rest \in Seq(T) /\ Len(rest) = (IF d + 1 <= m THEN m - (d + 1) + 1 ELSE 0)
        /\ \A i \in 1..(m - (d + 1) + 1) : rest[i] = list[(d + 1) + i - 1]
    BY <1>1, SubSeqProperties
  <2>2. \A i \in 1..(m - d) : (d + 1) + i - 1 = d + i /\ i \in 1..(m - (d + 1) + 1)
    BY <1>1
  <2> HIDE DEF rest
  <2>3. \A i \in 1..(m - d) : rest[i] = list[d + i]
    BY <2>1, <2>2
  <2> QED
    BY <1>1, <2>1, <2>3
<1> HIDE DEF rest, m
<1>3. 0 \in K
  <2>1. Among(list, d, x) = 0
    BY AmongNone
  <2>2. Among(rest, 0, x) = 0
    BY AmongNone
  <2> QED
    BY <2>1, <2>2
<1>4. ASSUME NEW n \in K \cap Nat PROVE n + 1 \in K
  <2> SUFFICES ASSUME (n + 1) + d <= m PROVE Among(rest, n + 1, x) = Among(list, (n + 1) + d, x)
    OBVIOUS
  <2>1. PICK k \in Nat : k = n + d
    OBVIOUS
  <2>2. (n + 1) + d = k + 1 /\ n + 1 \in 1..(m - d) /\ d + (n + 1) = k + 1 /\ k <= m
    BY <1>1, <2>1
  <2>3. Among(rest, n, x) = Among(list, k, x)
    BY <1>1, <2>1, <2>2
  <2>4. Among(rest, n + 1, x) = Among(rest, n, x) + (IF rest[n + 1] = x THEN 1 ELSE 0)
    BY AmongStep
  <2>5. Among(list, k + 1, x) = Among(list, k, x) + (IF list[k + 1] = x THEN 1 ELSE 0)
    BY AmongStep
  <2>6. rest[n + 1] = list[k + 1]
    BY <1>2, <2>2
  <2> QED
    BY <2>2, <2>3, <2>4, <2>5, <2>6
<1>5. m - d \in K
  <2>1. Nat \subseteq K
    <3> HIDE DEF K
    <3> QED
      BY <1>3, <1>4, NatSetInduction
  <2>2. m - d \in Nat
    BY <1>1 DEF m
  <2> QED
    BY <2>1, <2>2
<1>6. Among(rest, m - d, x) = Among(list, m, x)
  BY <1>1, <1>5
<1>7. Count(rest, x) = Among(rest, m - d, x) /\ Count(list, x) = Among(list, m, x)
  BY <1>2, CountIsAmong DEF m
<1> QED
  BY <1>6, <1>7 DEF rest

-----------------------------------------------------------------------------
(* The unlocking lists: making room in a full list.                         *)

LockedStep(list, D, h) ==
  h = [n \in D |-> IF n = 0 THEN << >>
                   ELSE IF list[n].unlockEra >= chainEra THEN Append(h[n - 1], list[n])
                   ELSE h[n - 1]]

LEMMA LockedUnfold ==
  ASSUME NEW list
  PROVE  StillLocked(list) = (CHOOSE h : LockedStep(list, 0..Len(list), h))[Len(list)]
BY DEF StillLocked, LockedStep

LEMMA LockedExists ==
  ASSUME NEW list, NEW n \in Nat
  PROVE  \E h : LockedStep(list, 0..n, h)
<1> DEFINE N == {k \in Nat : \E h : LockedStep(list, 0..k, h)}
<1>1. 0 \in N
  <2> DEFINE h == [k \in 0..0 |-> << >>]
  <2>1. \A k \in 0..0 : k = 0
    OBVIOUS
  <2>2. LockedStep(list, 0..0, h)
    BY <2>1 DEF LockedStep
  <2> QED
    BY <2>2
<1>2. ASSUME NEW k \in N \cap Nat PROVE k + 1 \in N
  <2>1. PICK g : LockedStep(list, 0..k, g)
    OBVIOUS
  <2> DEFINE h == [j \in 0..(k + 1) |->
                     IF j = 0 THEN << >>
                     ELSE IF list[j].unlockEra >= chainEra THEN Append(g[j - 1], list[j])
                     ELSE g[j - 1]]
  <2>2. \A j \in 0..(k + 1) : j # 0 => j - 1 \in 0..k /\ j - 1 \in 0..(k + 1)
    OBVIOUS
  <2>3. \A j \in 0..k : j \in 0..(k + 1)
    OBVIOUS
  <2>4. \A j \in 0..k : h[j] = g[j]
    BY <2>1, <2>3 DEF LockedStep
  <2>5. h = [j \in 0..(k + 1) |->
               IF j = 0 THEN << >>
               ELSE IF list[j].unlockEra >= chainEra THEN Append(h[j - 1], list[j])
               ELSE h[j - 1]]
    BY <2>2, <2>4
  <2>6. LockedStep(list, 0..(k + 1), h)
    BY <2>5 DEF LockedStep
  <2> QED
    BY <2>6
<1> HIDE DEF N
<1>3. Nat \subseteq N
  BY <1>1, <1>2, NatSetInduction
<1> QED
  BY <1>3 DEF N

\* Lists in the order in which their chunks unlock.
Sorted(list) == \A i, j \in DOMAIN list : i <= j => list[i].unlockEra <= list[j].unlockEra

\* What the chunks kept from the first n of a list have in common with it.
KeptFrom(list, n, kept) ==
  /\ kept \in Seq(UserUnlockChunk)
  /\ \A i \in DOMAIN kept : \E j \in 1..n : kept[i] = list[j]
  /\ Sorted(list) => Sorted(kept)
  /\ \A x \in UserUnlockChunk : x.unlockEra >= chainEra => Count(kept, x) = Among(list, n, x)
  /\ \A m \in 0..n : (\A i \in (m + 1)..n : list[i].unlockEra >= chainEra) => Len(kept) >= n - m

(* Keeping the chunks that are not unlocked yet keeps all of them and their *)
(* order, and as many as there are behind the first of them.                *)
LEMMA LockedKept ==
  ASSUME chainEra \in Nat, NEW list \in Seq(UserUnlockChunk)
  PROVE  KeptFrom(list, Len(list), StillLocked(list))
<1> DEFINE h == CHOOSE h : LockedStep(list, 0..Len(list), h)
           n == Len(list)
           K == {k \in Nat : k <= n => KeptFrom(list, k, h[k])}
<1>1. n \in Nat /\ DOMAIN list = 1..n /\ \A i \in 1..n : list[i] \in UserUnlockChunk
  OBVIOUS
<1>2. LockedStep(list, 0..n, h)
  BY <1>1, LockedExists
<1> HIDE DEF h, n
<1>3. 0 \in K
  <2>1. 0 \in 0..n
    BY <1>1
  <2>2. h[0] = << >>
    BY <1>2, <2>1 DEF LockedStep
  <2>3. << >> \in Seq(UserUnlockChunk) /\ DOMAIN << >> = {} /\ Len(<< >>) = 0
    OBVIOUS
  <2>4. \A x : Count(<< >>, x) = 0 /\ Among(list, 0, x) = 0
    <3>1. \A x : Among(list, 0, x) = 0 /\ Among(<< >>, 0, x) = 0
      BY AmongNone
    <3>2. \A x : Count(<< >>, x) = Among(<< >>, 0, x)
      BY <2>3, CountIsAmong
    <3> QED
      BY <3>1, <3>2
  <2>5. \A m \in 0..0 : 0 >= 0 - m
    OBVIOUS
  <2>6. KeptFrom(list, 0, << >>)
    BY <2>3, <2>4, <2>5 DEF KeptFrom, Sorted
  <2> QED
    BY <2>2, <2>6
<1>4. ASSUME NEW k \in K \cap Nat PROVE k + 1 \in K
  <2> SUFFICES ASSUME k + 1 <= n PROVE KeptFrom(list, k + 1, h[k + 1])
    OBVIOUS
  <2> DEFINE old == h[k]
             new == h[k + 1]
             y == list[k + 1]
  <2>1. KeptFrom(list, k, old)
    BY <1>1
  <2>2. k + 1 \in 0..n /\ (k + 1) - 1 = k /\ k + 1 # 0 /\ k + 1 \in 1..n
    BY <1>1
  <2>3. y \in UserUnlockChunk /\ y.unlockEra \in Nat
    BY <1>1, <2>2 DEF UserUnlockChunk
  <2>4. new = IF y.unlockEra >= chainEra THEN Append(old, y) ELSE old
    BY <1>2, <2>2 DEF LockedStep
  <2> HIDE DEF old, new, y
  <2>5. old \in Seq(UserUnlockChunk) /\ new \in Seq(UserUnlockChunk)
    BY <2>1, <2>3, <2>4 DEF KeptFrom
  <2>6. \A i \in DOMAIN new : \E j \in 1..(k + 1) : new[i] = list[j]
    <3>1. \A i \in DOMAIN old : \E j \in 1..(k + 1) : old[i] = list[j]
      BY <2>1 DEF KeptFrom
    <3>2. k + 1 \in 1..(k + 1) /\ list[k + 1] = y
      BY DEF y
    <3>3. \A i \in DOMAIN Append(old, y) :
            (i \in DOMAIN old /\ Append(old, y)[i] = old[i]) \/ Append(old, y)[i] = y
      BY <2>3, <2>5
    <3> QED
      BY <2>4, <3>1, <3>2, <3>3
  <2>7. Sorted(list) => Sorted(new)
    <3> SUFFICES ASSUME Sorted(list), NEW i \in DOMAIN new, NEW j \in DOMAIN new, i <= j
                 PROVE  new[i].unlockEra <= new[j].unlockEra
      BY DEF Sorted
    <3>1. CASE new = old
      BY <2>1, <3>1 DEF KeptFrom, Sorted
    <3>2. CASE new = Append(old, y)
      <4>1. Len(new) = Len(old) + 1 /\ new[Len(old) + 1] = y /\ DOMAIN new = 1..(Len(old) + 1)
            /\ DOMAIN old = 1..Len(old) /\ Len(old) \in Nat /\ \A l \in 1..Len(old) : new[l] = old[l]
        BY <2>3, <2>5, <3>2
      <4>2. CASE j \in 1..Len(old)
        <5>1. i \in 1..Len(old)
          BY <4>1, <4>2
        <5> QED
          BY <2>1, <4>1, <4>2, <5>1 DEF KeptFrom, Sorted
      <4>3. CASE j = Len(old) + 1
        <5>1. PICK l \in 1..(k + 1) : new[i] = list[l]
          BY <2>6
        <5>2. l \in DOMAIN list /\ k + 1 \in DOMAIN list /\ l <= k + 1
          BY <1>1, <2>2
        <5> QED
          BY <4>1, <4>3, <5>1, <5>2 DEF Sorted, y
      <4> QED
        BY <4>1, <4>2, <4>3
    <3> QED
      BY <2>4, <3>1, <3>2
  <2>8. ASSUME NEW x \in UserUnlockChunk, x.unlockEra >= chainEra
        PROVE  Count(new, x) = Among(list, k + 1, x)
    <3>1. Count(old, x) = Among(list, k, x)
      BY <2>1, <2>8 DEF KeptFrom
    <3>2. Among(list, k + 1, x) = Among(list, k, x) + (IF y = x THEN 1 ELSE 0)
      BY AmongStep DEF y
    <3>3. Count(old, x) \in Nat /\ Count(Append(old, y), x) = Count(old, x) + (IF y = x THEN 1 ELSE 0)
      BY <2>3, <2>5, CountAppend
    <3> QED
      BY <2>4, <2>8, <3>1, <3>2, <3>3
  <2>9. ASSUME NEW m \in 0..(k + 1), \A i \in (m + 1)..(k + 1) : list[i].unlockEra >= chainEra
        PROVE  Len(new) >= (k + 1) - m
    <3>1. Len(new) \in Nat /\ Len(old) \in Nat
      BY <2>5
    <3>2. CASE m = k + 1
      BY <3>1, <3>2
    <3>3. CASE m \in 0..k
      <4>1. k + 1 \in (m + 1)..(k + 1) /\ \A i \in (m + 1)..k : i \in (m + 1)..(k + 1)
        BY <3>3
      <4>2. y.unlockEra >= chainEra /\ Len(old) >= k - m
        BY <2>1, <2>9, <3>3, <4>1 DEF KeptFrom, y
      <4>3. Len(new) = Len(old) + 1
        BY <2>3, <2>4, <2>5, <4>2
      <4> QED
        BY <3>1, <3>3, <4>2, <4>3
    <3> QED
      BY <3>2, <3>3
  <2> QED
    BY <2>5, <2>6, <2>7, <2>8, <2>9 DEF KeptFrom, new
<1>5. n \in K
  <2> HIDE DEF K
  <2> QED
    BY <1>1, <1>3, <1>4, NatSetInduction
<1>6. StillLocked(list) = h[n]
  BY LockedUnfold DEF h, n
<1> QED
  BY <1>1, <1>5, <1>6 DEF n

\* What making room must not lose.
RoomMade(list, kept) ==
  /\ kept \in Seq(UserUnlockChunk)
  /\ \A i \in DOMAIN kept : \E j \in DOMAIN list : kept[i] = list[j]
  /\ Sorted(list) =>
       /\ Sorted(kept)
       /\ \A x \in UserUnlockChunk : x.unlockEra >= chainEra => Count(kept, x) = Count(list, x)

(* Making room in a sorted list drops no chunk that is still locked: if     *)
(* fewer than MIN_UNLOCKING_CHUNKS are, they are the last ones.             *)
LEMMA TrimmedKeeps ==
  ASSUME chainEra \in Nat, NEW list \in Seq(UserUnlockChunk), Len(list) <= MAX_UNLOCKING_CHUNKS
  PROVE  RoomMade(list, Trimmed(list))
<1> DEFINE pending == StillLocked(list)
           d == MAX_UNLOCKING_CHUNKS - MIN_UNLOCKING_CHUNKS + 1
           rest == SubSeq(list, d + 1, Len(list))
<1>1. Len(list) \in Nat /\ DOMAIN list = 1..Len(list)
      /\ \A i \in 1..Len(list) : list[i] \in UserUnlockChunk /\ list[i].unlockEra \in Nat
  <2>1. Len(list) \in Nat /\ DOMAIN list = 1..Len(list)
        /\ \A i \in 1..Len(list) : list[i] \in UserUnlockChunk
    BY ElementOfSeq
  <2>2. \A x \in UserUnlockChunk : x.unlockEra \in Nat
    BY DEF UserUnlockChunk
  <2> QED
    BY <2>1, <2>2
<1>2. MAX_UNLOCKING_CHUNKS \in Nat /\ MIN_UNLOCKING_CHUNKS \in Nat /\ MIN_UNLOCKING_CHUNKS > 0
      /\ MIN_UNLOCKING_CHUNKS < MAX_UNLOCKING_CHUNKS
  BY UnbondAssumption
<1>3. KeptFrom(list, Len(list), pending)
  BY LockedKept
<1>4. d \in Nat /\ d <= MAX_UNLOCKING_CHUNKS
      /\ MAX_UNLOCKING_CHUNKS - MIN_UNLOCKING_CHUNKS + 2 = d + 1
  BY <1>2
<1> HIDE DEF pending
<1>5. RoomMade(list, list)
  BY DEF RoomMade
<1>6. RoomMade(list, pending)
  <2>1. \A x : Among(list, Len(list), x) = Count(list, x)
    BY CountIsAmong
  <2> QED
    BY <1>1, <1>3, <2>1 DEF KeptFrom, RoomMade
<1>7. ASSUME Len(list) = MAX_UNLOCKING_CHUNKS, Len(pending) < MIN_UNLOCKING_CHUNKS
      PROVE  RoomMade(list, rest)
  <2>1. \A i \in (d + 1)..Len(list) : list[i] \in UserUnlockChunk
    BY <1>1, <1>4
  <2>2. /\ rest \in Seq(UserUnlockChunk)
        /\ Len(rest) = (IF d + 1 <= Len(list) THEN Len(list) - (d + 1) + 1 ELSE 0)
        /\ \A i \in 1..(Len(list) - (d + 1) + 1) : rest[i] = list[(d + 1) + i - 1]
    BY <1>1, <1>4, <2>1, SubSeqProperties
  <2>3. \A i \in DOMAIN rest : i + d \in DOMAIN list /\ rest[i] = list[i + d]
    <3>1. DOMAIN rest = 1..Len(rest)
      BY <2>2
    <3>2. \A i \in DOMAIN rest : i \in 1..(Len(list) - (d + 1) + 1) /\ (d + 1) + i - 1 = i + d
                                 /\ i + d \in 1..Len(list)
      BY <1>1, <1>4, <2>2, <3>1
    <3> QED
      BY <1>1, <2>2, <3>2
  <2>4. rest \in Seq(UserUnlockChunk) /\ DOMAIN rest \subseteq Nat
    BY <2>2
  <2> HIDE DEF rest
  <2>5. Sorted(list) => Sorted(rest)
    <3> SUFFICES ASSUME Sorted(list), NEW i \in DOMAIN rest, NEW j \in DOMAIN rest, i <= j
                 PROVE  rest[i].unlockEra <= rest[j].unlockEra
      BY DEF Sorted
    <3>1. i + d <= j + d
      BY <1>4, <2>4
    <3> QED
      BY <2>3, <3>1 DEF Sorted
  <2>6. ASSUME Sorted(list), NEW x \in UserUnlockChunk, x.unlockEra >= chainEra
        PROVE  Count(rest, x) = Count(list, x)
    <3>1. ASSUME NEW i \in 1..d, list[i] = x PROVE FALSE
      <4>1. i \in 1..Len(list)
        BY <1>4, <1>7, <3>1
      <4>2. \A j \in ((i - 1) + 1)..Len(list) : list[j].unlockEra >= chainEra
        <5> SUFFICES ASSUME NEW j \in ((i - 1) + 1)..Len(list) PROVE list[j].unlockEra >= chainEra
          OBVIOUS
        <5>1. j \in 1..Len(list) /\ i <= j
          BY <1>1, <4>1
        <5>2. list[i].unlockEra <= list[j].unlockEra
          BY <1>1, <2>6, <4>1, <5>1 DEF Sorted
        <5>3. list[j].unlockEra \in Nat /\ list[i].unlockEra \in Nat /\ list[i].unlockEra >= chainEra
          BY <1>1, <2>6, <3>1, <4>1, <5>1
        <5> QED
          BY <5>2, <5>3
      <4>3. i - 1 \in 0..Len(list)
        BY <1>1, <4>1
      <4>4. Len(pending) >= Len(list) - (i - 1)
        BY <1>3, <4>2, <4>3 DEF KeptFrom
      <4>5. Len(pending) \in Nat
        BY <1>3 DEF KeptFrom
      <4> QED
        BY <1>2, <1>7, <4>1, <4>4, <4>5
    <3>2. d <= Len(list) /\ \A i \in 1..d : list[i] # x
      BY <1>4, <1>7, <3>1
    <3> HIDE DEF d
    <3> QED
      BY <1>4, <3>2, CountDrained DEF rest
  <2> QED
    BY <2>3, <2>4, <2>5, <2>6 DEF RoomMade
<1>8. Trimmed(list) = IF Len(list) < MAX_UNLOCKING_CHUNKS THEN list
                      ELSE IF Len(pending) < MIN_UNLOCKING_CHUNKS THEN rest ELSE pending
  BY <1>4 DEF Trimmed, pending
<1>9. Len(list) < MAX_UNLOCKING_CHUNKS \/ Len(list) = MAX_UNLOCKING_CHUNKS
  <2>1. \A a, b \in Nat : a <= b => a < b \/ a = b
    OBVIOUS
  <2> QED
    BY <1>1, <1>2, <2>1
<1> QED
  BY <1>5, <1>6, <1>7, <1>8, <1>9

-----------------------------------------------------------------------------
(* The unlocking lists: the inductive invariant.                            *)

LEMMA LastUnlockFacts ==
  /\ LastUnlock \in Nat
  /\ \A era \in Era, d \in Duration : era + d \in 1..LastUnlock /\ era \in Nat /\ d \in Nat
<1>1. \E d \in Duration : \A e \in Duration : d >= e
  <2>1. Duration \subseteq Int /\ IsFiniteSet(Duration) /\ Duration # {}
    BY UnbondAssumption
  <2> QED
    BY <2>1, ExtremaExist
<1>2. \E d \in Duration : \A e \in Duration : e <= d
  <2>1. Duration \subseteq Int
    BY UnbondAssumption
  <2> QED
    BY <1>1, <2>1
<1> DEFINE last == CHOOSE d \in Duration : \A e \in Duration : e <= d
<1>3. last \in Duration /\ \A e \in Duration : e <= last
  BY <1>2
<1>4. LastUnlock = MaxEra + last
  BY DEF LastUnlock
<1> HIDE DEF last
<1> QED
  BY <1>3, <1>4, UnbondAssumption DEF Era

UnlockTypes ==
  /\ chainEra \in Era \cup {Unset}
  /\ bondingDuration \in Duration \cup {Unset}
  /\ accountUnbonds \in [Account -> Seq(UserUnlockChunk)]
  /\ \A a \in Account : Len(accountUnbonds[a]) <= MAX_UNLOCKING_CHUNKS
  /\ poolUnbonds \in [Pool \X (1..LastUnlock) -> Seq(Account)]

\* Nothing is unbonded before the first era.
NoneBefore ==
  chainEra = Unset => /\ \A a \in Account : accountUnbonds[a] = << >>
                      /\ \A k \in Pool \X (1..LastUnlock) : poolUnbonds[k] = << >>

\* While the duration only grows, a new chunk unlocks last.
NewestLast ==
  ~shortened => \A a \in Account :
    /\ Sorted(accountUnbonds[a])
    /\ \A i \in DOMAIN accountUnbonds[a] :
         /\ chainEra # Unset /\ bondingDuration # Unset
         /\ accountUnbonds[a][i].unlockEra <= chainEra + bondingDuration

UnlockInv == UnlockTypes /\ NoneBefore /\ NewestLast /\ PendingChunksAreListed

LEMMA UnlockInit == UnbondInit => UnlockInv
<1> SUFFICES ASSUME UnbondInit PROVE UnlockInv
  OBVIOUS
<1>1. \A T : << >> \in Seq(T) /\ DOMAIN << >> = {} /\ Len(<< >>) = 0
  OBVIOUS
<1>2. UnlockTypes
  <2>1. 0 <= MAX_UNLOCKING_CHUNKS
    BY UnbondAssumption
  <2> QED
    BY <1>1, <2>1 DEF UnbondInit, UnlockTypes
<1>3. NoneBefore /\ NewestLast
  BY <1>1 DEF UnbondInit, NoneBefore, NewestLast, Sorted
<1>4. PendingChunksAreListed
  BY DEF UnbondInit, PendingChunksAreListed
<1> QED
  BY <1>2, <1>3, <1>4 DEF UnlockInv

(* Root's calls and the next era: the lists stay, later eras are fewer and  *)
(* a duration that is not lowered keeps new chunks last.                    *)
LEMMA ErasKeepUnlock ==
  ASSUME UnlockInv, SetChainEra \/ (\E d \in Duration : SetChainBondingDuration(d))
                      \/ (\E limit \in Limit : SetEraUnbondLimit(limit))
  PROVE  UnlockInv'
<1>1. accountUnbonds' = accountUnbonds /\ poolUnbonds' = poolUnbonds
  BY DEF SetChainEra, SetChainBondingDuration, SetEraUnbondLimit, unlockVars
<1>2. ~shortened' => ~shortened
  BY DEF SetChainEra, SetChainBondingDuration, SetEraUnbondLimit, unlockVars
<1>3. chainEra' = chainEra \/ (chainEra = Unset /\ chainEra' = 1)
      \/ (chainEra \in Era /\ chainEra # MaxEra /\ chainEra' = chainEra + 1)
  BY DEF SetChainEra, SetChainBondingDuration, SetEraUnbondLimit, UnlockInv, UnlockTypes
<1>4. bondingDuration' \in Duration \cup {Unset}
      /\ (~shortened' /\ bondingDuration # Unset =>
            bondingDuration' # Unset /\ bondingDuration' >= bondingDuration)
  <2>1. CASE bondingDuration' = bondingDuration
    <3>1. bondingDuration # Unset => bondingDuration \in Nat
      BY UnbondAssumption DEF UnlockInv, UnlockTypes
    <3> QED
      BY <2>1, <3>1 DEF UnlockInv, UnlockTypes
  <2>2. ASSUME NEW d \in Duration, SetChainBondingDuration(d)
        PROVE  bondingDuration' \in Duration \cup {Unset}
               /\ (~shortened' /\ bondingDuration # Unset =>
                     bondingDuration' # Unset /\ bondingDuration' >= bondingDuration)
    <3>1. d \in Nat /\ d # Unset /\ (bondingDuration # Unset => bondingDuration \in Nat)
      BY UnbondAssumption DEF UnlockInv, UnlockTypes
    <3>2. bondingDuration' = d /\ (~shortened' => ~(bondingDuration # Unset /\ d < bondingDuration))
      BY <2>2 DEF SetChainBondingDuration
    <3> QED
      BY <3>1, <3>2
  <2> QED
    BY <2>1, <2>2 DEF SetChainEra, SetEraUnbondLimit, unlockVars
<1>5. chainEra' \in Era \cup {Unset} /\ (chainEra' = Unset => chainEra = Unset)
      /\ (chainEra # Unset => chainEra \in Nat /\ chainEra' \in Nat /\ chainEra' >= chainEra)
  <2>1. MaxEra \in Nat \ {0} /\ Unset \notin Nat
    BY UnbondAssumption
  <2>2. chainEra \in Era \cup {Unset}
    BY DEF UnlockInv, UnlockTypes
  <2>3. CASE chainEra = Unset
    BY <1>3, <2>1, <2>3 DEF Era
  <2>4. CASE chainEra \in Era
    BY <1>3, <2>1, <2>4 DEF Era
  <2> QED
    BY <2>2, <2>3, <2>4
<1>6. UnlockTypes' /\ NoneBefore'
  BY <1>1, <1>4, <1>5 DEF UnlockInv, UnlockTypes, NoneBefore
<1>7. NewestLast'
  <2> SUFFICES ASSUME ~shortened', NEW a \in Account
               PROVE  /\ Sorted(accountUnbonds[a])
                      /\ \A i \in DOMAIN accountUnbonds[a] :
                           /\ chainEra' # Unset /\ bondingDuration' # Unset
                           /\ accountUnbonds[a][i].unlockEra <= chainEra' + bondingDuration'
    BY <1>1 DEF NewestLast, Sorted
  <2>1. Sorted(accountUnbonds[a])
        /\ \A i \in DOMAIN accountUnbonds[a] :
             /\ chainEra # Unset /\ bondingDuration # Unset
             /\ accountUnbonds[a][i].unlockEra <= chainEra + bondingDuration
    BY <1>2 DEF UnlockInv, NewestLast
  <2>2. ASSUME NEW i \in DOMAIN accountUnbonds[a]
        PROVE  /\ chainEra' # Unset /\ bondingDuration' # Unset
               /\ accountUnbonds[a][i].unlockEra <= chainEra' + bondingDuration'
    <3>1. accountUnbonds[a][i].unlockEra \in Nat
      <4>1. accountUnbonds[a][i] \in UserUnlockChunk
        BY DEF UnlockInv, UnlockTypes
      <4> QED
        BY <4>1 DEF UserUnlockChunk
    <3>2. bondingDuration \in Nat /\ bondingDuration' \in Nat /\ bondingDuration' >= bondingDuration
          /\ bondingDuration' # Unset
      BY <1>4, <2>1, UnbondAssumption DEF UnlockInv, UnlockTypes
    <3>3. chainEra \in Nat /\ chainEra' \in Nat /\ chainEra' >= chainEra /\ chainEra' # Unset
      BY <1>5, <2>1
    <3>4. accountUnbonds[a][i].unlockEra <= chainEra + bondingDuration
      BY <2>1
    <3> QED
      BY <3>1, <3>2, <3>3, <3>4
  <2> QED
    BY <2>1, <2>2
<1>8. PendingChunksAreListed'
  <2> SUFFICES ASSUME ~shortened', chainEra' # Unset, NEW who \in Account, NEW pool \in Pool,
                      NEW era \in chainEra'..LastUnlock
               PROVE  Count(accountUnbonds[who], [pool |-> pool, unlockEra |-> era])
                        = Count(poolUnbonds[<<pool, era>>], who)
    BY <1>1 DEF PendingChunksAreListed, Count
  <2>1. CASE chainEra # Unset
    <3>1. era \in chainEra..LastUnlock
      BY <1>5, <2>1, LastUnlockFacts
    <3> QED
      BY <1>2, <2>1, <3>1 DEF UnlockInv, PendingChunksAreListed
  <2>2. CASE chainEra = Unset
    <3>1. chainEra' \in Nat /\ chainEra' >= 1
      BY <1>5, UnbondAssumption DEF Era
    <3>2. <<pool, era>> \in Pool \X (1..LastUnlock)
      BY <3>1, LastUnlockFacts
    <3>3. accountUnbonds[who] = << >> /\ poolUnbonds[<<pool, era>>] = << >>
      BY <2>2, <3>2 DEF UnlockInv, NoneBefore
    <3>4. \A x : Count(<< >>, x) = 0
      <4>1. \A x : {i \in DOMAIN << >> : << >>[i] = x} = {}
        OBVIOUS
      <4> QED
        BY <4>1, FS_EmptySet DEF Count
    <3> QED
      BY <3>3, <3>4
  <2> QED
    BY <2>1, <2>2
<1> QED
  BY <1>6, <1>7, <1>8 DEF UnlockInv

LEMMA UnbondKeepsUnlock ==
  ASSUME UnlockInv, NEW who \in Account, NEW pool \in Pool, LiquidityUnbond(who, pool)
  PROVE  UnlockInv'
<1> DEFINE unlockEra == chainEra + bondingDuration
           list == accountUnbonds[who]
           kept == Trimmed(list)
           queue == poolUnbonds[<<pool, unlockEra>>]
           new == [pool |-> pool, unlockEra |-> unlockEra]
<1>1. chainEra \in Era /\ bondingDuration \in Duration /\ chainEra # Unset /\ bondingDuration # Unset
  BY DEF LiquidityUnbond, UnlockInv, UnlockTypes
<1>2. chainEra \in Nat /\ bondingDuration \in Nat /\ unlockEra \in Nat /\ unlockEra \in 1..LastUnlock
      /\ unlockEra >= chainEra
  BY <1>1, LastUnlockFacts
<1>3. /\ Len(kept) < MAX_UNLOCKING_CHUNKS
      /\ accountUnbonds' = [accountUnbonds EXCEPT ![who] = Append(kept, new)]
      /\ poolUnbonds' = [poolUnbonds EXCEPT ![<<pool, unlockEra>>] = Append(queue, who)]
      /\ UNCHANGED <<chainEra, bondingDuration, shortened>>
  BY DEF LiquidityUnbond
<1>4. list \in Seq(UserUnlockChunk) /\ Len(list) <= MAX_UNLOCKING_CHUNKS
  BY DEF UnlockInv, UnlockTypes
<1>5. RoomMade(list, kept)
  BY <1>2, <1>4, TrimmedKeeps
<1>6. <<pool, unlockEra>> \in Pool \X (1..LastUnlock) /\ queue \in Seq(Account)
  BY <1>2 DEF UnlockInv, UnlockTypes
<1>7. new \in UserUnlockChunk /\ new.unlockEra = unlockEra
  BY <1>2 DEF UserUnlockChunk
<1> HIDE DEF kept, new, queue
<1>8. kept \in Seq(UserUnlockChunk) /\ Append(kept, new) \in Seq(UserUnlockChunk)
      /\ Len(Append(kept, new)) = Len(kept) + 1 /\ Len(kept) \in Nat
      /\ Append(queue, who) \in Seq(Account)
  BY <1>5, <1>6, <1>7 DEF RoomMade
<1>9. accountUnbonds'[who] = Append(kept, new) /\ \A a \in Account \ {who} : accountUnbonds'[a] = accountUnbonds[a]
  BY <1>3 DEF UnlockInv, UnlockTypes
<1>10. UnlockTypes'
  <2>1. accountUnbonds' \in [Account -> Seq(UserUnlockChunk)]
    BY <1>3, <1>8 DEF UnlockInv, UnlockTypes
  <2>2. poolUnbonds' \in [Pool \X (1..LastUnlock) -> Seq(Account)]
    BY <1>3, <1>8 DEF UnlockInv, UnlockTypes
  <2>3. Len(kept) + 1 <= MAX_UNLOCKING_CHUNKS
    BY <1>3, <1>8, UnbondAssumption
  <2>4. \A a \in Account : Len(accountUnbonds'[a]) <= MAX_UNLOCKING_CHUNKS
    BY <1>8, <1>9, <2>3 DEF UnlockInv, UnlockTypes
  <2> QED
    BY <1>3, <2>1, <2>2, <2>4 DEF UnlockInv, UnlockTypes
<1>11. NoneBefore'
  BY <1>1, <1>3 DEF NoneBefore
<1>12. NewestLast'
  <2> SUFFICES ASSUME ~shortened', NEW a \in Account
               PROVE  /\ Sorted(accountUnbonds'[a])
                      /\ \A i \in DOMAIN accountUnbonds'[a] :
                           accountUnbonds'[a][i].unlockEra <= unlockEra
    BY <1>1, <1>3 DEF NewestLast, Sorted
  <2>1. \A b \in Account :
          /\ Sorted(accountUnbonds[b])
          /\ \A i \in DOMAIN accountUnbonds[b] : accountUnbonds[b][i].unlockEra <= unlockEra
    BY <1>3 DEF UnlockInv, NewestLast
  <2>2. CASE a # who
    BY <1>9, <2>1, <2>2
  <2>3. CASE a = who
    <3> DEFINE l == Append(kept, new)
    <3>1. Sorted(kept) /\ \A i \in DOMAIN kept : kept[i].unlockEra <= unlockEra
      BY <1>5, <2>1 DEF RoomMade
    <3>2. DOMAIN l = 1..(Len(kept) + 1) /\ DOMAIN kept = 1..Len(kept) /\ l[Len(kept) + 1] = new
          /\ \A i \in 1..Len(kept) : l[i] = kept[i]
      BY <1>7, <1>8
    <3> HIDE DEF l
    <3>3. \A i \in DOMAIN l : i \in DOMAIN kept \/ i = Len(kept) + 1
      BY <1>8, <3>2
    <3>4. \A i \in DOMAIN l : l[i].unlockEra <= unlockEra
      BY <1>2, <1>7, <3>1, <3>2, <3>3
    <3>5. Sorted(l)
      <4> SUFFICES ASSUME NEW i \in DOMAIN l, NEW j \in DOMAIN l, i <= j
                   PROVE  l[i].unlockEra <= l[j].unlockEra
        BY DEF Sorted
      <4>1. CASE j = Len(kept) + 1
        BY <1>7, <3>2, <3>4, <4>1
      <4>2. CASE j \in 1..Len(kept)
        <5>1. i \in 1..Len(kept)
          BY <1>8, <3>2, <4>2
        <5> QED
          BY <3>1, <3>2, <4>2, <5>1 DEF Sorted
      <4> QED
        BY <3>2, <3>3, <4>1, <4>2
    <3> QED
      BY <1>9, <2>3, <3>4, <3>5 DEF l
  <2> QED
    BY <2>2, <2>3
<1>13. PendingChunksAreListed'
  <2> SUFFICES ASSUME ~shortened', NEW a \in Account, NEW p \in Pool, NEW era \in chainEra..LastUnlock
               PROVE  Count(accountUnbonds'[a], [pool |-> p, unlockEra |-> era])
                        = Count(poolUnbonds'[<<p, era>>], a)
    BY <1>3 DEF PendingChunksAreListed, Count
  <2> DEFINE x == [pool |-> p, unlockEra |-> era]
             k == <<p, era>>
  <2>1. Count(accountUnbonds[a], x) = Count(poolUnbonds[k], a)
    BY <1>1, <1>3 DEF UnlockInv, PendingChunksAreListed
  <2>2. era \in Nat /\ era >= chainEra /\ k \in Pool \X (1..LastUnlock)
    BY <1>1, <1>2, LastUnlockFacts DEF Era
  <2>3. x \in UserUnlockChunk /\ x.unlockEra >= chainEra /\ poolUnbonds[k] \in Seq(Account)
    BY <2>2 DEF UserUnlockChunk, UnlockInv, UnlockTypes
  <2>4. (new = x) <=> (k = <<pool, unlockEra>>)
    BY DEF new
  <2> HIDE DEF x, k
  <2>5. Count(accountUnbonds'[a], x)
          = Count(accountUnbonds[a], x) + (IF a = who /\ new = x THEN 1 ELSE 0)
        /\ Count(accountUnbonds[a], x) \in Nat
    <3>1. Count(accountUnbonds[a], x) \in Nat
      BY CountIsAmong DEF UnlockInv, UnlockTypes
    <3>2. CASE a = who
      <4>1. Sorted(list)
        BY <1>3 DEF UnlockInv, NewestLast
      <4>2. Count(kept, x) = Count(list, x)
        BY <1>5, <2>3, <4>1 DEF RoomMade
      <4>3. Count(Append(kept, new), x) = Count(kept, x) + (IF new = x THEN 1 ELSE 0)
        BY <1>7, <1>8, CountAppend
      <4> QED
        BY <1>9, <3>1, <3>2, <4>2, <4>3
    <3>3. CASE a # who
      BY <1>9, <3>1, <3>3
    <3> QED
      BY <3>2, <3>3
  <2>6. Count(poolUnbonds'[k], a)
          = Count(poolUnbonds[k], a) + (IF k = <<pool, unlockEra>> /\ who = a THEN 1 ELSE 0)
    <3>1. Count(poolUnbonds[k], a) \in Nat
      BY <2>3, CountIsAmong
    <3>2. CASE k = <<pool, unlockEra>>
      <4>1. poolUnbonds'[k] = Append(poolUnbonds[k], who)
        BY <1>3, <1>6, <3>2 DEF UnlockInv, UnlockTypes, queue
      <4>2. Count(Append(poolUnbonds[k], who), a) = Count(poolUnbonds[k], a) + (IF who = a THEN 1 ELSE 0)
        BY <2>3, CountAppend
      <4> QED
        BY <3>2, <4>1, <4>2
    <3>3. CASE k # <<pool, unlockEra>>
      <4>1. poolUnbonds'[k] = poolUnbonds[k]
        BY <1>3, <2>2, <3>3 DEF UnlockInv, UnlockTypes
      <4> QED
        BY <3>1, <3>3, <4>1
    <3> QED
      BY <3>2, <3>3
  <2> QED
    BY <2>1, <2>4, <2>5, <2>6 DEF x, k
<1> QED
  BY <1>10, <1>11, <1>12, <1>13 DEF UnlockInv

LEMMA UnlockNext == UnlockInv /\ [UnbondNext]_unbondVars => UnlockInv'
<1> SUFFICES ASSUME UnlockInv, [UnbondNext]_unbondVars PROVE UnlockInv'
  OBVIOUS
<1>1. CASE UNCHANGED <<chainEra, unlockVars>>
  BY <1>1 DEF unlockVars, UnlockInv, UnlockTypes, NoneBefore, NewestLast, PendingChunksAreListed,
              Sorted, Count
<1>2. CASE SetChainEra \/ (\E d \in Duration : SetChainBondingDuration(d))
             \/ (\E limit \in Limit : SetEraUnbondLimit(limit))
  BY <1>2, ErasKeepUnlock
<1>3. ASSUME NEW who \in Account, NEW pool \in Pool, LiquidityUnbond(who, pool) PROVE UnlockInv'
  BY <1>3, UnbondKeepsUnlock
<1>4. ASSUME NEW pool \in Pool, NEW t \in Threshold, AddSubAccountsAndThreshold(pool, t)
      PROVE  UNCHANGED <<chainEra, unlockVars>>
  BY <1>4 DEF AddSubAccountsAndThreshold
<1>5. ASSUME NEW who \in Relayer, NEW key \in TxKey, NEW sig \in Relayer, SubmitSignatures(who, key, sig)
      PROVE  UNCHANGED <<chainEra, unlockVars>>
  BY <1>5 DEF SubmitSignatures
<1>6. ASSUME NEW pool \in Pool, NEW l \in Nominees,
             InitNominations(pool, l) \/ \E era \in Era : UpdateNominations(pool, l, era)
      PROVE  UNCHANGED <<chainEra, unlockVars>>
  BY <1>6 DEF InitNominations, UpdateNominations
<1>7. ASSUME NEW pool \in Pool, NEW old \in Validator, NEW new \in Validator,
             UpdateValidator(pool, old, new)
      PROVE  UNCHANGED <<chainEra, unlockVars>>
  BY <1>7 DEF UpdateValidator
<1>8. UNCHANGED unbondVars => UNCHANGED <<chainEra, unlockVars>>
  BY DEF unbondVars
<1> QED
  BY <1>1, <1>2, <1>3, <1>4, <1>5, <1>6, <1>7, <1>8 DEF UnbondNext

(* Every chunk that is still locked is in its account's list, as often as   *)
(* the pool's queue has it, for any length of lists, number of accounts and *)
(* order of eras and calls, while the bonding duration is not shortened     *)
(* (liquidity_unbond).                                                      *)
THEOREM PendingListed == UnbondSpec => []PendingChunksAreListed
<1>1. UnlockInv => PendingChunksAreListed
  BY DEF UnlockInv
<1> QED
  BY UnlockInit, UnlockNext, <1>1, PTL DEF UnbondSpec

=============================================================================
