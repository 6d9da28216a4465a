---------------------------- MODULE RTokenUnbond ----------------------------
(***************************************************************************)
(* The rest of rtoken/series for one symbol: the unlocking lists that      *)
(* liquidity_unbond keeps per account and per pool and era, the            *)
(* signatures relayers collect for a pool's transactions, and the pools'   *)
(* nominations.  What an unbond does to pipelines and issuance is in       *)
(* RTokenLedger; here a chunk is its pool and unlock era.  Pools are the   *)
(* bonded ones.  Switches, receivers, fees and the caller's balance decide *)
(* whether a call is accepted at all and are left out.                     *)
(***************************************************************************)
EXTENDS Integers, Sequences, SequencesExt

CONSTANTS Account, Pool, Relayer,
          Proposal,              \* a pool's transactions to be signed, without era and pool
          Validator,
          MAX_UNLOCKING_CHUNKS,  \* 32
          MIN_UNLOCKING_CHUNKS,  \* 16
          Duration,              \* bonding durations root sets
          Limit,                 \* era unbond limits root sets, 0 for none
          Threshold,             \* signature thresholds root sets
          SignedEra,             \* eras of the transactions to be signed
          MaxEra, MaxNominees,   \* bounds on the era and on a nomination's length
          Unset

ASSUME UnbondAssumption ==
  /\ MIN_UNLOCKING_CHUNKS \in Nat \ {0}
  /\ MAX_UNLOCKING_CHUNKS \in Nat /\ MIN_UNLOCKING_CHUNKS < MAX_UNLOCKING_CHUNKS
  /\ Duration \subseteq Nat \ {0} /\ IsFiniteSet(Duration) /\ Duration # {}
  /\ Limit \subseteq Nat /\ Threshold \subseteq Nat
  /\ MaxEra \in Nat \ {0} /\ SignedEra \subseteq 1..MaxEra /\ MaxNominees \in Nat
  /\ Unset \notin Nat

VARIABLES chainEra,        \* ChainEras
          bondingDuration, \* ChainBondingDuration
          unbondLimit,     \* EraUnbondLimit
          accountUnbonds,  \* AccountUnbonds
          poolUnbonds,     \* PoolUnbonds, by pool and unlock era
          signatures,      \* Signatures
          signed,          \* AccountSignature: who has signed
          multiThreshold,  \* MultiThresholds, 0 when never set
          nominated,       \* Nominated
          eraNominated,    \* EraNominated
          shortened,       \* history: the bonding duration was lowered
          enough,          \* history: the SignaturesEnough events
          rethreshed       \* history: pools whose threshold was set again

unlockVars == <<bondingDuration, unbondLimit, accountUnbonds, poolUnbonds, shortened>>
signVars == <<signatures, signed, multiThreshold, enough, rethreshed>>
nominateVars == <<nominated, eraNominated>>
unbondVars == <<chainEra, unlockVars, signVars, nominateVars>>

Era == 1..MaxEra
LastUnlock == MaxEra + CHOOSE d \in Duration : \A e \in Duration : e <= d
UserUnlockChunk == [pool : Pool, unlockEra : Nat]
TxKey == SignedEra \X Pool \X Proposal

UnbondTypeOK ==
  /\ chainEra \in Era \cup {Unset}
  /\ bondingDuration \in Duration \cup {Unset}
  /\ unbondLimit \in Limit \cup {0}
  /\ accountUnbonds \in [Account -> Seq(UserUnlockChunk)]
  /\ \A a \in Account : Len(accountUnbonds[a]) <= MAX_UNLOCKING_CHUNKS
  /\ poolUnbonds \in [Pool \X (1..LastUnlock) -> Seq(Account)]
  /\ signatures \in [TxKey -> Seq(Relayer)]
  /\ signed \subseteq Relayer \X TxKey
  /\ multiThreshold \in [Pool -> Nat]
  /\ nominated \in [Pool -> Seq(Validator) \cup {Unset}]
  /\ eraNominated \in [Pool \X Era -> Seq(Validator) \cup {Unset}]
  /\ shortened \in BOOLEAN
  /\ enough \subseteq TxKey
  /\ rethreshed \subseteq Pool

UnbondInit ==
  /\ chainEra = Unset
  /\ bondingDuration = Unset
  /\ unbondLimit = 0
  /\ accountUnbonds = [a \in Account |-> << >>]
  /\ poolUnbonds = [k \in Pool \X (1..LastUnlock) |-> << >>]
  /\ signatures = [k \in TxKey |-> << >>]
  /\ signed = {}
  /\ multiThreshold = [p \in Pool |-> 0]
  /\ nominated = [p \in Pool |-> Unset]
  /\ eraNominated = [k \in Pool \X Era |-> Unset]
  /\ shortened = FALSE
  /\ enough = {}
  /\ rethreshed = {}

-----------------------------------------------------------------------------
\* set_chain_era, whose other effects are in RTokenLedger.
SetChainEra ==
  /\ chainEra # MaxEra
  /\ chainEra' = IF chainEra = Unset THEN 1 ELSE chainEra + 1
  /\ UNCHANGED <<unlockVars, signVars, nominateVars>>

SetChainBondingDuration(d) ==
  /\ bondingDuration' = d
  /\ shortened' = (shortened \/ (bondingDuration # Unset /\ d < bondingDuration))
  /\ UNCHANGED <<chainEra, unbondLimit, accountUnbonds, poolUnbonds, signVars, nominateVars>>

SetEraUnbondLimit(limit) ==
  /\ unbondLimit' = limit
  /\ UNCHANGED <<chainEra, bondingDuration, accountUnbonds, poolUnbonds, shortened,
                 signVars, nominateVars>>

\* The chunks of a list that are not unlocked yet, in their order.
StillLocked(list) ==
  LET locked[n \in 0..Len(list)] ==
        IF n = 0 THEN << >>
        ELSE IF list[n].unlockEra >= chainEra THEN Append(locked[n - 1], list[n])
        ELSE locked[n - 1]
  IN locked[Len(list)]

\* The list with one chunk too many drained.
MutTrimmed(list) ==
  IF Len(list) < MAX_UNLOCKING_CHUNKS THEN list
  ELSE LET pending == StillLocked(list)
       IN IF Len(pending) < MIN_UNLOCKING_CHUNKS
            THEN SubSeq(list, MAX_UNLOCKING_CHUNKS - MIN_UNLOCKING_CHUNKS + 3, Len(list))
            ELSE pending

\* A full list makes room: few pending chunks, and the oldest are drained,
\* by position; otherwise the ones that are unlocked go.
Trimmed(list) ==
  IF Len(list) < MAX_UNLOCKING_CHUNKS THEN list
  ELSE LET pending == StillLocked(list)
       IN IF Len(pending) < MIN_UNLOCKING_CHUNKS
            THEN SubSeq(list, MAX_UNLOCKING_CHUNKS - MIN_UNLOCKING_CHUNKS + 2, Len(list))
            ELSE pending

\* liquidity_unbond: the account's list is trimmed, the pool's is limited.
LiquidityUnbond(who, pool) ==
  /\ chainEra # Unset /\ bondingDuration # Unset
  /\ LET unlockEra == chainEra + bondingDuration
         kept == Trimmed(accountUnbonds[who])
         queue == poolUnbonds[<<pool, unlockEra>>]
     IN /\ Len(kept) < MAX_UNLOCKING_CHUNKS
        /\ unbondLimit = 0 \/ Len(queue) <= unbondLimit
        /\ accountUnbonds' = [accountUnbonds EXCEPT ![who] =
                                Append(kept, [pool |-> pool, unlockEra |-> unlockEra])]
        /\ poolUnbonds' = [poolUnbonds EXCEPT ![<<pool, unlockEra>>] = Append(queue, who)]
  /\ UNCHANGED <<chainEra, bondingDuration, unbondLimit, shortened, signVars, nominateVars>>

-----------------------------------------------------------------------------
\* The threshold half of add_sub_accounts_and_threshold.
AddSubAccountsAndThreshold(pool, threshold) ==
  /\ multiThreshold' = [multiThreshold EXCEPT ![pool] = threshold]
  /\ rethreshed' = IF \E k \in TxKey : k[2] = pool /\ signatures[k] # << >>
                     THEN rethreshed \cup {pool} ELSE rethreshed
  /\ UNCHANGED <<chainEra, unlockVars, signatures, signed, enough, nominateVars>>

\* submit_signatures that counts before the new signature is added.
MutSubmitSignatures(who, key, signature) ==
  /\ chainEra # Unset /\ key[1] <= chainEra
  /\ <<who, key>> \notin signed
  /\ ~Contains(signatures[key], signature)
  /\ signatures' = [signatures EXCEPT ![key] = Append(@, signature)]
  /\ signed' = signed \cup {<<who, key>>}
  /\ enough' = IF Len(signatures[key]) = multiThreshold[key[2]] THEN enough \cup {key} ELSE enough
  /\ UNCHANGED <<chainEra, unlockVars, multiThreshold, rethreshed, nominateVars>>

\* One signature per relayer and transaction, and no signature twice; the
\* event when the number of them is the pool's threshold.
SubmitSignatures(who, key, signature) ==
  /\ chainEra # Unset /\ key[1] <= chainEra
  /\ <<who, key>> \notin signed
  /\ ~Contains(signatures[key], signature)
  /\ signatures' = [signatures EXCEPT ![key] = Append(@, signature)]
  /\ signed' = signed \cup {<<who, key>>}
  /\ enough' = IF Len(signatures'[key]) = multiThreshold[key[2]] THEN enough \cup {key} ELSE enough
  /\ UNCHANGED <<chainEra, unlockVars, multiThreshold, rethreshed, nominateVars>>

-----------------------------------------------------------------------------
InitNominations(pool, list) ==
  /\ nominated[pool] = Unset
  /\ nominated' = [nominated EXCEPT ![pool] = list]
  /\ UNCHANGED <<chainEra, unlockVars, signVars, eraNominated>>

\* The list that is replaced is kept under the current era, in place of
\* what an earlier update of the same era kept there.
UpdateNominations(pool, list, era) ==
  /\ LET old == IF nominated[pool] = Unset THEN << >> ELSE nominated[pool]
         current == IF chainEra = Unset THEN era ELSE chainEra
     IN eraNominated' = IF old = << >> THEN eraNominated
                        ELSE [eraNominated EXCEPT ![<<pool, current>>] = old]
  /\ nominated' = [nominated EXCEPT ![pool] = list]
  /\ UNCHANGED <<chainEra, unlockVars, signVars>>

\* The first occurrence of the old validator goes; the new one is appended
\* whether or not the old one, or the new one, was in the list.
UpdateValidator(pool, old, new) ==
  /\ LET list == IF nominated[pool] = Unset THEN << >> ELSE nominated[pool] IN
       /\ Contains(list, old) \/ Len(list) < MaxNominees
       /\ nominated' = [nominated EXCEPT ![pool] = Append(RemoveFirst(list, old), new)]
  /\ UNCHANGED <<chainEra, unlockVars, signVars, eraNominated>>

Nominees == {list \in BoundedSeq(Validator, MaxNominees) : list # << >>}

UnbondNext ==
  \/ SetChainEra
  \/ \E d \in Duration : SetChainBondingDuration(d)
  \/ \E limit \in Limit : SetEraUnbondLimit(limit)
  \/ \E who \in Account, pool \in Pool : LiquidityUnbond(who, pool)
  \/ \E pool \in Pool, t \in Threshold : AddSubAccountsAndThreshold(pool, t)
  \/ \E who \in Relayer, key \in TxKey, sig \in Relayer : SubmitSignatures(who, key, sig)
  \/ \E pool \in Pool, list \in Nominees :
       InitNominations(pool, list) \/ \E era \in Era : UpdateNominations(pool, list, era)
  \/ \E pool \in Pool, old, new \in Validator : UpdateValidator(pool, old, new)

UnbondSpec == UnbondInit /\ [][UnbondNext]_unbondVars

-----------------------------------------------------------------------------
Count(seq, x) == Cardinality({i \in DOMAIN seq : seq[i] = x})

(* An account's own list and the pools' queues tell the same story about    *)
(* everything that is still locked: making room in a full list never drops  *)
(* a chunk that is not unlocked yet.  liquidity_unbond drains by position,  *)
(* which is right because chunks are stored in the order in which they      *)
(* unlock; that order is lost once root shortens the bonding duration, so   *)
(* the property is stated up to then.                                       *)
PendingChunksAreListed ==
  (~shortened /\ chainEra # Unset) =>
    \A who \in Account, pool \in Pool, era \in chainEra..LastUnlock :
      Count(accountUnbonds[who], [pool |-> pool, unlockEra |-> era])
        = Count(poolUnbonds[<<pool, era>>], who)

(* A transaction for which enough relayers have signed has been announced   *)
(* (SignaturesEnough), and no other: the event comes with the signature     *)
(* that makes the count equal to the threshold, so no signature may be      *)
(* counted twice.  Stated for pools whose threshold root left alone once    *)
(* relayers had signed for them: lowered below the count, the equality is   *)
(* never met.                                                               *)
EnoughIsAnnounced ==
  \A key \in TxKey : key[2] \notin rethreshed =>
    (key \in enough) = (multiThreshold[key[2]] > 0
                          /\ Cardinality({who \in Relayer : <<who, key>> \in signed})
                               >= multiThreshold[key[2]])

=============================================================================
