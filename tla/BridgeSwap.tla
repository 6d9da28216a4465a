----------------------------- MODULE BridgeSwap -----------------------------
(***************************************************************************)
(* bridge/swap over bridge/common's chains, fees and symbol maps and over  *)
(* the token ledgers.  A transfer out locks the token in the bridge        *)
(* account (native, rtokens) or burns it (rETH, xtokens) and announces it  *)
(* under a resource id.  A transfer back is a call that relayers vote in;  *)
(* which proposals pass is BridgeVotes' matter, so here an opened proposal *)
(* may be dispatched at any later time, again and again until it succeeds. *)
(*                                                                         *)
(* A call that returns an error keeps what it wrote before: a native       *)
(* transfer whose fee cannot be paid on has moved the amount already.      *)
(***************************************************************************)
EXTENDS BridgeChains, NativeBalances, FiniteSets, Functions

CONSTANTS User,           \* accounts that sign transfers
          Bridge,         \* the bridge account
          Recipient,      \* the account root may make the fee recipient
          NativeTokenId,  \* the resource of the native token
          RSymbol, RETH,  \* rtokens, and the one that is burnt
          XSymbol,
          RResource, XResource,  \* resources of transfer_rtoken_back, transfer_xtoken_back
          Fee,            \* fees a proxy account sets
          Value,          \* amounts users transfer
          StartTokens,    \* tokens of each symbol a user starts with
          NativeGrant,    \* native tokens a user starts with
          Reserve,        \* native tokens the bridge account starts with
          RecipientFunds, \* native tokens of the recipient at the start
          TokenLimit

Holder == User \cup {Bridge, Recipient}
RT == INSTANCE Balances
XT == INSTANCE Balances

ASSUME BridgeSwapAssumption ==
  /\ Bridge # Recipient /\ {Bridge, Recipient} \cap User = {}
  /\ RETH \in RSymbol /\ RSymbol \cap XSymbol = {}
  /\ Resource = {NativeTokenId} \cup RResource \cup XResource
  /\ NativeTokenId \notin RResource \cup XResource /\ RResource \cap XResource = {}
  /\ None \notin Resource \cup RSymbol \cup XSymbol
  /\ Fee \subseteq Nat /\ Value \subseteq Nat
  /\ {StartTokens, NativeGrant, Reserve, RecipientFunds, TokenLimit} \subseteq Nat
  /\ IsFiniteSet(User) /\ IsFiniteSet(Resource)
  /\ StartTokens * Cardinality(User) < TokenLimit

VARIABLES paused,           \* IsPaused
          chainFees,        \* ChainFees
          recipientSet,     \* whether FeesRecipientAccount is set
          resourceSymbol,   \* ResourceRsymbol and ResourceXsymbol
          symbolResource,   \* RsymbolResource and XsymbolResource
          native,           \* native balances
          tokens,           \* the rtoken and xtoken ledgers
          abroad,           \* external: amount held on the other side, by resource
          returning,        \* external: proposals to pay a return, not yet executed
          mappings,         \* history: the pairs ever mapped to each other
          unsent            \* history: tokens were taken and no transfer announced

config == <<paused, chainFees, recipientSet>>
maps == <<resourceSymbol, symbolResource, mappings>>
vars == <<chainVars, config, maps, native, tokens, abroad, returning, unsent>>

Symbol == RSymbol \cup XSymbol
Burnt == XSymbol \cup {RETH}
Pair == (RResource \X RSymbol) \cup (XResource \X XSymbol)
Return == [resource : Resource, to : User, amount : Nat \ {0}]

TypeOK ==
  /\ ChainTypeOK
  /\ paused \in BOOLEAN
  /\ chainFees \in [Chain -> Nat \cup {None}]
  /\ recipientSet \in BOOLEAN
  /\ resourceSymbol \in [RResource \cup XResource -> Symbol \cup {None}]
  /\ symbolResource \in [Symbol -> Resource \cup {None}]
  /\ native \in [Holder -> Nat]
  /\ tokens \in [Symbol -> RT!TokenLedger]
  /\ abroad \in [Resource -> Nat]
  /\ returning \subseteq Return
  /\ mappings \subseteq Pair
  /\ unsent \in BOOLEAN

\* Users hold tokens of every kind; nothing is whitelisted, mapped or abroad.
Init ==
  /\ ChainInit
  /\ paused = FALSE
  /\ chainFees = [c \in Chain |-> None]
  /\ recipientSet = FALSE
  /\ resourceSymbol = [r \in RResource \cup XResource |-> None]
  /\ symbolResource = [s \in Symbol |-> None]
  /\ native = [a \in Holder |-> IF a = Bridge THEN Reserve
                                ELSE IF a = Recipient THEN RecipientFunds ELSE NativeGrant]
  /\ tokens = [s \in Symbol |-> [free |-> [a \in Holder |-> IF a \in User THEN StartTokens ELSE 0],
                                 issuance |-> StartTokens * Cardinality(User)]]
  /\ abroad = [r \in Resource |-> 0]
  /\ returning = {}
  /\ mappings = {}
  /\ unsent = FALSE

-----------------------------------------------------------------------------
(* Admin calls of bridge/common.                                            *)

Configure ==
  /\ \/ paused' = ~paused /\ UNCHANGED <<chainFees, recipientSet>>
     \/ \E c \in Chain, fee \in Fee :
          /\ ChainWhitelisted(c)
          /\ chainFees' = [chainFees EXCEPT ![c] = fee]
          /\ UNCHANGED <<paused, recipientSet>>
     \/ recipientSet' = TRUE /\ UNCHANGED <<paused, chainFees>>
  /\ UNCHANGED <<chainVars, maps, native, tokens, abroad, returning, unsent>>

ChainCall(c) ==
  /\ WhitelistChain(c) \/ RemoveWhitelistChain(c)
  /\ UNCHANGED <<config, maps, native, tokens, abroad, returning, unsent>>

\* Both directions are overwritten; an entry that named the old partner stays.
MapResourceAndSymbol(r, s) ==
  /\ <<r, s>> \in Pair
  /\ resourceSymbol' = [resourceSymbol EXCEPT ![r] = s]
  /\ symbolResource' = [symbolResource EXCEPT ![s] = r]
  /\ mappings' = mappings \cup {<<r, s>>}
  /\ UNCHANGED <<chainVars, config, native, tokens, abroad, returning, unsent>>

UnmapResourceAndSymbol(r, s) ==
  /\ <<r, s>> \in Pair
  /\ resourceSymbol' = [resourceSymbol EXCEPT ![r] = None]
  /\ symbolResource' = [symbolResource EXCEPT ![s] = None]
  /\ UNCHANGED <<chainVars, config, mappings, native, tokens, abroad, returning, unsent>>

-----------------------------------------------------------------------------
(* Transfers out.                                                           *)

\* swapable without the check that the chain is whitelisted.
MutSwapable(dest) == ~paused /\ chainFees[dest] # None /\ recipientSet

Swapable(dest) ==
  /\ ~paused
  /\ ChainWhitelisted(dest)
  /\ chainFees[dest] # None
  /\ recipientSet

\* transfer_fungible at the end of a transfer out: the event that lets the
\* other side issue the amount, or an error after the tokens were taken.
Announce(dest, r, value) ==
  IF ChainWhitelisted(dest)
    THEN TransferFungible(dest) /\ abroad' = [abroad EXCEPT ![r] = @ + value] /\ UNCHANGED unsent
    ELSE unsent' = TRUE /\ UNCHANGED <<chainVars, abroad>>

TransferNative(who, value, dest) ==
  /\ Swapable(dest)
  /\ LET fee == chainFees[dest]
         locked == Paid(native, who, Bridge, value + fee)
     IN /\ CanPay(native, who, Bridge, value + fee)
        /\ IF CanPay(locked, Bridge, Recipient, fee)
             THEN native' = Paid(locked, Bridge, Recipient, fee) /\ Announce(dest, NativeTokenId, value)
             ELSE native' = locked /\ unsent' = TRUE /\ UNCHANGED <<chainVars, abroad>>
  /\ UNCHANGED <<config, maps, tokens, returning>>

\* transfer_rtoken and transfer_xtoken: the fee first, then the tokens are
\* burnt or locked.
TransferToken(who, s, value, dest) ==
  /\ Swapable(dest)
  /\ symbolResource[s] # None
  /\ tokens[s].free[who] >= value
  /\ CanPay(native, who, Recipient, chainFees[dest])
  /\ native' = Paid(native, who, Recipient, chainFees[dest])
  /\ tokens' = [tokens EXCEPT ![s] = IF s \in Burnt THEN XT!Burned(@, who, value)
                                     ELSE RT!Transferred(@, who, Bridge, value)]
  /\ Announce(dest, symbolResource[s], value)
  /\ UNCHANGED <<config, maps, returning>>

\* transfer of rtoken/balances and xtoken/balances.
HolderTransfer(from, to, s, value) ==
  /\ RT!CanTransfer(tokens[s], from, to, value)
  /\ tokens' = [tokens EXCEPT ![s] = RT!Transferred(@, from, to, value)]
  /\ UNCHANGED <<chainVars, config, maps, native, abroad, returning, unsent>>

-----------------------------------------------------------------------------
(* Transfers back.                                                          *)

\* The other side takes an amount out of circulation and relayers open a
\* proposal to pay it here.
RemoteReturn(ret) ==
  /\ ret \notin returning
  /\ abroad[ret.resource] >= ret.amount
  /\ abroad' = [abroad EXCEPT ![ret.resource] = @ - ret.amount]
  /\ returning' = returning \cup {ret}
  /\ UNCHANGED <<chainVars, config, maps, native, tokens, unsent>>

TransferNativeBack(ret) ==
  /\ ret.resource = NativeTokenId
  /\ CanPay(native, Bridge, ret.to, ret.amount)
  /\ native' = Paid(native, Bridge, ret.to, ret.amount)
  /\ returning' = returning \ {ret}
  /\ UNCHANGED <<chainVars, config, maps, tokens, abroad, unsent>>

\* transfer_rtoken_back that mints every token.
MutTransferTokenBack(ret) ==
  /\ ret.resource # NativeTokenId
  /\ resourceSymbol[ret.resource] # None
  /\ LET s == resourceSymbol[ret.resource] IN
       tokens' = [tokens EXCEPT ![s] = RT!Minted(@, ret.to, ret.amount)]
  /\ returning' = returning \ {ret}
  /\ UNCHANGED <<chainVars, config, maps, native, abroad, unsent>>

\* transfer_rtoken_back and transfer_xtoken_back: the symbol is looked up
\* now, not when the transfer went out or the relayers voted.
TransferTokenBack(ret) ==
  /\ ret.resource # NativeTokenId
  /\ resourceSymbol[ret.resource] # None
  /\ LET s == resourceSymbol[ret.resource] IN
       /\ IF s \in Burnt THEN XT!CanMint(tokens[s], ret.to, ret.amount)
                         ELSE RT!CanTransfer(tokens[s], Bridge, ret.to, ret.amount)
       /\ tokens' = [tokens EXCEPT ![s] = IF s \in Burnt THEN XT!Minted(@, ret.to, ret.amount)
                                          ELSE RT!Transferred(@, Bridge, ret.to, ret.amount)]
  /\ returning' = returning \ {ret}
  /\ UNCHANGED <<chainVars, config, maps, native, abroad, unsent>>

Next ==
  \/ Configure
  \/ \E c \in Chain : ChainCall(c)
  \/ \E r \in RResource \cup XResource, s \in Symbol :
       MapResourceAndSymbol(r, s) \/ UnmapResourceAndSymbol(r, s)
  \/ \E who \in User, v \in Value, c \in Chain :
       TransferNative(who, v, c) \/ \E s \in Symbol : TransferToken(who, s, v, c)
  \/ \E from \in User, to \in User \cup {Bridge}, s \in Symbol, v \in Value : HolderTransfer(from, to, s, v)
  \/ \E r \in Resource, to \in User, v \in Value \ {0} :
       RemoteReturn([resource |-> r, to |-> to, amount |-> v])
  \/ \E ret \in returning : TransferNativeBack(ret) \/ TransferTokenBack(ret)

Spec == Init /\ [][Next]_vars

-----------------------------------------------------------------------------
Amount(rets) == SumFunction([ret \in rets |-> ret.amount])

\* What the other side holds of a resource or has just given back.
Foreign(r) == abroad[r] + Amount({ret \in returning : ret.resource = r})

ResourcesOf(s) == {r \in RResource \cup XResource : <<r, s>> \in mappings}

ForeignOf(s) == SumFunction([r \in ResourcesOf(s) |-> Foreign(r)])

\* No resource of s was ever another symbol's.
Exclusive(s) == \A r \in ResourcesOf(s), t \in Symbol : <<r, t>> \in mappings => t = s

(* Nothing is created or lost on the bridge.  The native tokens and the     *)
(* rtokens locked in the bridge account cover all that the other side       *)
(* holds, so that each return can be paid when its proposal passes; of a    *)
(* token that is burnt on the way out, what exists on the two sides         *)
(* together stays what it was.  For a symbol this depends on the admin: the *)
(* symbol of a return is looked up when it is executed, and                 *)
(* map_resource_and_rsymbol leaves stale entries behind, so it is stated    *)
(* for symbols whose resources were never mapped to another one.            *)
BothSidesConserved ==
  /\ native[Bridge] >= Foreign(NativeTokenId) + Reserve
  /\ \A s \in Symbol : Exclusive(s) =>
       LET supply == StartTokens * Cardinality(User) IN
         /\ tokens[s].issuance = RT!Held(tokens[s])
         /\ IF s \in Burnt THEN tokens[s].issuance + ForeignOf(s) = supply
            ELSE tokens[s].issuance = supply /\ tokens[s].free[Bridge] >= ForeignOf(s)

(* A transfer out is all or nothing: the tokens are only taken without an   *)
(* announcement when the fee of a native transfer cannot be paid on,        *)
(* because the bridge account or the fee recipient holds less than the      *)
(* existential deposit.  The later errors of transfer_native,               *)
(* transfer_rtoken and transfer_xtoken are excluded by their first checks.  *)
TakenOnlyIfSent ==
  [][unsent' # unsent =>
       native[Bridge] < ExistentialDeposit \/ native[Recipient] < ExistentialDeposit]_vars

=============================================================================
