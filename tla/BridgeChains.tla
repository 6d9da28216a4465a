---------------------------- MODULE BridgeChains ----------------------------
(***************************************************************************)
(* The part of bridge/common that other bridge code reads and writes: the  *)
(* whitelist of remote chains with their deposit nonces (ChainNonces), the *)
(* registered resource ids (Resources), and transfer_fungible, which other *)
(* pallets call to send a token out and which gives each transfer its      *)
(* deposit nonce.  Calls reserved to root are enabled whenever their other *)
(* checks pass; the origin check is not modelled.                          *)
(***************************************************************************)
EXTENDS Options, Integers, Sequences

CONSTANTS Chain,          \* chain ids
          ChainIdentity,  \* this chain's own id
          Resource,       \* resource ids
          MaxNonce,       \* bound on the transfers sent to a chain
          MaxEpoch        \* bound on how often a chain is whitelisted

ASSUME BridgeChainsAssumption ==
  /\ MaxNonce \in Nat
  /\ MaxEpoch \in Nat
  /\ None \notin Nat

VARIABLES chainNonces,    \* ChainNonces: None while not whitelisted
          resources,      \* the keys of Resources
          epoch,          \* history: how often the chain was whitelisted
          outbox          \* history: FungibleTransfer events as [epoch, nonce]

chainVars == <<chainNonces, resources, epoch, outbox>>

Transfer == [epoch : Nat, nonce : Nat]

ChainWhitelisted(c) == chainNonces[c] # None

\* Types, and the one fixed entry: this chain is never its own peer.
ChainTypeOK ==
  /\ chainNonces \in [Chain -> Nat \cup {None}]
  /\ ChainIdentity \in Chain => ~ChainWhitelisted(ChainIdentity)
  /\ resources \subseteq Resource
  /\ epoch \in [Chain -> Nat]
  /\ outbox \in [Chain -> Seq(Transfer)]

ChainInit ==
  /\ chainNonces = [c \in Chain |-> None]
  /\ resources = {}
  /\ epoch = [c \in Chain |-> 0]
  /\ outbox = [c \in Chain |-> << >>]

\* whitelist_chain: the nonce starts from 0, also for a chain that was
\* whitelisted before.
WhitelistChain(c) ==
  /\ epoch[c] < MaxEpoch
  /\ c # ChainIdentity
  /\ ~ChainWhitelisted(c)
  /\ chainNonces' = [chainNonces EXCEPT ![c] = 0]
  /\ epoch' = [epoch EXCEPT ![c] = @ + 1]
  /\ UNCHANGED <<resources, outbox>>

RemoveWhitelistChain(c) ==
  /\ ChainWhitelisted(c)
  /\ chainNonces' = [chainNonces EXCEPT ![c] = None]
  /\ UNCHANGED <<resources, epoch, outbox>>

AddResource(r) ==
  /\ resources' = resources \cup {r}
  /\ UNCHANGED <<chainNonces, epoch, outbox>>

RemoveResource(r) ==
  /\ resources' = resources \ {r}
  /\ UNCHANGED <<chainNonces, epoch, outbox>>

\* transfer_fungible that announces the next nonce without storing it.
MutTransferFungible(dest) ==
  /\ ChainWhitelisted(dest)
  /\ Len(outbox[dest]) < MaxNonce
  /\ outbox' = [outbox EXCEPT ![dest] = Append(@,
                  [epoch |-> epoch[dest], nonce |-> chainNonces[dest] + 1])]
  /\ UNCHANGED <<chainNonces, resources, epoch>>

\* transfer_fungible, called by bridge/swap and rtoken/series: bump_nonce,
\* then the event relayers carry to the other chain.
TransferFungible(dest) ==
  /\ ChainWhitelisted(dest)
  /\ Len(outbox[dest]) < MaxNonce
  /\ LET nonce == chainNonces[dest] + 1 IN
       /\ chainNonces' = [chainNonces EXCEPT ![dest] = nonce]
       /\ outbox' = [outbox EXCEPT ![dest] =
                       Append(@, [epoch |-> epoch[dest], nonce |-> nonce])]
  /\ UNCHANGED <<resources, epoch>>

ChainNext ==
  \/ \E c \in Chain : WhitelistChain(c) \/ RemoveWhitelistChain(c)
  \/ \E r \in Resource : AddResource(r) \/ RemoveResource(r)
  \/ \E c \in Chain : TransferFungible(c)

ChainSpec == ChainInit /\ [][ChainNext]_chainVars

-----------------------------------------------------------------------------
(* While a chain stays whitelisted, every transfer sent to it carries a     *)
(* nonce of its own, and the numbering has no gap: the transfers of one     *)
(* whitelisting are numbered 1, 2, ... up to the stored nonce.  The other   *)
(* side of the bridge identifies a deposit by that number (bump_nonce).     *)
NoncesNumberTheTransfers ==
  \A c \in Chain :
    LET mine == {i \in DOMAIN outbox[c] : outbox[c][i].epoch = epoch[c]} IN
      /\ \A i, j \in DOMAIN outbox[c] : outbox[c][i] = outbox[c][j] => i = j
      /\ ChainWhitelisted(c) =>
           {outbox[c][i].nonce : i \in mine} = 1..chainNonces[c]

=============================================================================
