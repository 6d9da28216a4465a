------------------------------ MODULE Relayers ------------------------------
(***************************************************************************)
(* The relayer registry.  Three pallets of the node are this registry      *)
(* under different key types: bridge/relayers (per ChainId),               *)
(* rtoken/relayers (per RSymbol) and rdexn/payers (per RSymbol).  For each *)
(* key it keeps a member set, a separately maintained member count, and a  *)
(* voting threshold.  The voting pallets read membership, threshold and    *)
(* (for rtoken/votes) the count.                                           *)
(***************************************************************************)
EXTENDS Integers, FiniteSets

CONSTANTS Id,            \* registry keys: chain ids or rtoken symbols
          Account,       \* accounts that root may make relayers
          MaxThreshold   \* bound on the thresholds root sets (u32 in the code)

VARIABLES relayers,          \* Relayers:         key -> members
          relayerThreshold,  \* RelayerThreshold: key -> votes needed, 0 when never set
          relayerCount       \* RelayerCount:     key -> number of members

vars == <<relayers, relayerThreshold, relayerCount>>

\* The one type invariant of the registry.
TypeOK ==
  /\ relayers \in [Id -> SUBSET Account]
  /\ relayerThreshold \in [Id -> Nat]
  /\ relayerCount \in [Id -> Nat]

Init ==
  /\ relayers = [id \in Id |-> {}]
  /\ relayerThreshold = [id \in Id |-> 0]
  /\ relayerCount = [id \in Id |-> 0]

IsRelayer(id, who) == who \in relayers[id]

\* set_threshold: any positive value is accepted, also one above the count.
SetThreshold(id, threshold) ==
  /\ threshold > 0
  /\ relayerThreshold' = [relayerThreshold EXCEPT ![id] = threshold]
  /\ UNCHANGED <<relayers, relayerCount>>

AddRelayer(id, who) ==
  /\ ~IsRelayer(id, who)
  /\ relayers' = [relayers EXCEPT ![id] = @ \cup {who}]
  /\ relayerCount' = [relayerCount EXCEPT ![id] = @ + 1]
  /\ UNCHANGED relayerThreshold

RemoveRelayer(id, who) ==
  /\ IsRelayer(id, who)
  /\ relayers' = [relayers EXCEPT ![id] = @ \ {who}]
  /\ relayerCount' = [relayerCount EXCEPT ![id] = @ - 1]
  /\ UNCHANGED relayerThreshold

Next ==
  \E id \in Id :
    \/ \E threshold \in 0..MaxThreshold : SetThreshold(id, threshold)
    \/ \E who \in Account : AddRelayer(id, who) \/ RemoveRelayer(id, who)

Spec == Init /\ [][Next]_vars

-----------------------------------------------------------------------------
(* The stored count is always the number of members.  It is what            *)
(* rtoken/votes' derivate uses as the electorate when it decides that a     *)
(* proposal can no longer be approved, and it is a separate storage item    *)
(* adjusted by hand in add_relayer and remove_relayer; as a u32 it must     *)
(* also never be decremented below zero.                                    *)
CountIsExact == \A id \in Id : relayerCount[id] = Cardinality(relayers[id])

=============================================================================
