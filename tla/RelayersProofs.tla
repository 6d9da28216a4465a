--------------------------- MODULE RelayersProofs ---------------------------
(* Proofs about the relayer registry, for every set of keys and accounts    *)
(* and every bound on the threshold.                                        *)
EXTENDS Relayers, FiniteSetTheorems, TLAPS

\* The count is exact and, what makes this inductive, every member set is
\* finite: accounts are added one at a time to an empty set.
FiniteMembers == \A id \in Id : IsFiniteSet(relayers[id])

IInv == TypeOK /\ FiniteMembers /\ CountIsExact

(* The empty registry of a new chain satisfies the inductive invariant.     *)
LEMMA InitIInv == Init => IInv
  BY FS_EmptySet DEF Init, IInv, TypeOK, FiniteMembers, CountIsExact

(* Every call of root preserves the inductive invariant: set_threshold      *)
(* leaves the members alone, add_relayer and remove_relayer move the set    *)
(* and the count together.                                                  *)
LEMMA NextIInv == IInv /\ [Next]_vars => IInv'
<1> SUFFICES ASSUME IInv, [Next]_vars PROVE IInv'
  OBVIOUS
<1> USE DEF IInv
<1>1. ASSUME NEW id \in Id, NEW threshold \in 0..MaxThreshold, SetThreshold(id, threshold)
      PROVE IInv'
  BY <1>1 DEF SetThreshold, TypeOK, FiniteMembers, CountIsExact
<1>2. ASSUME NEW id \in Id, NEW who \in Account, AddRelayer(id, who)
      PROVE IInv'
  <2>1. /\ IsFiniteSet(relayers[id] \cup {who})
        /\ Cardinality(relayers[id] \cup {who}) = Cardinality(relayers[id]) + 1
    BY <1>2, FS_AddElement DEF AddRelayer, IsRelayer, FiniteMembers
  <2>2. TypeOK'
    BY <1>2 DEF AddRelayer, TypeOK
  <2>3. FiniteMembers' /\ CountIsExact'
    BY <1>2, <2>1 DEF AddRelayer, TypeOK, FiniteMembers, CountIsExact
  <2> QED
    BY <2>2, <2>3
<1>3. ASSUME NEW id \in Id, NEW who \in Account, RemoveRelayer(id, who)
      PROVE IInv'
  <2>1. /\ IsFiniteSet(relayers[id] \ {who})
        /\ Cardinality(relayers[id] \ {who}) = Cardinality(relayers[id]) - 1
    BY <1>3, FS_RemoveElement DEF RemoveRelayer, IsRelayer, FiniteMembers
  <2>2. Cardinality(relayers[id] \ {who}) \in Nat
    BY <2>1, FS_CardinalityType
  <2>3. TypeOK'
    BY <1>3, <2>1, <2>2 DEF RemoveRelayer, TypeOK, CountIsExact
  <2>4. FiniteMembers' /\ CountIsExact'
    BY <1>3, <2>1 DEF RemoveRelayer, TypeOK, FiniteMembers, CountIsExact
  <2> QED
    BY <2>3, <2>4
<1>4. CASE UNCHANGED vars
  BY <1>4 DEF vars, TypeOK, FiniteMembers, CountIsExact
<1> QED
  BY <1>1, <1>2, <1>3, <1>4 DEF Next

(* The registry's types: in particular the count is never decremented       *)
(* below zero, because remove_relayer only removes a member that exists.    *)
THEOREM RegistryTypes == Spec => []TypeOK
<1>1. IInv => TypeOK
  BY DEF IInv
<1> QED
  BY InitIInv, NextIInv, <1>1, PTL DEF Spec

(* The count that rtoken/votes uses as the electorate is the number of      *)
(* relayers in every reachable state (add_relayer, remove_relayer).         *)
THEOREM CountExact == Spec => []CountIsExact
<1>1. IInv => CountIsExact
  BY DEF IInv
<1> QED
  BY InitIInv, NextIInv, <1>1, PTL DEF Spec

=============================================================================
