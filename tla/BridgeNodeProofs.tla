-------------------------- MODULE BridgeNodeProofs --------------------------
(* Proofs about bridge/common's voting, for every set of chains, accounts,  *)
(* nonces and calls, every threshold, lifetime and dispatch outcome; and    *)
(* about what runs beside the chain: a validator's processes, the wasm      *)
(* builder and the trie benchmarks.                                         *)
EXTENDS BridgeVotes, NodeService, WasmBuild, TrieBench, CountingLemmas

-----------------------------------------------------------------------------
(* The bridge.                                                              *)

\* The lemmas about the registry, for both registries.
BP == INSTANCE RelayersProofs WITH Id <- Chain
OP == INSTANCE RelayersProofs WITH
        Id <- {ChainIdentity}, Account <- OwnAccount,
        MaxThreshold <- OwnMaxThreshold, relayers <- ownRelayers,
        relayerThreshold <- ownThreshold, relayerCount <- ownCount

RegistriesOK == BP!IInv /\ OP!IInv

(* Both registries start sound: bridge/relayers with no threshold, the own  *)
(* set with threshold 1.                                                    *)
LEMMA InitRegistries == Init => RegistriesOK
<1>1. Init => BP!IInv
  <2>1. Brelayers!Init => BP!Init
    BY DEF Brelayers!Init, BP!Init
  <2> QED
    BY <2>1, BP!InitIInv DEF Init
<1>2. Init => OP!IInv
  BY OP!FS_EmptySet
  DEF Init, OP!IInv, OP!TypeOK, OP!FiniteMembers, OP!CountIsExact
<1> QED
  BY <1>1, <1>2 DEF RegistriesOK

(* Every step keeps both registries sound: only their own calls change      *)
(* them, and those are steps of the registry.                               *)
LEMMA NextRegistries == RegistriesOK /\ [Next]_vars => RegistriesOK'
<1> SUFFICES ASSUME RegistriesOK, [Next]_vars PROVE RegistriesOK'
  OBVIOUS
<1> USE DEF RegistriesOK
<1>1. [BP!Next]_(BP!vars) => BP!IInv'
  BY BP!NextIInv
<1>2. [OP!Next]_(OP!vars) => OP!IInv'
  BY OP!NextIInv
<1>3. UNCHANGED registryVars => [BP!Next]_(BP!vars)
  BY DEF registryVars, BP!vars
<1>4. UNCHANGED ownVars => [OP!Next]_(OP!vars)
  BY DEF ownVars, OP!vars
<1>5. ASSUME NEW c \in Chain, Registry(c) PROVE BP!Next /\ UNCHANGED ownVars
  BY <1>5 DEF Registry, BP!Next, BP!SetThreshold, BP!AddRelayer, BP!RemoveRelayer, BP!IsRelayer,
     Brelayers!SetThreshold, Brelayers!AddRelayer, Brelayers!RemoveRelayer, Brelayers!IsRelayer
<1>6. OwnRegistry => OP!Next /\ UNCHANGED registryVars
  BY DEF OwnRegistry, OP!Next, OP!SetThreshold, OP!AddRelayer, OP!RemoveRelayer, OP!IsRelayer,
     Own!Next, Own!SetThreshold, Own!AddRelayer, Own!RemoveRelayer, Own!IsRelayer
<1>7. \/ UNCHANGED <<registryVars, ownVars>>
      \/ \E c \in Chain : Registry(c)
      \/ OwnRegistry
  BY DEF Next, AcknowledgeProposal, AcknowledgeExpired, AcknowledgeCounted,
     AcknowledgeDispatch, Chains, NextBlock, vars
<1> QED
  BY <1>1, <1>2, <1>3, <1>4, <1>5, <1>6, <1>7

(* What the two registry invariants say in the terms of this module.        *)
LEMMA RegistryTypes == RegistriesOK => Brelayers!TypeOK /\ Own!TypeOK
  BY DEF RegistriesOK, BP!IInv, OP!IInv, BP!TypeOK, OP!TypeOK, Brelayers!TypeOK, Own!TypeOK

-----------------------------------------------------------------------------
(* The chain state keeps its type under every call of bridge/common.        *)
LEMMA ChainStep == ChainTypeOK /\ [ChainNext]_chainVars => ChainTypeOK'
<1> SUFFICES ASSUME ChainTypeOK, [ChainNext]_chainVars PROVE ChainTypeOK'
  OBVIOUS
<1> USE DEF ChainTypeOK, ChainWhitelisted
<1>1. ASSUME NEW c \in Chain, WhitelistChain(c) PROVE ChainTypeOK'
  BY <1>1, BridgeChainsAssumption DEF WhitelistChain
<1>2. ASSUME NEW c \in Chain, RemoveWhitelistChain(c) PROVE ChainTypeOK'
  BY <1>2 DEF RemoveWhitelistChain
<1>3. ASSUME NEW r \in Resource, AddResource(r) \/ RemoveResource(r) PROVE ChainTypeOK'
  BY <1>3 DEF AddResource, RemoveResource
<1>4. ASSUME NEW c \in Chain, TransferFungible(c) PROVE ChainTypeOK'
  <2> DEFINE nonce == chainNonces[c] + 1
             sent == [epoch |-> epoch[c], nonce |-> nonce]
  <2>1. nonce \in Nat /\ chainNonces[c] \in Nat
    BY <1>4 DEF TransferFungible
  <2>2. Append(outbox[c], sent) \in Seq(Transfer)
    BY <2>1 DEF Transfer
  <2>3. outbox' \in [Chain -> Seq(Transfer)]
    BY <1>4, <2>2 DEF TransferFungible
  <2>4. chainNonces' \in [Chain -> Nat \cup {None}]
    BY <1>4, <2>1 DEF TransferFungible
  <2>5. ChainIdentity \in Chain => chainNonces'[ChainIdentity] = None
    BY <1>4, <2>1, BridgeChainsAssumption DEF TransferFungible
  <2> QED
    BY <1>4, <2>3, <2>4, <2>5 DEF TransferFungible
<1>5. CASE UNCHANGED chainVars
  BY <1>5 DEF chainVars
<1> QED
  BY <1>1, <1>2, <1>3, <1>4, <1>5 DEF ChainNext

-----------------------------------------------------------------------------
\* The voters stored for p.
Voted(p) == IF votes[p] = None THEN << >> ELSE votes[p].voted

\* The invariant, by parts.  Votes are types without the registries.
VoteTypes ==
  /\ now \in Nat
  /\ votes \in [Proposal -> ProposalVotes \cup {None}]
  /\ quorum \in [Proposal -> Nat \cup {None}]
  /\ enrolled \in [Chain -> SUBSET Account]
  /\ executions \in [Proposal -> Nat]

MembersEnrolled == \A c \in Chain : relayers[c] \subseteq enrolled[c]

VotersEnrolled == \A p \in Proposal : Range(Voted(p)) \subseteq enrolled[p.src]

VotersDistinct == \A p \in Proposal : IsInjective(Voted(p))

\* A recorded quorum stays met, although the threshold may be raised later.
QuorumRecorded ==
  \A p \in Proposal :
    /\ Status(p) \in {"Passed", "Executed"} => quorum[p] # None
    /\ quorum[p] # None => quorum[p] <= Len(Voted(p))

VoteInv ==
  /\ VoteTypes
  /\ MembersEnrolled
  /\ VotersEnrolled
  /\ VotersDistinct
  /\ QuorumRecorded
  /\ ExecutedAtMostOnce

IInv == ChainTypeOK /\ RegistriesOK /\ VoteInv

(* What commit_vote reads is a vote record, fresh or stored.                *)
LEMMA VotesOfFacts ==
  ASSUME VoteTypes, NEW p \in Proposal
  PROVE  /\ VotesOf(p) \in ProposalVotes
         /\ VotesOf(p).voted = Voted(p)
         /\ VotesOf(p).status = IF Status(p) = "None" THEN "Active" ELSE Status(p)
         /\ Status(p) # "None" => VotesOf(p) = votes[p]
<1>1. CASE votes[p] = None
  <2>1. now + ProposalLifetime \in Nat
    BY BridgeVotesAssumption DEF VoteTypes
  <2>2. << >> \in Seq(Account)
    OBVIOUS
  <2> QED
    BY <1>1, <2>1, <2>2 DEF VotesOf, Voted, Status, ProposalVotes, ProposalStatus
<1>2. CASE votes[p] # None
  <2>1. votes[p] \in ProposalVotes
    BY <1>2 DEF VoteTypes
  <2>2. votes[p].status # "None"
    BY <2>1 DEF ProposalVotes, ProposalStatus
  <2> QED
    BY <1>2, <2>1, <2>2 DEF VotesOf, Voted, Status
<1> QED
  BY <1>1, <1>2

(* A counted vote, on a proposal that is open and not past its expiry.      *)
LEMMA CountedFacts ==
  ASSUME VoteTypes, NEW p \in Proposal, NEW who \in Account,
         ~IsCompleted(VotesOf(p)), ~IsExpired(VotesOf(p))
  PROVE  /\ Counted(p, who) \in ProposalVotes
         /\ Counted(p, who).voted = Append(Voted(p), who)
         /\ Counted(p, who).expiry = VotesOf(p).expiry
         /\ Counted(p, who).status \in {"Active", "Passed"}
         /\ Counted(p, who).status = "Passed" =>
              Status(p) = "Passed" \/ Len(Append(Voted(p), who)) >= relayerThreshold[p.src]
<1> DEFINE v == VotesOf(p)
           w == [v EXCEPT !.voted = Append(@, who)]
<1>1. v \in ProposalVotes /\ v.voted = Voted(p)
  BY VotesOfFacts
<1>2. v.status \in {"Active", "Passed"} /\ (v.status = "Passed" => Status(p) = "Passed")
  BY <1>1, VotesOfFacts DEF IsCompleted, ProposalVotes, ProposalStatus
<1>3. ~IsExpired(v) /\ ~IsCompleted(v)
  OBVIOUS
<1> HIDE DEF v
<1>4. /\ w \in ProposalVotes
      /\ w.voted = Append(Voted(p), who)
      /\ w.status = v.status
      /\ w.expiry = v.expiry
  BY <1>1 DEF ProposalVotes
<1> HIDE DEF w
<1>5. ~IsCompleted(w) /\ ~IsExpired(w)
  BY <1>3, <1>4 DEF IsCompleted, IsExpired
<1>6. Counted(p, who) = Derivate(w, relayerThreshold[p.src])
  BY DEF Counted, v, w
<1>7. CASE Len(w.voted) >= relayerThreshold[p.src]
  <2>1. Counted(p, who) = [w EXCEPT !.status = "Passed"]
    BY <1>5, <1>6, <1>7 DEF Derivate
  <2> QED
    BY <1>4, <1>7, <2>1 DEF v, ProposalVotes, ProposalStatus
<1>8. CASE ~(Len(w.voted) >= relayerThreshold[p.src])
  <2>1. Counted(p, who) = w
    BY <1>5, <1>6, <1>8 DEF Derivate
  <2> QED
    BY <1>2, <1>4, <2>1 DEF v
<1> QED
  BY <1>7, <1>8

(* Storing the record v for p changes what is read for p and nothing else.  *)
LEMMA StoreFacts ==
  ASSUME VoteTypes, NEW p \in Proposal, NEW v \in ProposalVotes,
         votes' = [votes EXCEPT ![p] = v]
  PROVE  /\ votes' \in [Proposal -> ProposalVotes \cup {None}]
         /\ Voted(p)' = v.voted
         /\ Status(p)' = v.status
         /\ \A q \in Proposal : q # p => Voted(q)' = Voted(q) /\ Status(q)' = Status(q)
<1>1. votes'[p] = v /\ v # None
  BY NoneIsNoVotes DEF VoteTypes
<1>2. \A q \in Proposal : q # p => votes'[q] = votes[q]
  BY DEF VoteTypes
<1> QED
  BY <1>1, <1>2 DEF VoteTypes, Voted, Status

(* A step that leaves the votes and their histories alone, and whose        *)
(* registry changes are recorded in enrolled, preserves the vote invariant. *)
LEMMA FrameVotes ==
  ASSUME VoteInv, UNCHANGED voteVars, now' \in Nat,
         enrolled' \in [Chain -> SUBSET Account],
         \A c \in Chain : enrolled[c] \subseteq enrolled'[c],
         \A c \in Chain : relayers'[c] \subseteq enrolled'[c]
  PROVE  VoteInv'
<1>1. /\ votes' = votes /\ quorum' = quorum /\ executions' = executions
      /\ \A p : Voted(p)' = Voted(p) /\ Status(p)' = Status(p)
  BY DEF voteVars, Voted, Status
<1>2. \A p \in Proposal : p.src \in Chain
  BY DEF Proposal
<1>3. VoteTypes' /\ MembersEnrolled'
  BY <1>1 DEF VoteInv, VoteTypes, MembersEnrolled
<1>4. VotersEnrolled'
  BY <1>1, <1>2 DEF VoteInv, VotersEnrolled
<1>5. VotersDistinct' /\ QuorumRecorded' /\ ExecutedAtMostOnce'
  BY <1>1 DEF VoteInv, VotersDistinct, QuorumRecorded, ExecutedAtMostOnce
<1> QED
  BY <1>3, <1>4, <1>5 DEF VoteInv

(* The vote of a relayer preserves the vote invariant, whether it finds the *)
(* proposal expired, is counted, or dispatches the call.                    *)
LEMMA VoteStep ==
  ASSUME VoteInv, RegistriesOK, NEW p \in Proposal, NEW who \in Account, NEW r \in Resource,
         AcknowledgeProposal(p, who, r)
  PROVE  VoteInv'
<1> DEFINE old == Voted(p)
           new == Append(old, who)
<1>1. /\ Admitted(p, who, r)
      /\ UNCHANGED <<chainVars, registryVars, ownVars, now>>
  BY DEF AcknowledgeProposal, AcknowledgeExpired, AcknowledgeCounted, AcknowledgeDispatch
<1>2. /\ ~IsCompleted(VotesOf(p)) /\ Status(p) \notin {"Executed", "Expired"}
      /\ who \in relayers[p.src] /\ who \notin Range(old)
      /\ p.src \in Chain
      /\ relayerThreshold[p.src] \in Nat
      /\ old \in Seq(Account) /\ IsInjective(old)
      /\ VoteTypes /\ MembersEnrolled /\ VotersEnrolled
      /\ VotesOf(p) \in ProposalVotes
  <2>1. VoteTypes /\ MembersEnrolled /\ VotersEnrolled /\ IsInjective(old)
    BY DEF VoteInv, VotersDistinct
  <2>2. VotesOf(p) \in ProposalVotes /\ VotesOf(p).voted = old
    BY <2>1, VotesOfFacts
  <2>3. p.src \in Chain
    BY DEF Proposal
  <2>4. relayerThreshold[p.src] \in Nat
    BY <2>3, RegistryTypes DEF Brelayers!TypeOK
  <2>5. Status(p) \notin {"Executed", "Expired"}
    BY <1>1, <2>1, VotesOfFacts DEF Admitted, IsCompleted
  <2> QED
    BY <1>1, <2>1, <2>2, <2>3, <2>4, <2>5
    DEF Admitted, HasVoted, Brelayers!IsRelayer, ProposalVotes
<1>3. /\ new \in Seq(Account) /\ IsInjective(new)
      /\ Range(new) = Range(old) \cup {who} /\ Len(new) = Len(old) + 1 /\ Len(old) \in Nat
  BY <1>2, AppendDistinct
<1>4. Range(new) \subseteq enrolled[p.src]
  BY <1>2, <1>3 DEF MembersEnrolled, VotersEnrolled
<1>5. enrolled' = enrolled /\ relayers' = relayers /\ now' = now /\ MembersEnrolled'
  BY <1>1, <1>2 DEF registryVars, MembersEnrolled
<1> HIDE DEF old, new
<1>6. ASSUME NEW v \in ProposalVotes, votes' = [votes EXCEPT ![p] = v],
             v.voted \in {old, new},
             quorum' \in [Proposal -> Nat \cup {None}],
             executions' \in [Proposal -> Nat],
             \A q \in Proposal : q # p => quorum'[q] = quorum[q] /\ executions'[q] = executions[q],
             v.status \in {"Passed", "Executed"} => quorum'[p] # None,
             quorum'[p] # None => quorum'[p] <= Len(v.voted),
             executions'[p] = IF v.status = "Executed" THEN 1 ELSE 0
      PROVE  VoteInv'
  <2>1. /\ votes' \in [Proposal -> ProposalVotes \cup {None}]
        /\ Voted(p)' = v.voted
        /\ Status(p)' = v.status
        /\ \A q \in Proposal : q # p => Voted(q)' = Voted(q) /\ Status(q)' = Status(q)
    BY <1>2, <1>6, StoreFacts
  <2>2. VoteTypes'
    BY <1>2, <1>5, <1>6, <2>1 DEF VoteTypes
  <2>3. VotersEnrolled'
    BY <1>2, <1>4, <1>5, <1>6, <2>1 DEF VotersEnrolled, old
  <2>4. VotersDistinct'
    BY <1>2, <1>3, <1>6, <2>1 DEF VoteInv, VotersDistinct
  <2>5. QuorumRecorded'
    BY <1>6, <2>1 DEF VoteInv, QuorumRecorded
  <2>6. ExecutedAtMostOnce'
    BY <1>6, <2>1 DEF VoteInv, ExecutedAtMostOnce
  <2> QED
    BY <1>5, <2>2, <2>3, <2>4, <2>5, <2>6 DEF VoteInv
<1>7. /\ quorum \in [Proposal -> Nat \cup {None}]
      /\ executions \in [Proposal -> Nat]
      /\ executions[p] = 0
      /\ quorum[p] # None => quorum[p] <= Len(old)
      /\ Status(p) = "Passed" => quorum[p] # None
  BY <1>2 DEF VoteInv, VoteTypes, ExecutedAtMostOnce, QuorumRecorded, old
<1>8. CASE AcknowledgeExpired(p, who, r)
  <2> DEFINE v == [VotesOf(p) EXCEPT !.status = "Expired"]
  <2>1. v \in ProposalVotes /\ v.voted = old /\ v.status = "Expired"
    BY <1>2, VotesOfFacts DEF ProposalVotes, ProposalStatus, old
  <2>2. votes' = [votes EXCEPT ![p] = v] /\ quorum' = quorum /\ executions' = executions
    BY <1>8 DEF AcknowledgeExpired
  <2> HIDE DEF v
  <2> QED
    BY <1>6, <1>7, <2>1, <2>2
<1>9. CASE AcknowledgeCounted(p, who, r)
  <2> DEFINE v == Counted(p, who)
  <2>1. v \in ProposalVotes /\ v.voted = new /\ v.status = "Active"
    BY <1>2, <1>9, CountedFacts DEF AcknowledgeCounted, old, new
  <2>2. votes' = [votes EXCEPT ![p] = v] /\ quorum' = quorum /\ executions' = executions
    BY <1>9 DEF AcknowledgeCounted
  <2>3. quorum[p] # None => quorum[p] <= Len(new)
    BY <1>3, <1>7
  <2> HIDE DEF v
  <2> QED
    BY <1>6, <1>7, <2>1, <2>2, <2>3
<1>10. ASSUME NEW ok \in Outcome, AcknowledgeDispatch(p, who, r, ok) PROVE VoteInv'
  <2> DEFINE c == Counted(p, who)
             v == Resolved(c, ok)
  <2>1. /\ c \in ProposalVotes /\ c.voted = new /\ c.status = "Passed"
        /\ Status(p) = "Passed" \/ relayerThreshold[p.src] <= Len(new)
    BY <1>2, <1>3, <1>10, CountedFacts DEF AcknowledgeDispatch, old, new
  <2>2. /\ votes' = [votes EXCEPT ![p] = v]
        /\ quorum' = [quorum EXCEPT ![p] = IF @ = None THEN relayerThreshold[p.src] ELSE @]
        /\ executions' = [executions EXCEPT ![p] = IF ok THEN @ + 1 ELSE @]
    BY <1>10 DEF AcknowledgeDispatch
  <2> HIDE DEF c
  <2>3. v \in ProposalVotes /\ v.voted = new /\ v.status = IF ok THEN "Executed" ELSE "Passed"
    BY <2>1 DEF Resolved, ProposalVotes, ProposalStatus
  <2> HIDE DEF v
  <2>4. /\ quorum' \in [Proposal -> Nat \cup {None}]
        /\ quorum'[p] # None
        /\ \A q \in Proposal : q # p => quorum'[q] = quorum[q]
    BY <1>2, <1>7, <2>2, BridgeChainsAssumption
  <2>5. quorum'[p] <= Len(v.voted)
    BY <1>2, <1>3, <1>7, <2>1, <2>2, <2>3
  <2>6. /\ executions' \in [Proposal -> Nat]
        /\ executions'[p] = IF v.status = "Executed" THEN 1 ELSE 0
        /\ \A q \in Proposal : q # p => executions'[q] = executions[q]
    BY <1>7, <2>2, <2>3
  <2> QED
    BY <1>6, <2>2, <2>3, <2>4, <2>5, <2>6
<1> QED
  BY <1>8, <1>9, <1>10 DEF AcknowledgeProposal

-----------------------------------------------------------------------------
(* An unused bridge satisfies the inductive invariant.                      *)
LEMMA InitIInv == Init => IInv
<1> SUFFICES ASSUME Init PROVE IInv
  OBVIOUS
<1>1. ChainTypeOK
  BY BridgeChainsAssumption DEF Init, ChainInit, ChainTypeOK, ChainWhitelisted
<1>2. RegistriesOK
  BY InitRegistries
<1>3. \A p \in Proposal : Voted(p) = << >> /\ Status(p) = "None" /\ quorum[p] = None
  BY DEF Init, Voted, Status
<1>4. Range(<< >>) = {} /\ IsInjective(<< >>)
  BY DEF Range, IsInjective
<1>5. VoteTypes
  BY DEF Init, VoteTypes
<1>6. MembersEnrolled
  BY DEF Init, Brelayers!Init, MembersEnrolled
<1>7. VotersEnrolled /\ VotersDistinct /\ QuorumRecorded
  BY <1>3, <1>4 DEF VotersEnrolled, VotersDistinct, QuorumRecorded
<1>8. ExecutedAtMostOnce
  BY <1>3 DEF Init, ExecutedAtMostOnce
<1> QED
  BY <1>1, <1>2, <1>5, <1>6, <1>7, <1>8 DEF IInv, VoteInv

(* Every step preserves the inductive invariant.                            *)
LEMMA NextIInv == IInv /\ [Next]_vars => IInv'
<1> SUFFICES ASSUME IInv, [Next]_vars PROVE IInv'
  OBVIOUS
<1>1. ChainTypeOK /\ RegistriesOK /\ VoteInv
  BY DEF IInv
<1>2. RegistriesOK'
  BY <1>1, NextRegistries
<1>3. ChainTypeOK'
  <2>1. [ChainNext]_chainVars
    BY DEF Next, AcknowledgeProposal, AcknowledgeExpired, AcknowledgeCounted,
       AcknowledgeDispatch, Registry, OwnRegistry, Chains, NextBlock, vars
  <2> QED
    BY <1>1, <2>1, ChainStep
<1>4. VoteInv'
  <2>1. /\ now \in Nat /\ enrolled \in [Chain -> SUBSET Account]
        /\ \A c \in Chain : relayers[c] \subseteq enrolled[c]
    BY <1>1 DEF VoteInv, VoteTypes, MembersEnrolled
  <2>2. ASSUME NEW p \in Proposal, NEW who \in Account, NEW r \in Resource,
               AcknowledgeProposal(p, who, r)
        PROVE  VoteInv'
    BY <1>1, <2>2, VoteStep
  <2>3. ASSUME NEW c \in Chain, Registry(c) PROVE VoteInv'
    <3>1. relayers' \in [Chain -> SUBSET Account]
      BY <1>2 DEF RegistriesOK, BP!IInv, BP!TypeOK
    <3>2. relayers \in [Chain -> SUBSET Account]
      BY <1>1, RegistryTypes DEF Brelayers!TypeOK
    <3>3. \A d \in Chain : d # c => relayers'[d] = relayers[d]
      BY <2>3, <3>2 DEF Registry, Brelayers!SetThreshold, Brelayers!AddRelayer, Brelayers!RemoveRelayer
    <3>4. enrolled' = [enrolled EXCEPT ![c] = @ \cup relayers'[c]]
      BY <2>3 DEF Registry
    <3>5. /\ enrolled' \in [Chain -> SUBSET Account]
          /\ \A d \in Chain : enrolled[d] \subseteq enrolled'[d]
          /\ \A d \in Chain : relayers'[d] \subseteq enrolled'[d]
      BY <2>1, <3>1, <3>3, <3>4
    <3>6. UNCHANGED voteVars /\ now' \in Nat
      BY <2>1, <2>3 DEF Registry
    <3> QED
      BY <1>1, <3>5, <3>6, FrameVotes
  <2>4. CASE OwnRegistry \/ Chains \/ NextBlock \/ UNCHANGED vars
    <3>1. UNCHANGED <<registryVars, voteVars>> /\ now' \in Nat
      BY <2>1, <2>4 DEF OwnRegistry, Chains, NextBlock, vars
    <3>2. enrolled' = enrolled /\ relayers' = relayers
      BY <3>1 DEF registryVars
    <3> QED
      BY <1>1, <2>1, <3>1, <3>2, FrameVotes
  <2> QED
    BY <2>2, <2>3, <2>4 DEF Next
<1> QED
  BY <1>2, <1>3, <1>4 DEF IInv

(* The inductive invariant gives the type invariant and the two safety      *)
(* invariants.                                                              *)
LEMMA IInvImplies == IInv => TypeOK /\ QuorumBehindExecution /\ ExecutedAtMostOnce
<1> SUFFICES ASSUME IInv PROVE TypeOK /\ QuorumBehindExecution /\ ExecutedAtMostOnce
  OBVIOUS
<1>1. ChainTypeOK /\ RegistriesOK /\ VoteInv
  BY DEF IInv
<1>2. TypeOK
  BY <1>1, RegistryTypes DEF VoteInv, VoteTypes, TypeOK
<1>3. ExecutedAtMostOnce
  BY <1>1 DEF VoteInv
<1>4. ASSUME NEW p \in Proposal, Status(p) \in {"Passed", "Executed"}
      PROVE  /\ quorum[p] # None
             /\ Cardinality(Range(votes[p].voted)) >= quorum[p]
             /\ Range(votes[p].voted) \subseteq enrolled[p.src]
  <2>1. votes[p].voted = Voted(p) /\ votes[p] \in ProposalVotes
    BY <1>1, <1>4 DEF Voted, Status, VoteInv, VoteTypes
  <2>2. Voted(p) \in Seq(Account) /\ IsInjective(Voted(p))
    BY <1>1, <2>1 DEF ProposalVotes, VoteInv, VotersDistinct
  <2>3. Cardinality(Range(Voted(p))) = Len(Voted(p))
    BY <2>2, DistinctCount
  <2>4. quorum[p] # None /\ quorum[p] <= Len(Voted(p)) /\ quorum[p] \in Nat
    BY <1>1, <1>4 DEF VoteInv, QuorumRecorded, VoteTypes
  <2>5. Range(Voted(p)) \subseteq enrolled[p.src]
    BY <1>1 DEF VoteInv, VotersEnrolled
  <2> QED
    BY <2>1, <2>2, <2>3, <2>4, <2>5
<1> QED
  BY <1>2, <1>3, <1>4 DEF QuorumBehindExecution

(* Types of the whole bridge state.                                         *)
THEOREM BridgeTypes == Spec => []TypeOK
  BY InitIInv, NextIInv, IInvImplies, PTL DEF Spec

(* No call takes effect, or waits for a retry, without the quorum of        *)
(* distinct accounts, each once a relayer of the source chain, that was in  *)
(* force when it passed (commit_vote).                                      *)
THEOREM QuorumTheorem == Spec => []QuorumBehindExecution
  BY InitIInv, NextIInv, IInvImplies, PTL DEF Spec

(* A proposal's call succeeds at most once (try_resolve_proposal).          *)
THEOREM AtMostOnce == Spec => []ExecutedAtMostOnce
  BY InitIInv, NextIInv, IInvImplies, PTL DEF Spec

(* An executed or expired proposal is never touched again, by no call of    *)
(* the bridge, the registries or the chain list (is_completed).             *)
THEOREM CompletedFinal == Spec => CompletedIsFinal
<1>1. ASSUME IInv, [Next]_vars, NEW p \in Proposal, Status(p) \in {"Executed", "Expired"}
      PROVE  votes'[p] = votes[p]
  <2>1. VoteTypes
    BY <1>1 DEF IInv, VoteInv
  <2>2. IsCompleted(VotesOf(p))
    BY <1>1, <2>1, VotesOfFacts DEF IsCompleted
  <2>3. CASE \E q \in Proposal, who \in Account, r \in Resource : AcknowledgeProposal(q, who, r)
    <3>1. PICK q \in Proposal, who \in Account, r \in Resource : AcknowledgeProposal(q, who, r)
      BY <2>3
    <3>2. Admitted(q, who, r) /\ \E v : votes' = [votes EXCEPT ![q] = v]
      BY <3>1 DEF AcknowledgeProposal, AcknowledgeExpired, AcknowledgeCounted, AcknowledgeDispatch
    <3>3. q # p
      BY <2>2, <3>2 DEF Admitted
    <3> QED
      BY <2>1, <3>2, <3>3 DEF VoteTypes
  <2>4. CASE UNCHANGED voteVars
    BY <2>4 DEF voteVars
  <2> QED
    BY <1>1, <2>3, <2>4 DEF Next, Registry, OwnRegistry, Chains, NextBlock, vars
<1>2. IInv /\ [Next]_vars =>
        [\A p \in Proposal :
           Status(p) \in {"Executed", "Expired"} => votes'[p] = votes[p]]_vars
  BY <1>1
<1> QED
  BY <1>2, InitIInv, NextIInv, PTL DEF Spec, CompletedIsFinal

(* No call is dispatched at or after its proposal's expiry block, retries   *)
(* of a failed dispatch included (is_expired).                              *)
THEOREM NeverLate == Spec => NothingExecutedLate
<1>1. ASSUME IInv, [Next]_vars, NEW p \in Proposal, executions'[p] # executions[p]
      PROVE  now < votes'[p].expiry
  <2>1. VoteTypes
    BY <1>1 DEF IInv, VoteInv
  <2>2. PICK q \in Proposal, who \in Account, r \in Resource, ok \in Outcome :
          AcknowledgeDispatch(q, who, r, ok)
    BY <1>1 DEF Next, AcknowledgeProposal, AcknowledgeExpired, AcknowledgeCounted,
       Registry, OwnRegistry, Chains, NextBlock, vars, voteVars
  <2>3. p = q
    BY <1>1, <2>1, <2>2 DEF AcknowledgeDispatch, VoteTypes
  <2>4. /\ ~IsCompleted(VotesOf(p)) /\ ~IsExpired(VotesOf(p))
        /\ votes' = [votes EXCEPT ![p] = Resolved(Counted(p, who), ok)]
    BY <2>2, <2>3 DEF AcknowledgeDispatch, Admitted
  <2>5. Counted(p, who) \in ProposalVotes /\ Counted(p, who).expiry = VotesOf(p).expiry
    BY <2>1, <2>4, CountedFacts
  <2>6. Resolved(Counted(p, who), ok).expiry = VotesOf(p).expiry
    BY <2>5 DEF Resolved, ProposalVotes
  <2>7. votes'[p].expiry = VotesOf(p).expiry
    BY <2>1, <2>4, <2>6 DEF VoteTypes
  <2>8. VotesOf(p).expiry \in Nat /\ now \in Nat
    BY <2>1, VotesOfFacts DEF ProposalVotes, VoteTypes
  <2> QED
    BY <2>4, <2>7, <2>8 DEF IsExpired
<1>2. IInv /\ [Next]_vars =>
        [\A p \in Proposal :
           executions'[p] # executions[p] => now < votes'[p].expiry]_vars
  BY <1>1
<1> QED
  BY <1>2, InitIInv, NextIInv, PTL DEF Spec, NothingExecutedLate

-----------------------------------------------------------------------------
\* The refinement mapping, on the stored voters.
Endorsers == [p \in Proposal |-> Range(Voted(p))]
Verdict == [p \in Proposal |-> CASE Status(p) = "Executed" -> "executed"
                                 [] Status(p) = "Expired" -> "lapsed"
                                 [] OTHER -> "open"]

(* The mapping of BridgeVotes!Promise does not depend on the block number.  *)
LEMMA MappingFacts ==
  /\ [p \in Proposal |-> Range(VotesOf(p).voted)] = Endorsers
  /\ [p \in Proposal |-> Range(VotesOf(p).voted)]' = Endorsers'
  BY DEF VotesOf, Voted, Endorsers

(* The abstract module counts with the same Cardinality.                    *)
LEMMA PromiseCardinality == \A S : Promise!Cardinality(S) = Cardinality(S)
  BY DEF Promise!Cardinality, Cardinality, Promise!IsFiniteSet, IsFiniteSet

(* A vote of the bridge is a step of the promise: an endorsement, one that  *)
(* performs the call, or a lapse.                                           *)
LEMMA VoteRefines ==
  ASSUME IInv, NEW p \in Proposal, NEW who \in Account, NEW r \in Resource,
         AcknowledgeProposal(p, who, r)
  PROVE  Promise!Next
<1>1. VoteInv /\ RegistriesOK /\ VoteTypes
  BY DEF IInv, VoteInv
<1>2. Admitted(p, who, r)
  BY DEF AcknowledgeProposal, AcknowledgeExpired, AcknowledgeCounted, AcknowledgeDispatch
<1>3. /\ ~IsCompleted(VotesOf(p))
      /\ Status(p) \notin {"Executed", "Expired"}
      /\ who \notin Range(Voted(p))
      /\ VotesOf(p) \in ProposalVotes
      /\ Voted(p) \in Seq(Account) /\ IsInjective(Voted(p))
  <2>1. VotesOf(p) \in ProposalVotes /\ VotesOf(p).voted = Voted(p)
    BY <1>1, VotesOfFacts
  <2>2. ~IsCompleted(VotesOf(p)) /\ Status(p) \notin {"Executed", "Expired"}
    BY <1>1, <1>2, VotesOfFacts DEF Admitted, IsCompleted
  <2> QED
    BY <1>1, <1>2, <2>1, <2>2 DEF Admitted, HasVoted, ProposalVotes, VoteInv, VotersDistinct
<1> DEFINE E == [q \in Proposal |-> Range(VotesOf(q).voted)]
           V == Verdict
           new == Append(Voted(p), who)
<1>4. /\ E = Endorsers /\ E' = Endorsers'
      /\ E[p] = Range(Voted(p))
      /\ V[p] = "open"
  BY <1>3, MappingFacts DEF Endorsers, Verdict
<1>5. /\ new \in Seq(Account) /\ IsInjective(new)
      /\ Range(new) = Range(Voted(p)) \cup {who}
      /\ Len(new) \in Nat /\ Cardinality(Range(new)) = Len(new)
  <2>1. /\ new \in Seq(Account) /\ IsInjective(new)
        /\ Range(new) = Range(Voted(p)) \cup {who}
    BY <1>3, AppendDistinct
  <2> HIDE DEF new
  <2>2. Cardinality(Range(new)) = Len(new)
    BY <2>1, DistinctCount
  <2> QED
    BY <2>1, <2>2
<1>6. ASSUME NEW v \in ProposalVotes, votes' = [votes EXCEPT ![p] = v]
      PROVE  /\ Endorsers' = [Endorsers EXCEPT ![p] = Range(v.voted)]
             /\ Verdict' = [Verdict EXCEPT ![p] =
                   CASE v.status = "Executed" -> "executed"
                     [] v.status = "Expired" -> "lapsed"
                     [] OTHER -> "open"]
  <2>1. /\ Voted(p)' = v.voted
        /\ Status(p)' = v.status
        /\ \A q \in Proposal : q # p => Voted(q)' = Voted(q) /\ Status(q)' = Status(q)
    BY <1>1, <1>6, StoreFacts
  <2> QED
    BY <2>1 DEF Endorsers, Verdict
<1> HIDE DEF E, V, new
<1>7. CASE AcknowledgeExpired(p, who, r)
  <2> DEFINE v == [VotesOf(p) EXCEPT !.status = "Expired"]
  <2>1. v \in ProposalVotes /\ v.voted = Voted(p) /\ v.status = "Expired"
    BY <1>1, <1>3, VotesOfFacts DEF ProposalVotes, ProposalStatus
  <2>2. votes' = [votes EXCEPT ![p] = v] /\ quorum' = quorum /\ executions' = executions
    BY <1>7 DEF AcknowledgeExpired
  <2> HIDE DEF v
  <2>3. E' = E /\ V' = [V EXCEPT ![p] = "lapsed"]
    BY <1>4, <1>6, <2>1, <2>2 DEF Endorsers, V
  <2>4. Promise!Lapse(p)
    BY <1>4, <2>2, <2>3 DEF Promise!Lapse, E, V, Verdict
  <2> QED
    BY <2>4 DEF Promise!Next
<1>8. CASE AcknowledgeCounted(p, who, r)
  <2> DEFINE v == Counted(p, who)
  <2>1. v \in ProposalVotes /\ v.voted = new /\ v.status = "Active"
    BY <1>1, <1>3, <1>8, CountedFacts DEF AcknowledgeCounted, new
  <2>2. votes' = [votes EXCEPT ![p] = v] /\ quorum' = quorum /\ executions' = executions
    BY <1>8 DEF AcknowledgeCounted
  <2> HIDE DEF v
  <2>3. E' = [E EXCEPT ![p] = @ \cup {who}] /\ V' = V
    BY <1>4, <1>5, <1>6, <2>1, <2>2 DEF V, Verdict
  <2>4. Promise!Endorse(p, who)
    BY <1>3, <1>4, <2>2, <2>3 DEF Promise!Endorse, E, V, Verdict
  <2>5. Promise!EndorseOnly(p, who)
    BY <2>2, <2>3, <2>4 DEF Promise!EndorseOnly, V, Verdict
  <2> QED
    BY <2>5 DEF Promise!Next
<1>9. ASSUME NEW ok \in Outcome, AcknowledgeDispatch(p, who, r, ok) PROVE Promise!Next
  <2> DEFINE c == Counted(p, who)
             v == Resolved(c, ok)
             t == relayerThreshold[p.src]
  <2>1. /\ c \in ProposalVotes /\ c.voted = new /\ c.status = "Passed"
        /\ Status(p) = "Passed" \/ Len(new) >= t
    BY <1>1, <1>3, <1>9, CountedFacts DEF AcknowledgeDispatch, new
  <2>2. /\ votes' = [votes EXCEPT ![p] = v]
        /\ quorum' = [quorum EXCEPT ![p] = IF @ = None THEN t ELSE @]
        /\ executions' = [executions EXCEPT ![p] = IF ok THEN @ + 1 ELSE @]
    BY <1>9 DEF AcknowledgeDispatch
  <2> HIDE DEF c
  <2>3. v \in ProposalVotes /\ v.voted = new /\ v.status = IF ok THEN "Executed" ELSE "Passed"
    BY <2>1 DEF Resolved, ProposalVotes, ProposalStatus
  <2> HIDE DEF v
  <2>4. E' = [E EXCEPT ![p] = @ \cup {who}] /\ E'[p] = Range(new)
    BY <1>4, <1>5, <1>6, <2>2, <2>3 DEF Endorsers
  <2>5. V' = IF ok THEN [V EXCEPT ![p] = "executed"] ELSE V
    BY <1>4, <1>6, <2>2, <2>3 DEF V, Verdict
  <2>6. /\ t \in Nat /\ t # None
        /\ quorum \in [Proposal -> Nat \cup {None}]
        /\ Status(p) = "Passed" => quorum[p] # None
        /\ executions \in [Proposal -> Nat]
    <3>1. p.src \in Chain
      BY DEF Proposal
    <3>2. t \in Nat
      BY <1>1, <3>1, RegistryTypes DEF Brelayers!TypeOK
    <3> QED
      BY <1>1, <3>2, BridgeChainsAssumption DEF VoteInv, VoteTypes, QuorumRecorded
  <2> HIDE DEF t
  <2>7. /\ quorum'[p] # None
        /\ \/ quorum' = quorum
           \/ quorum[p] = None /\ \E q \in 0..Cardinality(Range(new)) :
                                    quorum' = [quorum EXCEPT ![p] = q]
    <3>1. CASE quorum[p] = None
      <4>1. t \in 0..Cardinality(Range(new))
        BY <1>5, <2>1, <2>6, <3>1
      <4>2. quorum' = [quorum EXCEPT ![p] = t]
        BY <2>2, <3>1
      <4> QED
        BY <2>6, <3>1, <4>1, <4>2
    <3>2. CASE quorum[p] # None
      BY <2>2, <2>6, <3>2
    <3> QED
      BY <3>1, <3>2
  <2>8. Promise!Endorse(p, who)
    BY <1>3, <1>4, <2>4, <2>7, PromiseCardinality DEF Promise!Endorse, E, V, Verdict
  <2>9. CASE ok = TRUE
    <3>1. executions' = [executions EXCEPT ![p] = @ + 1] /\ V' = [V EXCEPT ![p] = "executed"]
      BY <2>2, <2>5, <2>9
    <3>2. Promise!EndorseAndPerform(p, who)
      BY <2>7, <2>8, <3>1 DEF Promise!EndorseAndPerform, V, Verdict
    <3> QED
      BY <3>2 DEF Promise!Next
  <2>10. CASE ok = FALSE
    <3>1. executions' = executions /\ V' = V
      BY <2>2, <2>5, <2>6, <2>10
    <3>2. Promise!EndorseOnly(p, who)
      BY <2>8, <3>1 DEF Promise!EndorseOnly, V, Verdict
    <3> QED
      BY <3>2 DEF Promise!Next
  <2> QED
    BY <2>9, <2>10, BridgeVotesAssumption
<1> QED
  BY <1>7, <1>8, <1>9 DEF AcknowledgeProposal

(* Voting implements the abstract quorum protocol: QuorumExecution is what  *)
(* a user of acknowledge_proposal may rely on.                              *)
THEOREM VotingRefinesPromise == Spec => ImplementsPromise
<1>1. Init => Promise!Init
  <2> SUFFICES ASSUME Init PROVE Promise!Init
    OBVIOUS
  <2>1. \A p \in Proposal : Voted(p) = << >> /\ Status(p) = "None"
    BY DEF Init, Voted, Status
  <2>2. Range(<< >>) = {}
    BY DEF Range
  <2>3. [p \in Proposal |-> Range(VotesOf(p).voted)] = [p \in Proposal |-> {}]
    BY <2>1, <2>2, MappingFacts DEF Endorsers
  <2> QED
    BY <2>1, <2>3 DEF Init, Promise!Init
<1>2. IInv /\ [Next]_vars => [Promise!Next]_(Promise!vars)
  <2> SUFFICES ASSUME IInv, [Next]_vars PROVE [Promise!Next]_(Promise!vars)
    OBVIOUS
  <2>1. CASE \E p \in Proposal, who \in Account, r \in Resource : AcknowledgeProposal(p, who, r)
    BY <2>1, VoteRefines
  <2>2. CASE UNCHANGED voteVars
    <3>1. /\ votes' = votes /\ quorum' = quorum /\ executions' = executions
          /\ Endorsers' = Endorsers
      BY <2>2 DEF voteVars, Endorsers, Voted
    <3> QED
      BY <3>1, MappingFacts DEF Promise!vars, Status
  <2> QED
    BY <2>1, <2>2 DEF Next, Registry, OwnRegistry, Chains, NextBlock, vars
<1> QED
  BY <1>1, <1>2, InitIInv, NextIInv, PTL DEF Spec, ImplementsPromise, Promise!Spec

-----------------------------------------------------------------------------
(* The deposit nonces.                                                      *)

\* No transfer is of a whitelisting to come.
EpochsPast == \A c \in Chain : \A i \in DOMAIN outbox[c] : outbox[c][i].epoch <= epoch[c]

ChainInv == ChainTypeOK /\ EpochsPast /\ NoncesNumberTheTransfers

\* The transfers of the chain's present whitelisting.
Mine(c) == {i \in DOMAIN outbox[c] : outbox[c][i].epoch = epoch[c]}

\* What NoncesNumberTheTransfers says of one chain.
Numbered(c) ==
  /\ \A i, j \in DOMAIN outbox[c] : outbox[c][i] = outbox[c][j] => i = j
  /\ ChainWhitelisted(c) => {outbox[c][i].nonce : i \in Mine(c)} = 1..chainNonces[c]

(* A chain whose entries a step leaves alone stays numbered.                *)
LEMMA NumberedSame ==
  ASSUME NEW c, Numbered(c), chainNonces'[c] = chainNonces[c], epoch'[c] = epoch[c],
         outbox'[c] = outbox[c]
  PROVE  Numbered(c)'
BY DEF Numbered, Mine, ChainWhitelisted

LEMMA ChainInitInv == ChainInit => ChainInv
<1> SUFFICES ASSUME ChainInit PROVE ChainInv
  OBVIOUS
<1>1. ChainTypeOK
  BY BridgeChainsAssumption DEF ChainInit, ChainTypeOK, ChainWhitelisted
<1>2. \A c \in Chain : outbox[c] = << >> /\ chainNonces[c] = None
  BY DEF ChainInit
<1>3. EpochsPast
  BY <1>2 DEF EpochsPast
<1>4. NoncesNumberTheTransfers
  <2> SUFFICES ASSUME NEW c \in Chain
               PROVE  \A i, j \in DOMAIN outbox[c] : outbox[c][i] = outbox[c][j] => i = j
    BY <1>2 DEF NoncesNumberTheTransfers, ChainWhitelisted
  <2> QED
    BY <1>2
<1> QED
  BY <1>1, <1>3, <1>4 DEF ChainInv

(* A whitelisting starts a numbering of its own (whitelist_chain).          *)
LEMMA WhitelistNumbers ==
  ASSUME ChainInv, NEW d \in Chain, WhitelistChain(d)
  PROVE  EpochsPast' /\ \A c \in Chain : Numbered(c) => Numbered(c)'
<1>1. /\ chainNonces' = [chainNonces EXCEPT ![d] = 0] /\ epoch' = [epoch EXCEPT ![d] = @ + 1]
      /\ outbox' = outbox
  BY DEF WhitelistChain
<1>2. /\ chainNonces \in [Chain -> Nat \cup {None}] /\ epoch \in [Chain -> Nat]
      /\ outbox \in [Chain -> Seq(Transfer)]
      /\ \A c \in Chain : \A i \in DOMAIN outbox[c] : outbox[c][i].epoch \in Nat
  <2>1. \A c \in Chain : \A i \in DOMAIN outbox[c] : outbox[c][i] \in Transfer
    BY ElementOfSeq DEF ChainInv, ChainTypeOK
  <2> QED
    BY <2>1 DEF ChainInv, ChainTypeOK, Transfer
<1>3. /\ chainNonces'[d] = 0 /\ epoch'[d] = epoch[d] + 1
      /\ \A c \in Chain : c # d => chainNonces'[c] = chainNonces[c] /\ epoch'[c] = epoch[c]
  BY <1>1, <1>2
<1>4. EpochsPast'
  BY <1>1, <1>2, <1>3 DEF ChainInv, EpochsPast
<1>5. ASSUME NEW c \in Chain, Numbered(c) PROVE Numbered(c)'
  <2>1. CASE c # d
    BY <1>1, <1>3, <1>5, <2>1, NumberedSame
  <2>2. CASE c = d
    <3>1. \A i \in DOMAIN outbox[d] : outbox[d][i].epoch # epoch[d] + 1
      BY <1>2 DEF ChainInv, EpochsPast
    <3>2. Mine(d)' = {}
      BY <1>1, <1>3, <3>1 DEF Mine
    <3>3. {outbox'[d][i].nonce : i \in Mine(d)'} = {} /\ 1..0 = {}
      BY <3>2
    <3>4. \A i, j \in DOMAIN outbox[d] : outbox[d][i] = outbox[d][j] => i = j
      BY <1>5, <2>2 DEF Numbered
    <3>5. {outbox'[d][i].nonce : i \in Mine(d)'} = 1..chainNonces'[d]
      BY <1>3, <3>3
    <3>6. \A i, j \in DOMAIN outbox'[d] : outbox'[d][i] = outbox'[d][j] => i = j
      BY <1>1, <3>4
    <3> QED
      BY <2>2, <3>5, <3>6 DEF Numbered
  <2> QED
    BY <2>1, <2>2
<1> QED
  BY <1>4, <1>5

(* A transfer takes the next number (transfer_fungible, bump_nonce).        *)
LEMMA TransferNumbers ==
  ASSUME ChainInv, NEW d \in Chain, TransferFungible(d)
  PROVE  EpochsPast' /\ \A c \in Chain : Numbered(c) => Numbered(c)'
<1> DEFINE n == chainNonces[d] + 1
           t == [epoch |-> epoch[d], nonce |-> n]
           m == Len(outbox[d])
<1>1. /\ ChainWhitelisted(d) /\ chainNonces' = [chainNonces EXCEPT ![d] = n] /\ epoch' = epoch
      /\ outbox' = [outbox EXCEPT ![d] = Append(@, t)]
  BY DEF TransferFungible
<1>2. /\ chainNonces \in [Chain -> Nat \cup {None}] /\ epoch \in [Chain -> Nat]
      /\ outbox \in [Chain -> Seq(Transfer)] /\ chainNonces[d] \in Nat
      /\ \A c \in Chain : \A i \in DOMAIN outbox[c] : outbox[c][i] \in Transfer
  <2>1. \A c \in Chain : \A i \in DOMAIN outbox[c] : outbox[c][i] \in Transfer
    BY ElementOfSeq DEF ChainInv, ChainTypeOK
  <2> QED
    BY <1>1, <2>1 DEF ChainInv, ChainTypeOK, ChainWhitelisted
<1>3. t \in Transfer /\ t.epoch = epoch[d] /\ t.nonce = n /\ n \in Nat /\ m \in Nat
  BY <1>2 DEF Transfer
<1>4. /\ chainNonces'[d] = n /\ outbox'[d] = Append(outbox[d], t)
      /\ \A c \in Chain : c # d => chainNonces'[c] = chainNonces[c] /\ outbox'[c] = outbox[c]
  BY <1>1, <1>2
<1> HIDE DEF t
<1>5. /\ DOMAIN outbox[d] = 1..m /\ DOMAIN outbox'[d] = 1..(m + 1)
      /\ outbox'[d][m + 1] = t /\ \A i \in 1..m : outbox'[d][i] = outbox[d][i]
  BY <1>2, <1>3, <1>4
<1>6. EpochsPast'
  <2> SUFFICES ASSUME NEW c \in Chain, NEW i \in DOMAIN outbox'[c]
               PROVE  outbox'[c][i].epoch <= epoch[c]
    BY <1>1 DEF EpochsPast
  <2>1. CASE c # d
    BY <1>4, <2>1 DEF ChainInv, EpochsPast
  <2>2. CASE c = d /\ i \in 1..m
    BY <1>5, <2>2 DEF ChainInv, EpochsPast
  <2>3. CASE c = d /\ i = m + 1
    BY <1>2, <1>3, <1>5, <2>3
  <2> QED
    BY <1>3, <1>5, <2>1, <2>2, <2>3
<1>7. ASSUME NEW c \in Chain, Numbered(c) PROVE Numbered(c)'
  <2>1. CASE c # d
    BY <1>1, <1>4, <1>7, <2>1, NumberedSame
  <2>2. CASE c = d
    <3>1. /\ \A i, j \in 1..m : outbox[d][i] = outbox[d][j] => i = j
          /\ {outbox[d][i].nonce : i \in Mine(d)} = 1..(n - 1)
      <4>1. /\ \A i, j \in DOMAIN outbox[d] : outbox[d][i] = outbox[d][j] => i = j
            /\ {outbox[d][i].nonce : i \in Mine(d)} = 1..chainNonces[d]
        BY <1>1, <1>7, <2>2 DEF Numbered
      <4>2. n - 1 = chainNonces[d]
        BY <1>2
      <4> QED
        BY <1>5, <4>1, <4>2
    <3>2. \A i \in 1..m : outbox[d][i] # t
      <4> SUFFICES ASSUME NEW i \in 1..m, outbox[d][i] = t PROVE FALSE
        OBVIOUS
      <4>1. i \in Mine(d)
        BY <1>3, <1>5 DEF Mine
      <4>2. n \in 1..(n - 1)
        BY <1>3, <3>1, <4>1
      <4> QED
        BY <1>3, <4>2
    <3>3. \A i, j \in 1..(m + 1) : outbox'[d][i] = outbox'[d][j] => i = j
      <4> SUFFICES ASSUME NEW i \in 1..(m + 1), NEW j \in 1..(m + 1), outbox'[d][i] = outbox'[d][j]
                   PROVE  i = j
        OBVIOUS
      <4>1. (i \in 1..m \/ i = m + 1) /\ (j \in 1..m \/ j = m + 1)
        BY <1>3
      <4> QED
        BY <1>5, <3>1, <3>2, <4>1
    <3>4. Mine(d)' = Mine(d) \cup {m + 1} /\ Mine(d) \subseteq 1..m
      <4>1. Mine(d) = {i \in 1..m : outbox[d][i].epoch = epoch[d]}
        BY <1>5 DEF Mine
      <4>2. Mine(d)' = {i \in 1..(m + 1) : outbox'[d][i].epoch = epoch[d]}
        BY <1>1, <1>5 DEF Mine
      <4>3. \A i : i \in 1..(m + 1) <=> i \in 1..m \/ i = m + 1
        BY <1>3
      <4> QED
        BY <1>3, <1>5, <4>1, <4>2, <4>3
    <3>5. {outbox'[d][i].nonce : i \in Mine(d)'} = {outbox[d][i].nonce : i \in Mine(d)} \cup {n}
      BY <1>3, <1>5, <3>4
    <3>6. 1..n = (1..(n - 1)) \cup {n}
      <4>1. chainNonces[d] \in Nat
        BY <1>2
      <4> QED
        BY <4>1
    <3>7. {outbox'[d][i].nonce : i \in Mine(d)'} = 1..n
      BY <3>1, <3>5, <3>6
    <3> HIDE DEF n
    <3> QED
      BY <1>4, <1>5, <2>2, <3>3, <3>7 DEF Numbered
  <2> QED
    BY <2>1, <2>2
<1> QED
  BY <1>6, <1>7

LEMMA ChainNextInv == ChainInv /\ [ChainNext]_chainVars => ChainInv'
<1> SUFFICES ASSUME ChainInv, [ChainNext]_chainVars PROVE ChainInv'
  OBVIOUS
<1>1. ChainTypeOK'
  BY ChainStep DEF ChainInv
<1>2. EpochsPast' /\ \A c \in Chain : Numbered(c) => Numbered(c)'
  <2>1. CASE \E d \in Chain : WhitelistChain(d)
    BY <2>1, WhitelistNumbers
  <2>2. CASE \E d \in Chain : TransferFungible(d)
    BY <2>2, TransferNumbers
  <2>3. CASE \E d \in Chain : RemoveWhitelistChain(d)
    <3>1. PICK d \in Chain : /\ chainNonces' = [chainNonces EXCEPT ![d] = None]
                             /\ epoch' = epoch /\ outbox' = outbox
      BY <2>3 DEF RemoveWhitelistChain
    <3>2. chainNonces'[d] = None /\ \A c \in Chain : c # d => chainNonces'[c] = chainNonces[c]
      BY <3>1 DEF ChainInv, ChainTypeOK
    <3>3. ASSUME NEW c \in Chain, Numbered(c) PROVE Numbered(c)'
      <4>1. CASE c # d
        BY <3>1, <3>2, <3>3, <4>1, NumberedSame
      <4>2. CASE c = d
        BY <3>1, <3>2, <3>3, <4>2 DEF Numbered, ChainWhitelisted
      <4> QED
        BY <4>1, <4>2
    <3> QED
      BY <3>1, <3>3 DEF ChainInv, EpochsPast
  <2>4. CASE (\E r \in Resource : AddResource(r) \/ RemoveResource(r)) \/ UNCHANGED chainVars
    <3>1. UNCHANGED <<chainNonces, epoch, outbox>>
      BY <2>4 DEF AddResource, RemoveResource, chainVars
    <3> QED
      BY <3>1, NumberedSame DEF ChainInv, EpochsPast
  <2> QED
    BY <2>1, <2>2, <2>3, <2>4 DEF ChainNext
<1>3. \A c \in Chain : Numbered(c)
  BY DEF ChainInv, NoncesNumberTheTransfers, Numbered, Mine
<1>4. NoncesNumberTheTransfers'
  <2>1. \A c \in Chain : Numbered(c)'
    BY <1>2, <1>3
  <2> QED
    BY <2>1 DEF NoncesNumberTheTransfers, Numbered, Mine
<1> QED
  BY <1>1, <1>2, <1>4 DEF ChainInv

(* The transfers of one whitelisting of a chain are numbered 1, 2, ... up   *)
(* to the stored nonce, none twice, however often chains are removed and    *)
(* whitelisted again (bump_nonce, whitelist_chain).                         *)
THEOREM NoncesNumber == ChainSpec => []NoncesNumberTheTransfers
<1>1. ChainInv => NoncesNumberTheTransfers
  BY DEF ChainInv
<1> QED
  BY ChainInitInv, ChainNextInv, <1>1, PTL DEF ChainSpec

-----------------------------------------------------------------------------
(* The processes of a validator.                                            *)

\* A process that is down has left nothing behind; one that runs does so with
\* one of its configurations.
DownIsClean ==
  \A p \in Process :
    IF step[p] = "down" THEN tasks[p] = {} /\ ~keystore[p] ELSE config[p] \in Configs[p]

\* Whoever has come past the opening of the database, or runs a task, has the
\* database open.
HoldsDatabase ==
  \A p \in Process :
    step[p] \in {"network", "tasks", "babe", "discovery", "grandpa", "up"} \/ tasks[p] # {}
      => database[BasePath[p]] = p

\* A proposer, and a voter with the keystore, are an authority's.
KeysInAuthority ==
  \A p \in Process :
    "babe-proposer" \in tasks[p] \/ keystore[p]
      => step[p] # "down" /\ IsAuthority(config[p])

NodeIInv == NodeTypeOK /\ DownIsClean /\ HoldsDatabase /\ KeysInAuthority

(* Before anything is started the invariant holds.                          *)
LEMMA NodeInitIInv == NodeInit => NodeIInv
BY DEF NodeInit, NodeIInv, NodeTypeOK, DownIsClean, HoldsDatabase, KeysInAuthority, ServiceStep

(* The end of a process closes its own database and no other's.             *)
LEMMA ExitIInv ==
  ASSUME NodeIInv, NEW p \in Process, Exit(p)
  PROVE  NodeIInv'
<1> USE DEF NodeIInv
<1>1. NodeTypeOK'
  BY DEF Exit, NodeTypeOK, ServiceStep
<1>2. DownIsClean'
  BY DEF Exit, NodeTypeOK, DownIsClean
<1>3. HoldsDatabase'
  BY DEF Exit, NodeTypeOK, HoldsDatabase
<1>4. KeysInAuthority'
  BY DEF Exit, NodeTypeOK, KeysInAuthority
<1> QED
  BY <1>1, <1>2, <1>3, <1>4

(* The database is opened by one process at a time, before it has a task.   *)
LEMMA OpenIInv ==
  ASSUME NodeIInv, NEW p \in Process, NewPartial(p) \/ NewLightParts(p)
  PROVE  NodeIInv'
<1> USE DEF NodeIInv
<1>0. /\ step[p] = "partial"
      /\ step' \in {[step EXCEPT ![p] = "network"], [step EXCEPT ![p] = "command"]}
      /\ database[BasePath[p]] = Nil
      /\ database' = [database EXCEPT ![BasePath[p]] = p]
      /\ tasks' = [tasks EXCEPT ![p] = @ \cup {"services"}]
      /\ UNCHANGED <<config, essential, keystore, network, failed>>
  BY DEF NewPartial, NewLightParts, OpenDatabase, Spawn, Advance
<1>1. NodeTypeOK'
  BY <1>0 DEF NodeTypeOK, ServiceStep, Task
<1>2. DownIsClean'
  BY <1>0 DEF NodeTypeOK, DownIsClean
<1>3. HoldsDatabase'
  BY <1>0, ServiceAssumption DEF NodeTypeOK, HoldsDatabase
<1>4. KeysInAuthority'
  BY <1>0 DEF NodeTypeOK, KeysInAuthority
<1> QED
  BY <1>1, <1>2, <1>3, <1>4

\* What the later steps of the set-up have in common: they add tasks, the
\* proposer and the keystore to an authority only.
Grows(p, to, ts) ==
  /\ step[p] \in {"network", "tasks", "babe", "discovery", "grandpa"}
  /\ step' = [step EXCEPT ![p] = to]
  /\ tasks' = [tasks EXCEPT ![p] = @ \cup ts]
  /\ essential' = essential \/ essential' = [essential EXCEPT ![p] = @ \cup ts]
  /\ "babe-proposer" \in ts => IsAuthority(config[p])
  /\ keystore' = keystore \/ keystore' = [keystore EXCEPT ![p] = IsAuthority(config[p])]
  /\ network' = network \/ network' = [network EXCEPT ![p] = TRUE]
  /\ UNCHANGED <<config, database, failed>>

(* A process that grows has the database open and a configuration.          *)
LEMMA GrowsIInv ==
  ASSUME NodeIInv, NEW p \in Process, NEW to \in ServiceStep \ {"down", "partial"},
         NEW ts \in SUBSET Task, Grows(p, to, ts)
  PROVE  NodeIInv'
<1> USE DEF NodeIInv, Grows
<1>1. NodeTypeOK'
  <2>1. /\ config' \in [Process -> Config \cup {Nil}] /\ step' \in [Process -> ServiceStep]
        /\ database' \in [{BasePath[q] : q \in Process} -> Process \cup {Nil}]
    BY DEF NodeTypeOK
  <2>2. tasks' \in [Process -> SUBSET Task] /\ essential' \in [Process -> SUBSET Task]
    BY DEF NodeTypeOK
  <2>3. keystore' \in [Process -> BOOLEAN]
    BY Zenon DEF NodeTypeOK, IsAuthority
  <2>4. network' \in [Process -> BOOLEAN] /\ failed' \in [Process -> BOOLEAN]
    BY DEF NodeTypeOK
  <2> QED
    BY <2>1, <2>2, <2>3, <2>4 DEF NodeTypeOK
<1>2. DownIsClean'
  BY DEF NodeTypeOK, DownIsClean
<1>3. HoldsDatabase'
  BY DEF NodeTypeOK, HoldsDatabase
<1>4. KeysInAuthority'
  BY DEF NodeTypeOK, KeysInAuthority, IsAuthority
<1> QED
  BY <1>1, <1>2, <1>3, <1>4

(* The steps of the set-up after the opening of the database.               *)
LEMMA SetUpIInv ==
  ASSUME NodeIInv, NEW p \in Process,
         \/ BuildNetwork(p) \/ BuildLightNetwork(p) \/ SpawnTasks(p) \/ SpawnLightTasks(p)
         \/ StartBabe(p) \/ StartAuthorityDiscovery(p) \/ StartGrandpa(p)
  PROVE  NodeIInv'
<1> USE DEF Advance, Spawn, SpawnEssential
<1> DEFINE networking == {"services"} \cup OffchainWorkers(config[p])
           babe == IF IsAuthority(config[p]) THEN {"babe-proposer"} ELSE {}
           discovery == IF config[p].role \in {"Authority", "Sentry"}
                          THEN {"authority-discovery-worker"} ELSE {}
           grandpa == IF config[p].grandpa THEN {"grandpa-voter"} ELSE {}
<1>0. /\ {"tasks", "babe", "up", "discovery", "grandpa", "command"} \subseteq ServiceStep \ {"down", "partial"}
      /\ networking \in SUBSET Task /\ babe \in SUBSET Task /\ discovery \in SUBSET Task
      /\ grandpa \in SUBSET Task /\ {"services"} \in SUBSET Task
  BY DEF ServiceStep, Task, OffchainWorkers
<1>1. CASE BuildNetwork(p)
  <2>1. Grows(p, "tasks", networking)
    BY <1>1 DEF Grows, BuildNetwork, OffchainWorkers
  <2> QED
    BY <1>0, <2>1, GrowsIInv
<1>2. CASE BuildLightNetwork(p)
  <2>1. Grows(p, "tasks", networking)
    BY <1>2 DEF Grows, BuildLightNetwork, OffchainWorkers
  <2> QED
    BY <1>0, <2>1, GrowsIInv
<1>3. CASE SpawnTasks(p)
  <2>1. Grows(p, "babe", {"services"})
    BY <1>3 DEF Grows, SpawnTasks
  <2> QED
    BY <1>0, <2>1, GrowsIInv
<1>4. CASE SpawnLightTasks(p)
  <2>1. Grows(p, "up", {"services"})
    BY <1>4 DEF Grows, SpawnLightTasks
  <2> QED
    BY <1>0, <2>1, GrowsIInv
<1>5. CASE StartBabe(p)
  <2>1. Grows(p, "discovery", babe)
    BY <1>5 DEF Grows, StartBabe
  <2> QED
    BY <1>0, <2>1, GrowsIInv
<1>6. CASE StartAuthorityDiscovery(p)
  <2>1. Grows(p, "grandpa", discovery)
    BY <1>6 DEF Grows, StartAuthorityDiscovery
  <2> QED
    BY <1>0, <2>1, GrowsIInv
<1>7. CASE StartGrandpa(p)
  <2>1. Grows(p, "up", grandpa) \/ Grows(p, "command", grandpa)
    BY <1>7 DEF Grows, StartGrandpa, KeystoreFor
  <2> QED
    BY <1>0, <2>1, GrowsIInv
<1> QED
  BY <1>1, <1>2, <1>3, <1>4, <1>5, <1>6, <1>7

(* Every step of every process preserves the invariant.                     *)
LEMMA NodeNextIInv == NodeIInv /\ [NodeNext]_nodeVars => NodeIInv'
<1> SUFFICES ASSUME NodeIInv, [NodeNext]_nodeVars PROVE NodeIInv'
  OBVIOUS
<1>1. ASSUME NEW p \in Process, Run(p) PROVE NodeIInv'
  <2> USE <1>1, ServiceAssumption DEF NodeIInv
  <2>1. PICK c \in Configs[p], to \in {"command", "partial"} :
          /\ step[p] = "down" /\ step' = [step EXCEPT ![p] = to]
          /\ config' = [config EXCEPT ![p] = c]
          /\ UNCHANGED <<database, tasks, essential, keystore, network, failed>>
    BY DEF Run, Advance
  <2>2. NodeTypeOK'
    BY <2>1 DEF NodeTypeOK, ServiceStep
  <2>3. DownIsClean'
    BY <2>1 DEF NodeTypeOK, DownIsClean
  <2>4. HoldsDatabase'
    BY <2>1 DEF NodeTypeOK, HoldsDatabase
  <2>5. KeysInAuthority'
    BY <2>1 DEF NodeTypeOK, KeysInAuthority
  <2> QED
    BY <2>2, <2>3, <2>4, <2>5
<1>2. ASSUME NEW p \in Process, SetUp(p) PROVE NodeIInv'
  BY <1>2, OpenIInv, SetUpIInv DEF SetUp
<1>3. ASSUME NEW p \in Process, SetupFails(p) \/ UntilExit(p) \/ CommandEnds(p) \/ Signal(p)
      PROVE  NodeIInv'
  BY <1>3, ExitIInv DEF SetupFails, UntilExit, CommandEnds, Signal
<1>4. ASSUME NEW p \in Process, NEW t \in Task, TaskEnds(p, t) PROVE NodeIInv'
  BY <1>4 DEF TaskEnds, NodeIInv, NodeTypeOK, DownIsClean, HoldsDatabase, KeysInAuthority
<1>5. CASE UNCHANGED nodeVars
  BY <1>5 DEF nodeVars, NodeIInv, NodeTypeOK, DownIsClean, HoldsDatabase, KeysInAuthority, IsAuthority
<1> QED
  BY <1>1, <1>2, <1>3, <1>4, <1>5 DEF NodeNext

(* In every run of the node's processes the inductive invariant holds; with *)
(* it, every task runs over a database that its own process has open        *)
(* (new_full_parts before anything is spawned).                             *)
THEOREM NodeHoldsDatabase == NodeSpec => []NodeIInv
BY NodeInitIInv, NodeNextIInv, PTL DEF NodeSpec

(* Whoever can sign is an authority with the database of its base path      *)
(* open, and there is one such directory: at most one process signs (the    *)
(* roles in new_full_base).                                                 *)
THEOREM AtMostOneSigner == NodeSpec => []OneSigner
<1>1. NodeIInv => OneSigner
  <2> SUFFICES ASSUME NodeIInv, NEW p \in Process, NEW q \in Process, Signs(p), Signs(q)
               PROVE  p = q
    BY DEF OneSigner
  <2>1. ASSUME NEW o \in Process, Signs(o)
        PROVE  /\ config[o] \in Configs[o] /\ config[o].role = "Authority"
               /\ database[BasePath[o]] = o
    <3>1. ("babe-proposer" \in tasks[o] \/ keystore[o]) /\ tasks[o] # {}
      BY <2>1 DEF Signs
    <3> QED
      BY <3>1 DEF NodeIInv, KeysInAuthority, HoldsDatabase, DownIsClean, IsAuthority
  <2>2. BasePath[p] = BasePath[q]
    BY <2>1, OneValidator
  <2> QED
    BY <2>1, <2>2
<1> QED
  BY <1>1, NodeHoldsDatabase, PTL

-----------------------------------------------------------------------------
(* Loops, as recursive functions that apply a function n times.             *)

Iterates(F, x, D, h) == h = [n \in D |-> IF n = 0 THEN x ELSE F[h[n - 1]]]

(* The first turns of a loop are determined.                                *)
LEMMA IterationUnique ==
  ASSUME NEW F, NEW x, NEW m \in Nat, NEW n \in Nat, m <= n,
         NEW g, Iterates(F, x, 0 .. m, g), NEW h, Iterates(F, x, 0 .. n, h)
  PROVE  \A i \in 0 .. m : g[i] = h[i]
<1> DEFINE T == {i \in Nat : i <= m => g[i] = h[i]}
<1>1. 0 \in T
  BY DEF Iterates
<1>2. ASSUME NEW i \in T \cap Nat PROVE i + 1 \in T
  <2> SUFFICES ASSUME i + 1 <= m PROVE g[i + 1] = h[i + 1]
    OBVIOUS
  <2>1. i + 1 \in 0 .. m /\ i + 1 \in 0 .. n /\ i + 1 # 0 /\ (i + 1) - 1 = i /\ g[i] = h[i]
    OBVIOUS
  <2> QED
    BY <2>1 DEF Iterates
<1> HIDE DEF T
<1>3. Nat \subseteq T
  BY <1>1, <1>2, NatSetInduction
<1> QED
  BY <1>3 DEF T

(* A loop whose turn is a function on a set has all its turns.              *)
LEMMA IterationExists ==
  ASSUME NEW S, NEW F \in [S -> S], NEW x \in S
  PROVE  \E h \in [Nat -> S] : Iterates(F, x, Nat, h)
<1> DEFINE T == {n \in Nat : \E h \in [0 .. n -> S] : Iterates(F, x, 0 .. n, h)}
<1>1. 0 \in T
  <2> DEFINE h == [n \in 0 .. 0 |-> x]
  <2>1. h \in [0 .. 0 -> S] /\ Iterates(F, x, 0 .. 0, h)
    BY DEF Iterates
  <2> QED
    BY <2>1
<1>2. ASSUME NEW n \in T \cap Nat PROVE n + 1 \in T
  <2>1. PICK g \in [0 .. n -> S] : Iterates(F, x, 0 .. n, g)
    OBVIOUS
  <2> DEFINE h == [i \in 0 .. (n + 1) |-> IF i = 0 THEN x ELSE F[g[i - 1]]]
  <2>2. h \in [0 .. (n + 1) -> S]
    OBVIOUS
  <2>3. \A i \in 0 .. n : h[i] = g[i]
    BY <2>1 DEF Iterates
  <2>4. \A i \in 0 .. (n + 1) : i # 0 => i - 1 \in 0 .. n
    OBVIOUS
  <2>5. Iterates(F, x, 0 .. (n + 1), h)
    BY <2>3, <2>4 DEF Iterates
  <2> QED
    BY <2>2, <2>5
<1>3. Nat \subseteq T
  <2> HIDE DEF T
  <2> QED
    BY <1>1, <1>2, NatSetInduction
<1> DEFINE H(n) == CHOOSE h \in [0 .. n -> S] : Iterates(F, x, 0 .. n, h)
           h == [n \in Nat |-> H(n)[n]]
<1>4. ASSUME NEW n \in Nat PROVE H(n) \in [0 .. n -> S] /\ Iterates(F, x, 0 .. n, H(n))
  BY <1>3
<1> HIDE DEF H
<1>5. h \in [Nat -> S]
  BY <1>4
<1>6. ASSUME NEW n \in Nat PROVE h[n] = IF n = 0 THEN x ELSE F[h[n - 1]]
  <2>1. CASE n = 0
    BY <2>1, <1>4 DEF Iterates
  <2>2. CASE n # 0
    <3>1. n - 1 \in Nat /\ n - 1 <= n /\ n - 1 \in 0 .. (n - 1) /\ n \in 0 .. n
      BY <2>2
    <3>2. H(n)[n] = F[H(n)[n - 1]]
      BY <2>2, <3>1, <1>4 DEF Iterates
    <3>3. H(n - 1)[n - 1] = H(n)[n - 1]
      BY <3>1, <1>4, IterationUnique
    <3> QED
      BY <2>2, <3>1, <3>2, <3>3
  <2> QED
    BY <2>1, <2>2
<1>7. Iterates(F, x, Nat, h)
  <2> HIDE DEF h
  <2>1. h = [n \in Nat |-> h[n]]
    BY <1>5
  <2> QED
    BY <1>6, <2>1 DEF Iterates
<1> QED
  BY <1>5, <1>7

-----------------------------------------------------------------------------
(* The walk over the dependencies.                                          *)

\* What the loop still has to do, at most: every package not yet met may put
\* as many dependencies on the list as there are packages.
Left(loop) ==
  Cardinality(loop.dependencies)
    + (Cardinality(Package) + 1) * Cardinality(Package \ loop.packages)

(* Subsets of the packages are finite, and no larger than all of them.      *)
LEMMA PackagesFinite ==
  /\ Cardinality(Package) \in Nat
  /\ \A s \in SUBSET Package :
       IsFiniteSet(s) /\ Cardinality(s) \in Nat /\ Cardinality(s) <= Cardinality(Package)
BY ProjectAssumption, FS_Subset, FS_CardinalityType

(* A turn stays within the packages, keeps what has been found, leaves no   *)
(* dependency of a found package out, and is one turn less to go.           *)
LEMMA FollowStep ==
  ASSUME NEW loop \in Collecting,
         \A d \in loop.packages : Dependencies(d) \subseteq loop.packages \cup loop.dependencies
  PROVE  /\ Follow[loop] \in Collecting
         /\ loop.packages \subseteq Follow[loop].packages
         /\ \A d \in Follow[loop].packages :
              Dependencies(d) \subseteq Follow[loop].packages \cup Follow[loop].dependencies
         /\ loop.dependencies = {} => Follow[loop] = loop
         /\ loop.dependencies # {} => Left(Follow[loop]) < Left(loop)
<1> DEFINE d == CHOOSE x \in loop.dependencies : TRUE
           k == Cardinality(Package)
<1>1. CASE loop.dependencies = {}
  BY <1>1 DEF Follow
<1>2. CASE loop.dependencies # {} /\ d \in loop.packages
  <2>1. Follow[loop] = [loop EXCEPT !.dependencies = @ \ {d}]
    BY <1>2 DEF Follow
  <2>2. d \in loop.dependencies
    BY <1>2
  <2> HIDE DEF d
  <2>3. /\ Follow[loop].dependencies = loop.dependencies \ {d}
        /\ Follow[loop].packages = loop.packages
        /\ Follow[loop] \in Collecting
    BY <2>1 DEF Collecting
  <2>4. Cardinality(loop.dependencies \ {d}) = Cardinality(loop.dependencies) - 1
    BY <2>2, PackagesFinite, FS_RemoveElement DEF Collecting
  <2>5. Left(Follow[loop]) = Left(loop) - 1
    <3> DEFINE rest == (Cardinality(Package) + 1) * Cardinality(Package \ loop.packages)
    <3>1. rest \in Nat /\ Cardinality(loop.dependencies) \in Nat
      BY PackagesFinite DEF Collecting
    <3>2. Left(Follow[loop]) = Cardinality(loop.dependencies) - 1 + rest
      BY <2>3, <2>4 DEF Left
    <3>3. Left(loop) = Cardinality(loop.dependencies) + rest
      BY DEF Left
    <3> HIDE DEF rest
    <3> QED
      BY <3>1, <3>2, <3>3
  <2>6. Left(loop) \in Nat
    BY PackagesFinite DEF Left, Collecting
  <2>7. \A c \in loop.packages :
          Dependencies(c) \subseteq loop.packages \cup (loop.dependencies \ {d})
    BY <1>2
  <2> QED
    BY <1>2, <2>3, <2>5, <2>6, <2>7
<1>3. CASE loop.dependencies # {} /\ d \notin loop.packages
  <2>1. Follow[loop] = [dependencies |-> (loop.dependencies \ {d}) \cup Dependencies(d),
                        packages |-> loop.packages \cup {d}]
    BY <1>3 DEF Follow
  <2>2. d \in loop.dependencies /\ d \in Package
    BY <1>3 DEF Collecting
  <2> HIDE DEF d
  <2>3. /\ Follow[loop].dependencies = (loop.dependencies \ {d}) \cup Dependencies(d)
        /\ Follow[loop].packages = loop.packages \cup {d}
        /\ Follow[loop] \in Collecting
    BY <2>1, <2>2 DEF Collecting, Dependencies
  <2>4. Left(Follow[loop]) < Left(loop)
    <3> DEFINE r == Cardinality(Package \ loop.packages)
               n == Cardinality((loop.dependencies \ {d}) \cup Dependencies(d))
               m == Cardinality(loop.dependencies)
    <3>1. k \in Nat /\ r \in Nat /\ n \in Nat /\ m \in Nat /\ n <= k
      BY PackagesFinite DEF Collecting, Dependencies
    <3>2. m > 0
      BY <1>3, PackagesFinite, FS_EmptySet DEF Collecting
    <3>3. Package \ (loop.packages \cup {d}) = (Package \ loop.packages) \ {d}
      OBVIOUS
    <3>4. Cardinality(Package \ (loop.packages \cup {d})) = r - 1
      BY <1>3, <2>2, <3>3, PackagesFinite, FS_RemoveElement
    <3>5. Left(loop) = m + (k + 1) * r /\ Left(Follow[loop]) = n + (k + 1) * (r - 1)
      BY <2>3, <3>4 DEF Left
    <3> HIDE DEF k, r, n, m
    <3>6. (k + 1) * (r - 1) = (k + 1) * r - (k + 1)
      BY <3>1
    <3>7. (k + 1) * r \in Int
      BY <3>1
    <3> QED
      BY <3>1, <3>2, <3>5, <3>6, <3>7
  <2>5. \A c \in loop.packages \cup {d} :
          Dependencies(c) \subseteq (loop.packages \cup {d})
                                      \cup ((loop.dependencies \ {d}) \cup Dependencies(d))
    OBVIOUS
  <2> QED
    BY <1>3, <2>3, <2>4, <2>5
<1> QED
  BY <1>1, <1>2, <1>3

(* When the loop ends, what it has collected has the dependencies of all it *)
(* has (the loop of generate_rerun_if_changed_instructions).                *)
LEMMA CollectCloses ==
  ASSUME NEW dependencies \in SUBSET Package, NEW packages \in SUBSET Package,
         \A d \in packages : Dependencies(d) \subseteq packages \cup dependencies
  PROVE  /\ packages \subseteq Collect(dependencies, packages)
         /\ Collect(dependencies, packages) \in Closed
<1> DEFINE first == [dependencies |-> dependencies, packages |-> packages]
           L == CHOOSE h : Iterates(Follow, first, Nat, h)
           Fine(loop) == /\ loop \in Collecting /\ packages \subseteq loop.packages
                         /\ \A d \in loop.packages :
                              Dependencies(d) \subseteq loop.packages \cup loop.dependencies
<1>1. Collect(dependencies, packages) = L[Turns].packages
  BY DEF Collect, Iterates
<1>2. first \in Collecting /\ Fine(first)
  BY DEF Collecting
<1>3. Iterates(Follow, first, Nat, L)
  <2> DEFINE F == [loop \in Collecting |->
                     IF \A d \in loop.packages :
                          Dependencies(d) \subseteq loop.packages \cup loop.dependencies
                       THEN Follow[loop] ELSE loop]
  <2>1. F \in [Collecting -> Collecting]
    BY FollowStep
  <2>2. PICK h \in [Nat -> Collecting] : Iterates(F, first, Nat, h)
    BY <1>2, <2>1, IterationExists
  <2>3. \A n \in Nat : Fine(h[n])
    <3> DEFINE T == {n \in Nat : Fine(h[n])}
    <3>1. 0 \in T
      BY <1>2, <2>2 DEF Iterates
    <3>2. ASSUME NEW n \in T \cap Nat PROVE n + 1 \in T
      <4>1. h[n + 1] = F[h[n]]
        <5>1. n + 1 \in Nat /\ n + 1 # 0 /\ (n + 1) - 1 = n
          OBVIOUS
        <5> QED
          BY <5>1, <2>2 DEF Iterates
      <4>2. F[h[n]] = Follow[h[n]]
        OBVIOUS
      <4>3. Fine(Follow[h[n]])
        BY FollowStep
      <4> QED
        BY <4>1, <4>2, <4>3
    <3> HIDE DEF T
    <3>3. Nat \subseteq T
      BY <3>1, <3>2, NatSetInduction
    <3> QED
      BY <3>3 DEF T
  <2>4. Iterates(Follow, first, Nat, h)
    <3>1. ASSUME NEW n \in Nat PROVE h[n] = IF n = 0 THEN first ELSE Follow[h[n - 1]]
      <4>1. CASE n = 0
        BY <4>1, <2>2 DEF Iterates
      <4>2. CASE n # 0
        <5>1. n - 1 \in Nat /\ Fine(h[n - 1])
          BY <4>2, <2>3
        <5>2. h[n] = F[h[n - 1]]
          BY <4>2, <2>2 DEF Iterates
        <5> QED
          BY <4>2, <5>1, <5>2
      <4> QED
        BY <4>1, <4>2
    <3>2. h = [n \in Nat |-> h[n]]
      OBVIOUS
    <3> QED
      BY <3>1, <3>2 DEF Iterates
  <2> QED
    BY <2>4
<1> HIDE DEF L, Fine
<1>4. \A n \in Nat : /\ Fine(L[n])
                     /\ L[n].dependencies = {} \/ Left(L[n]) + n <= Left(first)
  <2> DEFINE T == {n \in Nat : /\ Fine(L[n])
                               /\ L[n].dependencies = {} \/ Left(L[n]) + n <= Left(first)}
  <2>0. \A loop \in Collecting : Left(loop) \in Nat
    BY PackagesFinite DEF Left, Collecting
  <2>1. 0 \in T
    <3>1. L[0] = first
      BY <1>3 DEF Iterates
    <3> QED
      BY <1>2, <2>0, <3>1
  <2>2. ASSUME NEW n \in T \cap Nat PROVE n + 1 \in T
    <3>1. L[n + 1] = Follow[L[n]]
      <4>1. n + 1 \in Nat /\ n + 1 # 0 /\ (n + 1) - 1 = n
        OBVIOUS
      <4> QED
        BY <4>1, <1>3 DEF Iterates
    <3>2. Fine(L[n]) /\ L[n] \in Collecting
      BY DEF Fine
    <3>3. /\ Fine(Follow[L[n]]) /\ Follow[L[n]] \in Collecting
          /\ L[n].dependencies = {} => Follow[L[n]] = L[n]
          /\ L[n].dependencies # {} => Left(Follow[L[n]]) < Left(L[n])
      BY <3>2, FollowStep DEF Fine
    <3>4. CASE L[n].dependencies = {}
      BY <3>1, <3>3, <3>4
    <3>5. CASE L[n].dependencies # {}
      <4>1. Left(L[n]) + n <= Left(first)
        BY <3>5
      <4>2. Left(L[n]) \in Nat /\ Left(L[n + 1]) \in Nat /\ Left(first) \in Nat
        BY <1>2, <2>0, <3>1, <3>2, <3>3
      <4>3. Left(L[n + 1]) + (n + 1) <= Left(first)
        BY <3>1, <3>3, <3>5, <4>1, <4>2
      <4> QED
        BY <3>1, <3>3, <4>3
    <3> QED
      BY <3>4, <3>5
  <2> HIDE DEF T
  <2>3. Nat \subseteq T
    BY <2>1, <2>2, NatSetInduction
  <2> QED
    BY <2>3 DEF T
<1>5. Turns \in Nat /\ Left(first) <= Turns
  <2> DEFINE k == Cardinality(Package)
             m == Cardinality(dependencies)
             r == Cardinality(Package \ packages)
  <2>1. k \in Nat /\ m \in Nat /\ r \in Nat /\ m <= k /\ r <= k
    BY PackagesFinite
  <2>2. Left(first) = m + (k + 1) * r /\ Turns = k * (k + 2)
    BY DEF Left, Turns
  <2> HIDE DEF k, m, r
  <2>3. (k + 1) * r <= (k + 1) * k
    BY <2>1, MulMono
  <2>4. k * (k + 2) = (k + 1) * k + k
    BY <2>1
  <2>5. (k + 1) * k \in Nat /\ (k + 1) * r \in Nat
    BY <2>1
  <2> QED
    BY <2>1, <2>2, <2>3, <2>4, <2>5
<1>6. L[Turns].dependencies = {}
  <2> SUFFICES ASSUME L[Turns].dependencies # {} PROVE FALSE
    OBVIOUS
  <2>1. L[Turns] \in Collecting /\ Left(L[Turns]) + Turns <= Left(first)
    BY <1>4, <1>5 DEF Fine
  <2>2. Left(first) \in Nat /\ Left(L[Turns]) \in Nat
    BY <1>2, <2>1, PackagesFinite DEF Left, Collecting
  <2>3. Left(L[Turns]) = 0
    BY <1>5, <2>1, <2>2
  <2> DEFINE m == Cardinality(L[Turns].dependencies)
             c == (Cardinality(Package) + 1) * Cardinality(Package \ L[Turns].packages)
  <2>4. m \in Nat /\ c \in Nat /\ m + c = 0
    BY <2>1, <2>3, PackagesFinite DEF Left, Collecting
  <2>5. m = 0
    <3> HIDE DEF m, c
    <3> QED
      BY <2>4
  <2> QED
    BY <2>1, <2>5, PackagesFinite, FS_EmptySet DEF Collecting
<1> QED
  BY <1>1, <1>4, <1>5, <1>6 DEF Fine, Closed, Collecting

(* The loop reaches every crate a binary is compiled from: cargo hears of a *)
(* change of what is watched in any of them, however deep, and of           *)
(* Cargo.lock (generate_rerun_if_changed_instructions).                     *)
THEOREM EveryInputIsTracked == \A p \in Package : WatchedInputs(p) \subseteq Tracked(p)
<1> SUFFICES ASSUME NEW p \in Package PROVE WatchedInputs(p) \subseteq Tracked(p)
  OBVIOUS
<1>1. /\ {p} \subseteq Collect(Dependencies(p), {p})
      /\ Collect(Dependencies(p), {p}) \in Closed
  <2>1. Dependencies(p) \in SUBSET Package /\ {p} \in SUBSET Package
    BY DEF Dependencies
  <2>2. \A d \in {p} : Dependencies(d) \subseteq {p} \cup Dependencies(p)
    OBVIOUS
  <2> QED
    BY <2>1, <2>2, CollectCloses
<1> QED
  BY <1>1 DEF WatchedInputs, Tracked

-----------------------------------------------------------------------------
(* The build scripts.                                                       *)

Locked == {"create", "members", "toml", "build", "compact"}

\* A script works for its own crate, which stays where it is meanwhile; its
\* steps on the workspace are under the lock, its environment asks for a build
\* and cargo has no note of it for these features.
Owners ==
  \A p \in Project :
    /\ job[p] = p
    /\ pc[p] = "run" => runner[p] = p
    /\ p \in todo \/ pc[p] # "idle" => p \in present
    /\ pc[p] \in Locked => lock = p
    /\ pc[p] # "idle" => ~env.skip /\ ~env.dummy /\ record[UnitOf(p, env)] = None

\* What each step under the lock leaves to the next.
Staged ==
  \A p \in Project :
    /\ pc[p] = "members" => p \in folders
    /\ pc[p] = "toml" => p \in found[p] /\ found[p] \subseteq folders
    /\ pc[p] = "build" => p \in members /\ members \subseteq folders
    /\ pc[p] \in {"members", "toml", "build"} => manifests[p] = WasmFeatures(p, env)

\* Versions only grow.
Versions ==
  /\ wlock <= source[CargoLock]
  /\ \A p \in Project :
       /\ pc[p] # "idle" => \A f \in File : start[p][f] <= source[f]
       /\ pc[p] \in {"members", "toml", "build"} => start[p][CargoLock] <= wlock

\* b is a binary of p of the type environment e asks for, from versions not
\* older than those seen.
Made(p, e, seen, b) ==
  /\ b \in Binary
  /\ b.crate = p /\ b.type = TypeOf(e)
  /\ \A f \in WatchedInputs(p) : seen[f] <= b.from[f] /\ b.from[f] <= source[f]

\* b also has the features and the toolchain environment e asks for.
Exact(p, e, b) == b.features = WasmFeatures(p, e) /\ b.cargo = GetNightlyCargo(e)

\* Where a build with environment e leaves its binary.
ProductOf(p, e) == IF IsReleaseBuild(e) THEN compact[p] ELSE target[<<p, "debug">>]

\* The binary a script has compiled, and then the one it has compacted.
Products ==
  \A p \in Project :
    /\ pc[p] = "compact" => /\ Made(p, env, start[p], target[<<p, TypeOf(env)>>])
                            /\ Exact(p, env, target[<<p, TypeOf(env)>>])
                            /\ Enabled(p, env) \in builtWith[p]
    /\ pc[p] = "output" => /\ Made(p, env, start[p], ProductOf(p, env))
                           /\ Exact(p, env, ProductOf(p, env))

\* A script that has built nothing in environment e, for features fs.
NotBuilt(p, fs, e) ==
  /\ record[<<p, fs>>].env = Restrict(e, RunnerVars)
  /\ e.skip \/ (e.dummy /\ generated[<<p, fs>>] = [crate |-> p, type |-> "dummy"])

\* A script that has built in environment e, for features fs.
Built(p, fs, e) ==
  /\ record[<<p, fs>>].env = Restrict(e, BuilderVars \cup RunnerVars)
  /\ ~e.skip /\ ~e.dummy /\ generated[<<p, fs>>] = [crate |-> p, type |-> TypeOf(e)]
  /\ WatchedInputs(p) \subseteq DOMAIN record[<<p, fs>>].seen
  /\ Made(p, e, record[<<p, fs>>].seen, ProductOf(p, e))
  /\ builtWith[p] \subseteq {fs} => Exact(p, e, ProductOf(p, e))

\* What cargo's notes stand for; a script at work was started after them.
Noted(p, fs) ==
  record[<<p, fs>>] # None =>
    \E e \in Env :
      /\ Enabled(p, e) = fs
      /\ \/ NotBuilt(p, fs, e)
         \/ /\ Built(p, fs, e)
            /\ pc[p] # "idle" =>
                 \A f \in WatchedInputs(p) : record[<<p, fs>>].seen[f] <= start[p][f]
Notes == \A p \in Project, fs \in SUBSET Feature : Noted(p, fs)

BuildIInv == BuildTypeOK /\ Owners /\ Staged /\ Versions /\ Products /\ Notes

(* An empty workspace satisfies the invariant.                              *)
LEMMA BuildInitIInv == BuildInit => BuildIInv
<1> SUFFICES ASSUME BuildInit PROVE BuildIInv
  OBVIOUS
<1>1. BuildTypeOK
  BY ProjectAssumption DEF BuildInit, BuildTypeOK, Version, Step, Unit
<1>2. Owners /\ Staged /\ Versions /\ Products /\ Notes
  BY DEF BuildInit, Owners, Staged, Versions, Products, Notes, Noted, Locked, File, Watched, Unit
<1> QED
  BY <1>1, <1>2 DEF BuildIInv

(* A type is one of the two, and a toolchain one there is.                  *)
LEMMA EnvFacts ==
  ASSUME NEW e \in Env
  PROVE  TypeOf(e) \in BuildType /\ GetNightlyCargo(e) \in Toolchain
<1>1. TypeOf(e) \in BuildType
  BY DEF TypeOf, BuildType
<1>2. (CHOOSE t \in Toolchain : TRUE) \in Toolchain
  BY ProjectAssumption
<1>3. Nightly # {} => (CHOOSE t \in Nightly : TRUE) \in Toolchain
  BY ProjectAssumption
<1>4. e.toolchain # Unset => e.toolchain \in Toolchain
  BY ProjectAssumption
<1> QED
  BY <1>1, <1>2, <1>3, <1>4 DEF GetNightlyCargo

(* The features cargo enables, and those of the wasm build, are features.   *)
LEMMA FeatureFacts ==
  ASSUME NEW p \in Project, NEW e \in Env
  PROVE  /\ Enabled(p, e) \in SUBSET Feature /\ UnitOf(p, e) = <<p, Enabled(p, e)>>
         /\ UnitOf(p, e) \in Unit /\ WasmFeatures(p, e) \in SUBSET Feature
<1>1. Enabled(p, e) \in SUBSET Feature
  BY ProjectAssumption DEF Enabled
<1>2. \A f : f \in {"runtime-wasm"} /\ HasRuntimeWasmFeatureDeclared(p) => f \in Feature
  BY ProjectAssumption DEF HasRuntimeWasmFeatureDeclared
<1> QED
  BY <1>1, <1>2 DEF UnitOf, Unit, WasmFeatures, ProjectEnabledFeatures

(* What a binary is compiled from are files.                                *)
LEMMA InputsAreFiles ==
  ASSUME NEW p \in Project
  PROVE  /\ CargoLock \in WatchedInputs(p) /\ WatchedInputs(p) \subseteq Inputs(p)
         /\ Inputs(p) \subseteq File /\ CargoLock \in File
         /\ WatchedInputs(p) \subseteq File
BY DEF WatchedInputs, Inputs, File, Watched

(* The versions a binary is made from are numbers between those seen and    *)
(* the present ones.                                                        *)
LEMMA MadeFacts ==
  ASSUME BuildTypeOK, NEW p \in Project, NEW e, NEW seen, NEW b, Made(p, e, seen, b)
  PROVE  \A f \in WatchedInputs(p) :
           b.from[f] \in Int /\ source[f] \in Int /\ start[p][f] \in Int
<1>1. \A f \in WatchedInputs(p) : b.from[f] \in Int
  <2>1. PICK q \in Project : b \in [crate : {q}, type : BuildType, cargo : Toolchain,
                                    features : SUBSET Feature, from : [Inputs(q) -> Version]]
    BY DEF Made, Binary
  <2>2. q = p
    BY <2>1 DEF Made
  <2> QED
    BY <2>1, <2>2, InputsAreFiles, ProjectAssumption DEF Version
<1>2. \A f \in WatchedInputs(p) : source[f] \in Int /\ start[p][f] \in Int
  BY InputsAreFiles, ProjectAssumption DEF BuildTypeOK, Version
<1> QED
  BY <1>1, <1>2

(* A note stands while what it is about is left alone.                      *)
LEMMA NoteKept ==
  ASSUME NEW q \in Project, NEW fs \in SUBSET Feature, Noted(q, fs),
         record'[<<q, fs>>] = record[<<q, fs>>], generated'[<<q, fs>>] = generated[<<q, fs>>],
         compact'[q] = compact[q], target'[<<q, "debug">>] = target[<<q, "debug">>],
         source' = source, builtWith[q] \subseteq builtWith'[q],
         pc'[q] # "idle" => pc[q] # "idle" /\ start'[q] = start[q]
  PROVE  Noted(q, fs)'
<1> SUFFICES ASSUME record[<<q, fs>>] # None PROVE Noted(q, fs)'
  BY DEF Noted
<1>1. PICK e \in Env :
        /\ Enabled(q, e) = fs
        /\ \/ NotBuilt(q, fs, e)
           \/ /\ Built(q, fs, e)
              /\ pc[q] # "idle" =>
                   \A f \in WatchedInputs(q) : record[<<q, fs>>].seen[f] <= start[q][f]
  BY DEF Noted
<1>2. NotBuilt(q, fs, e) => NotBuilt(q, fs, e)'
  BY DEF NotBuilt
<1>3. ProductOf(q, e)' = ProductOf(q, e)
  BY DEF ProductOf
<1>4. Built(q, fs, e) => Built(q, fs, e)'
  BY <1>3 DEF Built, Made, Exact
<1> QED
  BY <1>1, <1>2, <1>4 DEF Noted

(* A script that leaves no note says nothing of its binary.                 *)
LEMMA NoNote ==
  ASSUME NEW q \in Project, NEW fs \in SUBSET Feature, record'[<<q, fs>>] = None
  PROVE  Noted(q, fs)'
BY DEF Noted

(* A script that compiles for other features, later, leaves a binary that   *)
(* is no older than what the note has seen.                                 *)
LEMMA NoteOfOthers ==
  ASSUME BuildIInv, NEW p \in Project, NEW fs \in SUBSET Feature, fs # Enabled(p, env),
         pc[p] # "idle", NEW b, Made(p, env, start[p], b), Enabled(p, env) \in builtWith'[p],
         UNCHANGED <<record, generated, source, start>>,
         \A e \in Env : \/ ProductOf(p, e)' = ProductOf(p, e)
                        \/ ProductOf(p, e)' = b /\ TypeOf(e) = TypeOf(env)
  PROVE  Noted(p, fs)'
<1> SUFFICES ASSUME record[<<p, fs>>] # None PROVE Noted(p, fs)'
  BY DEF Noted
<1>1. PICK e \in Env :
        /\ Enabled(p, e) = fs
        /\ \/ NotBuilt(p, fs, e)
           \/ /\ Built(p, fs, e)
              /\ \A f \in WatchedInputs(p) : record[<<p, fs>>].seen[f] <= start[p][f]
  BY DEF Noted, Notes, BuildIInv
<1>2. CASE NotBuilt(p, fs, e)
  <2>1. NotBuilt(p, fs, e)'
    BY <1>2 DEF NotBuilt
  <2> QED
    BY <1>1, <2>1 DEF Noted
<1>3. CASE /\ Built(p, fs, e)
           /\ \A f \in WatchedInputs(p) : record[<<p, fs>>].seen[f] <= start[p][f]
  <2> DEFINE seen == record[<<p, fs>>].seen
  <2>1. Made(p, e, seen, ProductOf(p, e))'
    <3>1. CASE ProductOf(p, e)' = ProductOf(p, e)
      BY <1>3, <3>1 DEF Built, Made
    <3>2. CASE ProductOf(p, e)' = b /\ TypeOf(e) = TypeOf(env)
      <4>1. \A f \in WatchedInputs(p) : seen[f] \in Int
        <5>1. record[<<p, fs>>] \in Record
          BY DEF BuildIInv, BuildTypeOK, Unit
        <5>2. PICK ws \in SUBSET Watched : seen \in [ws -> Version]
          BY <5>1 DEF Record
        <5> QED
          BY <1>3, <5>2, ProjectAssumption DEF Built, Version
      <4>2. \A f \in WatchedInputs(p) : b.from[f] \in Int /\ start[p][f] \in Int
        BY MadeFacts DEF BuildIInv
      <4>3. \A f \in WatchedInputs(p) : seen[f] <= b.from[f] /\ b.from[f] <= source[f]
        BY <1>3, <4>1, <4>2 DEF Made
      <4> QED
        BY <3>2, <4>3 DEF Made
    <3> QED
      BY <3>1, <3>2
  <2>2. ~(builtWith'[p] \subseteq {fs})
    OBVIOUS
  <2>3. Built(p, fs, e)'
    BY <1>3, <2>1, <2>2 DEF Built
  <2> QED
    BY <1>1, <1>3, <2>3 DEF Noted
<1> QED
  BY <1>1, <1>2, <1>3

(* Cargo is started when nothing runs, with an environment there is.        *)
LEMMA CargoIInv ==
  ASSUME BuildIInv, NEW e \in Env, Cargo(e)
  PROVE  BuildIInv'
<1> USE DEF BuildIInv, Cargo, Idle, repoVars, workspaceVars
<1>1. BuildTypeOK'
  BY ProjectAssumption DEF BuildTypeOK
<1>2. Owners'
  BY DEF Owners, BuildTypeOK, Locked
<1>3. Staged' /\ Versions'
  BY DEF Staged, Versions
<1>4. Products'
  BY DEF Products
<1>5. Notes'
  BY NoteKept DEF Notes
<1> QED
  BY <1>1, <1>2, <1>3, <1>4, <1>5

(* An edit raises a version; nothing has been compiled from a later one.    *)
LEMMA EditIInv ==
  ASSUME BuildIInv, NEW f \in File, Edit(f)
  PROVE  BuildIInv'
<1> USE DEF BuildIInv, Edit, cargoVars, workspaceVars
<1>1. source[f] \in Nat /\ source[f] < MaxEdits
  <2>1. IsFiniteSet(File) /\ \A g \in File : source[g] \in Nat
    <3>1. IsFiniteSet(Watched)
      BY ProjectAssumption, FS_AddElement DEF Watched
    <3> QED
      <4>1. IsFiniteSet(File)
        BY <3>1, ProjectAssumption, FS_Union DEF File
      <4>2. \A g \in File : source[g] \in Nat
        BY ProjectAssumption DEF BuildTypeOK, Version
      <4> QED
        BY <4>1, <4>2
  <2> QED
    BY <2>1, SumNat, ProjectAssumption
<1>2. source' \in [File -> Version]
  BY <1>1, ProjectAssumption DEF BuildTypeOK, Version
<1>3. BuildTypeOK'
  BY <1>2 DEF BuildTypeOK
<1>4. /\ \A g \in File : source[g] \in Nat /\ source'[g] \in Nat /\ source[g] <= source'[g]
      /\ wlock \in Nat /\ \A p \in Project, g \in File : start[p][g] \in Nat
  BY <1>1, <1>2, ProjectAssumption DEF BuildTypeOK, Version
<1>5. Owners' /\ Staged'
  BY DEF Owners, Staged, BuildTypeOK
<1>6. Versions'
  BY <1>4 DEF Versions, File, Watched
<1>7. ASSUME NEW p \in Project, NEW e, NEW seen, NEW b, Made(p, e, seen, b)
      PROVE  Made(p, e, seen, b)'
  <2>1. \A g \in WatchedInputs(p) : b.from[g] \in Int
    BY <1>7, MadeFacts
  <2> QED
    BY <1>4, <1>7, <2>1, InputsAreFiles DEF Made
<1>8. Products'
  BY <1>7 DEF Products, ProductOf, Exact
<1>9. Notes'
  <2> SUFFICES ASSUME NEW p \in Project, NEW fs \in SUBSET Feature, record[<<p, fs>>] # None
               PROVE  Noted(p, fs)'
    BY DEF Notes, Noted
  <2>1. PICK e \in Env :
          /\ Enabled(p, e) = fs
          /\ \/ NotBuilt(p, fs, e)
             \/ /\ Built(p, fs, e)
                /\ pc[p] # "idle" =>
                     \A g \in WatchedInputs(p) : record[<<p, fs>>].seen[g] <= start[p][g]
    BY DEF Notes, Noted
  <2>2. NotBuilt(p, fs, e) => NotBuilt(p, fs, e)'
    BY DEF NotBuilt
  <2>3. Built(p, fs, e) => Built(p, fs, e)'
    BY <1>7 DEF Built, ProductOf, Exact
  <2> QED
    BY <2>1, <2>2, <2>3 DEF Noted
<1> QED
  BY <1>3, <1>5, <1>6, <1>8, <1>9

(* A crate is moved when nothing runs.                                      *)
LEMMA MoveIInv ==
  ASSUME BuildIInv, NEW p \in Project, Move(p)
  PROVE  BuildIInv'
<1> USE DEF BuildIInv, Move, Idle, workspaceVars
<1>1. BuildTypeOK'
  BY DEF BuildTypeOK
<1>2. Owners'
  BY DEF Owners, BuildTypeOK, Locked
<1>3. Staged' /\ Versions' /\ Products'
  BY DEF Staged, Versions, Products
<1>4. Notes'
  <2> SUFFICES ASSUME NEW q \in Project, NEW fs \in SUBSET Feature PROVE Noted(q, fs)'
    BY DEF Notes
  <2>1. Noted(q, fs)
    BY DEF Notes
  <2>2. <<q, fs>> \in Unit /\ <<q, fs>>[1] = q
    BY DEF Unit
  <2> QED
    BY <2>1, <2>2, NoteKept, NoNote
<1> QED
  BY <1>1, <1>2, <1>3, <1>4

(* A script that fails releases the lock if it is its own.                  *)
LEMMA FailIInv ==
  ASSUME BuildIInv, NEW p \in Project, Fail(p)
  PROVE  BuildIInv'
<1> USE DEF BuildIInv, Fail, End, repoVars, workspaceVars
<1>0. env \in Env /\ UnitOf(p, env) \in Unit /\ \A q \in Project : UnitOf(q, env) \in Unit
  BY FeatureFacts DEF BuildTypeOK
<1>1. BuildTypeOK'
  BY <1>0, ProjectAssumption DEF BuildTypeOK, Step, Version
<1>2. Owners'
  BY <1>0 DEF Owners, BuildTypeOK, Locked
<1>3. Staged'
  BY DEF Staged, BuildTypeOK
<1>4. Versions'
  BY DEF Versions, BuildTypeOK
<1>5. Products'
  BY DEF Products, BuildTypeOK, Made, Exact, ProductOf
<1>6. Notes'
  <2> SUFFICES ASSUME NEW q \in Project, NEW fs \in SUBSET Feature PROVE Noted(q, fs)'
    BY DEF Notes
  <2>1. Noted(q, fs) /\ <<q, fs>> \in Unit
    BY DEF Notes, Unit
  <2>2. CASE <<q, fs>> = UnitOf(p, env)
    BY <2>1, <2>2, NoNote DEF BuildTypeOK
  <2>3. CASE <<q, fs>> # UnitOf(p, env)
    BY <2>1, <2>3, NoteKept DEF BuildTypeOK
  <2> QED
    BY <2>2, <2>3
<1> QED
  BY <1>1, <1>2, <1>3, <1>4, <1>5, <1>6

(* The runner notes what it has not built, or starts a build.               *)
LEMMA BuildStepIInv ==
  ASSUME BuildIInv, NEW p \in Project, Build(p)
  PROVE  BuildIInv'
<1> USE DEF BuildIInv, repoVars, workspaceVars
<1>0. /\ p \in todo /\ todo' = todo \ {p}
      /\ UNCHANGED <<source, present, folders, manifests, builtWith, members, wlock, target, compact,
                     env, builds, job, found, lock>>
  BY DEF Build
<1> DEFINE u == UnitOf(p, env)
           own == Enabled(p, env)
<1>u. env \in Env /\ u = <<p, own>> /\ u \in Unit /\ own \in SUBSET Feature
      /\ \A q \in Project : UnitOf(q, env) = <<q, Enabled(q, env)>> /\ UnitOf(q, env) \in Unit
  BY FeatureFacts DEF BuildTypeOK
<1> HIDE DEF u, own
<1>1. CASE /\ env.skip \/ env.dummy
           /\ record' = [record EXCEPT ![u] = Unbuilt(p)]
           /\ \/ env.skip /\ UNCHANGED generated
              \/ env.dummy /\ generated' = [generated EXCEPT ![u] = [crate |-> p, type |-> "dummy"]]
           /\ UNCHANGED <<runner, pc, start>>
  <2>1. Unbuilt(p) \in Record
    <3>1. Restrict(source, {}) \in [{} -> Version] /\ {} \in SUBSET Watched
      BY DEF Restrict
    <3>2. RunnerVars \in SUBSET Variable /\ env \in Env
      BY DEF RunnerVars, Variable, BuildTypeOK
    <3> QED
      BY <3>1, <3>2 DEF Unbuilt, Record
  <2>2. generated' \in [Unit -> Output \cup {None}]
    <3>1. [crate |-> p, type |-> "dummy"] \in Output
      BY DEF Output
    <3> QED
      BY <1>1, <3>1 DEF BuildTypeOK
  <2>3. BuildTypeOK'
    BY <1>0, <1>1, <2>1, <2>2 DEF BuildTypeOK
  <2>4. pc[p] = "idle" => Owners'
    <3>1. \A q \in Project : q # p => record'[UnitOf(q, env)] = record[UnitOf(q, env)]
      BY <1>u, <1>1 DEF BuildTypeOK
    <3> QED
      BY <1>0, <1>1, <3>1 DEF Owners, BuildTypeOK, Locked
  <2>5. pc[p] = "idle"
    BY <1>1 DEF Owners
  <2>6. Staged' /\ Versions' /\ Products'
    BY <1>0, <1>1 DEF Staged, Versions, Products, Made, Exact, ProductOf
  <2>7. Notes'
    <3> SUFFICES ASSUME NEW q \in Project, NEW fs \in SUBSET Feature PROVE Noted(q, fs)'
      BY DEF Notes
    <3>0. <<q, fs>> \in Unit /\ Noted(q, fs)
      BY DEF Unit, Notes
    <3>1. CASE <<q, fs>> # u
      BY <1>0, <1>1, <3>0, <3>1, NoteKept DEF BuildTypeOK
    <3>2. CASE <<q, fs>> = u
      <4>0. q = p /\ fs = own
        BY <1>u, <3>2
      <4>1. record'[<<p, own>>].env = Restrict(env, RunnerVars)
        BY <1>u, <1>1 DEF Unbuilt, BuildTypeOK
      <4>2. NotBuilt(p, own, env)'
        <5>1. own' = own
          BY <1>0 DEF own
        <5> QED
          BY <1>0, <1>u, <1>1, <4>1, <5>1 DEF NotBuilt, BuildTypeOK
      <4> QED
        BY <1>0, <1>u, <4>0, <4>2 DEF Noted, own
    <3> QED
      BY <3>1, <3>2
  <2> QED
    BY <2>3, <2>4, <2>5, <2>6, <2>7
<1>2. CASE /\ ~env.skip /\ ~env.dummy
           /\ start' = [start EXCEPT ![p] = source]
           /\ runner' = [runner EXCEPT ![p] = p]
           /\ pc' = [pc EXCEPT ![p] = "run"]
           /\ record' = [record EXCEPT ![u] = None]
           /\ UNCHANGED generated
  <2>1. BuildTypeOK'
    BY <1>0, <1>2 DEF BuildTypeOK, Step
  <2>2. Owners'
    <3>1. /\ \A q \in Project : q # p => record'[UnitOf(q, env)] = record[UnitOf(q, env)]
          /\ record'[UnitOf(p, env)] = None
      BY <1>u, <1>2 DEF BuildTypeOK, u
    <3> QED
      BY <1>0, <1>2, <3>1 DEF Owners, BuildTypeOK, Locked
  <2>3. Staged'
    BY <1>0, <1>2 DEF Staged, BuildTypeOK
  <2>4. Versions'
    BY <1>0, <1>2, ProjectAssumption DEF Versions, BuildTypeOK, Version
  <2>5. Products'
    BY <1>0, <1>2 DEF Products, BuildTypeOK, Made, Exact, ProductOf
  <2>6. Notes'
    <3> SUFFICES ASSUME NEW q \in Project, NEW fs \in SUBSET Feature PROVE Noted(q, fs)'
      BY DEF Notes
    <3>0. <<q, fs>> \in Unit /\ Noted(q, fs)
      BY DEF Unit, Notes
    <3>1. CASE <<q, fs>> = u
      BY <1>2, <3>0, <3>1, NoNote DEF BuildTypeOK
    <3>2. CASE q # p
      BY <1>0, <1>u, <1>2, <3>0, <3>2, NoteKept DEF BuildTypeOK
    <3>3. CASE q = p /\ <<q, fs>> # u
      <4> SUFFICES ASSUME record[<<p, fs>>] # None PROVE Noted(p, fs)'
        BY <1>2, <3>0, <3>3 DEF Noted, BuildTypeOK
      <4>1. PICK e \in Env : Enabled(p, e) = fs /\ (NotBuilt(p, fs, e) \/ Built(p, fs, e))
        BY <3>0, <3>3 DEF Noted
      <4>2. record'[<<p, fs>>] = record[<<p, fs>>] /\ start'[p] = source
        BY <1>2, <3>0, <3>3 DEF BuildTypeOK
      <4>3. NotBuilt(p, fs, e) => NotBuilt(p, fs, e)'
        BY <1>2, <4>2 DEF NotBuilt
      <4>4. Built(p, fs, e) => Built(p, fs, e)'
        BY <1>0, <1>2, <4>2 DEF Built, Made, Exact, ProductOf
      <4>5. ASSUME Built(p, fs, e), NEW f \in WatchedInputs(p)
            PROVE  record[<<p, fs>>].seen[f] <= source[f]
        <5>1. ProductOf(p, e).from[f] \in Int /\ source[f] \in Int
          BY <4>5, MadeFacts DEF Built
        <5>2. record[<<p, fs>>].seen[f] \in Int
          <6>1. record[<<p, fs>>] \in Record
            BY <3>0, <3>3 DEF BuildTypeOK
          <6>2. PICK ws \in SUBSET Watched : record[<<p, fs>>].seen \in [ws -> Version]
            BY <6>1 DEF Record
          <6> QED
            BY <4>5, <6>2, ProjectAssumption DEF Built, Version
        <5> QED
          BY <4>5, <5>1, <5>2 DEF Built, Made
      <4> QED
        BY <4>1, <4>2, <4>3, <4>4, <4>5 DEF Noted
    <3> QED
      BY <3>1, <3>2, <3>3
  <2> QED
    BY <2>1, <2>2, <2>3, <2>4, <2>5, <2>6
<1> QED
  <2> USE DEF CheckSkipBuild, CheckProvideDummyWasmBinary, RunnerFolder, u
  <2>1. CASE /\ CheckSkipBuild(env)
             /\ record' = [record EXCEPT ![UnitOf(p, env)] = Unbuilt(p)]
             /\ UNCHANGED <<generated, runner, pc, start>>
    BY <1>1, <2>1
  <2>2. CASE /\ ~CheckSkipBuild(env) /\ CheckProvideDummyWasmBinary(env)
             /\ generated' = [generated EXCEPT ![UnitOf(p, env)] = [crate |-> p, type |-> "dummy"]]
             /\ record' = [record EXCEPT ![UnitOf(p, env)] = Unbuilt(p)]
             /\ UNCHANGED <<runner, pc, start>>
    BY <1>1, <2>2
  <2>3. CASE /\ ~CheckSkipBuild(env) /\ ~CheckProvideDummyWasmBinary(env)
             /\ start' = [start EXCEPT ![p] = source]
             /\ runner' = [runner EXCEPT ![RunnerFolder(p)] = p]
             /\ pc' = [pc EXCEPT ![p] = "run"]
             /\ record' = [record EXCEPT ![UnitOf(p, env)] = None]
             /\ UNCHANGED generated
    BY <1>2, <2>3
  <2> QED
    BY <2>1, <2>2, <2>3 DEF Build

(* The steps that change nothing but their script, the lock and the project *)
(* folders of the workspace leave the binaries and the notes alone.         *)
LEMMA PlainStep ==
  ASSUME BuildIInv, NEW p \in Project, NEW to \in Step \ {"idle", "output", "compact"},
         pc[p] # "idle", pc' = [pc EXCEPT ![p] = to],
         UNCHANGED <<repoVars, cargoVars, target, compact, generated, builtWith>>
  PROVE  Products' /\ Notes'
<1> USE DEF BuildIInv, repoVars, cargoVars
<1>1. Products'
  BY DEF Products, BuildTypeOK, Made, Exact, ProductOf
<1>2. Notes'
  <2>1. \A q \in Project : pc'[q] # "idle" => pc[q] # "idle"
    BY DEF BuildTypeOK
  <2> QED
    BY <2>1, NoteKept DEF Notes
<1> QED
  BY <1>1, <1>2

(* The runner builds what its own folder holds, which is its crate.         *)
LEMMA RunProjectIInv ==
  ASSUME BuildIInv, NEW p \in Project, RunProject(p)
  PROVE  BuildIInv'
<1>1. CASE pc[p] = "run" /\ Fail(p)
  BY <1>1, FailIInv
<1>2. CASE /\ At(p, "run", "lock")
           /\ job' = [job EXCEPT ![p] = runner[RunnerFolder(p)]]
           /\ UNCHANGED <<repoVars, cargoVars, workspaceVars, found, runner, lock, generated>>
  <2> USE <1>2 DEF BuildIInv, At, RunnerFolder, workspaceVars
  <2>1. Products' /\ Notes'
    BY PlainStep DEF Step
  <2> USE DEF repoVars, cargoVars
  <2>2. job' = job
    BY DEF Owners, BuildTypeOK
  <2>3. BuildTypeOK' /\ Owners'
    BY <2>2 DEF BuildTypeOK, Owners, Step, Locked
  <2>4. Staged' /\ Versions'
    BY <2>2 DEF Staged, Versions, BuildTypeOK
  <2> QED
    BY <2>1, <2>3, <2>4
<1> QED
  BY <1>1, <1>2 DEF RunProject

(* The lock is taken when nobody has it.                                    *)
LEMMA TakeLockIInv ==
  ASSUME BuildIInv, NEW p \in Project, TakeLock(p)
  PROVE  BuildIInv'
<1> USE NoneIsNothing DEF BuildIInv, TakeLock, At, workspaceVars
<1>1. Products' /\ Notes'
  BY PlainStep DEF Step
<1> USE DEF repoVars, cargoVars
<1>2. BuildTypeOK' /\ Owners'
  BY DEF BuildTypeOK, Owners, Step, Locked
<1>3. Staged' /\ Versions'
  BY DEF Staged, Versions, BuildTypeOK
<1> QED
  BY <1>1, <1>2, <1>3

(* The project's folder and the Cargo.lock of the workspace: nobody else is *)
(* at work on them.                                                         *)
LEMMA CreateProjectIInv ==
  ASSUME BuildIInv, NEW p \in Project, CreateProject(p)
  PROVE  BuildIInv'
<1> USE DEF BuildIInv, CreateProject, At
<1>0. \A q \in Project : q # p => pc[q] \notin Locked
  BY DEF Owners, Locked
<1>1. Products' /\ Notes'
  BY PlainStep DEF Step
<1> USE DEF repoVars, cargoVars
<1>2. job[p] = p /\ WasmFeatures(p, env) \in SUBSET Feature
  BY FeatureFacts DEF Owners, BuildTypeOK
<1>3. BuildTypeOK' /\ Owners'
  BY <1>2 DEF BuildTypeOK, Owners, Step, Locked, File, Watched
<1>4. Staged'
  BY <1>0, <1>2 DEF Staged, BuildTypeOK, Owners, Locked
<1>5. Versions'
  BY <1>0, ProjectAssumption DEF Versions, BuildTypeOK, Locked, File, Watched, Version
<1> QED
  BY <1>1, <1>3, <1>4, <1>5

(* Folders of crates that are gone are removed, the script's own is not.    *)
LEMMA FindMembersIInv ==
  ASSUME BuildIInv, NEW p \in Project, FindAndClearWorkspaceMembers(p)
  PROVE  BuildIInv'
<1> USE DEF BuildIInv, FindAndClearWorkspaceMembers, At
<1>0. \A q \in Project : q # p => pc[q] \notin Locked
  BY DEF Owners, Locked
<1>1. Products' /\ Notes'
  BY PlainStep DEF Step
<1> USE DEF repoVars, cargoVars
<1>2. BuildTypeOK' /\ Owners'
  BY DEF BuildTypeOK, Owners, Step, Locked
<1>3. Staged'
  BY <1>0 DEF Staged, BuildTypeOK, Owners, Locked
<1>4. Versions'
  BY DEF Versions, BuildTypeOK
<1> QED
  BY <1>1, <1>2, <1>3, <1>4

(* The members are those found, and the folders still are the same.         *)
LEMMA WorkspaceProjectIInv ==
  ASSUME BuildIInv, NEW p \in Project, CreateWasmWorkspaceProject(p)
  PROVE  BuildIInv'
<1> USE DEF BuildIInv, CreateWasmWorkspaceProject, At
<1>0. \A q \in Project : q # p => pc[q] \notin Locked
  BY DEF Owners, Locked
<1>1. Products' /\ Notes'
  BY PlainStep DEF Step
<1> USE DEF repoVars, cargoVars
<1>2. BuildTypeOK' /\ Owners'
  BY DEF BuildTypeOK, Owners, Step, Locked
<1>3. Staged'
  BY <1>0 DEF Staged, BuildTypeOK, Owners, Locked
<1>4. Versions'
  BY DEF Versions, BuildTypeOK
<1> QED
  BY <1>1, <1>2, <1>3, <1>4

(* The binary is compiled from the sources there are and the Cargo.lock     *)
(* copied since the script was started.                                     *)
LEMMA BuildProjectIInv ==
  ASSUME BuildIInv, NEW p \in Project, BuildProject(p)
  PROVE  BuildIInv'
<1> DEFINE b == [crate |-> job[p], type |-> TypeOf(env), cargo |-> GetNightlyCargo(env),
                 features |-> manifests[job[p]],
                 from |-> Restrict([source EXCEPT ![CargoLock] = wlock], Inputs(job[p]))]
<1>1. CASE Fail(p)
  BY <1>1, FailIInv
<1>2. CASE /\ At(p, "build", "compact")
           /\ target' = [target EXCEPT ![<<job[p], TypeOf(env)>>] = b]
           /\ builtWith' = [builtWith EXCEPT ![job[p]] = @ \cup {Enabled(job[p], env)}]
           /\ UNCHANGED <<repoVars, cargoVars, folders, manifests, members, wlock, compact, job, found,
                          runner, lock, generated>>
  <2> USE DEF BuildIInv, At, repoVars, cargoVars
  <2>1. /\ job[p] = p /\ env \in Env /\ TypeOf(env) \in BuildType /\ GetNightlyCargo(env) \in Toolchain
        /\ manifests[p] = WasmFeatures(p, env) /\ manifests[p] \in SUBSET Feature
        /\ Enabled(p, env) \in SUBSET Feature
    BY <1>2, EnvFacts, FeatureFacts DEF Owners, BuildTypeOK, Staged
  <2>2. Made(p, env, start[p], b) /\ Exact(p, env, b)
    <3> DEFINE from == [f \in Inputs(p) |-> IF f = CargoLock THEN wlock ELSE source[f]]
    <3>1. b = [crate |-> p, type |-> TypeOf(env), cargo |-> GetNightlyCargo(env),
               features |-> manifests[p], from |-> from]
      <4>1. Restrict([source EXCEPT ![CargoLock] = wlock], Inputs(p)) = from
        BY InputsAreFiles DEF Restrict, BuildTypeOK
      <4> QED
        BY <2>1, <4>1
    <3>2. from \in [Inputs(p) -> Version]
      BY InputsAreFiles DEF BuildTypeOK
    <3> HIDE DEF from
    <3>3. b \in [crate : {p}, type : BuildType, cargo : Toolchain, features : SUBSET Feature,
                 from : [Inputs(p) -> Version]]
      BY <2>1, <3>1, <3>2
    <3>4. b \in Binary
      BY <3>3 DEF Binary
    <3>5. \A f \in WatchedInputs(p) : start[p][f] <= from[f] /\ from[f] <= source[f]
      <4>1. /\ \A f \in File : start[p][f] <= source[f] /\ source[f] \in Nat
            /\ start[p][CargoLock] <= wlock /\ wlock <= source[CargoLock]
        <5>1. \A f \in File : source[f] \in Nat
          BY ProjectAssumption DEF BuildTypeOK, Version
        <5>2. pc[p] = "build"
          BY <1>2
        <5> QED
          BY <5>1, <5>2 DEF Versions
      <4> QED
        BY <4>1, InputsAreFiles DEF from
    <3> HIDE DEF b
    <3> QED
      BY <2>1, <3>1, <3>4, <3>5 DEF Made, Exact
  <2> HIDE DEF b
  <2>3. target' = [target EXCEPT ![<<p, TypeOf(env)>>] = b] /\ b \in Binary
    BY <1>2, <2>1, <2>2 DEF Made
  <2>4. BuildTypeOK'
    <3>1. builtWith' \in [Project -> SUBSET SUBSET Feature]
      BY <1>2, <2>1 DEF BuildTypeOK
    <3> QED
      BY <1>2, <2>1, <2>3, <3>1 DEF BuildTypeOK, Step
  <2>5. Owners'
    BY <1>2 DEF BuildTypeOK, Owners, Locked
  <2>6. Staged' /\ Versions'
    BY <1>2 DEF Staged, Versions, BuildTypeOK
  <2>7. /\ \A q \in Project, t \in BuildType : q # p => target'[<<q, t>>] = target[<<q, t>>]
        /\ \A q \in Project : builtWith[q] \subseteq builtWith'[q]
        /\ Enabled(p, env) \in builtWith'[p]
    BY <1>2, <2>1, <2>3 DEF BuildTypeOK
  <2>8. Products'
    <3> SUFFICES ASSUME NEW q \in Project
                 PROVE  /\ pc'[q] = "compact" => /\ Made(q, env, start[q], target[<<q, TypeOf(env)>>])'
                                                 /\ Exact(q, env, target[<<q, TypeOf(env)>>])'
                                                 /\ Enabled(q, env)' \in builtWith'[q]
                        /\ pc'[q] = "output" => /\ Made(q, env, start[q], ProductOf(q, env))'
                                                /\ Exact(q, env, ProductOf(q, env))'
      BY DEF Products
    <3>1. CASE q = p
      <4>1. pc'[q] = "compact" /\ target'[<<p, TypeOf(env)>>] = b
        BY <1>2, <2>1, <2>3, <3>1 DEF BuildTypeOK
      <4> QED
        BY <1>2, <2>2, <2>7, <3>1, <4>1 DEF Made, Exact, Enabled
    <3>2. CASE q # p
      <4>1. pc'[q] = pc[q] /\ target'[<<q, TypeOf(env)>>] = target[<<q, TypeOf(env)>>]
            /\ target'[<<q, "debug">>] = target[<<q, "debug">>]
        BY <1>2, <2>1, <2>7, <3>2 DEF BuildTypeOK, BuildType
      <4> QED
        <5>1. env' = env /\ start' = start /\ source' = source /\ compact' = compact
          BY <1>2
        <5>2. pc[q] = "compact" => Enabled(q, env) \in builtWith[q]
          BY DEF Products
        <5> QED
          BY <2>7, <4>1, <5>1, <5>2 DEF Products, Made, Exact, ProductOf
    <3> QED
      BY <3>1, <3>2
  <2>9. Notes'
    <3> SUFFICES ASSUME NEW q \in Project, NEW fs \in SUBSET Feature PROVE Noted(q, fs)'
      BY DEF Notes
    <3>0. Noted(q, fs) /\ pc[p] # "idle" /\ record[<<p, Enabled(p, env)>>] = None
      BY <1>2 DEF Notes, Owners, UnitOf
    <3>1. CASE q = p /\ fs = Enabled(p, env)
      BY <1>2, <3>0, <3>1, NoNote
    <3>2. CASE q # p
      <4>1. /\ target'[<<q, "debug">>] = target[<<q, "debug">>] /\ builtWith[q] \subseteq builtWith'[q]
            /\ pc'[q] = pc[q]
        BY <1>2, <2>7, <3>2 DEF BuildType, BuildTypeOK
      <4>2. UNCHANGED <<record, generated, compact, source, start>>
        BY <1>2
      <4> QED
        BY <3>0, <4>1, <4>2, NoteKept
    <3>3. CASE q = p /\ fs # Enabled(p, env)
      <4>1. \A e \in Env : \/ ProductOf(p, e)' = ProductOf(p, e)
                           \/ ProductOf(p, e)' = b /\ TypeOf(e) = TypeOf(env)
        <5>1. TypeOf(env) = "debug" => target'[<<p, "debug">>] = b
          BY <2>1, <2>3 DEF BuildTypeOK
        <5>2. TypeOf(env) # "debug" => target'[<<p, "debug">>] = target[<<p, "debug">>]
          BY <2>1, <2>3 DEF BuildTypeOK, BuildType
        <5> QED
          BY <1>2, <5>1, <5>2 DEF ProductOf, TypeOf
      <4> QED
        BY <1>2, <2>2, <2>7, <3>0, <3>3, <4>1, NoteOfOthers
    <3> QED
      BY <3>1, <3>2, <3>3
  <2> QED
    BY <2>4, <2>5, <2>6, <2>8, <2>9
<1> QED
  BY <1>1, <1>2 DEF BuildProject

(* The binary is compacted, or left where it is, and the lock dropped.      *)
LEMMA CompactIInv ==
  ASSUME BuildIInv, NEW p \in Project, CompactWasmFile(p)
  PROVE  BuildIInv'
<1>1. CASE pc[p] = "compact" /\ Fail(p)
  BY <1>1, FailIInv
<1>2. CASE /\ At(p, "compact", "output")
           /\ compact' = IF IsReleaseBuild(env)
                           THEN [compact EXCEPT ![job[p]] = target[<<job[p], "release">>]]
                           ELSE compact
           /\ lock' = IF lock = p THEN None ELSE lock
           /\ UNCHANGED <<repoVars, cargoVars, folders, manifests, builtWith, members, wlock, target,
                          job, found, runner, generated>>
  <2> USE DEF BuildIInv, At, repoVars, cargoVars
  <2>0. pc[p] = "compact" /\ lock = p /\ job[p] = p
    BY <1>2 DEF Owners, Locked
  <2> DEFINE b == target[<<p, TypeOf(env)>>]
  <2>1. Made(p, env, start[p], b) /\ Exact(p, env, b) /\ Enabled(p, env) \in builtWith[p]
    BY <2>0 DEF Products
  <2>2. BuildTypeOK'
    <3>1. compact' \in [Project -> Binary \cup {None}]
      BY <1>2, <2>0 DEF BuildTypeOK, BuildType
    <3> QED
      BY <1>2, <3>1 DEF BuildTypeOK, Step
  <2>3. Owners'
    BY <1>2, <2>0 DEF BuildTypeOK, Owners, Locked
  <2>4. Staged' /\ Versions'
    BY <1>2 DEF Staged, Versions, BuildTypeOK
  <2>5. \A q \in Project : q # p => compact'[q] = compact[q] /\ pc'[q] = pc[q]
    BY <1>2, <2>0 DEF BuildTypeOK
  <2>6. ProductOf(p, env)' = target[<<p, TypeOf(env)>>]
    BY <1>2, <2>0 DEF ProductOf, TypeOf, BuildTypeOK, IsReleaseBuild
  <2>7. Products'
    <3> SUFFICES ASSUME NEW q \in Project
                 PROVE  /\ pc'[q] = "compact" => /\ Made(q, env, start[q], target[<<q, TypeOf(env)>>])'
                                                 /\ Exact(q, env, target[<<q, TypeOf(env)>>])'
                                                 /\ Enabled(q, env)' \in builtWith'[q]
                        /\ pc'[q] = "output" => /\ Made(q, env, start[q], ProductOf(q, env))'
                                                /\ Exact(q, env, ProductOf(q, env))'
      BY DEF Products
    <3>1. CASE q = p
      <4>1. pc'[p] = "output"
        BY <1>2 DEF BuildTypeOK
      <4> QED
        BY <1>2, <2>1, <2>6, <3>1, <4>1 DEF Made, Exact
    <3>2. CASE q # p
      BY <1>2, <2>5, <3>2 DEF Products, Made, Exact, ProductOf
    <3> QED
      BY <3>1, <3>2
  <2>8. Notes'
    <3> SUFFICES ASSUME NEW q \in Project, NEW fs \in SUBSET Feature PROVE Noted(q, fs)'
      BY DEF Notes
    <3>0. Noted(q, fs) /\ record[<<p, Enabled(p, env)>>] = None
      BY <2>0 DEF Notes, Owners, UnitOf
    <3>1. CASE q = p /\ fs = Enabled(p, env)
      BY <1>2, <3>0, <3>1, NoNote
    <3>2. CASE q # p
      BY <1>2, <2>5, <3>0, <3>2, NoteKept
    <3>3. CASE q = p /\ fs # Enabled(p, env)
      <4>1. \A e \in Env : \/ ProductOf(p, e)' = ProductOf(p, e)
                           \/ ProductOf(p, e)' = b /\ TypeOf(e) = TypeOf(env)
        BY <1>2, <2>0 DEF ProductOf, TypeOf, BuildTypeOK
      <4> QED
        BY <1>2, <2>0, <2>1, <3>3, <4>1, NoteOfOthers
    <3> QED
      BY <3>1, <3>2, <3>3
  <2> QED
    BY <2>2, <2>3, <2>4, <2>7, <2>8
<1> QED
  BY <1>1, <1>2 DEF CompactWasmFile

(* The output file is written, and cargo notes what to watch.               *)
LEMMA WriteOutputIInv ==
  ASSUME BuildIInv, NEW p \in Project, WriteOutput(p)
  PROVE  BuildIInv'
<1> DEFINE seen == Restrict(start[p], Tracked(p))
           watched == Restrict(env, BuilderVars \cup RunnerVars)
           note == [seen |-> seen, env |-> watched]
           file == [crate |-> p, type |-> TypeOf(env)]
           own == Enabled(p, env)
<1> USE DEF BuildIInv, End, repoVars, workspaceVars
<1>0. /\ pc[p] = "output" /\ job[p] = p /\ ~env.skip /\ ~env.dummy
      /\ pc' = [pc EXCEPT ![p] = "idle"] /\ job' = [job EXCEPT ![p] = p]
      /\ start' = [start EXCEPT ![p] = [f \in File |-> 0]]
      /\ found' = [found EXCEPT ![p] = {}]
      /\ generated' = [generated EXCEPT ![<<p, own>>] = file]
      /\ record' = [record EXCEPT ![<<p, own>>] = note]
      /\ UNCHANGED <<source, present, folders, manifests, builtWith, members, wlock, target, compact,
                     env, builds, todo, runner, lock>>
  BY DEF WriteOutput, Owners, UnitOf
<1>1. /\ env \in Env /\ TypeOf(env) \in BuildType /\ own \in SUBSET Feature /\ <<p, own>> \in Unit
      /\ \A q \in Project : UnitOf(q, env) = <<q, Enabled(q, env)>> /\ UnitOf(q, env) \in Unit
  BY EnvFacts, FeatureFacts DEF BuildTypeOK, UnitOf
<1>2. Tracked(p) \in SUBSET Watched /\ WatchedInputs(p) \subseteq Tracked(p)
  <2>1. p \in Package
    BY ProjectAssumption
  <2>2. Dependencies(p) \in SUBSET Package /\ {p} \in SUBSET Package
        /\ \A d \in {p} : Dependencies(d) \subseteq {p} \cup Dependencies(p)
    BY <2>1 DEF Dependencies
  <2>3. Collect(Dependencies(p), {p}) \in Closed
    BY <2>2, CollectCloses
  <2> QED
    BY <2>1, <2>3, EveryInputIsTracked DEF Tracked, Closed, Watched
<1>3. file \in Output
  BY <1>1 DEF Output
<1>4. note \in Record
  <2>1. seen \in [Tracked(p) -> Version]
    BY <1>2 DEF Restrict, BuildTypeOK, File
  <2>2. BuilderVars \cup RunnerVars \in SUBSET Variable
    BY DEF BuilderVars, RunnerVars, Variable
  <2> HIDE DEF seen
  <2> QED
    BY <1>1, <1>2, <2>1, <2>2 DEF Record
<1> HIDE DEF file, note, own
<1>5. BuildTypeOK'
  BY <1>0, <1>1, <1>3, <1>4, ProjectAssumption DEF BuildTypeOK, Step, Version
<1>6. Owners'
  <2>1. \A q \in Project : q # p => record'[UnitOf(q, env)] = record[UnitOf(q, env)]
    BY <1>0, <1>1 DEF BuildTypeOK
  <2> QED
    BY <1>0, <2>1 DEF BuildTypeOK, Owners, Locked
<1>7. Staged' /\ Versions'
  BY <1>0 DEF Staged, Versions, BuildTypeOK
<1>8. Products'
  BY <1>0 DEF Products, BuildTypeOK, Made, Exact, ProductOf
<1>9. Notes'
  <2> SUFFICES ASSUME NEW q \in Project, NEW fs \in SUBSET Feature PROVE Noted(q, fs)'
    BY DEF Notes
  <2>0. Noted(q, fs) /\ <<q, fs>> \in Unit
    BY DEF Notes, Unit
  <2>1. CASE <<q, fs>> # <<p, own>>
    BY <1>0, <2>0, <2>1, NoteKept DEF BuildTypeOK
  <2>2. CASE q = p /\ fs = own
    <3>1. record'[<<p, own>>] = note /\ generated'[<<p, own>>] = file /\ pc'[p] = "idle"
      BY <1>0, <1>1 DEF BuildTypeOK
    <3>2. note.env = watched /\ note.seen = seen
      BY DEF note
    <3>3. DOMAIN seen = Tracked(p) /\ \A f \in WatchedInputs(p) : seen[f] = start[p][f]
      BY <1>2 DEF Restrict
    <3>4. Made(p, env, start[p], ProductOf(p, env)) /\ Exact(p, env, ProductOf(p, env))
      BY <1>0 DEF Products
    <3> HIDE DEF seen, watched
    <3>5. Made(p, env, record[<<p, own>>].seen, ProductOf(p, env))'
      BY <1>0, <3>1, <3>2, <3>3, <3>4 DEF Made, ProductOf, own
    <3>6. Exact(p, env, ProductOf(p, env))'
      BY <1>0, <3>4 DEF Exact, ProductOf
    <3>7. Built(p, own, env)'
      BY <1>0, <1>2, <3>1, <3>2, <3>3, <3>5, <3>6 DEF Built, watched, file, own
    <3> QED
      BY <1>0, <1>1, <2>2, <3>1, <3>7 DEF Noted, own
  <2> QED
    BY <2>1, <2>2
<1> QED
  BY <1>5, <1>6, <1>7, <1>8, <1>9

(* Every step of cargo, of the developer and of a script preserves the      *)
(* invariant.                                                               *)
LEMMA BuildNextIInv == BuildIInv /\ [BuildNext]_buildVars => BuildIInv'
<1> SUFFICES ASSUME BuildIInv, [BuildNext]_buildVars PROVE BuildIInv'
  OBVIOUS
<1>1. ASSUME NEW p \in Project, Script(p) PROVE BuildIInv'
  BY <1>1, BuildStepIInv, RunProjectIInv, TakeLockIInv, CreateProjectIInv, FindMembersIInv,
     WorkspaceProjectIInv, BuildProjectIInv, CompactIInv, WriteOutputIInv DEF Script
<1>2. CASE UNCHANGED buildVars
  <2> USE <1>2 DEF buildVars, repoVars, cargoVars, workspaceVars, BuildIInv
  <2>1. BuildTypeOK' /\ Owners' /\ Staged' /\ Versions'
    BY DEF BuildTypeOK, Owners, Staged, Versions
  <2>2. Products' /\ Notes'
    BY NoteKept DEF Products, Made, Exact, ProductOf, Notes
  <2> QED
    BY <2>1, <2>2
<1> QED
  BY <1>1, <1>2, CargoIInv, EditIInv, MoveIInv DEF BuildNext

(* In every run of the build scripts the inductive invariant holds, the     *)
(* types of all files and notes among it.                                   *)
THEOREM BuildIsSound == BuildSpec => []BuildIInv
BY BuildInitIInv, BuildNextIInv, PTL DEF BuildSpec

(* While a script's cargo builds, the workspace is whole (WorkspaceLock,    *)
(* create_wasm_workspace_project).                                          *)
THEOREM WorkspaceStaysWhole == BuildSpec => []WorkspaceIsWhole
<1>1. BuildIInv => WorkspaceIsWhole
  BY DEF BuildIInv, WorkspaceIsWhole, Staged, Owners
<1> QED
  BY <1>1, BuildIsSound, PTL

(* What cargo takes for up to date is compiled from what is watched as it   *)
(* is now; with the features and toolchain asked for, if the crate was not  *)
(* compiled in this place for other features                                *)
(* (generate_rerun_if_changed_instructions of both crates).                 *)
THEOREM FreshStaysCurrent == BuildSpec => []FreshIsCurrent
<1>1. BuildIInv => FreshIsCurrent
  <2> SUFFICES ASSUME BuildIInv, NEW p \in present, NEW e \in Env, Fresh(p, e), ~e.skip
               PROVE  /\ generated[UnitOf(p, e)] # None
                      /\ IF e.dummy THEN generated[UnitOf(p, e)].type = "dummy"
                         ELSE LET b == Embedded(p, e) IN
                                /\ b # None /\ b.crate = p /\ b.type = TypeOf(e)
                                /\ \A f \in WatchedInputs(p) : b.from[f] = source[f]
                                /\ builtWith[p] \subseteq {Enabled(p, e)} =>
                                     /\ b.features = WasmFeatures(p, e)
                                     /\ e.toolchain # Unset => b.cargo = e.toolchain
    BY DEF FreshIsCurrent
  <2> DEFINE fs == Enabled(p, e)
             note == record[<<p, fs>>]
             file == generated[<<p, fs>>]
  <2>1. p \in Project /\ e.dummy \in BOOLEAN
    BY ProjectAssumption DEF BuildIInv, BuildTypeOK
  <2>2. /\ UnitOf(p, e) = <<p, fs>> /\ fs \in SUBSET Feature
        /\ note # None /\ note.seen = Restrict(source, DOMAIN note.seen)
        /\ note.env = Restrict(e, DOMAIN note.env)
    BY <2>1, FeatureFacts DEF Fresh
  <2> HIDE DEF fs
  <2>3. PICK d \in Env : Enabled(p, d) = fs /\ (NotBuilt(p, fs, d) \/ Built(p, fs, d))
    BY <2>1, <2>2 DEF BuildIInv, Notes, Noted
  <2>4. CASE NotBuilt(p, fs, d)
    <3>1. Restrict(d, RunnerVars) = Restrict(e, RunnerVars)
      BY <2>2, <2>4 DEF NotBuilt, Restrict
    <3>2. d.skip = e.skip /\ d.dummy = e.dummy
      BY <3>1 DEF Restrict, RunnerVars
    <3>3. file = [crate |-> p, type |-> "dummy"] /\ e.dummy
      BY <2>4, <3>2 DEF NotBuilt
    <3>4. file \in Output
      BY <2>1, <3>3 DEF Output
    <3> QED
      BY <2>2, <3>3, <3>4, NoneIsNothing
  <2>5. CASE Built(p, fs, d)
    <3>1. Restrict(d, BuilderVars \cup RunnerVars) = Restrict(e, BuilderVars \cup RunnerVars)
      BY <2>2, <2>5 DEF Built, Restrict
    <3>2. d.dummy = e.dummy /\ d.type = e.type /\ d.toolchain = e.toolchain
      BY <3>1 DEF Restrict, BuilderVars, RunnerVars
    <3>3. /\ TypeOf(d) = TypeOf(e) /\ TypeOf(e) \in BuildType /\ ~e.dummy
          /\ WasmFeatures(p, d) = WasmFeatures(p, e)
      BY <2>3, <2>5, <3>2, EnvFacts
         DEF Built, TypeOf, IsReleaseBuild, WasmFeatures, ProjectEnabledFeatures, fs
    <3>4. file = [crate |-> p, type |-> TypeOf(e)]
      BY <2>5, <3>3 DEF Built
    <3>5. file \in Output
      BY <2>1, <3>3, <3>4 DEF Output
    <3>6. Embedded(p, e) = ProductOf(p, d)
      BY <2>2, <3>2, <3>4 DEF Embedded, ProductOf, TypeOf, IsReleaseBuild
    <3>7. Made(p, d, note.seen, Embedded(p, e))
      BY <2>5, <3>6 DEF Built
    <3>8. builtWith[p] \subseteq {fs} =>
            /\ Embedded(p, e).features = WasmFeatures(p, e)
            /\ e.toolchain # Unset => Embedded(p, e).cargo = e.toolchain
      BY <2>5, <3>2, <3>3, <3>6 DEF Built, Exact, GetNightlyCargo
    <3>9. ASSUME NEW f \in WatchedInputs(p) PROVE Embedded(p, e).from[f] = source[f]
      <4>1. note.seen[f] = source[f]
        BY <2>2, <2>5 DEF Built, Restrict
      <4>2. source[f] \in Int /\ Embedded(p, e).from[f] \in Int
        BY <2>1, <3>7, MadeFacts DEF BuildIInv
      <4>3. note.seen[f] <= Embedded(p, e).from[f] /\ Embedded(p, e).from[f] <= source[f]
        BY <3>7 DEF Made
      <4> QED
        BY <4>1, <4>2, <4>3
    <3>10. Embedded(p, e) # None /\ file # None
      BY <3>5, <3>7, NoneIsNothing DEF Made
    <3> QED
      BY <2>2, <3>3, <3>7, <3>8, <3>9, <3>10 DEF Made, fs
  <2> QED
    BY <2>3, <2>4, <2>5
<1> QED
  BY <1>1, BuildIsSound, PTL

-----------------------------------------------------------------------------
(* The benchmarks' trie.                                                    *)

\* The nodes of a set that a database keeps under one key.
Under(type, nodes, key) == {n \in nodes : DbKey(type, n) = key}

\* A database that holds every node of t, in ParityDb with a reference for
\* each place it is at.
Holds(type, d, t) ==
  /\ \A key \in DOMAIN d : d[key] \in Nat
  /\ \A n \in Nodes(t) :
       LET key == DbKey(type, n)
       IN /\ key \in DOMAIN d
          /\ IF type = "ParityDb" THEN d[key] >= Cardinality(Under(type, Nodes(t), key))
             ELSE d[key] > 0

\* The trie a run's writes have replaced, as the overlay knows it.
Over(t, u) == Commit(<< >>, t, u)

Stage == {"none", "ready", "opened", "inserted", "done"}

\* The seed holds the benchmark's trie; the copy holds the trie the run found
\* until the overlay is written, and the new one from then on.
BenchIInv ==
  /\ stage \in Stage
  /\ root \in Trie /\ newRoot \in Trie
  /\ stage # "none" => bench.type \in DatabaseType /\ Holds(bench.type, seed, root)
  /\ stage = "opened" => overlay = << >> /\ Holds(bench.type, db, newRoot)
  /\ stage = "inserted" =>
       \E t \in Trie : overlay = Over(t, newRoot) /\ Holds(bench.type, db, t)
  /\ stage = "done" => overlay = << >> /\ Holds(bench.type, db, newRoot)

(* A trie has finitely many nodes.                                          *)
LEMMA NodesFinite ==
  ASSUME NEW t \in Trie
  PROVE  IsFiniteSet(Nodes(t))
<1> DEFINE bs == {c \in Branch : t[c] # NoLeaf}
           F == [b \in bs |-> Node(b, t[b])]
<1>1. IsFiniteSet(bs)
  BY BenchAssumption, FS_Subset
<1>2. IsFiniteSet({Node(b, t[b]) : b \in bs})
  <2> DEFINE T == {Node(b, t[b]) : b \in bs}
  <2>1. F \in Surjection(bs, T)
    BY DEF Surjection
  <2> QED
    BY <1>1, <2>1, FS_Surjection
<1>3. IsFiniteSet({Node(Null, t)})
  BY FS_Singleton
<1> QED
  BY <1>2, <1>3, FS_Union DEF Nodes

(* The nodes of a trie under one key.                                       *)
LEMMA UnderFinite ==
  ASSUME NEW t \in Trie, NEW type, NEW key
  PROVE  /\ IsFiniteSet(Under(type, Nodes(t), key))
         /\ Cardinality(Under(type, Nodes(t), key)) \in Nat
         /\ Under(type, Nodes(t), key) # {} => Cardinality(Under(type, Nodes(t), key)) > 0
<1>1. IsFiniteSet(Under(type, Nodes(t), key))
  BY NodesFinite, FS_Subset DEF Under
<1> QED
  BY <1>1, FS_CardinalityType, FS_EmptySet

(* What a held database answers.                                            *)
LEMMA HoldsCount ==
  ASSUME NEW t \in Trie, NEW type, NEW d, Holds(type, d, t), NEW n \in Nodes(t)
  PROVE  Count(d, DbKey(type, n)) > 0
<1>1. n \in Under(type, Nodes(t), DbKey(type, n))
  BY DEF Under
<1> DEFINE key == DbKey(type, n)
           c == Cardinality(Under(type, Nodes(t), DbKey(type, n)))
<1>2. c \in Nat /\ c > 0
  BY <1>1, UnderFinite
<1>3. /\ key \in DOMAIN d /\ d[key] \in Nat
      /\ IF type = "ParityDb" THEN d[key] >= c ELSE d[key] > 0
  BY DEF Holds
<1>4. Count(d, key) = d[key]
  BY <1>3 DEF Count
<1> HIDE DEF key, c
<1>5. Count(d, key) > 0
  BY <1>2, <1>3, <1>4
<1> QED
  BY <1>5 DEF key

\* The changes of a transaction to one key.
Changed(type, changes, key, op) ==
  {n \in DOMAIN changes : DbKey(type, n) = key /\ changes[n] = op}

\* The keys it changes, and the references it leaves to one.
Keys(type, changes) == {DbKey(type, n) : n \in DOMAIN changes}
References(type, d, changes, key) ==
  Count(d, key) + Cardinality(Changed(type, changes, key, "put"))
    - Cardinality(Changed(type, changes, key, "delete"))

(* What a transaction makes of one key.                                     *)
LEMMA WriteAt ==
  ASSUME NEW type, NEW d, NEW changes
  PROVE  /\ DOMAIN Write(type, d, changes) = DOMAIN d \cup Keys(type, changes)
         /\ \A key \in DOMAIN d \cup Keys(type, changes) :
              Write(type, d, changes)[key] =
                IF key \notin Keys(type, changes) THEN d[key]
                ELSE IF type = "RocksDb" THEN Cardinality(Changed(type, changes, key, "put"))
                ELSE IF References(type, d, changes, key) < 0 THEN 0
                ELSE References(type, d, changes, key)
BY DEF Write, Changed, Keys, References

(* Counts stay counts.                                                      *)
LEMMA WriteNat ==
  ASSUME NEW type, NEW d, \A key \in DOMAIN d : d[key] \in Nat,
         NEW changes, IsFiniteSet(DOMAIN changes)
  PROVE  /\ \A key \in DOMAIN Write(type, d, changes) : Write(type, d, changes)[key] \in Nat
         /\ \A key, op : IsFiniteSet(Changed(type, changes, key, op))
                           /\ Cardinality(Changed(type, changes, key, op)) \in Nat
<1>1. \A key, op : IsFiniteSet(Changed(type, changes, key, op))
                     /\ Cardinality(Changed(type, changes, key, op)) \in Nat
  BY FS_Subset, FS_CardinalityType DEF Changed
<1>2. \A key : Count(d, key) \in Nat
  BY DEF Count
<1>3. \A key : References(type, d, changes, key) \in Int
  BY <1>1, <1>2 DEF References
<1>4. ASSUME NEW key \in DOMAIN Write(type, d, changes)
      PROVE  Write(type, d, changes)[key] \in Nat
  <2>1. key \in DOMAIN d \cup Keys(type, changes)
    BY WriteAt
  <2>2. Write(type, d, changes)[key] =
          IF key \notin Keys(type, changes) THEN d[key]
          ELSE IF type = "RocksDb" THEN Cardinality(Changed(type, changes, key, "put"))
          ELSE IF References(type, d, changes, key) < 0 THEN 0 ELSE References(type, d, changes, key)
    BY <2>1, WriteAt
  <2> QED
    BY <1>1, <1>3, <2>1, <2>2
<1> QED
  BY <1>1, <1>4

(* generate_trie: every node is stored, as often as it is there.            *)
LEMMA SeedHolds ==
  ASSUME NEW type \in DatabaseType, NEW t \in Trie
  PROVE  Holds(type, GenerateTrie(type, t), t)
<1> DEFINE changes == EmplaceNodes(EmplaceNodes(<< >>, {Node(Null, NoTrie)}), Nodes(t))
           d == GenerateTrie(type, t)
<1>1. /\ DOMAIN changes = {Node(Null, NoTrie)} \cup Nodes(t)
      /\ \A n \in DOMAIN changes : changes[n] = "put"
  BY DEF EmplaceNodes
<1>2. IsFiniteSet(DOMAIN changes)
  <2>1. IsFiniteSet(Nodes(t)) /\ IsFiniteSet({Node(Null, NoTrie)})
    BY NodesFinite, FS_Singleton
  <2>2. IsFiniteSet({Node(Null, NoTrie)} \cup Nodes(t))
    BY <2>1, FS_Union
  <2> QED
    BY <1>1, <2>2
<1>3. d = Write(type, << >>, changes)
  BY DEF GenerateTrie
<1> HIDE DEF changes, d
<1>4. /\ \A key \in DOMAIN d : d[key] \in Nat
      /\ \A key, op : IsFiniteSet(Changed(type, changes, key, op))
                        /\ Cardinality(Changed(type, changes, key, op)) \in Nat
  <2>1. \A key \in DOMAIN << >> : << >>[key] \in Nat
    OBVIOUS
  <2> QED
    BY <1>2, <1>3, <2>1, WriteNat
<1>5. ASSUME NEW n \in Nodes(t)
      PROVE  LET key == DbKey(type, n)
             IN /\ key \in DOMAIN d
                /\ d[key] >= Cardinality(Under(type, Nodes(t), key))
                /\ d[key] > 0
  <2> DEFINE key == DbKey(type, n)
             puts == Changed(type, changes, key, "put")
             deletes == Changed(type, changes, key, "delete")
             under == Under(type, Nodes(t), key)
  <2>1. key \in Keys(type, changes) /\ n \in puts /\ n \in under
    BY <1>1 DEF Changed, Under, Keys
  <2>2. deletes = {} /\ under \subseteq puts
    BY <1>1 DEF Changed, Under
  <2>3. Cardinality(deletes) = 0 /\ Cardinality(under) \in Nat /\ Cardinality(under) > 0
    BY <2>1, <2>2, FS_EmptySet, UnderFinite
  <2>4. Cardinality(under) <= Cardinality(puts) /\ Cardinality(puts) \in Nat
    BY <1>4, <2>2, FS_Subset
  <2>5. key \notin DOMAIN << >> => Count(<< >>, key) = 0
    BY DEF Count
  <2>6. key \notin DOMAIN << >>
    OBVIOUS
  <2>7. key \in DOMAIN d
        /\ d[key] = IF type = "RocksDb" THEN Cardinality(puts)
                    ELSE IF References(type, << >>, changes, key) < 0 THEN 0
                    ELSE References(type, << >>, changes, key)
    <3> HIDE DEF key
    <3>1. key \in DOMAIN << >> \cup Keys(type, changes)
      BY <2>1
    <3>2. d[key] = IF key \notin Keys(type, changes) THEN << >>[key]
                   ELSE IF type = "RocksDb" THEN Cardinality(Changed(type, changes, key, "put"))
                   ELSE IF References(type, << >>, changes, key) < 0 THEN 0
                   ELSE References(type, << >>, changes, key)
      BY <1>3, <3>1, WriteAt
    <3>3. key \in DOMAIN d
      BY <1>3, <3>1, WriteAt
    <3> QED
      BY <2>1, <3>2, <3>3
  <2>10. References(type, << >>, changes, key) = Count(<< >>, key) + Cardinality(puts) - Cardinality(deletes)
    BY DEF References
  <2> HIDE DEF key, puts, deletes, under
  <2>8. d[key] = Cardinality(puts)
    BY <2>3, <2>4, <2>5, <2>6, <2>7, <2>10
  <2>9. key \in DOMAIN d /\ d[key] >= Cardinality(under) /\ d[key] > 0
    BY <2>3, <2>4, <2>7, <2>8
  <2> QED
    BY <2>9 DEF key, under
<1>6. Holds(type, d, t)
  BY <1>4, <1>5 DEF Holds
<1> QED
  BY <1>6 DEF d

(* The overlay of a commit: the nodes that go and those that come.          *)
LEMMA OverFacts ==
  ASSUME NEW t \in Trie, NEW u \in Trie
  PROVE  /\ DOMAIN Over(t, u) = (Nodes(t) \ Nodes(u)) \cup (Nodes(u) \ Nodes(t))
         /\ \A n \in Nodes(u) \ Nodes(t) : Over(t, u)[n] = "put"
         /\ \A n \in Nodes(t) \ Nodes(u) : Over(t, u)[n] = "delete"
         /\ IsFiniteSet(DOMAIN Over(t, u))
<1>1. /\ DOMAIN Over(t, u) = (Nodes(t) \ Nodes(u)) \cup (Nodes(u) \ Nodes(t))
      /\ \A n \in Nodes(u) \ Nodes(t) : Over(t, u)[n] = "put"
      /\ \A n \in Nodes(t) \ Nodes(u) : Over(t, u)[n] = "delete"
  BY DEF Over, Commit, EmplaceNodes, RemoveNodes
<1>2. IsFiniteSet(Nodes(t) \ Nodes(u)) /\ IsFiniteSet(Nodes(u) \ Nodes(t))
  BY NodesFinite, FS_Difference
<1>3. IsFiniteSet((Nodes(t) \ Nodes(u)) \cup (Nodes(u) \ Nodes(t)))
  BY <1>2, FS_Union
<1> QED
  BY <1>1, <1>3

(* What is put under a key and what is deleted makes the difference of the  *)
(* nodes there.                                                             *)
LEMMA Exchange ==
  ASSUME NEW A, NEW B, IsFiniteSet(A), IsFiniteSet(B)
  PROVE  Cardinality(A) + Cardinality(B \ A) - Cardinality(A \ B) = Cardinality(B)
<1> DEFINE a == Cardinality(A)
           b == Cardinality(B)
           c == Cardinality(A \cap B)
<1>1. A \cap B = B \cap A /\ IsFiniteSet(A \cap B)
  BY FS_Intersection
<1>2. Cardinality(B \ A) = b - c /\ Cardinality(A \ B) = a - c
  BY <1>1, FS_Difference
<1>3. a \in Nat /\ b \in Nat /\ c \in Nat
  BY <1>1, FS_CardinalityType
<1> HIDE DEF a, b, c
<1>4. a + (b - c) - (a - c) = b
  BY <1>3
<1>5. a + Cardinality(B \ A) - Cardinality(A \ B) = b
  BY <1>2, <1>4
<1> QED
  BY <1>5 DEF a, b

(* The overlay turns a database that holds one trie into one that holds the *)
(* next, also where a node that goes and one that stays share a key.        *)
LEMMA WriteHolds ==
  ASSUME NEW type \in DatabaseType, NEW d, NEW t \in Trie, NEW u \in Trie, Holds(type, d, t)
  PROVE  Holds(type, Write(type, d, Over(t, u)), u)
<1> DEFINE changes == Over(t, u)
           w == Write(type, d, changes)
<1>1. /\ DOMAIN changes = (Nodes(t) \ Nodes(u)) \cup (Nodes(u) \ Nodes(t))
      /\ \A n \in Nodes(u) \ Nodes(t) : changes[n] = "put"
      /\ \A n \in Nodes(t) \ Nodes(u) : changes[n] = "delete"
      /\ IsFiniteSet(DOMAIN changes)
  BY OverFacts
<1> HIDE DEF changes
<1>2. /\ \A key \in DOMAIN w : w[key] \in Nat
      /\ \A key, op : IsFiniteSet(Changed(type, changes, key, op))
                        /\ Cardinality(Changed(type, changes, key, op)) \in Nat
  BY <1>1, WriteNat DEF Holds
<1>3. ASSUME NEW n \in Nodes(u), type = "RocksDb"
      PROVE  DbKey(type, n) \in DOMAIN w /\ w[DbKey(type, n)] > 0
  <2>1. \A m : DbKey(type, m) = m
    BY <1>3 DEF DbKey
  <2>2. Keys(type, changes) = DOMAIN changes
    BY <2>1 DEF Keys
  <2>3. CASE n \in Nodes(t)
    <3>1. n \in DOMAIN d /\ d[n] > 0 /\ n \notin Keys(type, changes)
      BY <1>1, <1>3, <2>1, <2>2, <2>3 DEF Holds
    <3>2. n \in DOMAIN w /\ w[n] = d[n]
      BY <3>1, WriteAt
    <3> QED
      BY <2>1, <3>1, <3>2
  <2>4. CASE n \notin Nodes(t)
    <3>1. n \in Keys(type, changes) /\ n \in Changed(type, changes, n, "put")
      BY <1>1, <2>1, <2>2, <2>4 DEF Changed
    <3>2. n \in DOMAIN w /\ w[n] = Cardinality(Changed(type, changes, n, "put"))
      BY <1>3, <3>1, WriteAt
    <3>3. Cardinality(Changed(type, changes, n, "put")) > 0
      BY <1>2, <3>1, FS_EmptySet
    <3> QED
      BY <2>1, <3>2, <3>3
  <2> QED
    BY <2>3, <2>4
<1>4. ASSUME NEW n \in Nodes(u), type = "ParityDb"
      PROVE  LET key == DbKey(type, n)
             IN key \in DOMAIN w /\ w[key] >= Cardinality(Under(type, Nodes(u), key))
  <2> DEFINE key == DbKey(type, n)
             A == Under(type, Nodes(t), key)
             B == Under(type, Nodes(u), key)
             puts == Changed(type, changes, key, "put")
             deletes == Changed(type, changes, key, "delete")
  <2>1. n \in B
    BY DEF Under
  <2>2. puts = B \ A /\ deletes = A \ B
    BY <1>1 DEF Changed, Under
  <2>3. /\ IsFiniteSet(A) /\ IsFiniteSet(B) /\ Cardinality(A) \in Nat /\ Cardinality(B) \in Nat
        /\ Cardinality(puts) \in Nat /\ Cardinality(deletes) \in Nat
    BY <1>2, UnderFinite
  <2>4. A # {} => key \in DOMAIN d /\ d[key] >= Cardinality(A)
    <3> SUFFICES ASSUME NEW m \in A PROVE key \in DOMAIN d /\ d[key] >= Cardinality(A)
      OBVIOUS
    <3>1. m \in Nodes(t) /\ DbKey(type, m) = key
      BY DEF Under
    <3> HIDE DEF key
    <3> QED
      BY <1>4, <3>1 DEF Holds
  <2>5. Count(d, key) \in Nat /\ Count(d, key) >= Cardinality(A)
    <3>1. key \in DOMAIN d => d[key] \in Nat
      BY DEF Holds
    <3>2. CASE A = {}
      <4>1. Cardinality(A) = 0
        BY <3>2, FS_EmptySet
      <4> HIDE DEF key, A
      <4> QED
        BY <3>1, <4>1 DEF Count
    <3>3. CASE A # {}
      <4> HIDE DEF key, A
      <4> QED
        BY <2>4, <3>1, <3>3 DEF Count
    <3> QED
      BY <3>2, <3>3
  <2>6. CASE key \in Keys(type, changes)
    <3>1. key \in DOMAIN w
          /\ w[key] = IF References(type, d, changes, key) < 0 THEN 0 ELSE References(type, d, changes, key)
      <4> HIDE DEF key
      <4>1. key \in DOMAIN d \cup Keys(type, changes)
        BY <2>6
      <4>2. w[key] = IF key \notin Keys(type, changes) THEN d[key]
                     ELSE IF type = "RocksDb" THEN Cardinality(Changed(type, changes, key, "put"))
                     ELSE IF References(type, d, changes, key) < 0 THEN 0
                     ELSE References(type, d, changes, key)
        BY <4>1, WriteAt
      <4>3. key \in DOMAIN w
        BY <4>1, WriteAt
      <4> HIDE DEF w
      <4> QED
        BY <1>4, <2>6, <4>2, <4>3
    <3>2. References(type, d, changes, key) = Count(d, key) + Cardinality(puts) - Cardinality(deletes)
      BY DEF References
    <3>3. Cardinality(A) + Cardinality(puts) - Cardinality(deletes) = Cardinality(B)
      BY <2>2, <2>3, Exchange
    <3> HIDE DEF key, A, B, puts, deletes, w
    <3>4. key \in DOMAIN w /\ w[key] >= Cardinality(B)
      BY <2>3, <2>5, <3>1, <3>2, <3>3
    <3> QED
      BY <3>4 DEF key, B
  <2>7. CASE key \notin Keys(type, changes)
    <3>1. A = B
      BY <1>1, <2>7 DEF Under, Keys
    <3>2. key \in DOMAIN d /\ d[key] >= Cardinality(B)
      BY <2>1, <2>4, <3>1
    <3>3. key \in DOMAIN w /\ w[key] = d[key]
      <4> HIDE DEF key
      <4> QED
        BY <2>7, <3>2, WriteAt
    <3> QED
      BY <3>2, <3>3
  <2> QED
    BY <2>6, <2>7
<1>5. type = "RocksDb" \/ type = "ParityDb"
  BY DEF DatabaseType
<1> HIDE DEF w
<1>6. Holds(type, w, u)
  BY <1>2, <1>3, <1>4, <1>5 DEF Holds
<1> QED
  BY <1>6 DEF w, changes

(* A lookup in a trie whose nodes are all found finds the value.            *)
LEMMA LookupFinds ==
  ASSUME NEW type, NEW d, NEW changes, NEW t \in Trie,
         \A n \in Nodes(t) : Get(type, d, changes, n),
         NEW key \in Branch \X Rest
  PROVE  Lookup(type, d, changes, t, key) = t[key[1]][key[2]]
<1>1. Node(Null, t) \in Nodes(t)
  BY DEF Nodes
<1>2. t[key[1]] # NoLeaf => Node(key[1], t[key[1]]) \in Nodes(t)
  BY DEF Nodes
<1> QED
  BY <1>1, <1>2 DEF Lookup

(* The nodes of the trie are found: without an overlay in the database,     *)
LEMMA GetPlain ==
  ASSUME NEW type, NEW d, NEW t \in Trie, Holds(type, d, t), NEW n \in Nodes(t)
  PROVE  Get(type, d, << >>, n)
<1>1. n \notin DOMAIN << >>
  OBVIOUS
<1>2. Count(d, DbKey(type, n)) > 0
  BY HoldsCount
<1> QED
  BY <1>1, <1>2 DEF Get

(* with one there or, if they are old, in the database.                     *)
LEMMA GetOver ==
  ASSUME NEW type, NEW d, NEW t \in Trie, NEW u \in Trie, Holds(type, d, t), NEW n \in Nodes(u)
  PROVE  Get(type, d, Over(t, u), n)
<1>0. /\ DOMAIN Over(t, u) = (Nodes(t) \ Nodes(u)) \cup (Nodes(u) \ Nodes(t))
      /\ \A m \in Nodes(u) \ Nodes(t) : Over(t, u)[m] = "put"
  BY OverFacts
<1>1. CASE n \in Nodes(t)
  <2>1. n \notin DOMAIN Over(t, u)
    BY <1>0, <1>1
  <2>2. Count(d, DbKey(type, n)) > 0
    BY <1>1, HoldsCount
  <2> QED
    BY <2>1, <2>2 DEF Get
<1>2. CASE n \notin Nodes(t)
  <2>1. n \in DOMAIN Over(t, u) /\ Over(t, u)[n] = "put"
    BY <1>0, <1>2
  <2> QED
    BY <2>1 DEF Get
<1> QED
  BY <1>1, <1>2

(* Nothing is there before the first benchmark.                             *)
LEMMA BenchInitIInv == BenchInit => BenchIInv
BY DEF BenchInit, BenchIInv, Stage, NoTrie, Trie, NoLeaf, Leaf

(* The trie that a benchmark fills is a trie, and the seed holds it.        *)
LEMMA SetupIInv ==
  ASSUME BenchIInv, NEW kind, NEW type \in DatabaseType, Setup(kind, type)
  PROVE  BenchIInv'
<1>1. PICK t \in Trie, copy \in Leaf :
        /\ root' = [t EXCEPT ![Warm] = copy]
        /\ seed' = GenerateTrie(type, [t EXCEPT ![Warm] = copy])
  <2>1. PICK t \in {u \in Trie : u[Warm] = NoLeaf}, sample \in SUBSET ((Branch \ {Warm}) \X Rest) :
          LET copy == [r \in Rest |-> IF \E k \in sample : k[2] = r
                                        THEN t[(CHOOSE k \in sample : k[2] = r)[1]][r] ELSE Null]
              filled == [t EXCEPT ![Warm] = copy]
          IN root' = filled /\ seed' = GenerateTrie(type, filled)
    BY DEF Setup
  <2> DEFINE copy == [r \in Rest |-> IF \E k \in sample : k[2] = r
                                       THEN t[(CHOOSE k \in sample : k[2] = r)[1]][r] ELSE Null]
  <2>2. ASSUME NEW r \in Rest, \E k \in sample : k[2] = r
        PROVE  t[(CHOOSE k \in sample : k[2] = r)[1]][r] \in Datum \cup {Null}
    <3> DEFINE k == CHOOSE l \in sample : l[2] = r
    <3>1. k \in sample
      BY <2>2
    <3> HIDE DEF k
    <3>2. k[1] \in Branch
      BY <3>1
    <3>3. t[k[1]] \in Leaf
      BY <3>2 DEF Trie
    <3>4. t[k[1]][r] \in Datum \cup {Null}
      BY <3>3 DEF Leaf
    <3> QED
      BY <3>4 DEF k
  <2>3. copy \in Leaf
    BY <2>2 DEF Leaf
  <2> QED
    BY <2>1, <2>3
<1> DEFINE filled == [t EXCEPT ![Warm] = copy]
<1>2. filled \in Trie
  BY BenchAssumption DEF Trie
<1>3. /\ bench' = [kind |-> kind, type |-> type] /\ stage' = "ready"
      /\ UNCHANGED <<db, overlay, newRoot, runs>>
  BY DEF Setup
<1>4. root' = filled /\ seed' = GenerateTrie(type, filled)
  BY <1>1
<1> HIDE DEF filled
<1>5. Holds(bench'.type, seed', root') /\ bench'.type \in DatabaseType
  BY <1>2, <1>3, <1>4, SeedHolds
<1> QED
  BY <1>2, <1>3, <1>4, <1>5 DEF BenchIInv, Stage

(* A run inserts into the overlay what the database does not yet have.      *)
LEMMA InsertIInv ==
  ASSUME BenchIInv, NEW key \in Branch \X Rest, NEW datum \in Datum, Insert(key, datum)
  PROVE  BenchIInv'
<1>1. /\ stage = "opened" /\ stage' = "inserted"
      /\ newRoot' = [newRoot EXCEPT ![key[1]][key[2]] = datum]
      /\ overlay' = Over(newRoot, newRoot')
      /\ UNCHANGED <<bench, seed, root, db>>
  BY DEF Insert, Over, BenchIInv
<1>2. newRoot' \in Trie
  <2>1. key[1] \in Branch /\ key[2] \in Rest /\ newRoot \in Trie
    BY DEF BenchIInv
  <2> DEFINE leaf == [newRoot[key[1]] EXCEPT ![key[2]] = datum]
  <2>2. leaf \in Leaf
    BY <2>1 DEF Trie, Leaf
  <2>3. newRoot' = [newRoot EXCEPT ![key[1]] = leaf]
    BY <1>1
  <2> HIDE DEF leaf
  <2> QED
    BY <2>1, <2>2, <2>3 DEF Trie
<1>3. newRoot \in Trie /\ Holds(bench.type, db, newRoot)
  BY <1>1 DEF BenchIInv
<1> QED
  BY <1>1, <1>2, <1>3 DEF BenchIInv, Stage, Holds

(* Every step of a benchmark preserves the invariant.                       *)
LEMMA BenchNextIInv == BenchIInv /\ [BenchNext]_benchVars => BenchIInv'
<1> SUFFICES ASSUME BenchIInv, [BenchNext]_benchVars PROVE BenchIInv'
  OBVIOUS
<1>1. ASSUME NEW type \in DatabaseType, Setup("read", type) \/ SetupWrite(type) PROVE BenchIInv'
  BY <1>1, SetupIInv DEF SetupWrite
<1>2. CASE OpenClone
  BY <1>2 DEF OpenClone, BenchIInv, Stage, Holds
<1>3. CASE RunRead
  BY <1>3 DEF RunRead, BenchIInv, Stage, Holds
<1>4. CASE WriteOverlay
  <2>1. PICK t \in Trie : overlay = Over(t, newRoot) /\ Holds(bench.type, db, t)
    BY <1>4 DEF WriteOverlay, BenchIInv
  <2>2. newRoot \in Trie /\ bench.type \in DatabaseType
    BY <1>4 DEF WriteOverlay, BenchIInv
  <2>3. Holds(bench.type, Write(bench.type, db, Over(t, newRoot)), newRoot)
    BY <2>1, <2>2, WriteHolds
  <2>4. Holds(bench'.type, db', newRoot')
    BY <1>4, <2>1, <2>3 DEF WriteOverlay
  <2> QED
    BY <1>4, <2>4 DEF WriteOverlay, BenchIInv, Stage
<1>5. CASE RunEnds
  BY <1>5 DEF RunEnds, BenchIInv, Stage, NoTrie, Trie, NoLeaf, Leaf
<1>6. CASE BenchmarkEnds
  BY <1>6 DEF BenchmarkEnds, BenchIInv, Stage, NoTrie, Trie, NoLeaf, Leaf
<1>7. CASE UNCHANGED benchVars
  BY <1>7 DEF benchVars, BenchIInv
<1> QED
  BY <1>1, <1>2, <1>3, <1>4, <1>5, <1>6, <1>7, InsertIInv DEF BenchNext

(* In every run of the benchmarks the database holds the trie with all its  *)
(* references.                                                              *)
THEOREM BenchHoldsTrie == BenchSpec => []BenchIInv
BY BenchInitIInv, BenchNextIInv, PTL DEF BenchSpec

(* Every key of a run's trie is found with its value (SimpleTrie over       *)
(* ParityDbWrapper and RocksDb).                                            *)
THEOREM TrieStaysWhole == BenchSpec => []TrieIsWhole
<1>1. BenchIInv => TrieIsWhole
  <2> SUFFICES ASSUME BenchIInv, stage \in {"opened", "inserted", "done"}, NEW key \in Branch \X Rest
               PROVE  Lookup(bench.type, db, overlay, newRoot, key) = newRoot[key[1]][key[2]]
    BY DEF TrieIsWhole
  <2>1. newRoot \in Trie
    BY DEF BenchIInv
  <2>2. \A n \in Nodes(newRoot) : Get(bench.type, db, overlay, n)
    <3>1. CASE stage \in {"opened", "done"}
      BY <2>1, <3>1, GetPlain DEF BenchIInv
    <3>2. CASE stage = "inserted"
      BY <2>1, <3>2, GetOver DEF BenchIInv
    <3> QED
      BY <3>1, <3>2
  <2> QED
    BY <2>1, <2>2, LookupFinds
<1> QED
  BY <1>1, BenchHoldsTrie, PTL
=============================================================================
