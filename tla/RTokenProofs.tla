--------------------------- MODULE RTokenProofs ---------------------------
(* Proofs about rtoken/votes, for every set of symbols, accounts, proposal  *)
(* ids and calls, every threshold and lifetime; and about rtoken/rfis, for  *)
(* every finite set of pools and users, every commission, reward and rate.  *)
EXTENDS RTokenVotes, RFis, CountingLemmas

\* The lemmas about the registry.
RP == INSTANCE RelayersProofs WITH Id <- RSymbol

\* The stored votes of p, independent of the block number.
For(p) == IF votes[p] = None THEN << >> ELSE votes[p].votes_for
Against(p) == IF votes[p] = None THEN << >> ELSE votes[p].votes_against

VoteTypes ==
  /\ now \in Nat
  /\ votes \in [Proposal -> RproposalVotes \cup {None}]
  /\ lastVoter \in [RSymbol -> Account \cup {None}]
  /\ quorum \in [Proposal -> Nat]
  /\ dispatched \in [Proposal -> SUBSET RproposalStatus]

\* No account is counted twice, on one side or on both.
DistinctOf(f, a) == IsInjective(f) /\ IsInjective(a) /\ Range(f) \cap Range(a) = {}

VotersDistinct == \A p \in Proposal : DistinctOf(For(p), Against(p))

ApprovalMet == \A p \in Proposal : Status(p) = "Approved" => quorum[p] <= Len(For(p))

IInv ==
  /\ RP!IInv
  /\ VoteTypes
  /\ VotersDistinct
  /\ ApprovalMet

(* What commit_vote reads is a vote record, fresh or stored.                *)
LEMMA VotesOfFacts ==
  ASSUME VoteTypes, NEW p \in Proposal
  PROVE  /\ VotesOf(p) \in RproposalVotes
         /\ VotesOf(p).votes_for = For(p)
         /\ VotesOf(p).votes_against = Against(p)
         /\ VotesOf(p).status = IF Status(p) = "None" THEN "Initiated" ELSE Status(p)
<1>1. CASE votes[p] = None
  <2>1. now + ProposalLifetime \in Nat
    BY RTokenVotesAssumption DEF VoteTypes
  <2>2. << >> \in Seq(Account)
    OBVIOUS
  <2> QED
    BY <1>1, <2>1, <2>2 DEF VotesOf, For, Against, Status, RproposalVotes, RproposalStatus
<1>2. CASE votes[p] # None
  <2>1. votes[p] \in RproposalVotes
    BY <1>2 DEF VoteTypes
  <2>2. votes[p].status # "None"
    BY <2>1 DEF RproposalVotes, RproposalStatus
  <2> QED
    BY <1>2, <2>1, <2>2 DEF VotesOf, For, Against, Status
<1> QED
  BY <1>1, <1>2

(* Pushing the vote of an account that has not voted keeps the two lists    *)
(* free of repetition and lets neither shrink.                              *)
LEMMA PushedFacts ==
  ASSUME NEW v \in RproposalVotes, NEW who \in Account, NEW inFavour \in BOOLEAN,
         DistinctOf(v.votes_for, v.votes_against), ~HasVoted(v, who)
  PROVE  /\ Pushed(v, who, inFavour) \in RproposalVotes
         /\ Pushed(v, who, inFavour).status = v.status
         /\ DistinctOf(Pushed(v, who, inFavour).votes_for, Pushed(v, who, inFavour).votes_against)
         /\ Len(v.votes_for) <= Len(Pushed(v, who, inFavour).votes_for)
<1> DEFINE f == v.votes_for
           a == v.votes_against
           w == Pushed(v, who, inFavour)
<1>1. f \in Seq(Account) /\ a \in Seq(Account) /\ who \notin Range(f) /\ who \notin Range(a)
  BY DEF RproposalVotes, HasVoted
<1>2. /\ Append(f, who) \in Seq(Account) /\ IsInjective(Append(f, who))
      /\ Range(Append(f, who)) = Range(f) \cup {who} /\ Len(Append(f, who)) = Len(f) + 1
  BY <1>1, AppendDistinct DEF DistinctOf
<1>3. /\ Append(a, who) \in Seq(Account) /\ IsInjective(Append(a, who))
      /\ Range(Append(a, who)) = Range(a) \cup {who}
  BY <1>1, AppendDistinct DEF DistinctOf
<1>4. CASE inFavour = TRUE
  <2>1. /\ w \in RproposalVotes /\ w.status = v.status
        /\ w.votes_for = Append(f, who) /\ w.votes_against = a
    BY <1>2, <1>4 DEF Pushed, RproposalVotes
  <2> HIDE DEF w
  <2>2. DistinctOf(w.votes_for, w.votes_against)
    BY <1>1, <1>2, <2>1 DEF DistinctOf
  <2> QED
    BY <1>1, <1>2, <2>1, <2>2 DEF w
<1>5. CASE inFavour = FALSE
  <2>1. /\ w \in RproposalVotes /\ w.status = v.status
        /\ w.votes_for = f /\ w.votes_against = Append(a, who)
    BY <1>3, <1>5 DEF Pushed, RproposalVotes
  <2> HIDE DEF w
  <2>2. DistinctOf(w.votes_for, w.votes_against)
    BY <1>1, <1>3, <2>1 DEF DistinctOf
  <2> QED
    BY <1>1, <2>1, <2>2 DEF w
<1> QED
  BY <1>4, <1>5

(* derivate only sets the status, and only as the counts allow.             *)
LEMMA DerivateFacts ==
  ASSUME NEW v \in RproposalVotes, NEW threshold \in Nat, NEW total \in Nat
  PROVE  LET w == Derivate(v, threshold, total) IN
         /\ w \in RproposalVotes
         /\ w.votes_for = v.votes_for /\ w.votes_against = v.votes_against
         /\ w.status \in {v.status, "Approved", "Rejected"}
         /\ w.status = "Approved" /\ v.status # "Approved" => threshold <= Len(v.votes_for)
         /\ w.status = "Rejected" /\ v.status # "Rejected" =>
              total < Len(v.votes_against) + threshold
<1>1. Len(v.votes_for) \in Nat /\ Len(v.votes_against) \in Nat
  BY DEF RproposalVotes
<1>2. CASE Len(v.votes_for) >= threshold
  BY <1>1, <1>2 DEF Derivate, RproposalVotes, RproposalStatus
<1>3. CASE ~(Len(v.votes_for) >= threshold) /\ total >= threshold
             /\ Len(v.votes_against) + threshold > total
  BY <1>1, <1>3 DEF Derivate, RproposalVotes, RproposalStatus
<1>4. CASE ~(Len(v.votes_for) >= threshold)
             /\ ~(total >= threshold /\ Len(v.votes_against) + threshold > total)
  BY <1>4 DEF Derivate
<1> QED
  BY <1>2, <1>3, <1>4

(* Storing the record v for p changes what is read for p and nothing else.  *)
LEMMA StoreFacts ==
  ASSUME VoteTypes, NEW p \in Proposal, NEW v \in RproposalVotes,
         votes' = [votes EXCEPT ![p] = v]
  PROVE  /\ votes' \in [Proposal -> RproposalVotes \cup {None}]
         /\ For(p)' = v.votes_for /\ Against(p)' = v.votes_against /\ Status(p)' = v.status
         /\ votes'[p] = v
         /\ \A q \in Proposal : q # p =>
              For(q)' = For(q) /\ Against(q)' = Against(q) /\ Status(q)' = Status(q)
<1>1. votes'[p] = v /\ v # None
  BY NoneIsNoVotes DEF VoteTypes
<1>2. \A q \in Proposal : q # p => votes'[q] = votes[q]
  BY DEF VoteTypes
<1> QED
  BY <1>1, <1>2 DEF VoteTypes, For, Against, Status

-----------------------------------------------------------------------------
\* What an acknowledgement that stores votes may store for p.
MayStore(p, v) ==
  /\ votes' = [votes EXCEPT ![p] = v]
  /\ DistinctOf(v.votes_for, v.votes_against)
  /\ quorum' \in [Proposal -> Nat]
  /\ \A q \in Proposal : q # p => quorum'[q] = quorum[q]
  /\ Len(For(p)) <= Len(v.votes_for)
  /\ \/ /\ Status(p) \notin {"None", "Initiated"}
        /\ v.status = Status(p)
        /\ quorum' = quorum
     \/ /\ Status(p) \in {"None", "Initiated"}
        /\ v.status = "Approved" => quorum'[p] <= Len(v.votes_for)
        /\ v.status = "Rejected" =>
             relayerCount[p.symbol] < Len(v.votes_against) + relayerThreshold[p.symbol]

(* Every acknowledgement leaves the votes alone or stores such a record:    *)
(* the four paths of commit_vote.                                           *)
LEMMA VoteShape ==
  ASSUME IInv, NEW p \in Proposal, NEW who \in Account, NEW inFavour \in BOOLEAN,
         AcknowledgeProposal(p, who, inFavour)
  PROVE  \/ UNCHANGED <<votes, quorum>>
         \/ \E v \in RproposalVotes : MayStore(p, v)
<1> DEFINE old == VotesOf(p)
           new == Pushed(old, who, inFavour)
<1>1. /\ VoteTypes /\ old \in RproposalVotes
      /\ old.votes_for = For(p) /\ old.votes_against = Against(p)
      /\ old.status = IF Status(p) = "None" THEN "Initiated" ELSE Status(p)
      /\ DistinctOf(old.votes_for, old.votes_against)
      /\ quorum \in [Proposal -> Nat]
  <2>1. VoteTypes /\ DistinctOf(For(p), Against(p))
    BY DEF IInv, VotersDistinct
  <2> QED
    BY <2>1, VotesOfFacts DEF VoteTypes
<1>2. relayerThreshold[p.symbol] \in Nat /\ relayerCount[p.symbol] \in Nat
  BY DEF IInv, RP!IInv, RP!TypeOK, Proposal
<1> HIDE DEF old
<1>3. ASSUME ~HasVoted(old, who)
      PROVE  /\ new \in RproposalVotes /\ new.status = old.status
             /\ DistinctOf(new.votes_for, new.votes_against)
             /\ Len(For(p)) <= Len(new.votes_for)
  BY <1>1, <1>3, PushedFacts
<1> HIDE DEF new
<1>4. CASE AcknowledgeAgain(p, who)
  BY <1>4 DEF AcknowledgeAgain
<1>5. CASE AcknowledgeClosed(p, who, inFavour)
  <2>1. /\ ~HasVoted(old, who) /\ old.status # "Initiated"
        /\ votes' = [votes EXCEPT ![p] = new] /\ quorum' = quorum
    BY <1>5 DEF AcknowledgeClosed, IsCompleted, old, new
  <2>2. Status(p) \notin {"None", "Initiated"} /\ new.status = Status(p)
    BY <1>1, <1>3, <2>1
  <2>3. MayStore(p, new)
    BY <1>1, <1>3, <2>1, <2>2 DEF MayStore
  <2> QED
    BY <1>3, <2>1, <2>3
<1>6. CASE AcknowledgeLate(p, who, inFavour)
  <2> DEFINE v == [new EXCEPT !.status = "Expired"]
  <2>1. /\ ~HasVoted(old, who) /\ old.status = "Initiated"
        /\ votes' = [votes EXCEPT ![p] = v] /\ quorum' = quorum
    BY <1>6 DEF AcknowledgeLate, IsCompleted, old, new
  <2>2. /\ v \in RproposalVotes /\ v.status = "Expired"
        /\ v.votes_for = new.votes_for /\ v.votes_against = new.votes_against
    BY <1>3, <2>1 DEF RproposalVotes, RproposalStatus
  <2>3. Status(p) \in {"None", "Initiated"}
    BY <1>1, <2>1
  <2> HIDE DEF v
  <2>4. MayStore(p, v)
    BY <1>1, <1>3, <2>1, <2>2, <2>3 DEF MayStore
  <2> QED
    BY <2>2, <2>4
<1>7. CASE AcknowledgeOpen(p, who, inFavour)
  <2> DEFINE t == relayerThreshold[p.symbol]
             v == Derivate(new, t, relayerCount[p.symbol])
  <2>1. /\ ~HasVoted(old, who) /\ old.status = "Initiated"
        /\ votes' = [votes EXCEPT ![p] = v]
        /\ quorum' = [quorum EXCEPT ![p] = t]
    BY <1>7 DEF AcknowledgeOpen, IsCompleted, old, new
  <2>2. new \in RproposalVotes /\ new.status = "Initiated"
    BY <1>3, <2>1
  <2>3. /\ v \in RproposalVotes
        /\ v.votes_for = new.votes_for /\ v.votes_against = new.votes_against
        /\ v.status = "Approved" => t <= Len(new.votes_for)
        /\ v.status = "Rejected" => relayerCount[p.symbol] < Len(new.votes_against) + t
    BY <1>2, <2>2, DerivateFacts
  <2>4. Status(p) \in {"None", "Initiated"}
    BY <1>1, <2>1
  <2>5. quorum' \in [Proposal -> Nat] /\ quorum'[p] = t
        /\ \A q \in Proposal : q # p => quorum'[q] = quorum[q]
    BY <1>1, <1>2, <2>1
  <2> HIDE DEF v
  <2>6. MayStore(p, v)
    BY <1>3, <2>1, <2>3, <2>4, <2>5 DEF MayStore
  <2> QED
    BY <2>3, <2>6
<1> QED
  BY <1>4, <1>5, <1>6, <1>7 DEF AcknowledgeProposal

(* The other part of an acknowledgement: the registry stays, LastVoter and  *)
(* the dispatch history keep their types.                                   *)
LEMMA ResolveFacts ==
  ASSUME VoteTypes, NEW p \in Proposal, NEW who \in Account, NEW inFavour \in BOOLEAN,
         AcknowledgeProposal(p, who, inFavour)
  PROVE  /\ UNCHANGED <<registryVars, now>>
         /\ lastVoter' \in [RSymbol -> Account \cup {None}]
         /\ dispatched' \in [Proposal -> SUBSET RproposalStatus]
<1>1. ASSUME NEW v, Resolve(p, who, v)
      PROVE  /\ UNCHANGED <<registryVars, now>>
             /\ lastVoter' \in [RSymbol -> Account \cup {None}]
             /\ dispatched' \in [Proposal -> SUBSET RproposalStatus]
  BY <1>1 DEF Resolve, VoteTypes, RproposalStatus
<1>2. CASE AcknowledgeAgain(p, who) \/ AcknowledgeClosed(p, who, inFavour)
             \/ AcknowledgeOpen(p, who, inFavour)
  BY <1>1, <1>2 DEF AcknowledgeAgain, AcknowledgeClosed, AcknowledgeOpen
<1>3. CASE AcknowledgeLate(p, who, inFavour)
  BY <1>3 DEF AcknowledgeLate, VoteTypes
<1> QED
  BY <1>2, <1>3 DEF AcknowledgeProposal

(* The inductive invariant holds before anything was voted.                 *)
LEMMA InitIInv == Init => IInv
<1> SUFFICES ASSUME Init PROVE IInv
  OBVIOUS
<1>1. RP!IInv
  BY RP!InitIInv DEF Init, Registry!Init, RP!Init
<1>2. \A p \in Proposal : For(p) = << >> /\ Against(p) = << >> /\ Status(p) = "None"
  BY DEF Init, For, Against, Status
<1>3. DistinctOf(<< >>, << >>)
  BY DEF DistinctOf, Range, IsInjective
<1>4. VoteTypes
  BY DEF Init, VoteTypes
<1> QED
  BY <1>1, <1>2, <1>3, <1>4 DEF IInv, VotersDistinct, ApprovalMet

(* Every step preserves it.                                                 *)
LEMMA NextIInv == IInv /\ [Next]_vars => IInv'
<1> SUFFICES ASSUME IInv, [Next]_vars PROVE IInv'
  OBVIOUS
<1>0. VoteTypes /\ VotersDistinct /\ ApprovalMet
  BY DEF IInv
<1>1. ASSUME NEW p \in Proposal, NEW who \in Account, NEW inFavour \in BOOLEAN,
             AcknowledgeProposal(p, who, inFavour)
      PROVE  IInv'
  <2>1. /\ UNCHANGED <<registryVars, now>>
        /\ lastVoter' \in [RSymbol -> Account \cup {None}]
        /\ dispatched' \in [Proposal -> SUBSET RproposalStatus]
    BY <1>0, <1>1, ResolveFacts
  <2>2. RP!IInv'
    <3>1. [RP!Next]_(RP!vars)
      BY <2>1 DEF registryVars, RP!vars
    <3> QED
      BY <3>1, RP!NextIInv DEF IInv
  <2>3. CASE UNCHANGED <<votes, quorum>>
    BY <1>0, <2>1, <2>2, <2>3
    DEF IInv, VoteTypes, VotersDistinct, ApprovalMet, For, Against, Status
  <2>4. CASE \E v \in RproposalVotes : MayStore(p, v)
    <3>1. PICK v \in RproposalVotes : MayStore(p, v)
      BY <2>4
    <3>2. /\ votes' \in [Proposal -> RproposalVotes \cup {None}]
          /\ For(p)' = v.votes_for /\ Against(p)' = v.votes_against /\ Status(p)' = v.status
          /\ \A q \in Proposal : q # p =>
               For(q)' = For(q) /\ Against(q)' = Against(q) /\ Status(q)' = Status(q)
      BY <1>0, <3>1, StoreFacts DEF MayStore
    <3>3. VoteTypes'
      BY <1>0, <2>1, <3>1, <3>2 DEF VoteTypes, MayStore
    <3>4. VotersDistinct'
      BY <1>0, <3>1, <3>2 DEF VotersDistinct, MayStore
    <3>5. ApprovalMet'
      <4>1. Len(For(p)) \in Nat /\ Len(v.votes_for) \in Nat /\ quorum[p] \in Nat
        <5>1. VotesOf(p) \in RproposalVotes /\ VotesOf(p).votes_for = For(p)
          BY <1>0, VotesOfFacts
        <5> QED
          BY <1>0, <5>1 DEF RproposalVotes, VoteTypes
      <4>2. Status(p)' = "Approved" => quorum'[p] <= Len(v.votes_for)
        BY <1>0, <3>1, <3>2, <4>1 DEF ApprovalMet, MayStore
      <4> QED
        BY <1>0, <3>1, <3>2, <4>2 DEF ApprovalMet, MayStore
    <3> QED
      BY <2>2, <3>3, <3>4, <3>5 DEF IInv
  <2> QED
    BY <1>1, <2>3, <2>4, VoteShape
<1>2. CASE RegistryCall \/ NextBlock \/ UNCHANGED vars
  <2>1. [RP!Next]_(RP!vars)
    BY <1>2 DEF RegistryCall, NextBlock, vars, registryVars, RP!vars, Registry!Next, RP!Next,
       Registry!SetThreshold, Registry!AddRelayer, Registry!RemoveRelayer, Registry!IsRelayer,
       RP!SetThreshold, RP!AddRelayer, RP!RemoveRelayer, RP!IsRelayer
  <2>2. RP!IInv'
    BY <2>1, RP!NextIInv DEF IInv
  <2>3. UNCHANGED <<votes, lastVoter, quorum, dispatched>> /\ now' \in Nat
    BY <1>0, <1>2 DEF RegistryCall, NextBlock, vars, VoteTypes
  <2> QED
    BY <1>0, <2>2, <2>3
    DEF IInv, VoteTypes, VotersDistinct, ApprovalMet, For, Against, Status
<1> QED
  BY <1>1, <1>2 DEF Next

-----------------------------------------------------------------------------
(* The types of rtoken/votes, the registry's included: in particular        *)
(* RelayerCount is never decremented below zero.                            *)
THEOREM RVoteTypes == Spec => []TypeOK
<1>1. IInv => TypeOK
  BY DEF IInv, RP!IInv, VoteTypes, TypeOK, RP!TypeOK, Registry!TypeOK
<1> QED
  BY InitIInv, NextIInv, <1>1, PTL DEF Spec

(* The electorate that derivate computes with is the number of relayers, in *)
(* every state and for every symbol.                                        *)
THEOREM ElectorateExact == Spec => []CountIsExact
<1>1. IInv => CountIsExact
  <2>1. \A S : RP!Cardinality(S) = Registry!Cardinality(S)
    BY DEF RP!Cardinality, Registry!Cardinality, RP!IsFiniteSet, Registry!IsFiniteSet
  <2> QED
    BY <2>1 DEF IInv, RP!IInv, CountIsExact, RP!CountIsExact, Registry!CountIsExact
<1> QED
  BY InitIInv, NextIInv, <1>1, PTL DEF Spec

(* Approval means as many different accounts in favour as the threshold     *)
(* asked for, none of them on the other side as well.                       *)
THEOREM ApprovalTheorem == Spec => []ApprovalHasQuorum
<1>1. IInv => ApprovalHasQuorum
  <2> SUFFICES ASSUME IInv, NEW p \in Proposal
               PROVE  /\ VotersFor(p) \cap VotersAgainst(p) = {}
                      /\ Status(p) = "Approved" => Cardinality(VotersFor(p)) >= quorum[p]
    BY DEF ApprovalHasQuorum
  <2>1. /\ VotesOf(p) \in RproposalVotes
        /\ VotesOf(p).votes_for = For(p) /\ VotesOf(p).votes_against = Against(p)
        /\ quorum[p] \in Nat
    BY VotesOfFacts DEF IInv, VoteTypes
  <2>2. For(p) \in Seq(Account)
    BY <2>1 DEF RproposalVotes
  <2>3. DistinctOf(For(p), Against(p))
    BY DEF IInv, VotersDistinct
  <2>4. Cardinality(Range(For(p))) = Len(For(p)) /\ Len(For(p)) \in Nat
    BY <2>2, <2>3, DistinctCount DEF DistinctOf
  <2>5. Status(p) = "Approved" => quorum[p] <= Len(For(p))
    BY DEF IInv, ApprovalMet
  <2> QED
    BY <2>1, <2>3, <2>4, <2>5 DEF VotersFor, VotersAgainst, DistinctOf
<1> QED
  BY InitIInv, NextIInv, <1>1, PTL DEF Spec

(* A verdict is final, whatever is voted, whoever joins or leaves the       *)
(* registry and however late the vote comes.                                *)
THEOREM VerdictTheorem == Spec => VerdictIsFinal
<1>1. ASSUME IInv, [Next]_vars, NEW p \in Proposal,
             Status(p) \in {"Approved", "Rejected", "Expired"}
      PROVE  votes'[p].status = Status(p)
  <2>1. VoteTypes /\ votes[p] # None /\ votes[p].status = Status(p)
    BY <1>1 DEF IInv, Status
  <2>2. CASE votes' = votes
    BY <2>1, <2>2
  <2>3. ASSUME NEW q \in Proposal, NEW who \in Account, NEW inFavour \in BOOLEAN,
               AcknowledgeProposal(q, who, inFavour), votes' # votes
        PROVE  votes'[p].status = Status(p)
    <3>1. PICK v \in RproposalVotes : MayStore(q, v)
      BY <1>1, <2>3, VoteShape
    <3>2. votes' = [votes EXCEPT ![q] = v]
      BY <3>1 DEF MayStore
    <3>3. CASE q = p
      <4>1. v.status = Status(p)
        BY <1>1, <3>1, <3>3 DEF MayStore
      <4> QED
        BY <2>1, <3>2, <3>3, <4>1 DEF VoteTypes
    <3>4. CASE q # p
      BY <2>1, <3>2, <3>4 DEF VoteTypes
    <3> QED
      BY <3>3, <3>4
  <2>4. CASE RegistryCall \/ NextBlock \/ UNCHANGED vars
    <3>1. votes' = votes
      BY <2>4 DEF RegistryCall, NextBlock, vars
    <3> QED
      BY <2>2, <3>1
  <2> QED
    BY <1>1, <2>2, <2>3, <2>4 DEF Next
<1>2. IInv /\ [Next]_vars =>
        [\A p \in Proposal :
           Status(p) \in {"Approved", "Rejected", "Expired"} => votes'[p].status = Status(p)]_vars
  BY <1>1
<1> QED
  BY InitIInv, NextIInv, <1>2, PTL DEF Spec, VerdictIsFinal

(* If the voters are all relayers, those in favour and those without a vote *)
(* together are the relayers that are not against.                          *)
LEMMA RemainingVotes ==
  ASSUME NEW R, IsFiniteSet(R), NEW F, NEW A, F \cap A = {}, F \cup A \subseteq R
  PROVE  /\ Cardinality(F) + Cardinality(R \ (F \cup A)) + Cardinality(A) = Cardinality(R)
         /\ Cardinality(F) \in Nat /\ Cardinality(R \ (F \cup A)) \in Nat
         /\ Cardinality(A) \in Nat /\ Cardinality(R) \in Nat
<1>1. IsFiniteSet(F) /\ IsFiniteSet(A) /\ IsFiniteSet(F \cup A)
  <2>1. F \subseteq R /\ A \subseteq R
    OBVIOUS
  <2> QED
    BY <2>1, FS_Subset
<1>2. Cardinality(F \cup A) = Cardinality(F) + Cardinality(A) - Cardinality(F \cap A)
  BY <1>1, FS_Union
<1>3. Cardinality(F \cap A) = 0
  <2>1. Cardinality({}) = 0
    BY FS_EmptySet
  <2> QED
    BY <2>1
<1>4. R \cap (F \cup A) = F \cup A
  OBVIOUS
<1>5. /\ Cardinality(R \ (F \cup A)) = Cardinality(R) - Cardinality(R \cap (F \cup A))
      /\ IsFiniteSet(R \ (F \cup A))
  BY FS_Difference
<1>6. Cardinality(R \ (F \cup A)) = Cardinality(R) - Cardinality(F \cup A)
  BY <1>4, <1>5
<1>7. /\ Cardinality(F) \in Nat /\ Cardinality(A) \in Nat /\ Cardinality(R) \in Nat
      /\ Cardinality(R \ (F \cup A)) \in Nat
  BY <1>1, <1>5, FS_CardinalityType
<1> HIDE DEF Cardinality
<1> QED
  BY <1>2, <1>3, <1>6, <1>7

(* A proposal is rejected only when it could no longer be approved: what    *)
(* derivate computes from the count and the length of a vector is about     *)
(* the relayers themselves, because the count is exact and the vector has   *)
(* no repetition.                                                           *)
THEOREM RejectionTheorem == Spec => RejectedOnlyIfHopeless
<1>1. ASSUME IInv, [Next]_vars, NEW p \in Proposal,
             Status(p) \in {"None", "Initiated"}, Status(p)' = "Rejected",
             (VotersFor(p) \cup VotersAgainst(p))' \subseteq relayers[p.symbol]
      PROVE  Cardinality(VotersFor(p)') +
               Cardinality(relayers[p.symbol] \ (VotersFor(p) \cup VotersAgainst(p))')
             < relayerThreshold[p.symbol]
  <2>1. VoteTypes /\ VotersDistinct /\ RP!IInv /\ Status(p)' # Status(p)
    BY <1>1 DEF IInv
  <2>2. PICK q \in Proposal, who \in Account, inFavour \in BOOLEAN :
          AcknowledgeProposal(q, who, inFavour)
    BY <1>1, <2>1 DEF Next, RegistryCall, NextBlock, vars, Status
  <2>3. votes' # votes
    BY <2>1 DEF Status
  <2>4. PICK v \in RproposalVotes : MayStore(q, v)
    BY <1>1, <2>2, <2>3, VoteShape
  <2>5. votes'[q] = v /\ Status(q)' = v.status
        /\ \A r \in Proposal : r # q => Status(r)' = Status(r)
    BY <2>1, <2>4, StoreFacts DEF MayStore
  <2>6. q = p
    BY <2>1, <2>5
  <2>7. /\ DistinctOf(v.votes_for, v.votes_against)
        /\ relayerCount[p.symbol] < Len(v.votes_against) + relayerThreshold[p.symbol]
    BY <1>1, <2>4, <2>5, <2>6 DEF MayStore
  <2> DEFINE F == Range(v.votes_for)
             A == Range(v.votes_against)
             R == relayers[p.symbol]
  <2>8. VotersFor(p)' = F /\ VotersAgainst(p)' = A
    BY <2>5, <2>6, NoneIsNoVotes DEF VotersFor, VotersAgainst, VotesOf
  <2>9. F \cap A = {} /\ F \cup A \subseteq R
    BY <1>1, <2>7, <2>8 DEF DistinctOf
  <2>10. /\ IsFiniteSet(R) /\ relayerCount[p.symbol] = Cardinality(R)
         /\ relayerThreshold[p.symbol] \in Nat
    <3>1. p.symbol \in RSymbol
      BY DEF Proposal
    <3>2. /\ RP!Cardinality(R) = Cardinality(R)
          /\ RP!IsFiniteSet(R) <=> IsFiniteSet(R)
      BY DEF RP!Cardinality, Cardinality, RP!IsFiniteSet, IsFiniteSet
    <3> QED
      BY <2>1, <3>1, <3>2 DEF RP!IInv, RP!TypeOK, RP!FiniteMembers, RP!CountIsExact
  <2>11. Cardinality(A) = Len(v.votes_against)
    BY <2>7, DistinctCount DEF DistinctOf, RproposalVotes
  <2> HIDE DEF F, A, R
  <2>12. /\ Cardinality(F) + Cardinality(R \ (F \cup A)) + Cardinality(A) = Cardinality(R)
         /\ Cardinality(F) \in Nat /\ Cardinality(R \ (F \cup A)) \in Nat
         /\ Cardinality(A) \in Nat /\ Cardinality(R) \in Nat
    BY <2>9, <2>10, RemainingVotes
  <2>13. Cardinality(F) + Cardinality(R \ (F \cup A)) < relayerThreshold[p.symbol]
    BY <2>7, <2>10, <2>11, <2>12
  <2> QED
    BY <2>8, <2>13 DEF R
<1>2. IInv /\ [Next]_vars =>
        [\A p \in Proposal :
           /\ Status(p) \in {"None", "Initiated"}
           /\ Status(p)' = "Rejected"
           /\ (VotersFor(p) \cup VotersAgainst(p))' \subseteq relayers[p.symbol]
           => Cardinality(VotersFor(p)') +
                Cardinality(relayers[p.symbol] \ (VotersFor(p) \cup VotersAgainst(p))')
              < relayerThreshold[p.symbol]]_vars
  BY <1>1
<1> QED
  BY InitIInv, NextIInv, <1>2, PTL DEF Spec, RejectedOnlyIfHopeless

-----------------------------------------------------------------------------
(* rfis: chunks, and the sums over them.                                    *)

LEMMA EraFacts ==
  /\ IsFiniteSet(UnlockEra) /\ UnlockEra \subseteq Nat
  /\ \A e \in Era : e \in Nat /\ 0..e \subseteq UnlockEra /\ e \in UnlockEra
                    /\ e + BondingDuration \in UnlockEra
<1>1. MaxEra \in Nat /\ BondingDuration \in Nat
  BY RFisAssumption
<1>2. MaxEra + BondingDuration \in Int /\ 0 \in Int
  BY <1>1
<1>3. IsFiniteSet(UnlockEra)
  BY <1>2, FS_Interval DEF UnlockEra
<1> QED
  BY <1>1, <1>3 DEF UnlockEra, Era

LEMMA NoneFacts == None \notin Nat /\ \A x \in Option(Nat) : OrElse(x, 0) \in Nat
  BY RateAssumption DEF Option, OrElse

LEMMA ChunkFacts ==
  ASSUME NEW c \in Chunks
  PROVE  \A e \in UnlockEra : /\ c[e] \in Option(Nat)
                              /\ OrElse(c[e], 0) \in Nat
                              /\ [x \in UnlockEra |-> OrElse(c[x], 0)][e] = OrElse(c[e], 0)
  BY NoneFacts DEF Chunks

LEMMA SumChunksNat ==
  ASSUME NEW c \in Chunks, NEW E, E \subseteq UnlockEra
  PROVE  SumChunks(c, E) \in Nat
<1> DEFINE f == [x \in UnlockEra |-> OrElse(c[x], 0)]
<1>1. IsFiniteSet(E) /\ \A e \in E : f[e] \in Nat
  BY EraFacts, FS_Subset, ChunkFacts
<1> HIDE DEF f
<1>2. SumFunctionOnSet(f, E) \in Nat
  BY <1>1, SumNat
<1> QED
  BY <1>2 DEF f, SumChunks

LEMMA SumChunksNone ==
  ASSUME NEW E, E \subseteq UnlockEra
  PROVE  NoChunks \in Chunks /\ SumChunks(NoChunks, E) = 0
<1> DEFINE f == [x \in UnlockEra |-> OrElse(NoChunks[x], 0)]
<1>1. IsFiniteSet(E) /\ \A e \in E : f[e] = 0
  BY EraFacts, FS_Subset DEF NoChunks, OrElse
<1> HIDE DEF f
<1>2. SumFunctionOnSet(f, E) = 0
  BY <1>1, SumZero
<1> QED
  BY <1>2 DEF f, SumChunks, NoChunks, Chunks, Option

(* A chunk added to a list adds its value to the sums that count its era.   *)
LEMMA AddChunkSum ==
  ASSUME NEW c \in Chunks, NEW e \in UnlockEra, NEW v \in Nat
  PROVE  /\ AddChunk(c, e, v) \in Chunks
         /\ OrElse(AddChunk(c, e, v)[e], 0) = OrElse(c[e], 0) + v
         /\ \A x \in UnlockEra \ {e} : AddChunk(c, e, v)[x] = c[x]
         /\ \A E \in SUBSET UnlockEra :
              SumChunks(AddChunk(c, e, v), E) = SumChunks(c, E) + IF e \in E THEN v ELSE 0
<1> DEFINE d == AddChunk(c, e, v)
           f == [x \in UnlockEra |-> OrElse(c[x], 0)]
           g == [x \in UnlockEra |-> OrElse(d[x], 0)]
<1>1. /\ d \in Chunks
      /\ d[e] = OrElse(c[e], 0) + v
      /\ \A x \in UnlockEra \ {e} : d[x] = c[x]
  BY ChunkFacts DEF AddChunk, Chunks, Option
<1>2. OrElse(d[e], 0) = OrElse(c[e], 0) + v
  <2>1. d[e] \in Nat
    BY <1>1, ChunkFacts
  <2> QED
    BY <1>1, <2>1, NoneFacts DEF OrElse
<1>3. /\ \A x \in UnlockEra : f[x] \in Nat /\ g[x] \in Nat
      /\ \A x \in UnlockEra \ {e} : g[x] = f[x]
      /\ g[e] = f[e] + v
  <2> HIDE DEF d
  <2> QED
    BY <1>1, <1>2, ChunkFacts
<1>4. ASSUME NEW E \in SUBSET UnlockEra
      PROVE  SumChunks(d, E) = SumChunks(c, E) + IF e \in E THEN v ELSE 0
  <2>0. SumChunks(d, E) = SumFunctionOnSet(g, E) /\ SumChunks(c, E) = SumFunctionOnSet(f, E)
    BY DEF SumChunks
  <2> HIDE DEF d, f, g
  <2>1. IsFiniteSet(E) /\ \A x \in E : f[x] \in Int /\ g[x] \in Int
    <3>1. IsFiniteSet(E)
      BY EraFacts, FS_Subset
    <3> QED
      BY <1>3, <3>1
  <2>2. SumFunctionOnSet(f, E) \in Int
    BY <2>1, SumInt
  <2>3. CASE e \in E
    <3>1. \A x \in E \ {e} : g[x] = f[x]
      BY <1>3
    <3>2. SumFunctionOnSet(g, E) = SumFunctionOnSet(f, E) - f[e] + g[e]
      BY <2>1, <2>3, <3>1, SumChange
    <3> QED
      BY <1>3, <2>0, <2>2, <2>3, <3>2
  <2>4. CASE e \notin E
    <3>1. \A x \in E : f[x] = g[x]
      BY <1>3, <2>4
    <3>2. SumFunctionOnSet(f, E) = SumFunctionOnSet(g, E)
      BY <2>1, <3>1, SumSame
    <3> QED
      BY <2>0, <2>2, <2>4, <3>2
  <2> QED
    BY <2>3, <2>4
<1> QED
  BY <1>1, <1>2, <1>4

(* Taking the chunks of some eras out of a list takes out their sum.        *)
LEMMA ClearChunksSum ==
  ASSUME NEW c \in Chunks, NEW D, D \subseteq UnlockEra, NEW d,
         d = [x \in UnlockEra |-> IF x \in D THEN None ELSE c[x]]
  PROVE  /\ d \in Chunks
         /\ SumChunks(c, D) <= SumChunks(c, UnlockEra)
         /\ SumChunks(d, UnlockEra) = SumChunks(c, UnlockEra) - SumChunks(c, D)
         /\ \A e \in UnlockEra \ D : d[e] = c[e] /\ SumChunks(d, {e}) = SumChunks(c, {e})
<1> DEFINE f == [x \in UnlockEra |-> OrElse(c[x], 0)]
           g == [x \in UnlockEra |-> OrElse(d[x], 0)]
           R == UnlockEra \ D
<1>1. d \in Chunks
  BY DEF Chunks, Option
<1>2. /\ \A x \in UnlockEra : f[x] \in Int /\ g[x] \in Int
      /\ \A x \in R : f[x] = g[x]
      /\ \A x \in D : g[x] = 0
  <2>1. \A x \in UnlockEra : f[x] \in Nat /\ g[x] \in Nat
    BY <1>1, ChunkFacts
  <2>2. \A x \in R : d[x] = c[x]
    OBVIOUS
  <2>3. \A x \in D : d[x] = None
    OBVIOUS
  <2>4. \A x \in D : g[x] = 0
    BY <2>3 DEF OrElse
  <2>5. \A x \in R : f[x] = g[x]
    BY <2>2
  <2> HIDE DEF f, g
  <2>6. \A x \in UnlockEra : f[x] \in Int /\ g[x] \in Int
    BY <2>1
  <2> QED
    BY <2>4, <2>5, <2>6
<1>3. /\ SumChunks(c, UnlockEra) = SumFunctionOnSet(f, UnlockEra)
      /\ SumChunks(d, UnlockEra) = SumFunctionOnSet(g, UnlockEra)
      /\ SumChunks(c, D) = SumFunctionOnSet(f, D)
      /\ \A e \in R : SumChunks(d, {e}) = SumFunctionOnSet(g, {e})
                      /\ SumChunks(c, {e}) = SumFunctionOnSet(f, {e})
  BY DEF SumChunks
<1>4. IsFiniteSet(UnlockEra) /\ IsFiniteSet(D) /\ IsFiniteSet(R) /\ R \subseteq UnlockEra
  BY EraFacts, FS_Subset
<1>5. SumChunks(c, D) \in Nat /\ SumChunks(c, UnlockEra) \in Nat
  BY SumChunksNat
<1>6. \A x \in UnlockEra : f[x] \in Nat
  BY ChunkFacts
<1>7. R = UnlockEra \ D
  OBVIOUS
<1> HIDE DEF f, g, R
<1>8. SumFunctionOnSet(f, UnlockEra) = SumFunctionOnSet(f, D) + SumFunctionOnSet(f, R)
  BY <1>2, <1>4, <1>7, SumSplit
<1>9. SumFunctionOnSet(g, UnlockEra) = SumFunctionOnSet(g, D) + SumFunctionOnSet(g, R)
  BY <1>2, <1>4, <1>7, SumSplit
<1>10. SumFunctionOnSet(g, D) = 0
  BY <1>2, <1>4, SumZero
<1>11. SumFunctionOnSet(f, R) = SumFunctionOnSet(g, R)
  BY <1>2, <1>4, SumSame
<1>12. SumFunctionOnSet(f, R) \in Nat
  <2>1. \A x \in R : f[x] \in Nat
    BY <1>4, <1>6
  <2> QED
    BY <1>4, <2>1, SumNat
<1>13. ASSUME NEW e \in R PROVE SumChunks(d, {e}) = SumChunks(c, {e})
  <2>1. IsFiniteSet({e}) /\ \A x \in {e} : f[x] = g[x]
    BY <1>2, FS_Singleton
  <2>2. SumFunctionOnSet(f, {e}) = SumFunctionOnSet(g, {e})
    BY <2>1, SumSame
  <2> QED
    BY <1>3, <2>2
<1>14. \A e \in R : d[e] = c[e]
  BY <1>7
<1>15. /\ SumChunks(c, D) <= SumChunks(c, UnlockEra)
       /\ SumChunks(d, UnlockEra) = SumChunks(c, UnlockEra) - SumChunks(c, D)
  <2>1. SumChunks(c, UnlockEra) = SumChunks(c, D) + SumFunctionOnSet(f, R)
    BY <1>3, <1>8
  <2>2. SumChunks(d, UnlockEra) = 0 + SumFunctionOnSet(f, R)
    BY <1>3, <1>9, <1>10, <1>11
  <2>3. PICK n \in Nat : n = SumFunctionOnSet(f, R)
    BY <1>12
  <2> QED
    BY <1>5, <2>1, <2>2, <2>3
<1> QED
  BY <1>1, <1>7, <1>13, <1>14, <1>15

-----------------------------------------------------------------------------
(* rfis: what the users are owed, and the total bonded.                     *)

UnbondingOK == unbonding \in [User \X Pool -> Chunks]

LEMMA OwedNat ==
  ASSUME UnbondingOK, NEW p \in Pool, NEW E, E \subseteq UnlockEra
  PROVE  Owed(p, E) \in Nat
<1> DEFINE f == [who \in User |-> SumChunks(unbonding[<<who, p>>], E)]
<1>1. \A who \in User : unbonding[<<who, p>>] \in Chunks
  BY DEF UnbondingOK
<1>2. DOMAIN f = User /\ \A who \in User : f[who] \in Nat
  BY <1>1, SumChunksNat
<1>3. IsFiniteSet(User)
  BY RFisAssumption
<1> HIDE DEF f
<1>4. SumFunctionOnSet(f, User) \in Nat
  BY <1>2, <1>3, SumNat
<1>5. SumFunction(f) \in Nat
  BY <1>2, <1>4, SumOfFunction
<1> QED
  BY <1>5 DEF f, Owed

LEMMA OwedChange ==
  ASSUME UnbondingOK, UnbondingOK', NEW p \in Pool, NEW E, E \subseteq UnlockEra, NEW who \in User,
         \A u \in User \ {who} : unbonding'[<<u, p>>] = unbonding[<<u, p>>]
  PROVE  Owed(p, E)' = Owed(p, E) - SumChunks(unbonding[<<who, p>>], E)
                                  + SumChunks(unbonding'[<<who, p>>], E)
<1> DEFINE f == [u \in User |-> SumChunks(unbonding[<<u, p>>], E)]
           g == [u \in User |-> SumChunks(unbonding'[<<u, p>>], E)]
<1>1. \A u \in User : unbonding[<<u, p>>] \in Chunks /\ unbonding'[<<u, p>>] \in Chunks
  BY DEF UnbondingOK
<1>2. \A u \in User : SumChunks(unbonding[<<u, p>>], E) \in Nat /\ SumChunks(unbonding'[<<u, p>>], E) \in Nat
  BY <1>1, SumChunksNat
<1>3. /\ DOMAIN f = User /\ DOMAIN g = User
      /\ \A u \in User : f[u] \in Int /\ g[u] \in Int
      /\ \A u \in User \ {who} : g[u] = f[u]
  BY <1>2
<1>4. /\ f[who] = SumChunks(unbonding[<<who, p>>], E)
      /\ g[who] = SumChunks(unbonding'[<<who, p>>], E)
  OBVIOUS
<1>5. Owed(p, E) = SumFunction(f) /\ Owed(p, E)' = SumFunction(g)
  BY DEF Owed
<1>6. IsFiniteSet(User)
  BY RFisAssumption
<1> HIDE DEF f, g
<1>7. SumFunctionOnSet(g, User) = SumFunctionOnSet(f, User) - f[who] + g[who]
  BY <1>3, <1>6, SumChange
<1>8. SumFunction(f) = SumFunctionOnSet(f, User) /\ SumFunction(g) = SumFunctionOnSet(g, User)
  BY <1>3, SumOfFunction
<1> QED
  BY <1>4, <1>5, <1>7, <1>8

LEMMA OwedSame ==
  ASSUME NEW p \in Pool, NEW E, \A u \in User : unbonding'[<<u, p>>] = unbonding[<<u, p>>]
  PROVE  Owed(p, E)' = Owed(p, E)
<1>1. [u \in User |-> SumChunks(unbonding'[<<u, p>>], E)] = [u \in User |-> SumChunks(unbonding[<<u, p>>], E)]
  OBVIOUS
<1> QED
  BY <1>1 DEF Owed

LEMMA OwedNothing ==
  ASSUME NEW p \in Pool, NEW E, E \subseteq UnlockEra, \A u \in User : unbonding[<<u, p>>] = NoChunks
  PROVE  Owed(p, E) = 0
<1> DEFINE f == [u \in User |-> SumChunks(unbonding[<<u, p>>], E)]
<1>1. DOMAIN f = User /\ \A u \in User : f[u] = 0
  BY SumChunksNone
<1>2. IsFiniteSet(User)
  BY RFisAssumption
<1> HIDE DEF f
<1>3. SumFunctionOnSet(f, User) = 0
  BY <1>1, <1>2, SumZero
<1>4. SumFunction(f) = 0
  BY <1>1, <1>3, SumOfFunction
<1> QED
  BY <1>4 DEF f, Owed

LedgersOK(ps, l) ==
  /\ ps \subseteq Pool
  /\ l \in [Pool -> Option(StakingLedger)]
  /\ \A p \in Pool : l[p] # None => p \in ps

StakedIn(l, p) == IF l[p] = None THEN 0 ELSE l[p].active

LEMMA LedgersFacts ==
  ASSUME NEW ps, NEW l, LedgersOK(ps, l)
  PROVE  /\ {p \in ps : l[p] # None} = {p \in Pool : l[p] # None}
         /\ \A p \in Pool : StakedIn(l, p) \in Nat
         /\ \A p \in Pool : l[p] # None => l[p] \in StakingLedger
  BY DEF LedgersOK, Option, StakedIn, StakingLedger

LEMMA SumOfStakes ==
  ASSUME NEW ps, NEW l, LedgersOK(ps, l)
  PROVE  SumFunction([p \in {q \in ps : l[q] # None} |-> l[p].active])
           = SumFunctionOnSet([p \in Pool |-> StakedIn(l, p)], Pool)
<1> DEFINE B == {q \in ps : l[q] # None}
           f == [p \in B |-> l[p].active]
           g == [p \in Pool |-> StakedIn(l, p)]
<1>1. B \subseteq Pool /\ DOMAIN f = B
  BY LedgersFacts
<1>2. \A p \in B : f[p] = g[p]
  BY LedgersFacts DEF StakedIn
<1>3. \A p \in Pool : g[p] \in Int
  BY LedgersFacts
<1>4. \A p \in Pool : p \notin B => g[p] = 0
  BY LedgersFacts DEF StakedIn
<1>5. IsFiniteSet(Pool) /\ IsFiniteSet(B)
  <2>1. IsFiniteSet(Pool)
    BY RFisAssumption
  <2> QED
    BY <1>1, <2>1, FS_Subset
<1> HIDE DEF f, g, B
<1>6. SumFunction(f) = SumFunctionOnSet(f, B)
  BY <1>1, SumOfFunction
<1>7. SumFunctionOnSet(f, B) = SumFunctionOnSet(g, B)
  BY <1>2, <1>5, SumSame
<1>8. SumFunctionOnSet(g, B) = SumFunctionOnSet(g, Pool)
  <2>1. \A p \in Pool : g[p] \in Int /\ g[p] \in Int
    BY <1>3
  <2>2. \A p \in B : g[p] = g[p]
    OBVIOUS
  <2> QED
    BY <1>1, <1>4, <1>5, <2>1, <2>2, SumPart
<1>9. SumFunction(f) = SumFunctionOnSet(g, Pool)
  BY <1>6, <1>7, <1>8
<1> QED
  BY <1>9 DEF f, g, B

LedgerOK == LedgersOK(pools, ledger)
Staked(p) == StakedIn(ledger, p)

LEMMA LedgerFacts ==
  LedgerOK => /\ BondedPools = {p \in Pool : ledger[p] # None}
              /\ \A p \in Pool : Staked(p) \in Nat
              /\ \A p \in Pool : ledger[p] # None => ledger[p] \in StakingLedger
  BY LedgersFacts DEF LedgerOK, BondedPools, Staked

LEMMA TotalNat == LedgerOK => TotalBonded \in Nat
<1> SUFFICES ASSUME LedgerOK PROVE TotalBonded \in Nat
  OBVIOUS
<1> DEFINE g == [p \in Pool |-> StakedIn(ledger, p)]
<1>1. IsFiniteSet(Pool) /\ \A p \in Pool : g[p] \in Nat
  BY RFisAssumption, LedgersFacts DEF LedgerOK
<1>2. TotalBonded = SumFunctionOnSet(g, Pool)
  BY SumOfStakes DEF TotalBonded, BondedPools, LedgerOK
<1> HIDE DEF g
<1>3. SumFunctionOnSet(g, Pool) \in Nat
  BY <1>1, SumNat
<1> QED
  BY <1>2, <1>3

LEMMA TotalNatNext == LedgerOK' => TotalBonded' \in Nat
<1> SUFFICES ASSUME LedgerOK' PROVE TotalBonded' \in Nat
  OBVIOUS
<1> DEFINE g == [p \in Pool |-> StakedIn(ledger', p)]
<1>1. IsFiniteSet(Pool) /\ \A p \in Pool : g[p] \in Nat
  BY RFisAssumption, LedgersFacts DEF LedgerOK
<1>2. TotalBonded' = SumFunctionOnSet(g, Pool)
  BY SumOfStakes DEF TotalBonded, BondedPools, LedgerOK
<1> HIDE DEF g
<1>3. SumFunctionOnSet(g, Pool) \in Nat
  BY <1>1, SumNat
<1> QED
  BY <1>2, <1>3

(* A step that changes what one pool has staked changes the total by it.    *)
LEMMA TotalChange ==
  ASSUME LedgerOK, LedgerOK', NEW p \in Pool, \A q \in Pool \ {p} : Staked(q)' = Staked(q)
  PROVE  TotalBonded' = TotalBonded - Staked(p) + Staked(p)'
<1> DEFINE f == [q \in Pool |-> StakedIn(ledger, q)]
           g == [q \in Pool |-> StakedIn(ledger', q)]
<1>1. \A q \in Pool : StakedIn(ledger, q) \in Nat /\ StakedIn(ledger', q) \in Nat
  BY LedgersFacts DEF LedgerOK
<1>2. /\ IsFiniteSet(Pool)
      /\ \A q \in Pool : f[q] \in Int /\ g[q] \in Int
      /\ \A q \in Pool \ {p} : g[q] = f[q]
  BY <1>1, RFisAssumption DEF Staked
<1>3. f[p] = Staked(p) /\ g[p] = Staked(p)'
  BY DEF Staked
<1>4. TotalBonded = SumFunctionOnSet(f, Pool) /\ TotalBonded' = SumFunctionOnSet(g, Pool)
  BY SumOfStakes DEF TotalBonded, BondedPools, LedgerOK
<1> HIDE DEF f, g
<1>5. SumFunctionOnSet(g, Pool) = SumFunctionOnSet(f, Pool) - f[p] + g[p]
  BY <1>2, SumChange
<1> QED
  BY <1>3, <1>4, <1>5

(* A step that lowers no stake does not lower the total.                    *)
LEMMA TotalGrows ==
  ASSUME LedgerOK, LedgerOK', \A q \in Pool : Staked(q) <= Staked(q)'
  PROVE  TotalBonded <= TotalBonded'
<1> DEFINE f == [q \in Pool |-> StakedIn(ledger, q)]
           g == [q \in Pool |-> StakedIn(ledger', q)]
<1>1. \A q \in Pool : StakedIn(ledger, q) \in Nat /\ StakedIn(ledger', q) \in Nat
  BY LedgersFacts DEF LedgerOK
<1>2. /\ IsFiniteSet(Pool)
      /\ \A q \in Pool : f[q] \in Int /\ g[q] \in Int /\ f[q] <= g[q]
  BY <1>1, RFisAssumption DEF Staked
<1>3. TotalBonded = SumFunctionOnSet(f, Pool) /\ TotalBonded' = SumFunctionOnSet(g, Pool)
  BY SumOfStakes DEF TotalBonded, BondedPools, LedgerOK
<1> HIDE DEF f, g
<1>4. SumFunctionOnSet(f, Pool) <= SumFunctionOnSet(g, Pool)
  BY <1>2, SumAtMost
<1> QED
  BY <1>3, <1>4

-----------------------------------------------------------------------------
(* rfis: the arithmetic of rates and commissions.                           *)

LEMMA RateFacts ==
  /\ RateBase \in Nat \ {0} /\ RateLimit \in Nat \ {0} /\ AmountLimit \in Nat \ {0}
  /\ RateBase < RateLimit /\ RateLimit <= AmountLimit
  /\ None \notin Nat /\ RateType \subseteq Nat
  BY RateAssumption DEF RateType

(* A quotient is a number, and truncated when the product fits an amount.   *)
LEMMA QuotientFacts ==
  ASSUME NEW a \in Nat, NEW b \in Nat, NEW c \in Nat \ {0}
  PROVE  /\ Quotient(a, b, c) \in Nat
         /\ a * b < AmountLimit =>
              Quotient(a, b, c) = (a * b) \div c /\ Quotient(a, b, c) * c <= a * b
<1> DEFINE n == a * b
           q == n \div c
<1>1. n \in Nat /\ AmountLimit \in Nat
  BY RateFacts
<1>2. q \in Nat /\ q * c <= n
  BY <1>1, DivFloor
<1>3. Quotient(a, b, c) = q + IF n >= AmountLimit /\ c >= LimbLimit /\ n % c > c \div 2 THEN 1 ELSE 0
  BY DEF Quotient
<1> HIDE DEF n, q
<1>4. n < AmountLimit => Quotient(a, b, c) = q
  BY <1>1, <1>2, <1>3
<1> QED
  BY <1>2, <1>3, <1>4 DEF n, q

(* Rtokens are never redeemed for more than they are worth, while that fits *)
(* an amount.                                                               *)
LEMMA RedeemedAtMost ==
  ASSUME NEW r \in Nat, NEW x \in Nat
  PROVE  /\ RtokenToToken(r, x) \in Nat
         /\ x * r < AmountLimit => RtokenToToken(r, x) * RateBase <= x * r
<1> DEFINE q == Quotient(x, r, RateBase)
<1>1. x * r \in Nat /\ r # None
  BY RateFacts
<1>2. q \in Nat /\ (x * r < AmountLimit => q * RateBase <= x * r)
  BY RateFacts, QuotientFacts
<1>3. RtokenToToken(r, x) = IF q < AmountLimit THEN q ELSE 0
  BY <1>1 DEF RtokenToToken, MultiplyByRational
<1> HIDE DEF q
<1>4. 0 * RateBase <= x * r
  BY <1>1, RateFacts
<1> QED
  BY <1>2, <1>3, <1>4

(* Tokens never get more rtokens than they are worth, while in units of     *)
(* 1 / RateBase they fit an amount.                                         *)
LEMMA MintedAtMost ==
  ASSUME NEW r \in Option(Nat), NEW v \in Nat
  PROVE  /\ TokenToRtoken(r, v) \in Nat
         /\ r # None /\ v * RateBase < AmountLimit => TokenToRtoken(r, v) * r <= v * RateBase
<1>1. CASE r = None
  BY <1>1 DEF TokenToRtoken
<1>2. CASE r = 0
  <2>1. v * 0 <= v * RateBase
    BY RateFacts
  <2> QED
    BY <1>2, <2>1, RateFacts DEF TokenToRtoken
<1>3. CASE r # None /\ r # 0
  <2> DEFINE n == v * RateBase
             q == Quotient(v, RateBase, r)
  <2>1. r \in Nat \ {0} /\ n \in Nat /\ RateBase \in Nat
    BY <1>3, RateFacts DEF Option
  <2>2. q \in Nat /\ (n < AmountLimit => q * r <= n /\ q = n \div r)
    BY <2>1, QuotientFacts
  <2>3. TokenToRtoken(r, v) = IF q < AmountLimit THEN q ELSE v
    BY <1>3 DEF TokenToRtoken, MultiplyByRational
  <2> HIDE DEF q, n
  <2>4. ASSUME n < AmountLimit PROVE q < AmountLimit
    <3>1. 1 <= r /\ q * r \in Nat /\ q = q * 1
      BY <2>1, <2>2
    <3>2. 1 * q <= r * q
      BY <2>1, <2>2, <3>1, MulMono
    <3>3. r * q = q * r /\ 1 * q = q
      BY <2>1, <2>2
    <3> QED
      BY <2>1, <2>2, <2>4, <3>1, <3>2, <3>3, RateFacts
  <2> QED
    BY <2>1, <2>2, <2>3, <2>4, RateFacts DEF n
<1> QED
  BY <1>1, <1>2, <1>3

(* A new rate promises at most what it was derived from, while that fits an *)
(* amount in units of 1 / RateBase.                                         *)
LEMMA NewRateBacked ==
  ASSUME NEW t \in Nat, NEW i \in Nat
  PROVE  /\ NewRate(t, i) \in RateType
         /\ (i > 0 => t > 0) /\ t * RateBase < AmountLimit => i * NewRate(t, i) <= t * RateBase
<1>1. CASE i = 0
  <2>1. NewRate(t, i) = RateBase
    BY <1>1 DEF NewRate
  <2>2. 0 * RateBase <= t * RateBase
    BY RateFacts
  <2> QED
    BY <1>1, <2>1, <2>2, RateFacts DEF RateType
<1>2. CASE t = 0 /\ i # 0
  <2>1. NewRate(t, i) = RateBase
    BY <1>2 DEF NewRate
  <2> QED
    BY <1>2, <2>1, RateFacts DEF RateType
<1>3. CASE i # 0 /\ t # 0
  <2> DEFINE n == t * RateBase
             q == Quotient(t, RateBase, i)
             r == IF q < AmountLimit THEN q ELSE RateBase
  <2>1. i \in Nat \ {0} /\ n \in Nat /\ RateBase \in Nat
    BY <1>3, RateFacts
  <2>2. q \in Nat /\ (n < AmountLimit => q * i <= n)
    BY <2>1, QuotientFacts
  <2>3. NewRate(t, i) = r % RateLimit
    BY <1>3 DEF NewRate, MultiplyByRational
  <2>4. r \in Nat /\ r <= q
    BY <2>2, RateFacts
  <2> HIDE DEF q, r, n
  <2>5. r % RateLimit \in 0..(RateLimit - 1) /\ r % RateLimit <= r /\ r % RateLimit \in Nat
    BY <2>4, RateFacts
  <2>6. PICK z \in Nat : z = NewRate(t, i)
    BY <2>3, <2>5
  <2>7. z <= q
    BY <2>2, <2>3, <2>4, <2>5, <2>6
  <2>8. z * i <= q * i
    BY <2>1, <2>2, <2>7, MulMono
  <2>9. z * i = i * z /\ z * i \in Nat /\ q * i \in Nat
    BY <2>1, <2>2
  <2>10. n < AmountLimit => i * NewRate(t, i) <= n
    BY <2>1, <2>2, <2>6, <2>8, <2>9
  <2> QED
    BY <2>3, <2>5, <2>10 DEF RateType, n
<1> QED
  BY <1>1, <1>2, <1>3

(* A commission is a part of the amount it is taken from.                   *)
LEMMA PartOf ==
  ASSUME NEW part \in 0..PerbillBase, NEW amount \in Nat
  PROVE  PerbillMul(part, amount) \in 0..amount
<1> DEFINE x == part * amount
           q == x \div PerbillBase
           m == x % PerbillBase
<1>1. PerbillBase \in Nat \ {0} /\ part \in Nat /\ part <= PerbillBase
  BY RFisAssumption
<1>2. x \in Nat /\ x <= PerbillBase * amount
  BY <1>1, MulMono
<1>3. PerbillMul(part, amount) = q + IF m > PerbillBase \div 2 THEN 1 ELSE 0
  BY DEF PerbillMul
<1> HIDE DEF x
<1>4. q \in Nat /\ m \in Nat /\ x = q * PerbillBase + m /\ PerbillBase \div 2 \in Nat
  BY <1>1, <1>2
<1>5. PerbillBase * amount = amount * PerbillBase /\ q * PerbillBase \in Nat /\ amount * PerbillBase \in Nat
  BY <1>1, <1>4
<1> HIDE DEF q, m
<1>6. q <= amount
  <2>1. SUFFICES ASSUME amount + 1 <= q PROVE FALSE
    BY <1>4
  <2>2. (amount + 1) * PerbillBase <= q * PerbillBase
    BY <1>1, <1>4, <2>1, MulMono
  <2>3. (amount + 1) * PerbillBase = amount * PerbillBase + PerbillBase
    BY <1>1
  <2> QED
    BY <1>1, <1>2, <1>4, <1>5, <2>2, <2>3
<1>7. q = amount => m = 0
  BY <1>1, <1>2, <1>4, <1>5
<1> QED
  BY <1>3, <1>4, <1>6, <1>7

-----------------------------------------------------------------------------
(* rfis: the ledger of rFIS.                                                *)

LEMMA MintedLedger ==
  ASSUME NEW b \in RT!TokenLedger, NEW to \in Owner, NEW v \in Nat
  PROVE  /\ RT!Minted(b, to, v) \in RT!TokenLedger
         /\ RT!Minted(b, to, v).issuance <= b.issuance + v
<1> DEFINE sum == b.issuance + v
           new == IF sum < AmountLimit THEN sum ELSE AmountLimit - 1
           f == [b.free EXCEPT ![to] = @ + v]
<1>1. b.issuance \in Nat /\ b.free \in [Owner -> Nat] /\ b.free[to] \in Nat
  BY DEF RT!TokenLedger
<1>2. RT!Minted(b, to, v) = [free |-> f, issuance |-> new]
  BY DEF RT!Minted
<1>3. new \in Nat /\ new <= sum /\ f \in [Owner -> Nat]
  BY <1>1, RateFacts
<1> HIDE DEF f, new
<1> QED
  BY <1>2, <1>3 DEF RT!TokenLedger

(* An unbond's fee goes to the receiver, and the rest is burnt.             *)
LEMMA BurnedLedger ==
  ASSUME NEW b \in RT!TokenLedger, NEW who \in Owner, NEW value \in Nat, NEW fee \in 0..value,
         b.free[who] >= value
  PROVE  LET c == RT!Burned(RT!Transferred(b, who, Receiver, fee), who, value - fee) IN
         /\ c \in RT!TokenLedger
         /\ c.issuance = IF b.issuance >= value - fee THEN b.issuance - (value - fee) ELSE 0
<1> DEFINE d == RT!Transferred(b, who, Receiver, fee)
           c == RT!Burned(d, who, value - fee)
<1>1. /\ b.issuance \in Nat /\ b.free \in [Owner -> Nat] /\ b.free[who] \in Nat
      /\ b = [free |-> b.free, issuance |-> b.issuance]
      /\ Receiver \in Owner /\ b.free[Receiver] \in Nat
  BY DEF RT!TokenLedger, Owner
<1>2. d \in RT!TokenLedger /\ d.issuance = b.issuance /\ d.free[who] >= value - fee
  <2>1. CASE RT!Idle(who, Receiver, fee)
    BY <1>1, <2>1 DEF RT!Transferred
  <2>2. CASE ~RT!Idle(who, Receiver, fee)
    <3> DEFINE g == [b.free EXCEPT ![who] = @ - fee, ![Receiver] = @ + fee]
    <3>1. who # Receiver
      BY <2>2 DEF RT!Idle
    <3>2. d = [free |-> g, issuance |-> b.issuance]
      BY <1>1, <2>2, <3>1 DEF RT!Transferred
    <3>3. g \in [Owner -> Nat] /\ g[who] = b.free[who] - fee
      BY <1>1, <3>1
    <3> HIDE DEF d, g
    <3> QED
      BY <1>1, <3>2, <3>3 DEF RT!TokenLedger
  <2> QED
    BY <2>1, <2>2
<1> HIDE DEF d
<1> DEFINE h == [d.free EXCEPT ![who] = @ - (value - fee)]
           rest == IF d.issuance >= value - fee THEN d.issuance - (value - fee) ELSE 0
<1>3. c = [free |-> h, issuance |-> rest]
  BY DEF RT!Burned
<1>4. d.free \in [Owner -> Nat] /\ d.issuance \in Nat
  BY <1>2 DEF RT!TokenLedger
<1>5. h \in [Owner -> Nat] /\ rest \in Nat
  BY <1>2, <1>4
<1> HIDE DEF h, rest, c
<1>6. c \in RT!TokenLedger /\ c.issuance = rest
  BY <1>3, <1>5 DEF RT!TokenLedger
<1> QED
  BY <1>2, <1>6 DEF c, d, rest

-----------------------------------------------------------------------------
(* rfis: the inductive invariant.                                           *)

Settings == [switch : BOOLEAN, receiver : BOOLEAN, commission : CommissionPart,
             unbondCommission : UnbondPart, min : NominationNum, max : NominationNum, limit : Nat]

EraTypes == activeEra \in Era /\ currentEra \in Era /\ currentEra \in {activeEra, activeEra + 1}

StakeTypes == LedgerOK /\ free \in [Pool -> Nat] /\ UnbondingOK /\ adjusted \subseteq Pool

RateTypes ==
  rtokens \in RT!TokenLedger /\ rate \in Option(RateType) /\ eraRate \in [Era -> Option(RateType)]

ReportTypes ==
  /\ before \in [Era -> Option(Nat)] /\ after \in [Era -> Option(Nat)]
  /\ paidouts \subseteq Era \X Validator \X Pool
  /\ claimed \subseteq Era \X Validator
  /\ unlockedPools \in [Era -> SUBSET Pool]

SettingTypes ==
  /\ settings \in Settings
  /\ onboard \subseteq Validator /\ IsFiniteSet(onboard)
  /\ Cardinality(onboard) <= MAX_ONBOARD_VALIDATORS + 1
  /\ nominated \in [Era \X Pool -> Option(SUBSET Validator)]

\* What may wait.
CallOK(tx) ==
  /\ tx[1] \in Kind /\ tx[2] \in Era
  /\ tx[1] = "unlocks" => tx[3] \in Pool
  /\ tx[1] \in {"before", "after"} => tx[4] \in Nat
  /\ tx[1] = "paidouts" => tx[3] \in Pool /\ tx[4] \in Validator
  /\ tx[1] = "nomination" => tx[3] \in Pool /\ tx[4] \in SUBSET Validator

MempoolOK ==
  /\ \A tx \in mempool : CallOK(tx)
  /\ crossed \subseteq Kind \X Era /\ foreign \subseteq Kind \X Era

FisTypes == EraTypes /\ StakeTypes /\ RateTypes /\ ReportTypes /\ SettingTypes /\ MempoolOK

\* The nominations of e are the workers', and each knew of the one waiting.
Orderly(e) == <<"nomination", e>> \notin crossed \cup foreign

\* Then at most one of them waits.
OneNomination ==
  \A a, b \in mempool : Tag(a) = Tag(b) /\ a[1] = "nomination" /\ Orderly(a[2]) => a = b

\* While a nomination waits, nobody else nominates its targets.
TargetsFree ==
  \A tx \in mempool :
    tx[1] = "nomination" /\ Orderly(tx[2]) => tx[4] \cap NominatedValidators(tx[2]) = {}

\* A pool without stake owes nothing, and a stake is in the pool's account.
StakesHeld ==
  \A p \in Pool :
    IF ledger[p] = None
    THEN free[p] >= ExistentialDeposit /\ \A who \in User : unbonding[<<who, p>>] = NoChunks
    ELSE free[p] >= ledger[p].total

\* The bound on a pool's balance is a bound on its stake.
StakesBounded == \A p \in Pool : Staked(p) <= MaxStake

\* The second reports are all the workers'.
Trusted == \A e \in Era : <<"after", e>> \notin foreign

\* A total that was read for the second report still holds.
Holds(total) == total <= TotalBonded /\ (rtokens.issuance > 0 => total > 0)

\* An era's rate comes after its second report.
RatesInOrder == \A e \in Era : eraRate[e] # None => after[e] # None /\ rate # None

\* A trusted second report is about an era that has begun.
ReportsInOrder ==
  /\ \A e \in Era : e > activeEra => after[e] = None
  /\ \A tx \in mempool : tx[1] = "after" => tx[2] <= activeEra

ReportsHold ==
  /\ \A tx \in mempool :
       tx[1] = "after" /\ tx[2] = activeEra /\ after[activeEra] = None => Holds(tx[4])
  /\ eraRate[activeEra] = None /\ after[activeEra] # None => Holds(after[activeEra])

\* Solvent without rounding.
Backed ==
  /\ rtokens.issuance > 0 => TotalBonded > 0
  /\ rate # None => rtokens.issuance * rate <= TotalBonded * RateBase

ReportInv == ReportsInOrder /\ ReportsHold /\ Backed

NomineeInv == OneNomination /\ TargetsFree /\ NomineesNotShared
StakeInv == StakesHeld /\ UnbondsCovered
RateInv == RatesInOrder /\ (Trusted => ReportInv)

FisInv == FisTypes /\ NomineeInv /\ StakeInv /\ StakesBounded /\ RateInv

LEMMA FisTypesOK == FisTypes => RFisTypeOK
  BY DEF FisTypes, EraTypes, StakeTypes, RateTypes, ReportTypes, SettingTypes, MempoolOK, CallOK,
     RFisTypeOK, LedgerOK, LedgersOK, UnbondingOK

LEMMA ConstantFacts ==
  /\ ExistentialDeposit \in Nat /\ MaxStake \in Nat /\ MaxEra \in Nat
  /\ MAX_ONBOARD_VALIDATORS \in Nat /\ Total \subseteq Nat
  /\ \A c \in CommissionPart \cup UnbondPart : c \in 0..PerbillBase
  /\ Value \subseteq Nat /\ Reward \subseteq Nat /\ SwapFee \subseteq Nat
  /\ BalanceLimit \subseteq Nat /\ 0 \in Era
  BY RFisAssumption DEF Era

(* What all pools together may hold, in units of 1 / RateBase, fits an      *)
(* amount, and so does what one pool may hold.                              *)
LEMMA SupplyFacts ==
  /\ Cardinality(Pool) \in Nat
  /\ \A t \in Nat : t <= MaxStake * Cardinality(Pool) => t * RateBase < AmountLimit
  /\ Pool # {} => \A t \in Nat : t <= MaxStake => t * RateBase < AmountLimit
<1>1. /\ IsFiniteSet(Pool) /\ MaxStake \in Nat /\ RateBase \in Nat /\ AmountLimit \in Nat
      /\ Cardinality(Pool) * MaxStake * RateBase < AmountLimit
  BY RFisAssumption, RateFacts
<1>2. Cardinality(Pool) \in Nat
  BY <1>1, FS_CardinalityType
<1>3. PICK n \in Nat : n = Cardinality(Pool)
  BY <1>2
<1>4. /\ n * MaxStake * RateBase < AmountLimit /\ n * MaxStake \in Nat
      /\ n * MaxStake = MaxStake * n
  BY <1>1, <1>3
<1>5. ASSUME NEW t \in Nat, t <= MaxStake * n PROVE t * RateBase < AmountLimit
  <2>1. t * RateBase <= (n * MaxStake) * RateBase
    BY <1>1, <1>4, <1>5, MulMono
  <2>2. t * RateBase \in Nat /\ (n * MaxStake) * RateBase \in Nat
    BY <1>1, <1>4
  <2> QED
    BY <1>1, <1>4, <2>1, <2>2
<1>6. ASSUME Pool # {}, NEW t \in Nat, t <= MaxStake PROVE t <= MaxStake * n
  <2>1. n # 0
    BY <1>1, <1>3, <1>6, FS_EmptySet
  <2>2. 1 * MaxStake <= n * MaxStake
    BY <1>1, <2>1, MulMono
  <2> QED
    BY <1>1, <1>4, <1>6, <2>2
<1> QED
  BY <1>3, <1>5, <1>6

(* With bounded stakes the total bonded in units of 1 / RateBase does.      *)
LEMMA TotalBounded ==
  ASSUME LedgerOK, StakesBounded
  PROVE  TotalBonded \in Nat /\ TotalBonded * RateBase < AmountLimit
<1> DEFINE f == [p \in Pool |-> StakedIn(ledger, p)]
           g == [p \in Pool |-> MaxStake]
<1>1. IsFiniteSet(Pool) /\ MaxStake \in Nat /\ TotalBonded \in Nat
  BY RFisAssumption, TotalNat
<1>2. \A p \in Pool : f[p] \in Int /\ g[p] \in Int /\ f[p] <= g[p]
  <2>1. \A p \in Pool : StakedIn(ledger, p) \in Nat
    BY LedgersFacts DEF LedgerOK
  <2> QED
    BY <1>1, <2>1 DEF StakesBounded, Staked
<1>3. \A p \in Pool : g[p] = IF p \in Pool THEN MaxStake ELSE 0
  OBVIOUS
<1>4. TotalBonded = SumFunctionOnSet(f, Pool)
  BY SumOfStakes DEF TotalBonded, BondedPools, LedgerOK
<1> HIDE DEF f, g
<1>5. SumFunctionOnSet(f, Pool) <= SumFunctionOnSet(g, Pool)
  BY <1>1, <1>2, SumAtMost
<1>6. SumFunctionOnSet(g, Pool) = MaxStake * Cardinality(Pool \cap Pool)
  BY <1>1, <1>3, SumConstant
<1>7. Pool \cap Pool = Pool
  OBVIOUS
<1> QED
  BY <1>1, <1>4, <1>5, <1>6, <1>7, SupplyFacts

LEMMA SetNotNone == None \notin StakingLedger /\ None \notin SUBSET Validator /\ None \notin RateType
  BY RFisAssumption, RateFacts

-----------------------------------------------------------------------------
(* rfis: what the calls do to the ledger of a pool.                         *)

\* The ledger of p becomes l.
Restaked(p, l) ==
  /\ p \in Pool /\ ledger[p] # None /\ l \in StakingLedger
  /\ pools' = pools /\ ledger' = [ledger EXCEPT ![p] = l]

LEMMA RestakedFacts ==
  ASSUME LedgerOK, NEW p, NEW l, Restaked(p, l)
  PROVE  /\ LedgerOK'
         /\ ledger'[p] = l /\ ledger'[p] # None /\ Staked(p)' = l.active /\ Staked(p) = ledger[p].active
         /\ \A q \in Pool : (ledger'[q] = None) <=> (ledger[q] = None)
         /\ \A q \in Pool \ {p} : ledger'[q] = ledger[q] /\ Staked(q)' = Staked(q)
  BY SetNotNone DEF LedgerOK, LedgersOK, Restaked, Staked, StakedIn, Option

LEMMA RecordFacts ==
  ASSUME LedgerOK, NEW p \in BondedPools
  PROVE  /\ p \in Pool /\ p \in pools /\ ledger[p] # None
         /\ ledger[p] \in StakingLedger
         /\ ledger[p].active \in Nat /\ ledger[p].total \in Nat /\ ledger[p].unlocking \in Chunks
         /\ ledger[p] = [active |-> ledger[p].active, total |-> ledger[p].total,
                         unlocking |-> ledger[p].unlocking]
  BY DEF LedgerOK, LedgersOK, BondedPools, Option, StakingLedger

LEMMA StakeChanges ==
  ASSUME NEW l \in StakingLedger, NEW x \in Nat
  PROVE  /\ Grown(l, x) \in StakingLedger
         /\ \A e \in UnlockEra : /\ x <= l.active => Unlocking(l, e, x) \in StakingLedger
                                 /\ [l EXCEPT !.unlocking = AddChunk(@, e, x)] \in StakingLedger
<1>1. l.active \in Nat /\ l.total \in Nat /\ l.unlocking \in Chunks
  BY DEF StakingLedger
<1>2. \A e \in UnlockEra : AddChunk(l.unlocking, e, x) \in Chunks
  BY <1>1, AddChunkSum
<1> QED
  BY <1>1, <1>2 DEF Grown, Unlocking, StakingLedger

LEMMA BondEffect ==
  ASSUME FisTypes, StakesHeld, NEW p \in Pool, NEW to, NEW value \in Value,
         LiquidityBond(p, to, value)
  PROVE  /\ value > 0 /\ value \in Nat /\ free[p] \in Nat /\ free[p] + value <= MaxStake
         /\ p \in BondedPools
         /\ Restaked(p, Grown(ledger[p], value))
<1>1. /\ Bondable(p, value) /\ BondExtra(p, free[p] + value, value) /\ pools' = pools
  BY DEF LiquidityBond
<1>2. /\ value > 0 /\ p \in BondedPools /\ free[p] + value <= MaxStake
      /\ value \in Nat /\ free[p] \in Nat /\ LedgerOK
  BY <1>1, ConstantFacts DEF Bondable, FisTypes, StakeTypes
<1> DEFINE surplus == free[p] + value - ledger[p].total
           extra == IF surplus < value THEN surplus ELSE value
<1>3. ledger[p] # None /\ ledger[p] \in StakingLedger /\ ledger[p].total \in Nat
  BY <1>2, RecordFacts
<1>4. free[p] >= ledger[p].total
  BY <1>3 DEF StakesHeld
<1>5. ~(surplus < 0) /\ extra = value
  BY <1>2, <1>3, <1>4
<1>6. ledger' = [ledger EXCEPT ![p] = Grown(ledger[p], extra)]
  BY <1>1, <1>2, <1>3, <1>4, <1>5 DEF BondExtra
<1> HIDE DEF surplus, extra
<1>7. ledger' = [ledger EXCEPT ![p] = Grown(ledger[p], value)]
  BY <1>5, <1>6
<1> QED
  BY <1>1, <1>2, <1>3, <1>7, StakeChanges DEF Restaked

LEMMA UnbondEffect ==
  ASSUME FisTypes, eraRate[activeEra] # None => rate # None,
         NEW who \in User, NEW p \in Pool, NEW value \in Value, LiquidityUnbond(who, p, value)
  PROVE  \E burnt \in Nat, balance \in Nat, era \in UnlockEra :
           /\ rate # None /\ rate \in Nat
           /\ balance = RtokenToToken(rate, burnt)
           /\ era = activeEra + BondingDuration
           /\ rtokens' \in RT!TokenLedger
           /\ rtokens'.issuance = IF rtokens.issuance >= burnt THEN rtokens.issuance - burnt ELSE 0
           /\ p \in BondedPools /\ ledger[p].active >= balance
           /\ Restaked(p, Unlocking(ledger[p], era, balance))
           /\ unbonding' = [unbonding EXCEPT ![<<who, p>>] = AddChunk(@, era, balance)]
<1> DEFINE fee == PerbillMul(settings.unbondCommission, value)
           balance == RtokenToToken(rate, value - fee)
           era == activeEra + BondingDuration
<1>1. /\ eraRate[activeEra] # None /\ p \in BondedPools /\ rtokens.free[who] >= value
      /\ ledger[p].active >= balance
      /\ ledger' = [ledger EXCEPT ![p] = Unlocking(ledger[p], era, balance)]
      /\ unbonding' = [unbonding EXCEPT ![<<who, p>>] = AddChunk(@, era, balance)]
      /\ rtokens' = RT!Burned(RT!Transferred(rtokens, who, Receiver, fee), who, value - fee)
      /\ pools' = pools
  BY DEF LiquidityUnbond
<1>2. fee \in 0..value /\ value \in Nat
  <2>1. settings.unbondCommission \in UnbondPart
    BY DEF FisTypes, SettingTypes, Settings
  <2> QED
    BY <2>1, ConstantFacts, PartOf
<1>3. rate # None /\ rate \in Nat
  BY <1>1, RateFacts DEF FisTypes, RateTypes, Option
<1> HIDE DEF fee
<1>4. value - fee \in Nat
  BY <1>2
<1>5. balance \in Nat
  BY <1>3, <1>4, RedeemedAtMost
<1>6. era \in UnlockEra
  BY EraFacts DEF FisTypes, EraTypes
<1>7. rtokens \in RT!TokenLedger /\ who \in Owner
  BY DEF FisTypes, RateTypes, Owner
<1>8. /\ rtokens' \in RT!TokenLedger
      /\ rtokens'.issuance = IF rtokens.issuance >= value - fee THEN rtokens.issuance - (value - fee) ELSE 0
  BY <1>1, <1>2, <1>7, BurnedLedger
<1>9. ledger[p] # None /\ ledger[p] \in StakingLedger /\ ledger[p].active \in Nat
  BY <1>1, RecordFacts DEF FisTypes, StakeTypes
<1>10. balance = RtokenToToken(rate, value - fee) /\ era = activeEra + BondingDuration
  OBVIOUS
<1> HIDE DEF balance, era
<1>11. Unlocking(ledger[p], era, balance) \in StakingLedger
  BY <1>1, <1>5, <1>6, <1>9, StakeChanges
<1>12. Restaked(p, Unlocking(ledger[p], era, balance))
  BY <1>1, <1>9, <1>11 DEF Restaked
<1> QED
  BY <1>1, <1>3, <1>4, <1>5, <1>6, <1>8, <1>10, <1>12

LEMMA AddUnlockEffect ==
  ASSUME FisTypes, NEW p \in Pool, NEW e \in UnlockEra, NEW value \in Value, AddPoolUnlock(p, e, value)
  PROVE  /\ p \in BondedPools
         /\ \E l \in StakingLedger :
              /\ l.active = ledger[p].active /\ l.total = ledger[p].total
              /\ Restaked(p, l)
<1> DEFINE l == [ledger[p] EXCEPT !.unlocking = AddChunk(@, e, value)]
<1>1. /\ p \in BondedPools /\ value \in Nat /\ pools' = pools
      /\ ledger' = [ledger EXCEPT ![p].unlocking = AddChunk(@, e, value)]
  BY ConstantFacts DEF AddPoolUnlock
<1>2. /\ ledger[p] # None /\ ledger[p] \in StakingLedger
      /\ ledger \in [Pool -> Option(StakingLedger)]
  BY <1>1, RecordFacts DEF FisTypes, StakeTypes, LedgerOK, LedgersOK
<1>a. ledger' = [ledger EXCEPT ![p] = l]
  BY <1>1, <1>2
<1>3. l \in StakingLedger /\ l.active = ledger[p].active /\ l.total = ledger[p].total
  BY <1>1, <1>2, StakeChanges DEF StakingLedger
<1> HIDE DEF l
<1>4. Restaked(p, l)
  BY <1>1, <1>2, <1>3, <1>a DEF Restaked
<1> QED
  BY <1>1, <1>3, <1>4

(* Consolidating takes matured unlocks out of the total.                    *)
LEMMA UnlockEffect ==
  ASSUME FisTypes, NEW tx \in mempool, SubmitUnlocks(tx)
  PROVE  \E p \in BondedPools, l \in StakingLedger, D \in SUBSET UnlockEra :
           /\ D = {x \in UnlockEra : x <= currentEra}
           /\ l.active = ledger[p].active
           /\ l.total = IF ledger[p].total >= SumChunks(ledger[p].unlocking, D)
                        THEN ledger[p].total - SumChunks(ledger[p].unlocking, D) ELSE 0
           /\ l.unlocking = [x \in UnlockEra |-> IF x \in D THEN None ELSE ledger[p].unlocking[x]]
           /\ Restaked(p, l)
           /\ p = tx[3]
<1>1. PICK p : p = tx[3]
  OBVIOUS
<1> DEFINE D == 0..currentEra
           u == ledger[p].unlocking
           l == Consolidated(ledger[p], currentEra)
           s == SumChunks(u, D)
           t == ledger[p].total
<1>2. /\ CallOK(tx) /\ tx[1] = "unlocks" /\ ledger' = [ledger EXCEPT ![p] = l] /\ pools' = pools
      /\ ledger[p] # None
  BY <1>1 DEF FisTypes, MempoolOK, SubmitUnlocks
<1>3. p \in Pool /\ ledger[p] # None /\ LedgerOK
  BY <1>1, <1>2 DEF CallOK, FisTypes, StakeTypes
<1>4. p \in BondedPools
  BY <1>3, LedgerFacts
<1>5. ledger[p] \in StakingLedger /\ t \in Nat /\ ledger[p].active \in Nat /\ u \in Chunks
  BY <1>3, <1>4, RecordFacts
<1>6. currentEra \in Nat /\ D \subseteq UnlockEra /\ D = {x \in UnlockEra : x <= currentEra}
  <2>1. currentEra \in Nat /\ D \subseteq UnlockEra
    BY EraFacts DEF FisTypes, EraTypes
  <2>2. \A x \in UnlockEra : x <= currentEra <=> x \in D
    BY <2>1, EraFacts
  <2> QED
    BY <2>1, <2>2
<1>7. s \in Nat
  BY <1>5, <1>6, SumChunksNat
<1> DEFINE c == [x \in UnlockEra |-> IF x <= currentEra THEN None ELSE u[x]]
           m == Max({t - s, 0})
<1>8. l = [active |-> ledger[p].active, total |-> m, unlocking |-> c]
  BY DEF Consolidated
<1>9. c = [x \in UnlockEra |-> IF x \in D THEN None ELSE u[x]] /\ c \in Chunks
  <2>1. \A x \in UnlockEra : (x <= currentEra) <=> x \in D
    BY <1>6
  <2>2. \A x \in UnlockEra : u[x] \in Option(Nat)
    BY <1>5, ChunkFacts
  <2> QED
    BY <2>1, <2>2 DEF Chunks, Option
<1> HIDE DEF c, u, s, t, D
<1>10. m = IF t >= s THEN t - s ELSE 0
  BY <1>5, <1>7 DEF Max
<1> HIDE DEF m
<1>11. m \in Nat
  BY <1>5, <1>7, <1>10
<1>12. l \in StakingLedger /\ l.active = ledger[p].active /\ l.total = m /\ l.unlocking = c
  BY <1>5, <1>8, <1>9, <1>11 DEF StakingLedger
<1> HIDE DEF l
<1>13. Restaked(p, l)
  BY <1>2, <1>3, <1>12 DEF Restaked
<1>14. /\ l.total = IF ledger[p].total >= SumChunks(ledger[p].unlocking, D)
                     THEN ledger[p].total - SumChunks(ledger[p].unlocking, D) ELSE 0
       /\ l.unlocking = [x \in UnlockEra |-> IF x \in D THEN None ELSE ledger[p].unlocking[x]]
  BY <1>9, <1>10, <1>12 DEF u, s, t
<1> QED
  BY <1>1, <1>4, <1>6, <1>12, <1>13, <1>14

(* A payout adds the reward to some stakes and to the accounts.             *)
LEMMA PayoutEffect ==
  ASSUME FisTypes, NEW v, NEW e, NEW reward \in Reward, PayoutStakers(v, e, reward), pools' = pools
  PROVE  /\ LedgerOK' /\ free' \in [Pool -> Nat] /\ reward \in Nat
         /\ \A p \in Pool :
              \/ ledger'[p] = ledger[p] /\ free'[p] = free[p]
              \/ /\ ledger[p] # None /\ ledger'[p] # None
                 /\ ledger[p] \in StakingLedger
                 /\ ledger'[p] = Grown(ledger[p], reward) /\ free'[p] = free[p] + reward
                 /\ free[p] + reward <= MaxStake
<1> DEFINE paid == {p \in BondedPools : IsActived(e, v, p) /\ free[p] + reward <= MaxStake}
<1>1. LedgerOK /\ free \in [Pool -> Nat] /\ reward \in Nat
  BY ConstantFacts DEF FisTypes, StakeTypes
<1>2. CASE e >= activeEra \/ <<e, v>> \in claimed
  <2>1. ledger' = ledger /\ free' = free
    BY <1>2 DEF PayoutStakers
  <2> QED
    BY <1>1, <2>1 DEF LedgerOK
<1>3. CASE ~(e >= activeEra \/ <<e, v>> \in claimed)
  <2>1. /\ ledger' = [p \in Pool |-> IF p \in paid THEN Grown(ledger[p], reward) ELSE ledger[p]]
        /\ free' = [p \in Pool |-> IF p \in paid THEN free[p] + reward ELSE free[p]]
    BY <1>3 DEF PayoutStakers
  <2>2. \A p \in paid : /\ p \in Pool /\ p \in pools /\ ledger[p] # None /\ ledger[p] \in StakingLedger
                        /\ Grown(ledger[p], reward) \in StakingLedger
                        /\ Grown(ledger[p], reward) # None
                        /\ free[p] + reward <= MaxStake
    BY <1>1, RecordFacts, StakeChanges, SetNotNone
  <2> HIDE DEF paid
  <2>3. LedgerOK'
    BY <1>1, <2>1, <2>2 DEF LedgerOK, LedgersOK, Option
  <2> QED
    BY <1>1, <2>1, <2>2, <2>3
<1> QED
  BY <1>2, <1>3

-----------------------------------------------------------------------------
(* rfis: the steps, and the types.                                          *)

\* Taken from the pool and valid.
Taken(tx) == tx \in mempool /\ Valid(tx) /\ mempool' = mempool \ {tx} /\ UNCHANGED sentVars

PayoutStep ==
  /\ \E v \in Validator, e \in Era, reward \in Reward :
       /\ PayoutStakers(v, e, reward)
       /\ \/ UNCHANGED <<paidouts, txVars>>
          \/ \E tx : Taken(tx) /\ tx[1] = "paidouts" /\ tx[2] = e /\ tx[4] = v
                    /\ paidouts' = paidouts \cup {<<tx[2], tx[4], tx[3]>>}
  /\ UNCHANGED <<eraVars, pools, unbonding, adjusted, rateVars, before, after, unlockedPools, voteVars>>

\* The steps that leave the stakes alone.
QuietStep ==
  \/ Configure
  \/ \E v \in Validator : Onboard(v) \/ Offboard(v)
  \/ OffchainWorker
  \/ \E tx \in ForeignCalls : SubmitForeign(tx)
  \/ \E tx \in mempool : Drop(tx)
  \/ \E tx : Taken(tx) /\ (\/ SubmitTotalBondedBefore(tx)
                         \/ SubmitTotalBondedAfter(tx)
                         \/ SubmitNomination(tx))
  \/ OnFinalize
  \/ PlanEra
  \/ StartEra
  \/ UNCHANGED rfisVars

StakeStep ==
  \/ \E p \in Pool : AddNewPool(p) \/ BondForPool(p)
  \/ \E p \in Pool, e \in UnlockEra, v \in Value : AddPoolUnlock(p, e, v)
  \/ \E p \in Pool, to \in Owner, v \in Value : LiquidityBond(p, to, v)
  \/ \E p \in Pool, v \in Value, fee \in SwapFee : BondAndSwapTaken(p, v, fee)
  \/ \E who \in User, p \in Pool, v \in Value : LiquidityUnbond(who, p, v)
  \/ \E who \in User, p \in Pool : LiquidityWithdrawUnbond(who, p)
  \/ \E tx : Taken(tx) /\ SubmitUnlocks(tx)
  \/ PayoutStep

LEMMA NextCases == MempoolOK /\ [RFisNext]_rfisVars => StakeStep \/ QuietStep
<1> SUFFICES ASSUME MempoolOK, [RFisNext]_rfisVars PROVE StakeStep \/ QuietStep
  OBVIOUS
<1>1. CASE RootCall
  BY <1>1 DEF RootCall, StakeStep, QuietStep
<1>2. CASE RootUnlock
  BY <1>2 DEF RootUnlock, StakeStep
<1>3. CASE ValidatorCall
  BY <1>3 DEF ValidatorCall, QuietStep
<1>4. CASE UserCall
  BY <1>4 DEF UserCall, StakeStep, Owner
<1>5. CASE SwapCall
  BY <1>5 DEF SwapCall, StakeStep, Owner
<1>6. CASE Chain
  <2>1. ASSUME NEW tx \in mempool, Include(tx) PROVE StakeStep \/ QuietStep
    <3>1. Taken(tx)
      BY <2>1 DEF Include, Taken
    <3>2. CASE SubmitUnlocks(tx)
      BY <3>1, <3>2 DEF StakeStep
    <3>3. ASSUME NEW reward \in Reward, SubmitPaidouts(tx, reward) PROVE StakeStep
      <4>1. tx[1] = "paidouts" /\ tx[2] \in Era /\ tx[4] \in Validator
        BY <3>3 DEF SubmitPaidouts, MempoolOK, CallOK
      <4>2. /\ PayoutStakers(tx[4], tx[2], reward)
            /\ paidouts' = paidouts \cup {<<tx[2], tx[4], tx[3]>>}
            /\ UNCHANGED <<eraVars, pools, unbonding, adjusted, rateVars, before, after, unlockedPools,
                           voteVars>>
        BY <3>3 DEF SubmitPaidouts
      <4>3. PayoutStep
        BY <3>1, <4>1, <4>2 DEF PayoutStep
      <4> QED
        BY <4>3 DEF StakeStep
    <3>4. CASE SubmitTotalBondedBefore(tx) \/ SubmitTotalBondedAfter(tx) \/ SubmitNomination(tx)
      BY <3>1, <3>4 DEF QuietStep
    <3> QED
      BY <2>1, <3>2, <3>3, <3>4 DEF Include
  <2>2. ASSUME NEW v \in Validator, NEW e \in Era, NEW reward \in Reward, PayoutByOthers(v, e, reward)
        PROVE  StakeStep
    <3>1. PayoutStep
      BY <2>2 DEF PayoutByOthers, PayoutStep
    <3> QED
      BY <3>1 DEF StakeStep
  <2>3. CASE OffchainWorker \/ OnFinalize \/ PlanEra \/ StartEra
    BY <2>3 DEF QuietStep
  <2>4. ASSUME NEW tx \in mempool, Drop(tx) PROVE QuietStep
    BY <2>4 DEF QuietStep
  <2> QED
    BY <1>6, <2>1, <2>2, <2>3, <2>4 DEF Chain
<1>7. CASE ForeignCall \/ UNCHANGED rfisVars
  BY <1>7 DEF ForeignCall, QuietStep
<1> QED
  BY <1>1, <1>2, <1>3, <1>4, <1>5, <1>6, <1>7 DEF RFisNext

LEMMA QuietStakes ==
  ASSUME StakeTypes, QuietStep
  PROVE  UNCHANGED stakeVars /\ StakeTypes'
<1>1. UNCHANGED stakeVars
  BY DEF QuietStep, Configure, Onboard, Offboard, OffchainWorker, SubmitForeign, Drop, SubmitTotalBondedBefore,
     SubmitTotalBondedAfter, SubmitNomination, OnFinalize, PlanEra, StartEra, rfisVars, stakeVars
<1> QED
  BY <1>1 DEF stakeVars, StakeTypes, LedgerOK, UnbondingOK

LEMMA StakeStepTypes ==
  ASSUME FisTypes, StakesHeld, eraRate[activeEra] # None => rate # None, StakeStep
  PROVE  StakeTypes'
<1>0. LedgerOK /\ free \in [Pool -> Nat] /\ UnbondingOK /\ adjusted \subseteq Pool
  BY DEF FisTypes, StakeTypes
<1>1. ASSUME NEW p \in Pool, AddNewPool(p) PROVE StakeTypes'
  BY <1>0, <1>1 DEF AddNewPool, StakeTypes, LedgerOK, LedgersOK, UnbondingOK
<1>2. ASSUME NEW p \in Pool, BondForPool(p) PROVE StakeTypes'
  <2> DEFINE l == [active |-> 0, total |-> 0, unlocking |-> NoChunks]
  <2>1. l \in StakingLedger
    BY SumChunksNone DEF StakingLedger
  <2>2. /\ p \in pools /\ ledger' = [ledger EXCEPT ![p] = l]
        /\ UNCHANGED <<pools, free, unbonding, adjusted>>
    BY <1>2 DEF BondForPool
  <2> HIDE DEF l
  <2>3. LedgerOK'
    BY <1>0, <2>1, <2>2, SetNotNone DEF LedgerOK, LedgersOK, Option
  <2> QED
    BY <1>0, <2>2, <2>3 DEF StakeTypes, UnbondingOK
<1>3. ASSUME NEW p \in Pool, NEW e \in UnlockEra, NEW v \in Value, AddPoolUnlock(p, e, v)
      PROVE  StakeTypes'
  <2>1. PICK l \in StakingLedger : Restaked(p, l)
    BY <1>3, AddUnlockEffect
  <2>2. LedgerOK'
    BY <1>0, <2>1, RestakedFacts
  <2> QED
    BY <1>0, <1>3, <2>2 DEF StakeTypes, UnbondingOK, AddPoolUnlock
<1>4. ASSUME NEW p \in Pool, NEW to \in Owner, NEW v \in Value, LiquidityBond(p, to, v)
      PROVE  StakeTypes'
  <2>1. Restaked(p, Grown(ledger[p], v)) /\ v \in Nat
    BY <1>4, BondEffect
  <2>2. LedgerOK'
    BY <1>0, <2>1, RestakedFacts
  <2> QED
    BY <1>0, <1>4, <2>1, <2>2 DEF StakeTypes, UnbondingOK, LiquidityBond
<1>5. ASSUME NEW p \in Pool, NEW v \in Value, NEW fee \in SwapFee, BondAndSwapTaken(p, v, fee)
      PROVE  StakeTypes'
  <2>1. v \in Nat /\ fee \in Nat
    BY ConstantFacts
  <2> QED
    BY <1>0, <1>5, <2>1 DEF BondAndSwapTaken, StakeTypes, UnbondingOK, LedgerOK
<1>6. ASSUME NEW who \in User, NEW p \in Pool, NEW v \in Value, LiquidityUnbond(who, p, v)
      PROVE  StakeTypes'
  <2>1. PICK balance \in Nat, era \in UnlockEra :
          /\ Restaked(p, Unlocking(ledger[p], era, balance))
          /\ unbonding' = [unbonding EXCEPT ![<<who, p>>] = AddChunk(@, era, balance)]
    BY <1>6, UnbondEffect
  <2>2. LedgerOK'
    BY <1>0, <2>1, RestakedFacts
  <2>3. unbonding[<<who, p>>] \in Chunks
    BY <1>0 DEF UnbondingOK
  <2>4. AddChunk(unbonding[<<who, p>>], era, balance) \in Chunks
    BY <2>3, AddChunkSum
  <2>5. UnbondingOK'
    BY <1>0, <2>1, <2>4 DEF UnbondingOK
  <2> QED
    BY <1>0, <1>6, <2>2, <2>5 DEF StakeTypes, LiquidityUnbond
<1>7. ASSUME NEW who \in User, NEW p \in Pool, LiquidityWithdrawUnbond(who, p)
      PROVE  StakeTypes'
  <2> DEFINE due == {e \in UnlockEra : e <= currentEra}
             c == unbonding[<<who, p>>]
             total == SumChunks(c, due)
             d == [e \in UnlockEra |-> IF e \in due THEN None ELSE c[e]]
  <2>1. c \in Chunks /\ due \subseteq UnlockEra
    BY <1>0 DEF UnbondingOK
  <2>2. total \in Nat /\ d \in Chunks
    BY <2>1, SumChunksNat, ClearChunksSum
  <2>3. /\ free[p] >= total + ExistentialDeposit /\ free' = [free EXCEPT ![p] = @ - total]
        /\ unbonding' = [unbonding EXCEPT ![<<who, p>>] = d]
        /\ UNCHANGED <<pools, ledger, adjusted>>
    BY <1>7 DEF LiquidityWithdrawUnbond
  <2> HIDE DEF c, d, due, total
  <2>4. free' \in [Pool -> Nat]
    BY <1>0, <2>2, <2>3, ConstantFacts
  <2>5. UnbondingOK'
    BY <1>0, <2>2, <2>3 DEF UnbondingOK
  <2> QED
    BY <1>0, <2>3, <2>4, <2>5 DEF StakeTypes, LedgerOK
<1>8. ASSUME NEW tx, Taken(tx), SubmitUnlocks(tx) PROVE StakeTypes'
  <2>1. PICK p \in BondedPools, l \in StakingLedger : Restaked(p, l)
    BY <1>8, UnlockEffect DEF Taken
  <2>2. LedgerOK'
    BY <1>0, <2>1, RestakedFacts
  <2> QED
    BY <1>0, <1>8, <2>2 DEF StakeTypes, UnbondingOK, SubmitUnlocks
<1>9. CASE PayoutStep
  <2>1. PICK v \in Validator, e \in Era, reward \in Reward : PayoutStakers(v, e, reward)
    BY <1>9 DEF PayoutStep
  <2>2. UNCHANGED <<pools, unbonding, adjusted>>
    BY <1>9 DEF PayoutStep
  <2>3. LedgerOK' /\ free' \in [Pool -> Nat]
    BY <2>1, <2>2, PayoutEffect
  <2> QED
    BY <1>0, <2>2, <2>3 DEF StakeTypes, UnbondingOK
<1> QED
  BY <1>1, <1>2, <1>3, <1>4, <1>5, <1>6, <1>7, <1>8, <1>9 DEF StakeStep

(* What a worker may submit, on the state it sees.                          *)
LEMMA WorkerFacts ==
  ASSUME FisTypes, NEW known, NEW tx \in WorkerCalls(known)
  PROVE  /\ CallOK(tx)
         /\ tx[1] = "after" => tx[2] = activeEra /\ tx[4] = TotalBonded /\ after[activeEra] = None
         /\ tx[1] = "nomination" => tx[2] = activeEra /\ tx[4] \cap NominatedValidators(activeEra) = {}
<1>1. /\ activeEra \in Era /\ activeEra \in Nat /\ LastEra \in Era /\ LastEra <= activeEra
      /\ LedgerOK /\ TotalBonded \in Nat /\ onboard \subseteq Validator
  <2>1. activeEra \in Era /\ LedgerOK /\ onboard \subseteq Validator
    BY DEF FisTypes, EraTypes, StakeTypes, SettingTypes
  <2> QED
    BY <2>1, TotalNat, RFisAssumption DEF LastEra, Era
<1>2. \A p \in BondedPools : p \in Pool /\ ledger[p] # None
  BY <1>1, RecordFacts
<1>3. CASE tx \in UnlockCalls(known)
  <2>1. PICK p \in BondedPools : tx = <<"unlocks", activeEra, p>>
    BY <1>3 DEF UnlockCalls, Unlockable
  <2>2. tx[1] = "unlocks" /\ tx[2] = activeEra /\ tx[3] = p
    BY <2>1
  <2> QED
    BY <1>1, <1>2, <2>2 DEF CallOK, Kind
<1>4. CASE tx = <<"before", activeEra, None, TotalBonded>>
  <2>1. tx[1] = "before" /\ tx[2] = activeEra /\ tx[4] = TotalBonded
    BY <1>4
  <2> QED
    BY <1>1, <2>1 DEF CallOK, Kind
<1>5. ASSUME NEW u \in Unpaid, tx = <<"paidouts", LastEra, u[2], u[1]>> PROVE CallOK(tx) /\ tx[1] = "paidouts"
  <2>1. tx[1] = "paidouts" /\ tx[2] = LastEra /\ tx[3] = u[2] /\ tx[4] = u[1]
    BY <1>5
  <2>2. u[2] \in BondedPools /\ u[1] \in Validator
    BY DEF Unpaid
  <2> QED
    BY <1>1, <1>2, <2>1, <2>2 DEF CallOK, Kind
<1>6. CASE tx = <<"after", activeEra, None, TotalBonded>> /\ after[activeEra] = None
  <2>1. tx[1] = "after" /\ tx[2] = activeEra /\ tx[4] = TotalBonded
    BY <1>6
  <2> QED
    BY <1>1, <1>6, <2>1 DEF CallOK, Kind
<1>7. ASSUME NEW p \in BondedPools, NEW t \in Targets(p), tx = <<"nomination", activeEra, p, t>>
      PROVE  /\ CallOK(tx)
             /\ tx[1] = "nomination" /\ tx[2] = activeEra /\ tx[4] \cap NominatedValidators(activeEra) = {}
  <2>1. tx[1] = "nomination" /\ tx[2] = activeEra /\ tx[3] = p /\ tx[4] = t
    BY <1>7
  <2>2. t \subseteq onboard \ NominatedValidators(activeEra)
    BY <1>7 DEF Targets
  <2>3. t \in SUBSET Validator /\ t \cap NominatedValidators(activeEra) = {}
    BY <1>1, <2>2
  <2> QED
    BY <1>1, <1>2, <2>1, <2>3 DEF CallOK, Kind
<1>8. \/ tx \in UnlockCalls(known)
      \/ tx = <<"before", activeEra, None, TotalBonded>>
      \/ \E u \in Unpaid : tx = <<"paidouts", LastEra, u[2], u[1]>>
      \/ tx = <<"after", activeEra, None, TotalBonded>> /\ after[activeEra] = None
      \/ \E p \in BondedPools : \E t \in Targets(p) : tx = <<"nomination", activeEra, p, t>>
  <2>1. CASE UnlockCalls(known) # {}
    BY <2>1 DEF WorkerCalls
  <2>2. CASE UnlockCalls(known) = {} /\ before[activeEra] = None
    BY <2>2 DEF WorkerCalls
  <2>3. CASE UnlockCalls(known) = {} /\ before[activeEra] # None /\ Unpaid # {}
    BY <2>3 DEF WorkerCalls
  <2>4. CASE UnlockCalls(known) = {} /\ before[activeEra] # None /\ Unpaid = {} /\ after[activeEra] = None
    BY <2>4 DEF WorkerCalls
  <2>5. CASE UnlockCalls(known) = {} /\ before[activeEra] # None /\ Unpaid = {} /\ after[activeEra] # None
    BY <2>5 DEF WorkerCalls, Unnominated
  <2> QED
    BY <2>1, <2>2, <2>3, <2>4, <2>5
<1>9. CASE tx \in UnlockCalls(known) \/ tx = <<"before", activeEra, None, TotalBonded>>
  <2>1. tx[1] = "unlocks" \/ tx[1] = "before"
    BY <1>9 DEF UnlockCalls
  <2> QED
    BY <1>3, <1>4, <1>9, <2>1
<1> QED
  BY <1>5, <1>6, <1>7, <1>8, <1>9

(* What others may submit.                                                  *)
LEMMA ForeignFacts ==
  ASSUME NEW tx \in ForeignCalls
  PROVE  CallOK(tx)
<1>1. CASE tx \in {<<"unlocks", e, p>> : e \in Era, p \in Pool}
  <2>1. PICK e \in Era, p \in Pool : tx = <<"unlocks", e, p>>
    BY <1>1
  <2>2. tx[1] = "unlocks" /\ tx[2] = e /\ tx[3] = p
    BY <2>1
  <2> QED
    BY <2>2 DEF CallOK, Kind
<1>2. CASE tx \in {<<kind, e, None, total>> : kind \in {"before", "after"}, e \in Era, total \in Total}
  <2>1. PICK kind \in {"before", "after"}, e \in Era, total \in Total : tx = <<kind, e, None, total>>
    BY <1>2
  <2>2. tx[1] = kind /\ tx[2] = e /\ tx[4] = total /\ total \in Nat
    BY <2>1, ConstantFacts
  <2> QED
    BY <2>2 DEF CallOK, Kind
<1>3. CASE tx \in {<<"paidouts", e, p, v>> : e \in Era, p \in Pool, v \in Validator}
  <2>1. PICK e \in Era, p \in Pool, v \in Validator : tx = <<"paidouts", e, p, v>>
    BY <1>3
  <2>2. tx[1] = "paidouts" /\ tx[2] = e /\ tx[3] = p /\ tx[4] = v
    BY <2>1
  <2> QED
    BY <2>2 DEF CallOK, Kind
<1>4. CASE tx \in {<<"nomination", e, p, t>> : e \in Era, p \in Pool, t \in SUBSET Validator}
  <2>1. PICK e \in Era, p \in Pool, t \in SUBSET Validator : tx = <<"nomination", e, p, t>>
    BY <1>4
  <2>2. tx[1] = "nomination" /\ tx[2] = e /\ tx[3] = p /\ tx[4] = t
    BY <2>1
  <2> QED
    BY <2>2 DEF CallOK, Kind
<1> QED
  BY <1>1, <1>2, <1>3, <1>4 DEF ForeignCalls

(* on_finalize keeps the types, and to a report that holds.                 *)
LEMMA FinalizeEffect ==
  ASSUME FisTypes, OnFinalize
  PROVE  /\ rtokens' \in RT!TokenLedger
         /\ rate' \in RateType /\ eraRate' = [eraRate EXCEPT ![activeEra] = rate']
         /\ after[activeEra] \in Nat /\ eraRate[activeEra] = None
         /\ Holds(after[activeEra]) /\ after[activeEra] * RateBase < AmountLimit =>
              /\ rtokens'.issuance > 0 => after[activeEra] > 0
              /\ rtokens'.issuance * rate' <= after[activeEra] * RateBase
<1> DEFINE a == after[activeEra]
           gain == a - before[activeEra]
           part == PerbillMul(settings.commission, gain)
           fee == IF gain > 0 /\ settings.receiver THEN TokenToRtoken(rate, part) ELSE 0
           minted == IF RT!CanMint(rtokens, Receiver, fee) THEN RT!Minted(rtokens, Receiver, fee) ELSE rtokens
           new == NewRate(a, minted.issuance)
<1>1. /\ Finalizable /\ rtokens' = minted /\ rate' = new /\ eraRate' = [eraRate EXCEPT ![activeEra] = new]
  BY DEF OnFinalize
<1>2. /\ activeEra \in Era /\ a \in Nat /\ before[activeEra] \in Nat
      /\ rtokens \in RT!TokenLedger /\ Receiver \in Owner
      /\ settings.commission \in 0..PerbillBase
      /\ rate \in Option(Nat)
  BY <1>1, ConstantFacts, RateFacts DEF Finalizable, FisTypes, EraTypes, ReportTypes, RateTypes, SettingTypes,
     Settings, Option, Owner
<1>4. fee \in Nat /\ (fee > 0 => a > 0)
  <2>1. CASE gain > 0 /\ settings.receiver
    <3>1. gain \in Nat /\ a > 0
      BY <1>2, <2>1
    <3>2. part \in Nat
      BY <1>2, <3>1, PartOf
    <3> HIDE DEF part
    <3>3. TokenToRtoken(rate, part) \in Nat
      BY <1>2, <3>2, MintedAtMost
    <3> QED
      BY <2>1, <3>1, <3>3
  <2>2. CASE ~(gain > 0 /\ settings.receiver)
    BY <2>2
  <2> QED
    BY <2>1, <2>2
<1> HIDE DEF fee, a
<1>5. minted \in RT!TokenLedger /\ minted.issuance <= rtokens.issuance + fee
  <2>1. rtokens.issuance \in Nat
    BY <1>2 DEF RT!TokenLedger
  <2>2. CASE RT!CanMint(rtokens, Receiver, fee)
    <3>1. minted = RT!Minted(rtokens, Receiver, fee)
      BY <2>2
    <3> QED
      BY <1>2, <1>4, <3>1, MintedLedger
  <2>3. CASE ~RT!CanMint(rtokens, Receiver, fee)
    <3>1. minted = rtokens
      BY <2>3
    <3>2. rtokens.issuance <= rtokens.issuance + fee
      BY <1>4, <2>1
    <3> HIDE DEF minted
    <3> QED
      BY <1>2, <3>1, <3>2
  <2> QED
    BY <2>2, <2>3
<1>6. minted.issuance \in Nat /\ rtokens.issuance \in Nat
  BY <1>2, <1>5 DEF RT!TokenLedger
<1> HIDE DEF minted
<1>7. Holds(a) => (minted.issuance > 0 => a > 0)
  BY <1>2, <1>4, <1>5, <1>6 DEF Holds
<1>8. /\ new \in RateType
      /\ (minted.issuance > 0 => a > 0) /\ a * RateBase < AmountLimit => minted.issuance * new <= a * RateBase
  BY <1>2, <1>6, NewRateBacked
<1> HIDE DEF new
<1> QED
  BY <1>1, <1>2, <1>5, <1>7, <1>8 DEF a, Finalizable

LEMMA StakeStepLeaves ==
  StakeStep => /\ UNCHANGED <<eraVars, rate, eraRate, before, after, voteVars, sentVars>>
               /\ mempool' \subseteq mempool
<1> USE DEF eraVars, rateVars, reportVars, voteVars, txVars
<1>1. CASE PayoutStep
  BY <1>1 DEF PayoutStep, Taken
<1>2. CASE \E tx : Taken(tx) /\ SubmitUnlocks(tx)
  BY <1>2 DEF Taken, SubmitUnlocks
<1>3. CASE \E p \in Pool : AddNewPool(p) \/ BondForPool(p)
  BY <1>3 DEF AddNewPool, BondForPool
<1>4. CASE \E p \in Pool, e \in UnlockEra, v \in Value : AddPoolUnlock(p, e, v)
  BY <1>4 DEF AddPoolUnlock
<1>5. CASE \E p \in Pool, to \in Owner, v \in Value : LiquidityBond(p, to, v)
  BY <1>5 DEF LiquidityBond
<1>6. CASE \E p \in Pool, v \in Value, fee \in SwapFee : BondAndSwapTaken(p, v, fee)
  BY <1>6 DEF BondAndSwapTaken
<1>7. CASE \E who \in User, p \in Pool, v \in Value : LiquidityUnbond(who, p, v)
  BY <1>7 DEF LiquidityUnbond
<1>8. CASE \E who \in User, p \in Pool : LiquidityWithdrawUnbond(who, p)
  BY <1>8 DEF LiquidityWithdrawUnbond
<1> QED
  BY <1>1, <1>2, <1>3, <1>4, <1>5, <1>6, <1>7, <1>8 DEF StakeStep

\* What a quiet step may change besides the mempool.
QuietEffect ==
  \/ OnFinalize /\ UNCHANGED txVars
  \/ (PlanEra \/ StartEra) /\ UNCHANGED txVars
  \/ Configure /\ UNCHANGED txVars
  \/ (\E v \in Validator : Onboard(v) \/ Offboard(v)) /\ UNCHANGED txVars
  \/ OffchainWorker
  \/ \E tx \in ForeignCalls : SubmitForeign(tx)
  \/ UNCHANGED <<eraVars, rateVars, reportVars, voteVars, sentVars>> /\ mempool' \subseteq mempool
  \/ \E tx : Taken(tx) /\ SubmitTotalBondedBefore(tx)
  \/ \E tx : Taken(tx) /\ SubmitTotalBondedAfter(tx)
  \/ \E tx : Taken(tx) /\ SubmitNomination(tx)

LEMMA QuietCases == QuietStep => QuietEffect
<1> SUFFICES ASSUME QuietStep PROVE QuietEffect
  OBVIOUS
<1>1. CASE UNCHANGED rfisVars \/ \E tx \in mempool : Drop(tx)
  BY <1>1 DEF Drop, rfisVars, txVars, QuietEffect
<1>2. CASE Configure \/ \E v \in Validator : Onboard(v) \/ Offboard(v)
  BY <1>2 DEF Configure, Onboard, Offboard, QuietEffect
<1>3. CASE OnFinalize \/ PlanEra \/ StartEra
  BY <1>3 DEF OnFinalize, PlanEra, StartEra, QuietEffect
<1>4. CASE OffchainWorker \/ \E tx \in ForeignCalls : SubmitForeign(tx)
  BY <1>4 DEF QuietEffect
<1>5. CASE \E tx : Taken(tx) /\ (SubmitTotalBondedBefore(tx) \/ SubmitTotalBondedAfter(tx) \/ SubmitNomination(tx))
  BY <1>5 DEF QuietEffect
<1> QED
  BY <1>1, <1>2, <1>3, <1>4, <1>5 DEF QuietStep

LEMMA ErasNext ==
  ASSUME EraTypes, StakeStep \/ QuietStep
  PROVE  /\ EraTypes' /\ activeEra \in Nat /\ activeEra' \in Nat /\ activeEra <= activeEra'
         /\ currentEra <= currentEra'
         /\ UNCHANGED eraVars \/ UNCHANGED <<rateVars, reportVars, voteVars, mempool>>
         /\ activeEra' # activeEra => activeEra' = activeEra + 1
<1>1. activeEra \in Nat /\ currentEra \in Nat
  BY EraFacts DEF EraTypes
<1>2. CASE UNCHANGED eraVars
  BY <1>1, <1>2 DEF EraTypes, eraVars
<1>3. CASE PlanEra
  BY <1>1, <1>3, ConstantFacts DEF PlanEra, EraTypes, Era, txVars
<1>4. CASE StartEra
  BY <1>1, <1>4 DEF StartEra, EraTypes, txVars
<1>5. CASE StakeStep
  BY <1>2, <1>5, StakeStepLeaves
<1>6. CASE QuietStep
  <2>1. QuietEffect
    BY <1>6, QuietCases
  <2> QED
    BY <1>2, <1>3, <1>4, <2>1 DEF QuietEffect, Configure, Onboard, Offboard, OnFinalize, OffchainWorker, SubmitForeign,
       SubmitTotalBondedBefore, SubmitTotalBondedAfter, SubmitNomination
<1> QED
  BY <1>5, <1>6

LEMMA RatesNext ==
  ASSUME FisTypes, RateInv, StakesHeld, StakeStep \/ QuietStep
  PROVE  RateTypes'
<1>0. rtokens \in RT!TokenLedger /\ rate \in Option(RateType) /\ eraRate \in [Era -> Option(RateType)]
      /\ activeEra \in Era
  BY DEF FisTypes, RateTypes, EraTypes
<1>1. CASE UNCHANGED rateVars
  BY <1>0, <1>1 DEF RateTypes, rateVars
<1>2. ASSUME NEW p \in Pool, NEW to \in Owner, NEW v \in Value, LiquidityBond(p, to, v) PROVE RateTypes'
  <2> DEFINE m == TokenToRtoken(rate, v)
  <2>1. rtokens' = RT!Minted(rtokens, to, m) /\ UNCHANGED <<rate, eraRate>>
    BY <1>2 DEF LiquidityBond
  <2>2. m \in Nat
    BY <1>0, RateFacts, ConstantFacts, MintedAtMost DEF Option
  <2> HIDE DEF m
  <2> QED
    BY <1>0, <2>1, <2>2, MintedLedger DEF RateTypes
<1>3. ASSUME NEW who \in User, NEW p \in Pool, NEW v \in Value, LiquidityUnbond(who, p, v) PROVE RateTypes'
  <2>1. rtokens' \in RT!TokenLedger
    BY <1>0, <1>3, UnbondEffect DEF RateInv, RatesInOrder
  <2> QED
    BY <1>0, <1>3, <2>1 DEF LiquidityUnbond, RateTypes
<1>4. CASE OnFinalize
  <2>1. rtokens' \in RT!TokenLedger /\ rate' \in RateType /\ eraRate' = [eraRate EXCEPT ![activeEra] = rate']
    BY <1>4, FinalizeEffect
  <2> QED
    BY <1>0, <2>1 DEF RateTypes, Option
<1>5. CASE StakeStep
  <2>1. \/ UNCHANGED rateVars
        \/ \E p \in Pool, to \in Owner, v \in Value : LiquidityBond(p, to, v)
        \/ \E who \in User, p \in Pool, v \in Value : LiquidityUnbond(who, p, v)
    BY <1>5 DEF StakeStep, PayoutStep, SubmitUnlocks, AddNewPool, BondForPool, AddPoolUnlock, BondAndSwapTaken,
       LiquidityWithdrawUnbond
  <2> QED
    BY <1>1, <1>2, <1>3, <2>1
<1>6. CASE QuietStep
  <2>1. QuietEffect
    BY <1>6, QuietCases
  <2>2. UNCHANGED rateVars \/ OnFinalize
    BY <2>1 DEF QuietEffect, Configure, Onboard, Offboard, PlanEra, StartEra, OffchainWorker, SubmitForeign,
       SubmitTotalBondedBefore, SubmitTotalBondedAfter, SubmitNomination
  <2> QED
    BY <1>1, <1>4, <2>2
<1> QED
  BY <1>5, <1>6

LEMMA ReportsNext ==
  ASSUME FisTypes, StakeStep \/ QuietStep
  PROVE  ReportTypes'
<1>0. ReportTypes /\ currentEra \in Era
  BY DEF FisTypes, EraTypes
<1>1. CASE UNCHANGED reportVars
  BY <1>0, <1>1 DEF ReportTypes, reportVars
<1>2. ASSUME NEW tx, Taken(tx), SubmitUnlocks(tx) PROVE ReportTypes'
  <2>1. tx[3] \in Pool
    BY <1>2 DEF SubmitUnlocks, Taken, FisTypes, MempoolOK, CallOK
  <2> QED
    BY <1>0, <1>2, <2>1 DEF SubmitUnlocks, ReportTypes
<1>3. ASSUME NEW tx, Taken(tx), SubmitTotalBondedBefore(tx) \/ SubmitTotalBondedAfter(tx) PROVE ReportTypes'
  <2>1. tx[4] \in Nat
    BY <1>3 DEF SubmitTotalBondedBefore, SubmitTotalBondedAfter, Taken, FisTypes, MempoolOK, CallOK
  <2> QED
    BY <1>0, <1>3, <2>1 DEF SubmitTotalBondedBefore, SubmitTotalBondedAfter, ReportTypes, Option
<1>4. CASE PayoutStep
  <2>1. UNCHANGED <<before, after, unlockedPools>>
    BY <1>4 DEF PayoutStep
  <2>2. PICK v \in Validator, e \in Era, reward \in Reward :
          /\ PayoutStakers(v, e, reward)
          /\ \/ UNCHANGED <<paidouts, txVars>>
             \/ \E tx : Taken(tx) /\ tx[1] = "paidouts" /\ tx[2] = e /\ tx[4] = v
                       /\ paidouts' = paidouts \cup {<<tx[2], tx[4], tx[3]>>}
    BY <1>4 DEF PayoutStep
  <2>3. claimed' \subseteq Era \X Validator
    BY <1>0, <2>2 DEF PayoutStakers, ReportTypes
  <2>4. paidouts' \subseteq Era \X Validator \X Pool
    <3>1. ASSUME NEW tx, Taken(tx), tx[1] = "paidouts" PROVE tx[3] \in Pool
      BY <3>1 DEF Taken, FisTypes, MempoolOK, CallOK
    <3> QED
      BY <1>0, <2>2, <3>1 DEF ReportTypes
  <2> QED
    BY <1>0, <2>1, <2>3, <2>4 DEF ReportTypes
<1>5. CASE StakeStep
  <2>1. UNCHANGED reportVars \/ PayoutStep \/ \E tx : Taken(tx) /\ SubmitUnlocks(tx)
    BY <1>5 DEF StakeStep, AddNewPool, BondForPool, AddPoolUnlock, BondAndSwapTaken,
       LiquidityWithdrawUnbond, LiquidityBond, LiquidityUnbond
  <2> QED
    BY <1>1, <1>2, <1>4, <2>1
<1>6. CASE QuietStep
  <2>1. QuietEffect
    BY <1>6, QuietCases
  <2>2. \/ UNCHANGED reportVars
        \/ \E tx : Taken(tx) /\ (SubmitTotalBondedBefore(tx) \/ SubmitTotalBondedAfter(tx))
    BY <2>1 DEF QuietEffect, Configure, Onboard, Offboard, PlanEra, StartEra, OffchainWorker, SubmitForeign, OnFinalize,
       SubmitNomination
  <2> QED
    BY <1>1, <1>3, <2>2
<1> QED
  BY <1>5, <1>6

LEMMA VotesNext ==
  ASSUME FisTypes, StakeStep \/ QuietStep
  PROVE  SettingTypes'
<1>0. /\ SettingTypes /\ currentEra \in Era /\ IsFiniteSet(onboard) /\ Cardinality(onboard) \in Nat
      /\ MAX_ONBOARD_VALIDATORS \in Nat /\ BalanceLimit \subseteq Nat
  BY FS_CardinalityType, ConstantFacts DEF FisTypes, EraTypes, SettingTypes
<1>1. CASE UNCHANGED voteVars
  BY <1>0, <1>1 DEF SettingTypes, voteVars
<1>2. CASE Configure
  <2>1. settings' \in Settings
    BY <1>0, <1>2 DEF Configure, SettingTypes, Settings
  <2> QED
    BY <1>0, <1>2, <2>1 DEF Configure, SettingTypes
<1>3. ASSUME NEW v \in Validator, Onboard(v) PROVE SettingTypes'
  <2>1. /\ Cardinality(onboard) <= MAX_ONBOARD_VALIDATORS /\ v \notin onboard /\ onboard' = onboard \cup {v}
        /\ UNCHANGED <<settings, nominated>>
    BY <1>3 DEF Onboard
  <2>2. IsFiniteSet(onboard') /\ Cardinality(onboard') = Cardinality(onboard) + 1
    BY <1>0, <2>1, FS_AddElement
  <2>3. Cardinality(onboard') <= MAX_ONBOARD_VALIDATORS + 1
    BY <1>0, <2>1, <2>2
  <2>4. onboard' \subseteq Validator
    BY <1>0, <2>1 DEF SettingTypes
  <2> QED
    BY <1>0, <2>1, <2>2, <2>3, <2>4, Zenon DEF SettingTypes
<1>4. ASSUME NEW v \in Validator, Offboard(v) PROVE SettingTypes'
  <2>1. v \in onboard /\ onboard' = onboard \ {v} /\ UNCHANGED <<settings, nominated>>
    BY <1>4 DEF Offboard
  <2>2. IsFiniteSet(onboard') /\ Cardinality(onboard') = Cardinality(onboard) - 1
    BY <1>0, <2>1, FS_RemoveElement
  <2>3. Cardinality(onboard') <= MAX_ONBOARD_VALIDATORS + 1
    <3>1. Cardinality(onboard) <= MAX_ONBOARD_VALIDATORS + 1
      BY <1>0 DEF SettingTypes
    <3> QED
      BY <1>0, <2>2, <3>1
  <2>4. onboard' \subseteq Validator
    BY <1>0, <2>1 DEF SettingTypes
  <2> QED
    BY <1>0, <2>1, <2>2, <2>3, <2>4, Zenon DEF SettingTypes
<1>5. ASSUME NEW tx, Taken(tx), SubmitNomination(tx) PROVE SettingTypes'
  <2>1. tx[4] \in SUBSET Validator
    BY <1>5 DEF SubmitNomination, Taken, FisTypes, MempoolOK, CallOK
  <2>2. nominated' \in [Era \X Pool -> Option(SUBSET Validator)]
    BY <1>0, <1>5, <2>1 DEF SubmitNomination, SettingTypes, Option
  <2> QED
    BY <1>0, <1>5, <2>2 DEF SubmitNomination, SettingTypes
<1>6. CASE StakeStep
  BY <1>1, <1>6, StakeStepLeaves
<1>7. CASE QuietStep
  <2>1. QuietEffect
    BY <1>7, QuietCases
  <2>2. \/ UNCHANGED voteVars \/ Configure \/ \E v \in Validator : Onboard(v) \/ Offboard(v)
        \/ \E tx : Taken(tx) /\ SubmitNomination(tx)
    BY <2>1 DEF QuietEffect, PlanEra, StartEra, OffchainWorker, SubmitForeign, OnFinalize,
       SubmitTotalBondedBefore, SubmitTotalBondedAfter
  <2> QED
    BY <1>1, <1>2, <1>3, <1>4, <1>5, <2>2
<1> QED
  BY <1>6, <1>7

\* What was sent: a worker's call or a call by others.
WorkerSent(tx) ==
  /\ mempool' = mempool \cup {tx} /\ foreign' = foreign
  /\ crossed' = IF Acceptable(tx, mempool \ {tx}) THEN crossed ELSE crossed \cup {Tag(tx)}
  /\ UNCHANGED <<eraVars, stakeVars, rateVars, reportVars, voteVars>>

OthersSent(tx) ==
  /\ mempool' = mempool \cup {tx} /\ crossed' = crossed
  /\ foreign' = foreign \cup {<<tx[1], tx[2]>>}
  /\ UNCHANGED <<eraVars, stakeVars, rateVars, reportVars, voteVars>>

\* The pool of transactions only loses some, or takes what is submitted.
LEMMA MempoolStep ==
  ASSUME StakeStep \/ QuietStep
  PROVE  \/ mempool' \subseteq mempool /\ UNCHANGED sentVars
         \/ \E known : \E tx \in WorkerCalls(known) : WorkerSent(tx)
         \/ \E tx \in ForeignCalls : OthersSent(tx)
<1>1. CASE StakeStep
  BY <1>1, StakeStepLeaves
<1>2. CASE QuietStep
  <2>1. QuietEffect
    BY <1>2, QuietCases
  <2>2. CASE OffchainWorker
    BY <2>2 DEF OffchainWorker, WorkerSent
  <2>3. CASE \E tx \in ForeignCalls : SubmitForeign(tx)
    BY <2>3 DEF SubmitForeign, OthersSent
  <2> QED
    BY <2>1, <2>2, <2>3 DEF QuietEffect, Taken, txVars
<1> QED
  BY <1>1, <1>2

LEMMA MempoolNext ==
  ASSUME FisTypes, StakeStep \/ QuietStep
  PROVE  MempoolOK'
<1>1. /\ \A tx \in mempool : CallOK(tx)
      /\ crossed \subseteq Kind \X Era /\ foreign \subseteq Kind \X Era
  BY DEF FisTypes, MempoolOK
<1>2. CASE mempool' \subseteq mempool /\ UNCHANGED sentVars
  BY <1>1, <1>2 DEF MempoolOK, CallOK, sentVars
<1>3. ASSUME NEW tx, CallOK(tx), WorkerSent(tx) \/ OthersSent(tx) PROVE MempoolOK'
  <2>1. Tag(tx) \in Kind \X Era /\ <<tx[1], tx[2]>> \in Kind \X Era
    BY <1>3 DEF CallOK, Tag
  <2> QED
    BY <1>1, <1>3, <2>1 DEF MempoolOK, CallOK, WorkerSent, OthersSent
<1> QED
  BY <1>2, <1>3, MempoolStep, WorkerFacts, ForeignFacts

LEMMA FisTypesNext ==
  ASSUME FisInv, StakeStep \/ QuietStep
  PROVE  FisTypes'
<1>1. EraTypes' /\ RateTypes' /\ ReportTypes' /\ SettingTypes'
  BY ErasNext, RatesNext, ReportsNext, VotesNext DEF FisInv, FisTypes, StakeInv
<1>2. StakeTypes'
  BY StakeStepTypes, QuietStakes DEF FisInv, FisTypes, StakeInv, RateInv, RatesInOrder, EraTypes
<1>3. MempoolOK'
  BY MempoolNext DEF FisInv
<1> QED
  BY <1>1, <1>2, <1>3 DEF FisTypes

-----------------------------------------------------------------------------
(* rfis: nominations.                                                       *)

LEMMA NominatedStep ==
  ASSUME StakeStep \/ QuietStep
  PROVE  UNCHANGED nominated \/ \E tx : Taken(tx) /\ SubmitNomination(tx)
<1>1. CASE StakeStep
  BY <1>1, StakeStepLeaves DEF voteVars
<1>2. CASE QuietStep
  <2>1. QuietEffect
    BY <1>2, QuietCases
  <2> QED
    BY <2>1 DEF QuietEffect, Configure, Onboard, Offboard, PlanEra, StartEra, OffchainWorker, SubmitForeign,
       OnFinalize, SubmitTotalBondedBefore, SubmitTotalBondedAfter, voteVars
<1> QED
  BY <1>1, <1>2

(* In an orderly era a nomination that waits keeps its tag to itself, and   *)
(* its targets, whatever is included before it.                             *)
LEMMA NomineesNext ==
  ASSUME FisInv, StakeStep \/ QuietStep
  PROVE  NomineeInv'
<1>0. OneNomination /\ TargetsFree /\ NomineesNotShared /\ \A tx \in mempool : CallOK(tx)
  BY DEF FisInv, NomineeInv, FisTypes, MempoolOK
<1>1. CASE UNCHANGED nominated /\ mempool' \subseteq mempool /\ UNCHANGED sentVars
  <2>0. \A e : Orderly(e)' <=> Orderly(e)
    BY <1>1 DEF Orderly, sentVars
  <2>1. OneNomination'
    BY <1>0, <1>1, <2>0 DEF OneNomination, Tag
  <2>2. \A e : NominatedValidators(e)' = NominatedValidators(e)
    BY <1>1 DEF NominatedValidators
  <2>3. TargetsFree'
    BY <1>0, <1>1, <2>0, <2>2 DEF TargetsFree
  <2>4. NomineesNotShared'
    BY <1>0, <1>1 DEF NomineesNotShared, sentVars
  <2> QED
    BY <2>1, <2>3, <2>4 DEF NomineeInv
<1>2. ASSUME NEW tx, WorkerSent(tx) \/ OthersSent(tx),
             tx[1] = "nomination" /\ Orderly(tx[2])' => tx[4] \cap NominatedValidators(tx[2]) = {}
      PROVE  NomineeInv'
  <2>1. UNCHANGED nominated /\ mempool' = mempool \cup {tx}
        /\ crossed \subseteq crossed' /\ foreign \subseteq foreign'
    BY <1>2 DEF WorkerSent, OthersSent, voteVars
  <2>2. \A e : Orderly(e)' => Orderly(e)
    BY <2>1 DEF Orderly
  <2>3. \A e : NominatedValidators(e)' = NominatedValidators(e)
    BY <2>1 DEF NominatedValidators
  <2>4. ASSUME tx[1] = "nomination", Orderly(tx[2])'
        PROVE  WorkerSent(tx) /\ \A other \in mempool \ {tx} : Tag(other) # Tag(tx)
    <3>1. <<"nomination", tx[2]>> \notin crossed' /\ <<"nomination", tx[2]>> \notin foreign'
      BY <2>4 DEF Orderly
    <3>2. WorkerSent(tx)
      BY <1>2, <2>4, <3>1 DEF OthersSent
    <3>3. Acceptable(tx, mempool \ {tx})
      BY <2>4, <3>1, <3>2 DEF WorkerSent, Tag
    <3> QED
      BY <3>2, <3>3 DEF Acceptable
  <2>5. OneNomination'
    <3> SUFFICES ASSUME NEW a \in mempool', NEW b \in mempool', Tag(a) = Tag(b), a[1] = "nomination",
                        Orderly(a[2])'
                 PROVE  a = b
      BY DEF OneNomination, Tag
    <3>1. CASE a # tx /\ b # tx
      BY <1>0, <2>1, <2>2, <3>1 DEF OneNomination
    <3>2. CASE a = tx
      BY <2>1, <2>4, <3>2
    <3>3. CASE b = tx
      <4>1. b[1] = "nomination" /\ b[2] = a[2]
        BY DEF Tag
      <4> QED
        BY <2>1, <2>4, <3>3, <4>1
    <3> QED
      BY <3>1, <3>2, <3>3
  <2>6. TargetsFree'
    BY <1>0, <1>2, <2>1, <2>2, <2>3, <2>4 DEF TargetsFree
  <2>7. NomineesNotShared'
    BY <1>0, <2>1 DEF NomineesNotShared
  <2> QED
    BY <2>5, <2>6, <2>7 DEF NomineeInv
<1>3. ASSUME NEW tx, Taken(tx), SubmitNomination(tx) PROVE NomineeInv'
  <2>1. /\ tx \in mempool /\ mempool' = mempool \ {tx} /\ UNCHANGED sentVars
        /\ tx[1] = "nomination" /\ tx[2] = currentEra
        /\ nominated' = [nominated EXCEPT ![<<currentEra, tx[3]>>] = tx[4]]
    BY <1>3 DEF Taken, SubmitNomination
  <2>2. /\ tx[3] \in Pool /\ tx[4] \in SUBSET Validator /\ tx[4] # None
        /\ Orderly(currentEra) => tx[4] \cap NominatedValidators(currentEra) = {}
        /\ nominated \in [Era \X Pool -> Option(SUBSET Validator)] /\ currentEra \in Era
    BY <1>0, <2>1, SetNotNone DEF CallOK, TargetsFree, FisInv, FisTypes, SettingTypes, EraTypes
  <2>3. /\ \A e \in Era, q \in Pool : (e # currentEra \/ q # tx[3]) => nominated'[<<e, q>>] = nominated[<<e, q>>]
        /\ nominated'[<<currentEra, tx[3]>>] = tx[4]
    BY <2>1, <2>2
  <2>a. \A e : Orderly(e)' <=> Orderly(e)
    BY <2>1 DEF Orderly, sentVars
  <2>4. OneNomination'
    BY <1>0, <2>1, <2>a DEF OneNomination, Tag
  <2>5. TargetsFree'
    <3> SUFFICES ASSUME NEW b \in mempool', b[1] = "nomination", Orderly(b[2])
                 PROVE  b[4] \cap NominatedValidators(b[2])' = {}
      BY <2>a DEF TargetsFree
    <3>1. b \in mempool /\ b # tx /\ b[2] \in Era
      BY <1>0, <2>1 DEF CallOK
    <3>2. b[2] # currentEra
      BY <1>0, <2>1, <3>1 DEF OneNomination, Tag
    <3>3. \A q \in Pool : nominated'[<<b[2], q>>] = nominated[<<b[2], q>>]
      BY <2>3, <3>1, <3>2
    <3>4. NominatedValidators(b[2])' = NominatedValidators(b[2])
      BY <3>3 DEF NominatedValidators
    <3> QED
      BY <1>0, <3>1, <3>4 DEF TargetsFree
  <2>6. NomineesNotShared'
    <3> SUFFICES ASSUME NEW e \in Era, NEW p \in Pool, NEW q \in Pool, p # q, Orderly(e)
                 PROVE  OrElse(nominated'[<<e, p>>], {}) \cap OrElse(nominated'[<<e, q>>], {}) = {}
      BY <2>1 DEF NomineesNotShared, Orderly, sentVars
    <3>1. OrElse(nominated[<<e, p>>], {}) \cap OrElse(nominated[<<e, q>>], {}) = {}
      BY <1>0 DEF NomineesNotShared, Orderly
    <3>2. ASSUME NEW r \in Pool, e = currentEra PROVE tx[4] \cap OrElse(nominated[<<e, r>>], {}) = {}
      BY <2>2, <3>2 DEF NominatedValidators
    <3>3. OrElse(tx[4], {}) = tx[4]
      BY <2>2 DEF OrElse
    <3>4. CASE e = currentEra /\ p = tx[3]
      BY <2>3, <3>2, <3>3, <3>4
    <3>5. CASE e = currentEra /\ q = tx[3]
      BY <2>3, <3>2, <3>3, <3>5
    <3>6. CASE e # currentEra \/ (p # tx[3] /\ q # tx[3])
      BY <2>3, <3>1, <3>6
    <3> QED
      BY <3>4, <3>5, <3>6
  <2> QED
    BY <2>4, <2>5, <2>6 DEF NomineeInv
<1>4. CASE UNCHANGED nominated
  <2>1. ASSUME NEW known, NEW tx \in WorkerCalls(known), WorkerSent(tx) PROVE NomineeInv'
    <3>1. tx[1] = "nomination" => tx[4] \cap NominatedValidators(tx[2]) = {}
      BY WorkerFacts DEF FisInv
    <3> QED
      BY <1>2, <2>1, <3>1
  <2>2. ASSUME NEW tx \in ForeignCalls, OthersSent(tx) PROVE NomineeInv'
    <3>1. tx[1] = "nomination" => ~Orderly(tx[2])'
      BY <2>2 DEF OthersSent, Orderly
    <3> QED
      BY <1>2, <2>2, <3>1
  <2> QED
    BY <1>1, <1>4, <2>1, <2>2, MempoolStep
<1> QED
  BY <1>3, <1>4, NominatedStep

-----------------------------------------------------------------------------
(* rfis: stakes and what covers them, one pool at a time.                   *)

Covered(p) == free[p] >= ledger[p].active + Owed(p, UnlockEra) + ExistentialDeposit

Agreed(p) ==
  /\ ledger[p].total = ledger[p].active + SumChunks(ledger[p].unlocking, UnlockEra)
  /\ \A e \in UnlockEra : e > currentEra => OrElse(ledger[p].unlocking[e], 0) = Owed(p, {e})

PoolOK(p) ==
  IF ledger[p] = None
  THEN free[p] >= ExistentialDeposit /\ \A who \in User : unbonding[<<who, p>>] = NoChunks
  ELSE free[p] >= ledger[p].total /\ Covered(p) /\ (p \notin adjusted => Agreed(p))

LEMMA StakeInvPools == LedgerOK => (StakeInv <=> \A p \in Pool : PoolOK(p))
<1> SUFFICES ASSUME LedgerOK PROVE StakeInv <=> \A p \in Pool : PoolOK(p)
  OBVIOUS
<1>1. BondedPools = {p \in Pool : ledger[p] # None}
  BY LedgerFacts
<1>2. UnbondsCovered <=> \A p \in BondedPools : Covered(p) /\ (p \notin adjusted => Agreed(p))
  BY DEF UnbondsCovered, Covered, Agreed
<1> QED
  BY <1>1, <1>2 DEF StakeInv, StakesHeld, PoolOK

LEMMA PoolKept ==
  ASSUME NEW q \in Pool, PoolOK(q), ledger'[q] = ledger[q], free'[q] = free[q],
         \A u \in User : unbonding'[<<u, q>>] = unbonding[<<u, q>>],
         q \in adjusted => q \in adjusted',
         currentEra \in Nat, currentEra' \in Nat, currentEra <= currentEra'
  PROVE  PoolOK(q)'
<1>1. \A E : Owed(q, E)' = Owed(q, E)
  BY OwedSame
<1>2. CASE ledger[q] = None
  BY <1>2 DEF PoolOK
<1>3. CASE ledger[q] # None
  <2>1. free'[q] >= ledger'[q].total /\ Covered(q)'
    BY <1>1, <1>3 DEF PoolOK, Covered
  <2>2. ASSUME q \notin adjusted' PROVE Agreed(q)'
    <3>1. Agreed(q)
      BY <1>3, <2>2 DEF PoolOK
    <3>2. \A e \in UnlockEra : e > currentEra' => e > currentEra
      BY EraFacts
    <3> QED
      BY <1>1, <3>1, <3>2 DEF Agreed
  <2> QED
    BY <1>3, <2>1, <2>2 DEF PoolOK
<1> QED
  BY <1>2, <1>3

LEMMA PoolGrown ==
  ASSUME StakeTypes, NEW p \in Pool, PoolOK(p), NEW x \in Nat, ledger[p] # None, ledger'[p] # None,
         ledger[p] \in StakingLedger,
         ledger'[p] = Grown(ledger[p], x), free'[p] = free[p] + x,
         UNCHANGED <<unbonding, adjusted, currentEra>>
  PROVE  PoolOK(p)'
<1>1. \A E : Owed(p, E)' = Owed(p, E)
  BY OwedSame
<1>2. /\ ledger[p].active \in Nat /\ ledger[p].total \in Nat /\ ledger[p].unlocking \in Chunks
      /\ ledger'[p].active = ledger[p].active + x /\ ledger'[p].total = ledger[p].total + x
      /\ ledger'[p].unlocking = ledger[p].unlocking /\ free[p] \in Nat
  BY DEF Grown, StakingLedger, StakeTypes
<1>3. Owed(p, UnlockEra) \in Nat /\ SumChunks(ledger[p].unlocking, UnlockEra) \in Nat
      /\ ExistentialDeposit \in Nat
  BY <1>2, OwedNat, SumChunksNat, ConstantFacts DEF StakeTypes
<1>4. free'[p] >= ledger'[p].total /\ Covered(p)'
  <2>1. free[p] >= ledger[p].total /\ free[p] >= ledger[p].active + Owed(p, UnlockEra) + ExistentialDeposit
    BY DEF PoolOK, Covered
  <2>2. free'[p] >= ledger'[p].active + Owed(p, UnlockEra) + ExistentialDeposit
    BY <1>2, <1>3, <2>1
  <2> QED
    BY <1>1, <1>2, <2>1, <2>2 DEF Covered
<1>5. ASSUME p \notin adjusted PROVE Agreed(p)'
  <2>1. Agreed(p)
    BY <1>5 DEF PoolOK
  <2>2. ledger'[p].total = ledger'[p].active + SumChunks(ledger'[p].unlocking, UnlockEra)
    BY <1>2, <1>3, <2>1 DEF Agreed
  <2> QED
    BY <1>1, <1>2, <2>1, <2>2 DEF Agreed
<1> QED
  BY <1>4, <1>5 DEF PoolOK

LEMMA PoolUnbonded ==
  ASSUME StakeTypes, StakeTypes', NEW who \in User, NEW p \in Pool, PoolOK(p), NEW b \in Nat,
         NEW era \in UnlockEra,
         ledger[p] # None, ledger'[p] # None, ledger[p] \in StakingLedger, ledger[p].active >= b,
         ledger'[p] = Unlocking(ledger[p], era, b),
         unbonding' = [unbonding EXCEPT ![<<who, p>>] = AddChunk(@, era, b)],
         UNCHANGED <<free, adjusted, currentEra>>
  PROVE  PoolOK(p)'
<1>0. UnbondingOK /\ UnbondingOK' /\ unbonding[<<who, p>>] \in Chunks /\ free[p] \in Nat
  BY DEF StakeTypes, UnbondingOK
<1>1. /\ unbonding'[<<who, p>>] = AddChunk(unbonding[<<who, p>>], era, b)
      /\ \A u \in User \ {who} : unbonding'[<<u, p>>] = unbonding[<<u, p>>]
  BY <1>0 DEF UnbondingOK
<1>2. ASSUME NEW E \in SUBSET UnlockEra
      PROVE  Owed(p, E)' = Owed(p, E) + IF era \in E THEN b ELSE 0
  <2>1. Owed(p, E)' = Owed(p, E) - SumChunks(unbonding[<<who, p>>], E) + SumChunks(unbonding'[<<who, p>>], E)
    BY <1>0, <1>1, OwedChange
  <2>2. SumChunks(unbonding'[<<who, p>>], E) = SumChunks(unbonding[<<who, p>>], E) + IF era \in E THEN b ELSE 0
    BY <1>0, <1>1, AddChunkSum
  <2>3. Owed(p, E) \in Nat /\ SumChunks(unbonding[<<who, p>>], E) \in Nat
    BY <1>0, OwedNat, SumChunksNat
  <2> QED
    BY <2>1, <2>2, <2>3
<1>3. /\ ledger[p].active \in Nat /\ ledger[p].total \in Nat /\ ledger[p].unlocking \in Chunks
      /\ ledger'[p].active = ledger[p].active - b /\ ledger'[p].total = ledger[p].total
      /\ ledger'[p].unlocking = AddChunk(ledger[p].unlocking, era, b)
  BY DEF Unlocking, StakingLedger
<1>a. /\ OrElse(ledger'[p].unlocking[era], 0) = OrElse(ledger[p].unlocking[era], 0) + b
      /\ \A e \in UnlockEra \ {era} : ledger'[p].unlocking[e] = ledger[p].unlocking[e]
  <2>1. PICK c \in Chunks : c = ledger[p].unlocking
    BY <1>3
  <2>2. ledger'[p].unlocking = AddChunk(c, era, b)
    BY <1>3, <2>1
  <2>3. /\ OrElse(AddChunk(c, era, b)[era], 0) = OrElse(c[era], 0) + b
        /\ \A e \in UnlockEra \ {era} : AddChunk(c, era, b)[e] = c[e]
    BY AddChunkSum
  <2> QED
    BY <2>1, <2>2, <2>3
<1>4. Owed(p, UnlockEra) \in Nat /\ SumChunks(ledger[p].unlocking, UnlockEra) \in Nat
      /\ ExistentialDeposit \in Nat
  BY <1>0, <1>3, OwedNat, SumChunksNat, ConstantFacts
<1>5. Owed(p, UnlockEra)' = Owed(p, UnlockEra) + b
  BY <1>2
<1>6. free'[p] >= ledger'[p].total /\ Covered(p)'
  <2>1. free[p] >= ledger[p].total /\ free[p] >= ledger[p].active + Owed(p, UnlockEra) + ExistentialDeposit
    BY DEF PoolOK, Covered
  <2>2. free'[p] >= ledger'[p].active + (Owed(p, UnlockEra) + b) + ExistentialDeposit
    BY <1>0, <1>3, <1>4, <2>1
  <2> QED
    BY <1>3, <1>5, <2>1, <2>2 DEF Covered
<1>7. ASSUME p \notin adjusted PROVE Agreed(p)'
  <2>1. Agreed(p)
    BY <1>7 DEF PoolOK
  <2>2. SumChunks(ledger'[p].unlocking, UnlockEra) = SumChunks(ledger[p].unlocking, UnlockEra) + b
    BY <1>3, AddChunkSum
  <2>3. ledger'[p].total = ledger'[p].active + SumChunks(ledger'[p].unlocking, UnlockEra)
    BY <1>3, <1>4, <2>1, <2>2 DEF Agreed
  <2>4. ASSUME NEW e \in UnlockEra, e > currentEra'
        PROVE  OrElse(ledger'[p].unlocking[e], 0) = Owed(p, {e})'
    <3>1. OrElse(ledger[p].unlocking[e], 0) = Owed(p, {e}) /\ Owed(p, {e}) \in Nat
      BY <1>0, <2>1, <2>4, OwedNat DEF Agreed
    <3>2. CASE e = era
      <4>1. OrElse(ledger'[p].unlocking[e], 0) = OrElse(ledger[p].unlocking[e], 0) + b
        BY <1>a, <3>2
      <4>2. Owed(p, {e})' = Owed(p, {e}) + b
        BY <1>2, <3>2
      <4> QED
        BY <3>1, <4>1, <4>2
    <3>3. CASE e # era
      <4>1. ledger'[p].unlocking[e] = ledger[p].unlocking[e]
        BY <1>a, <3>3
      <4>2. Owed(p, {e})' = Owed(p, {e}) + 0
        BY <1>2, <3>3
      <4> QED
        BY <3>1, <4>1, <4>2
    <3> QED
      BY <3>2, <3>3
  <2> QED
    BY <2>3, <2>4 DEF Agreed
<1> QED
  BY <1>6, <1>7 DEF PoolOK

LEMMA PoolPaid ==
  ASSUME StakeTypes, StakeTypes', NEW who \in User, NEW p \in Pool, PoolOK(p), currentEra \in Nat,
         LiquidityWithdrawUnbond(who, p)
  PROVE  PoolOK(p)'
<1> DEFINE due == {e \in UnlockEra : e <= currentEra}
           c == unbonding[<<who, p>>]
           total == SumChunks(c, due)
           d == [e \in UnlockEra |-> IF e \in due THEN None ELSE c[e]]
<1>1. /\ total > 0 /\ free[p] >= total + ExistentialDeposit
      /\ ledger[p] # None => free[p] - total >= ledger[p].total
      /\ free' = [free EXCEPT ![p] = @ - total]
      /\ unbonding' = [unbonding EXCEPT ![<<who, p>>] = d]
      /\ UNCHANGED <<ledger, adjusted, currentEra>>
  BY DEF LiquidityWithdrawUnbond, eraVars
<1>2. /\ UnbondingOK /\ UnbondingOK' /\ c \in Chunks /\ free[p] \in Nat /\ free \in [Pool -> Nat]
      /\ due \subseteq UnlockEra
  BY DEF StakeTypes, UnbondingOK
<1>3. /\ d \in Chunks /\ total \in Nat
      /\ SumChunks(d, UnlockEra) = SumChunks(c, UnlockEra) - total
      /\ \A e \in UnlockEra \ due : SumChunks(d, {e}) = SumChunks(c, {e})
  <2> HIDE DEF c, due
  <2>1. total \in Nat
    BY <1>2, SumChunksNat
  <2>2. d = [e \in UnlockEra |-> IF e \in due THEN None ELSE c[e]]
    OBVIOUS
  <2> HIDE DEF d
  <2> QED
    BY <1>2, <2>1, <2>2, ClearChunksSum
<1>4. ledger[p] # None
  <2> SUFFICES ASSUME ledger[p] = None PROVE FALSE
    OBVIOUS
  <2>1. c = NoChunks
    BY DEF PoolOK
  <2>2. total = 0
    BY <1>2, <2>1, SumChunksNone
  <2> QED
    BY <1>1, <2>2
<1>5. \A e \in UnlockEra : e > currentEra => e \in UnlockEra \ due
  BY EraFacts
<1>6. /\ unbonding'[<<who, p>>] = d
      /\ \A u \in User \ {who} : unbonding'[<<u, p>>] = unbonding[<<u, p>>]
      /\ free'[p] = free[p] - total
  BY <1>1, <1>2 DEF UnbondingOK
<1>7. c = unbonding[<<who, p>>]
  OBVIOUS
<1> HIDE DEF due, c, total, d
<1>8. \A E \in SUBSET UnlockEra : Owed(p, E)' = Owed(p, E) - SumChunks(c, E) + SumChunks(d, E)
  BY <1>2, <1>6, <1>7, OwedChange
<1>9. Owed(p, UnlockEra)' = Owed(p, UnlockEra) - total
  <2>1. Owed(p, UnlockEra) \in Nat /\ SumChunks(c, UnlockEra) \in Nat
    BY <1>2, OwedNat, SumChunksNat
  <2> QED
    BY <1>3, <1>8, <2>1
<1>10. /\ Owed(p, UnlockEra) \in Nat /\ ExistentialDeposit \in Nat
       /\ ledger[p] \in StakingLedger /\ ledger[p].active \in Nat
  <2>1. ledger[p] \in StakingLedger
    BY <1>4, LedgerFacts DEF StakeTypes
  <2> QED
    BY <1>2, <2>1, OwedNat, ConstantFacts DEF StakingLedger
<1>11. Covered(p)'
  <2>1. free[p] >= ledger[p].active + Owed(p, UnlockEra) + ExistentialDeposit
    BY <1>4 DEF PoolOK, Covered
  <2>2. free[p] - total >= ledger[p].active + (Owed(p, UnlockEra) - total) + ExistentialDeposit
    BY <1>2, <1>3, <1>10, <2>1
  <2> QED
    BY <1>1, <1>6, <1>9, <2>2 DEF Covered
<1>12. ASSUME p \notin adjusted PROVE Agreed(p)'
  <2>1. Agreed(p)
    BY <1>4, <1>12 DEF PoolOK
  <2>2. ASSUME NEW e \in UnlockEra, e > currentEra PROVE Owed(p, {e})' = Owed(p, {e})
    <3>1. SumChunks(d, {e}) = SumChunks(c, {e})
      BY <1>3, <1>5, <2>2
    <3>2. Owed(p, {e}) \in Nat /\ SumChunks(c, {e}) \in Nat
      BY <1>2, OwedNat, SumChunksNat
    <3>3. Owed(p, {e})' = Owed(p, {e}) - SumChunks(c, {e}) + SumChunks(d, {e})
      BY <1>8
    <3> QED
      BY <3>1, <3>2, <3>3
  <2> QED
    BY <1>1, <2>1, <2>2 DEF Agreed
<1> QED
  BY <1>1, <1>4, <1>6, <1>11, <1>12 DEF PoolOK

LEMMA PoolUnlocked ==
  ASSUME StakeTypes, NEW p \in Pool, PoolOK(p), currentEra \in Nat, NEW D \in SUBSET UnlockEra,
         D = {x \in UnlockEra : x <= currentEra},
         ledger[p] # None, ledger'[p] # None, ledger[p] \in StakingLedger,
         ledger'[p].active = ledger[p].active,
         ledger'[p].total = IF ledger[p].total >= SumChunks(ledger[p].unlocking, D)
                            THEN ledger[p].total - SumChunks(ledger[p].unlocking, D) ELSE 0,
         ledger'[p].unlocking = [x \in UnlockEra |-> IF x \in D THEN None ELSE ledger[p].unlocking[x]],
         UNCHANGED <<free, unbonding, adjusted, currentEra>>
  PROVE  PoolOK(p)'
<1> DEFINE c == ledger[p].unlocking
           d == [x \in UnlockEra |-> IF x \in D THEN None ELSE c[x]]
           s == SumChunks(c, D)
<1>1. \A E : Owed(p, E)' = Owed(p, E)
  BY OwedSame
<1>2. ledger[p].active \in Nat /\ ledger[p].total \in Nat /\ c \in Chunks /\ free[p] \in Nat
  BY DEF StakingLedger, StakeTypes
<1>3. /\ s \in Nat /\ SumChunks(c, UnlockEra) \in Nat /\ s <= SumChunks(c, UnlockEra)
      /\ SumChunks(d, UnlockEra) = SumChunks(c, UnlockEra) - s
      /\ \A e \in UnlockEra \ D : d[e] = c[e]
  BY <1>2, SumChunksNat, ClearChunksSum
<1>4. ledger'[p].unlocking = d /\ ledger'[p].total = IF ledger[p].total >= s THEN ledger[p].total - s ELSE 0
  OBVIOUS
<1>5. c = ledger[p].unlocking
  OBVIOUS
<1> HIDE DEF c, d, s
<1>6. free'[p] >= ledger'[p].total /\ Covered(p)'
  <2>1. free[p] >= ledger[p].total /\ Covered(p)
    BY DEF PoolOK
  <2> QED
    BY <1>1, <1>2, <1>3, <1>4, <2>1 DEF Covered
<1>7. ASSUME p \notin adjusted PROVE Agreed(p)'
  <2>1. Agreed(p)
    BY <1>7 DEF PoolOK
  <2>2. ledger[p].total = ledger[p].active + SumChunks(c, UnlockEra)
    BY <1>5, <2>1 DEF Agreed
  <2>3. ledger'[p].total = ledger'[p].active + SumChunks(ledger'[p].unlocking, UnlockEra)
    BY <1>2, <1>3, <1>4, <2>2
  <2>4. \A e \in UnlockEra : e > currentEra => ledger'[p].unlocking[e] = ledger[p].unlocking[e]
    <3>1. \A e \in UnlockEra : e > currentEra => e \notin D
      BY EraFacts
    <3> QED
      BY <1>3, <1>4, <1>5, <3>1
  <2> QED
    BY <1>1, <2>1, <2>3, <2>4 DEF Agreed
<1> QED
  BY <1>6, <1>7 DEF PoolOK

LEMMA StakesNext ==
  ASSUME FisInv, FisTypes', StakeStep \/ QuietStep
  PROVE  StakeInv'
<1>0. /\ FisTypes /\ StakeTypes /\ StakeTypes' /\ LedgerOK /\ LedgerOK' /\ StakesHeld
      /\ UnbondingOK /\ currentEra \in Nat /\ currentEra' \in Nat /\ currentEra <= currentEra'
      /\ eraRate[activeEra] # None => rate # None
  <2>1. FisTypes /\ StakeTypes /\ StakeTypes' /\ EraTypes /\ EraTypes' /\ StakesHeld
    BY DEF FisInv, FisTypes, StakeInv
  <2>2. eraRate[activeEra] # None => rate # None
    BY <2>1 DEF FisInv, RateInv, RatesInOrder, EraTypes
  <2>3. currentEra \in Nat /\ currentEra' \in Nat
    BY <2>1, EraFacts DEF EraTypes
  <2> QED
    BY <2>1, <2>2, <2>3, ErasNext DEF StakeTypes
<1>1. \A q \in Pool : PoolOK(q)
  BY <1>0, StakeInvPools DEF FisInv
<1>a. ASSUME \A q \in Pool : PoolOK(q)' PROVE StakeInv'
  <2>1. BondedPools' = {p \in Pool : ledger'[p] # None}
    BY <1>0, LedgersFacts DEF LedgerOK, BondedPools
  <2>2. (\A p \in BondedPools' : Covered(p)' /\ (p \notin adjusted' => Agreed(p)')) => UnbondsCovered'
    BY DEF UnbondsCovered, Covered, Agreed
  <2> QED
    BY <1>a, <2>1, <2>2 DEF StakeInv, StakesHeld, PoolOK
<1> SUFFICES ASSUME NEW q \in Pool PROVE PoolOK(q)'
  BY <1>a
<1>2. PoolOK(q)
  BY <1>1
<1>3. CASE UNCHANGED stakeVars
  BY <1>0, <1>2, <1>3, PoolKept DEF stakeVars
<1>4. ASSUME NEW p \in Pool, AddNewPool(p) PROVE PoolOK(q)'
  BY <1>0, <1>2, <1>4, PoolKept DEF AddNewPool
<1>5. ASSUME NEW p \in Pool, BondForPool(p) PROVE PoolOK(q)'
  <2> DEFINE l == [active |-> 0, total |-> 0, unlocking |-> NoChunks]
  <2>1. /\ ledger[p] = None /\ ledger' = [ledger EXCEPT ![p] = l] /\ ledger \in [Pool -> Option(StakingLedger)]
        /\ UNCHANGED <<free, unbonding, adjusted>>
    BY <1>0, <1>5 DEF BondForPool, LedgerOK, LedgersOK
  <2>2. CASE q # p
    BY <1>0, <1>2, <2>1, <2>2, PoolKept
  <2>3. CASE q = p
    <3>1. free[p] >= ExistentialDeposit /\ \A who \in User : unbonding[<<who, p>>] = NoChunks
      BY <1>2, <2>1, <2>3 DEF PoolOK
    <3>2. \A E \in SUBSET UnlockEra : Owed(p, E)' = 0
      <4>1. \A E \in SUBSET UnlockEra : Owed(p, E) = 0
        BY <3>1, OwedNothing
      <4>2. \A E : Owed(p, E)' = Owed(p, E)
        BY <2>1, OwedSame
      <4> QED
        BY <4>1, <4>2
    <3>3. ledger'[p] = l /\ l.active = 0 /\ l.total = 0 /\ l.unlocking = NoChunks
      BY <2>1
    <3>4. l \in StakingLedger /\ l # None /\ free[p] \in Nat /\ ExistentialDeposit \in Nat
      BY <1>0, SumChunksNone, SetNotNone, ConstantFacts DEF StakingLedger, StakeTypes
    <3> HIDE DEF l
    <3>5. Covered(p)'
      BY <2>1, <3>1, <3>2, <3>3, <3>4 DEF Covered
    <3>6. Agreed(p)'
      <4>1. SumChunks(NoChunks, UnlockEra) = 0
        BY SumChunksNone
      <4>2. \A e \in UnlockEra : OrElse(NoChunks[e], 0) = 0
        BY DEF NoChunks, OrElse
      <4> QED
        BY <3>2, <3>3, <4>1, <4>2 DEF Agreed
    <3>7. free'[p] >= ledger'[p].total
      BY <2>1, <3>3, <3>4
    <3> QED
      BY <2>3, <3>3, <3>4, <3>5, <3>6, <3>7 DEF PoolOK
  <2> QED
    BY <2>2, <2>3
<1>6. ASSUME NEW p \in Pool, NEW e \in UnlockEra, NEW v \in Value, AddPoolUnlock(p, e, v)
      PROVE  PoolOK(q)'
  <2>1. PICK l \in StakingLedger : l.active = ledger[p].active /\ l.total = ledger[p].total /\ Restaked(p, l)
    BY <1>0, <1>6, AddUnlockEffect
  <2>2. UNCHANGED <<free, unbonding, currentEra>> /\ adjusted' = adjusted \cup {p}
    BY <1>6 DEF AddPoolUnlock, eraVars
  <2>3. /\ \A r \in Pool \ {p} : ledger'[r] = ledger[r]
        /\ ledger'[p] # None /\ ledger[p] # None /\ ledger'[p] = l
    BY <1>0, <2>1, RestakedFacts DEF Restaked
  <2>4. CASE q # p
    BY <1>0, <1>2, <2>2, <2>3, <2>4, PoolKept
  <2>5. CASE q = p
    <3>1. Owed(p, UnlockEra)' = Owed(p, UnlockEra)
      BY <2>2, OwedSame
    <3>2. free[p] >= ledger[p].total /\ Covered(p)
      BY <1>2, <2>3, <2>5 DEF PoolOK
    <3>3. Covered(p)'
      BY <2>1, <2>2, <2>3, <3>1, <3>2 DEF Covered
    <3> QED
      BY <2>1, <2>2, <2>3, <2>5, <3>2, <3>3 DEF PoolOK
  <2> QED
    BY <2>4, <2>5
<1>7. ASSUME NEW p \in Pool, NEW to \in Owner, NEW v \in Value, LiquidityBond(p, to, v)
      PROVE  PoolOK(q)'
  <2>1. v \in Nat /\ p \in BondedPools /\ Restaked(p, Grown(ledger[p], v))
    BY <1>0, <1>7, BondEffect
  <2>2. free' = [free EXCEPT ![p] = @ + v] /\ UNCHANGED <<unbonding, adjusted, currentEra>>
    BY <1>7 DEF LiquidityBond, eraVars
  <2>3. /\ \A r \in Pool \ {p} : ledger'[r] = ledger[r]
        /\ ledger'[p] = Grown(ledger[p], v) /\ ledger'[p] # None /\ ledger[p] # None /\ ledger[p] \in StakingLedger
    BY <1>0, <2>1, RestakedFacts, RecordFacts
  <2>4. free'[p] = free[p] + v /\ \A r \in Pool \ {p} : free'[r] = free[r]
    BY <1>0, <2>2 DEF StakeTypes
  <2>5. CASE q # p
    BY <1>0, <1>2, <2>2, <2>3, <2>4, <2>5, PoolKept
  <2>6. CASE q = p
    BY <1>0, <1>2, <2>1, <2>2, <2>3, <2>4, <2>6, PoolGrown
  <2> QED
    BY <2>5, <2>6
<1>8. ASSUME NEW p \in Pool, NEW v \in Value, NEW fee \in SwapFee, BondAndSwapTaken(p, v, fee)
      PROVE  PoolOK(q)'
  <2>1. /\ v \in Nat /\ fee \in Nat /\ p \in BondedPools /\ free[p] \in Nat
        /\ free' = [free EXCEPT ![p] = @ + v + fee] /\ UNCHANGED <<ledger, unbonding, adjusted, currentEra>>
    BY <1>0, <1>8, ConstantFacts DEF BondAndSwapTaken, Bondable, eraVars, StakeTypes
  <2>2. free'[p] = free[p] + v + fee /\ \A r \in Pool \ {p} : free'[r] = free[r]
    BY <1>0, <2>1 DEF StakeTypes
  <2>3. CASE q # p
    BY <1>0, <1>2, <2>1, <2>2, <2>3, PoolKept
  <2>4. CASE q = p
    <3>1. \A E : Owed(p, E)' = Owed(p, E)
      BY <2>1, OwedSame
    <3>2. /\ ledger[p] # None /\ ledger[p].total \in Nat /\ ledger[p].active \in Nat
          /\ Owed(p, UnlockEra) \in Nat /\ ExistentialDeposit \in Nat
      BY <1>0, <2>1, RecordFacts, OwedNat, ConstantFacts
    <3>3. free[p] >= ledger[p].total /\ Covered(p) /\ (p \notin adjusted => Agreed(p))
      BY <1>2, <2>4, <3>2 DEF PoolOK
    <3>4. free'[p] >= ledger[p].total
      BY <2>1, <2>2, <3>2, <3>3
    <3>5. Covered(p)'
      <4>1. free'[p] >= ledger[p].active + Owed(p, UnlockEra) + ExistentialDeposit
        BY <2>1, <2>2, <3>2, <3>3 DEF Covered
      <4> QED
        BY <2>1, <3>1, <4>1 DEF Covered
    <3>6. p \notin adjusted => Agreed(p)'
      BY <2>1, <3>1, <3>3 DEF Agreed
    <3> QED
      BY <2>1, <2>4, <3>2, <3>4, <3>5, <3>6 DEF PoolOK
  <2> QED
    BY <2>3, <2>4
<1>9. ASSUME NEW who \in User, NEW p \in Pool, NEW v \in Value, LiquidityUnbond(who, p, v)
      PROVE  PoolOK(q)'
  <2>1. PICK b \in Nat, era \in UnlockEra :
          /\ p \in BondedPools /\ ledger[p].active >= b
          /\ Restaked(p, Unlocking(ledger[p], era, b))
          /\ unbonding' = [unbonding EXCEPT ![<<who, p>>] = AddChunk(@, era, b)]
    BY <1>0, <1>9, UnbondEffect
  <2>2. UNCHANGED <<free, adjusted, currentEra>>
    BY <1>9 DEF LiquidityUnbond, eraVars
  <2>3. /\ \A r \in Pool \ {p} : ledger'[r] = ledger[r]
        /\ ledger'[p] = Unlocking(ledger[p], era, b) /\ ledger'[p] # None /\ ledger[p] # None
        /\ ledger[p] \in StakingLedger
    BY <1>0, <2>1, RestakedFacts, RecordFacts
  <2>4. CASE q # p
    <3>1. \A u \in User : unbonding'[<<u, q>>] = unbonding[<<u, q>>]
      BY <1>0, <2>1, <2>4 DEF UnbondingOK
    <3> QED
      BY <1>0, <1>2, <2>2, <2>3, <2>4, <3>1, PoolKept
  <2>5. CASE q = p
    BY <1>0, <1>2, <2>1, <2>2, <2>3, <2>5, PoolUnbonded
  <2> QED
    BY <2>4, <2>5
<1>10. ASSUME NEW who \in User, NEW p \in Pool, LiquidityWithdrawUnbond(who, p)
       PROVE  PoolOK(q)'
  <2>1. CASE q # p
    <3>1. \A u \in User : unbonding'[<<u, q>>] = unbonding[<<u, q>>]
      BY <1>0, <1>10, <2>1 DEF LiquidityWithdrawUnbond, UnbondingOK
    <3>2. free'[q] = free[q] /\ UNCHANGED <<ledger, adjusted>>
      BY <1>0, <1>10, <2>1 DEF LiquidityWithdrawUnbond, StakeTypes
    <3> QED
      BY <1>0, <1>2, <3>1, <3>2, PoolKept
  <2>2. CASE q = p
    BY <1>0, <1>2, <1>10, <2>2, PoolPaid
  <2> QED
    BY <2>1, <2>2
<1>11. ASSUME NEW tx, Taken(tx), SubmitUnlocks(tx) PROVE PoolOK(q)'
  <2>1. PICK p \in BondedPools, l \in StakingLedger, D \in SUBSET UnlockEra :
           /\ D = {x \in UnlockEra : x <= currentEra}
           /\ l.active = ledger[p].active
           /\ l.total = IF ledger[p].total >= SumChunks(ledger[p].unlocking, D)
                        THEN ledger[p].total - SumChunks(ledger[p].unlocking, D) ELSE 0
           /\ l.unlocking = [x \in UnlockEra |-> IF x \in D THEN None ELSE ledger[p].unlocking[x]]
           /\ Restaked(p, l)
    BY <1>0, <1>11, UnlockEffect DEF Taken
  <2>2. UNCHANGED <<free, unbonding, adjusted, currentEra>>
    BY <1>11 DEF SubmitUnlocks, eraVars
  <2>3. /\ \A r \in Pool \ {p} : ledger'[r] = ledger[r]
        /\ ledger'[p] = l /\ ledger'[p] # None /\ ledger[p] # None /\ ledger[p] \in StakingLedger /\ p \in Pool
    BY <1>0, <2>1, RestakedFacts, RecordFacts
  <2>4. CASE q # p
    BY <1>0, <1>2, <2>2, <2>3, <2>4, PoolKept
  <2>5. CASE q = p
    BY <1>0, <1>2, <2>1, <2>2, <2>3, <2>5, PoolUnlocked
  <2> QED
    BY <2>4, <2>5
<1>12. CASE PayoutStep
  <2>1. UNCHANGED <<pools, unbonding, adjusted, currentEra>>
    BY <1>12 DEF PayoutStep, eraVars
  <2>2. PICK v \in Validator, e \in Era, reward \in Reward : PayoutStakers(v, e, reward)
    BY <1>12 DEF PayoutStep
  <2>3. /\ reward \in Nat
        /\ \/ ledger'[q] = ledger[q] /\ free'[q] = free[q]
           \/ /\ ledger[q] # None /\ ledger'[q] # None
              /\ ledger[q] \in StakingLedger
              /\ ledger'[q] = Grown(ledger[q], reward) /\ free'[q] = free[q] + reward
    BY <1>0, <2>1, <2>2, PayoutEffect
  <2>4. CASE ledger'[q] = ledger[q] /\ free'[q] = free[q]
    BY <1>0, <1>2, <2>1, <2>4, PoolKept
  <2> QED
    BY <1>0, <1>2, <2>1, <2>3, <2>4, PoolGrown
<1>13. CASE QuietStep
  BY <1>0, <1>3, <1>13, QuietStakes
<1> QED
  BY <1>4, <1>5, <1>6, <1>7, <1>8, <1>9, <1>10, <1>11, <1>12, <1>13 DEF StakeStep

-----------------------------------------------------------------------------
(* rfis: no stake outgrows the bound on the pool's balance.                 *)
LEMMA BoundsNext ==
  ASSUME FisInv, FisTypes', StakeStep \/ QuietStep
  PROVE  StakesBounded'
<1>0. FisTypes /\ StakeTypes /\ LedgerOK /\ LedgerOK' /\ StakesHeld /\ StakesBounded
      /\ MaxStake \in Nat /\ ExistentialDeposit \in Nat /\ free \in [Pool -> Nat]
      /\ (eraRate[activeEra] # None => rate # None)
  BY ConstantFacts DEF FisInv, FisTypes, EraTypes, StakeTypes, StakeInv, RateInv, RatesInOrder
<1> SUFFICES ASSUME NEW q \in Pool PROVE Staked(q)' <= MaxStake
  BY DEF StakesBounded
<1>1. Staked(q) <= MaxStake /\ Staked(q) \in Nat
  BY <1>0, LedgerFacts DEF StakesBounded
<1>2. ASSUME ledger'[q] = ledger[q] PROVE Staked(q)' <= MaxStake
  BY <1>1, <1>2 DEF Staked, StakedIn
<1>3. ASSUME NEW x \in Nat, ledger[q] # None, ledger'[q] # None, ledger[q] \in StakingLedger,
             ledger'[q] = Grown(ledger[q], x), free[q] + x <= MaxStake
      PROVE  Staked(q)' <= MaxStake
  <2>1. PoolOK(q) /\ UnbondingOK
    BY <1>0, StakeInvPools DEF FisInv, StakeTypes
  <2>2. free[q] >= ledger[q].active + Owed(q, UnlockEra) + ExistentialDeposit
    BY <1>3, <2>1 DEF PoolOK, Covered
  <2>3. Owed(q, UnlockEra) \in Nat /\ ledger[q].active \in Nat /\ free[q] \in Nat
    BY <1>0, <1>3, <2>1, OwedNat DEF StakingLedger
  <2>4. Staked(q)' = ledger[q].active + x
    BY <1>3 DEF Staked, StakedIn, Grown
  <2> QED
    BY <1>0, <1>3, <2>2, <2>3, <2>4
<1>4. ASSUME NEW p \in Pool, BondForPool(p) PROVE Staked(q)' <= MaxStake
  <2>1. ledger' = [ledger EXCEPT ![p] = [active |-> 0, total |-> 0, unlocking |-> NoChunks]]
        /\ ledger \in [Pool -> Option(StakingLedger)]
    BY <1>0, <1>4 DEF BondForPool, LedgerOK, LedgersOK
  <2>2. CASE q = p
    <3>1. ledger'[q].active = 0
      BY <2>1, <2>2
    <3> QED
      BY <1>0, <3>1 DEF Staked, StakedIn
  <2>3. CASE q # p
    BY <1>2, <2>1, <2>3
  <2> QED
    BY <2>2, <2>3
<1>5. ASSUME NEW p \in Pool, NEW e \in UnlockEra, NEW v \in Value, AddPoolUnlock(p, e, v)
      PROVE  Staked(q)' <= MaxStake
  <2>1. PICK l \in StakingLedger : l.active = ledger[p].active /\ Restaked(p, l)
    BY <1>0, <1>5, AddUnlockEffect
  <2> QED
    BY <1>0, <1>1, <2>1, RestakedFacts
<1>6. ASSUME NEW p \in Pool, NEW to \in Owner, NEW v \in Value, LiquidityBond(p, to, v)
      PROVE  Staked(q)' <= MaxStake
  <2>1. v \in Nat /\ free[p] + v <= MaxStake /\ p \in BondedPools /\ Restaked(p, Grown(ledger[p], v))
    BY <1>0, <1>6, BondEffect
  <2>2. CASE q = p
    <3>1. ledger'[p] = Grown(ledger[p], v) /\ ledger'[p] # None /\ ledger[p] # None /\ ledger[p] \in StakingLedger
      BY <1>0, <2>1, RestakedFacts, RecordFacts
    <3> QED
      BY <1>3, <2>1, <2>2, <3>1
  <2>3. CASE q # p
    BY <1>0, <1>2, <2>1, <2>3, RestakedFacts
  <2> QED
    BY <2>2, <2>3
<1>7. ASSUME NEW who \in User, NEW p \in Pool, NEW v \in Value, LiquidityUnbond(who, p, v)
      PROVE  Staked(q)' <= MaxStake
  <2>1. PICK b \in Nat, era \in UnlockEra :
          p \in BondedPools /\ ledger[p].active >= b /\ Restaked(p, Unlocking(ledger[p], era, b))
    BY <1>0, <1>7, UnbondEffect
  <2>2. CASE q = p
    <3>1. Staked(p)' = Unlocking(ledger[p], era, b).active /\ Staked(p) = ledger[p].active
      BY <1>0, <2>1, RestakedFacts
    <3>2. Unlocking(ledger[p], era, b).active = ledger[p].active - b
      BY DEF Unlocking
    <3> QED
      BY <1>0, <1>1, <2>1, <2>2, <3>1, <3>2
  <2>3. CASE q # p
    BY <1>0, <1>2, <2>1, <2>3, RestakedFacts
  <2> QED
    BY <2>2, <2>3
<1>8. ASSUME NEW tx, Taken(tx), SubmitUnlocks(tx) PROVE Staked(q)' <= MaxStake
  <2>1. PICK p \in BondedPools, l \in StakingLedger : l.active = ledger[p].active /\ Restaked(p, l)
    BY <1>0, <1>8, UnlockEffect DEF Taken
  <2> QED
    BY <1>0, <1>1, <2>1, RestakedFacts
<1>9. CASE PayoutStep
  <2>1. pools' = pools
    BY <1>9 DEF PayoutStep
  <2>2. PICK v \in Validator, e \in Era, reward \in Reward : PayoutStakers(v, e, reward)
    BY <1>9 DEF PayoutStep
  <2>3. /\ reward \in Nat
        /\ \/ ledger'[q] = ledger[q] /\ free'[q] = free[q]
           \/ /\ ledger[q] # None /\ ledger'[q] # None
              /\ ledger[q] \in StakingLedger
              /\ ledger'[q] = Grown(ledger[q], reward) /\ free'[q] = free[q] + reward
              /\ free[q] + reward <= MaxStake
    BY <1>0, <2>1, <2>2, PayoutEffect
  <2> QED
    BY <1>2, <1>3, <2>3
<1>10. CASE UNCHANGED ledger
  BY <1>2, <1>10
<1>11. CASE QuietStep
  BY <1>0, <1>10, <1>11, QuietStakes DEF stakeVars
<1>12. CASE (\E p \in Pool : AddNewPool(p))
            \/ (\E p \in Pool, v \in Value, fee \in SwapFee : BondAndSwapTaken(p, v, fee))
            \/ (\E who \in User, p \in Pool : LiquidityWithdrawUnbond(who, p))
  BY <1>10, <1>12 DEF AddNewPool, BondAndSwapTaken, LiquidityWithdrawUnbond
<1> QED
  BY <1>4, <1>5, <1>6, <1>7, <1>8, <1>9, <1>11, <1>12 DEF StakeStep

-----------------------------------------------------------------------------
(* rfis: the rate and what backs it.                                        *)

LEMMA EraRated ==
  ASSUME FisInv, eraRate[activeEra] # None
  PROVE  rate # None /\ rate \in Nat /\ after[activeEra] # None
  BY RateFacts DEF FisInv, FisTypes, EraTypes, RateTypes, Option, RateInv, RatesInOrder

LEMMA RatesInOrderNext ==
  ASSUME FisInv, FisTypes', StakeStep \/ QuietStep
  PROVE  RatesInOrder'
<1>1. /\ FisTypes /\ RatesInOrder /\ activeEra \in Era /\ currentEra \in Era
      /\ eraRate \in [Era -> Option(RateType)] /\ after \in [Era -> Option(Nat)]
  BY DEF FisInv, RateInv, FisTypes, EraTypes, RateTypes, ReportTypes
<1>2. CASE UNCHANGED <<rate, eraRate, after>>
  BY <1>1, <1>2 DEF RatesInOrder
<1>3. CASE OnFinalize
  <2>1. /\ rate' \in RateType /\ eraRate' = [eraRate EXCEPT ![activeEra] = rate']
        /\ after' = after /\ after[activeEra] # None
    BY <1>1, <1>3, FinalizeEffect DEF OnFinalize, Finalizable, reportVars
  <2> QED
    BY <1>1, <2>1, SetNotNone DEF RatesInOrder
<1>4. ASSUME NEW tx, Taken(tx), SubmitTotalBondedAfter(tx) PROVE RatesInOrder'
  <2>1. tx[4] \in Nat /\ after' = [after EXCEPT ![currentEra] = tx[4]] /\ UNCHANGED <<rate, eraRate>>
    BY <1>1, <1>4 DEF Taken, SubmitTotalBondedAfter, FisTypes, MempoolOK, CallOK, rateVars
  <2> QED
    BY <1>1, <2>1, RateFacts DEF RatesInOrder
<1>5. CASE StakeStep
  BY <1>2, <1>5, StakeStepLeaves
<1>6. CASE QuietStep
  <2>1. QuietEffect
    BY <1>6, QuietCases
  <2> QED
    BY <1>2, <1>3, <1>4, <2>1 DEF QuietEffect, Configure, Onboard, Offboard, PlanEra, StartEra, OffchainWorker,
       SubmitForeign, SubmitTotalBondedBefore, SubmitNomination, rateVars, reportVars
<1> QED
  BY <1>5, <1>6

(* Steps that lower no stake and trade nothing keep what the rate rests on. *)
LEMMA RateKept ==
  ASSUME FisInv, FisTypes', Trusted, UNCHANGED <<activeEra, rateVars, after>>,
         \A tx \in mempool' : tx[1] = "after" => tx \in mempool,
         TotalBonded <= TotalBonded'
  PROVE  ReportInv'
<1>0. ReportsInOrder /\ ReportsHold /\ Backed
  BY DEF FisInv, RateInv, ReportInv
<1>1. /\ TotalBonded \in Nat /\ TotalBonded' \in Nat
      /\ rtokens.issuance \in Nat /\ rate \in Option(Nat)
      /\ after \in [Era -> Option(Nat)] /\ activeEra \in Era
  <2>1. LedgerOK /\ LedgerOK' /\ rtokens \in RT!TokenLedger
    BY DEF FisInv, FisTypes, StakeTypes, RateTypes
  <2>2. TotalBonded' \in Nat
    BY <2>1, TotalNatNext
  <2> QED
    BY <2>1, <2>2, TotalNat, RateFacts DEF FisInv, FisTypes, RateTypes, ReportTypes, EraTypes, Option,
       RT!TokenLedger
<1>2. \A x \in Nat : Holds(x) => Holds(x)'
  BY <1>1 DEF Holds, rateVars
<1>3. ReportsInOrder'
  BY <1>0 DEF ReportsInOrder
<1>4. ReportsHold'
  <2>1. \A tx \in mempool : tx[1] = "after" => tx[4] \in Nat
    BY DEF FisInv, FisTypes, MempoolOK, CallOK
  <2>2. after[activeEra] # None => after[activeEra] \in Nat
    BY <1>1 DEF Option
  <2> QED
    BY <1>0, <1>2, <2>1, <2>2 DEF ReportsHold, rateVars
<1>5. Backed'
  <2>1. Backed
    BY <1>0
  <2>2. TotalBonded * RateBase <= TotalBonded' * RateBase
    BY <1>1, RateFacts, MulMono
  <2>3. ASSUME rate # None PROVE rtokens.issuance * rate <= TotalBonded' * RateBase
    <3>1. rtokens.issuance * rate <= TotalBonded * RateBase /\ rate \in Nat
      BY <1>1, <2>1, <2>3 DEF Backed, Option
    <3>2. TotalBonded * RateBase \in Nat /\ TotalBonded' * RateBase \in Nat
      <4>1. TotalBonded \in Nat /\ TotalBonded' \in Nat
        BY <1>1
      <4>2. RateBase \in Nat
        BY RateFacts
      <4>3. \A a, b \in Nat : a * b \in Nat
        OBVIOUS
      <4> QED
        BY <4>1, <4>2, <4>3, Zenon
    <3>3. PICK r \in Nat, i \in Nat : r = rate /\ i = rtokens.issuance
      BY <1>1, <3>1
    <3>4. i * r \in Nat
      OBVIOUS
    <3> QED
      BY <2>2, <3>1, <3>2, <3>3, <3>4
  <2>4. rtokens.issuance > 0 => TotalBonded' > 0
    BY <1>1, <2>1 DEF Backed
  <2> QED
    BY <2>3, <2>4 DEF Backed, rateVars
<1> QED
  BY <1>3, <1>4, <1>5 DEF ReportInv

(* Once the era has its rate there is no report left that a trade could     *)
(* make wrong.                                                              *)
LEMMA TradeKept ==
  ASSUME FisInv, Trusted, eraRate[activeEra] # None,
         UNCHANGED <<activeEra, rate, eraRate, after, mempool>>, Backed'
  PROVE  ReportInv'
<1>1. ReportsInOrder'
  BY DEF FisInv, RateInv, ReportInv, ReportsInOrder
<1>2. ReportsHold'
  BY EraRated DEF ReportsHold
<1> QED
  BY <1>1, <1>2 DEF ReportInv

LEMMA BondBacked ==
  ASSUME FisInv, FisTypes', Trusted, NEW p \in Pool, NEW to \in Owner, NEW v \in Value,
         LiquidityBond(p, to, v)
  PROVE  ReportInv'
<1> DEFINE m == TokenToRtoken(rate, v)
<1>1. /\ eraRate[activeEra] # None /\ rtokens' = RT!Minted(rtokens, to, m)
      /\ UNCHANGED <<activeEra, rate, eraRate, after, mempool>>
  BY DEF LiquidityBond, Bondable, eraVars, reportVars, txVars
<1>2. FisTypes /\ StakesHeld /\ Backed /\ LedgerOK /\ LedgerOK' /\ rtokens \in RT!TokenLedger
  BY DEF FisInv, FisTypes, StakeTypes, StakeInv, RateInv, ReportInv, RateTypes
<1>3. rate # None /\ rate \in Nat
  BY <1>1, EraRated
<1>4. /\ v > 0 /\ v \in Nat /\ free[p] \in Nat /\ free[p] + v <= MaxStake /\ p \in BondedPools
      /\ Restaked(p, Grown(ledger[p], v))
  BY <1>2, BondEffect
<1>5. v * RateBase < AmountLimit
  BY <1>4, ConstantFacts, SupplyFacts
<1>6. m \in Nat /\ m * rate <= v * RateBase
  BY <1>3, <1>4, <1>5, MintedAtMost DEF Option
<1> HIDE DEF m
<1>7. rtokens'.issuance \in Nat /\ rtokens.issuance \in Nat /\ rtokens'.issuance <= rtokens.issuance + m
  BY <1>1, <1>2, <1>6, MintedLedger DEF RT!TokenLedger
<1>8. TotalBonded' = TotalBonded + v /\ TotalBonded \in Nat
  <2>1. /\ Staked(p)' = Grown(ledger[p], v).active /\ Staked(p) = ledger[p].active
        /\ \A r \in Pool \ {p} : Staked(r)' = Staked(r)
    BY <1>2, <1>4, RestakedFacts
  <2>2. Grown(ledger[p], v).active = ledger[p].active + v /\ ledger[p].active \in Nat
    BY <1>2, <1>4, RecordFacts DEF Grown
  <2>3. TotalBonded' = TotalBonded - Staked(p) + Staked(p)'
    BY <1>2, <2>1, TotalChange
  <2> QED
    BY <1>2, <1>4, <2>1, <2>2, <2>3, TotalNat
<1>9. rtokens'.issuance * rate <= TotalBonded' * RateBase
  <2>1. rtokens'.issuance * rate <= (rtokens.issuance + m) * rate
    BY <1>3, <1>6, <1>7, MulMono
  <2>2. (rtokens.issuance + m) * rate = rtokens.issuance * rate + m * rate
    BY <1>3, <1>6, <1>7
  <2>3. (TotalBonded + v) * RateBase = TotalBonded * RateBase + v * RateBase
    BY <1>4, <1>8, RateFacts
  <2>4. rtokens.issuance * rate <= TotalBonded * RateBase
    BY <1>2, <1>3 DEF Backed
  <2>5. /\ rtokens'.issuance * rate \in Nat /\ rtokens.issuance * rate \in Nat /\ m * rate \in Nat
        /\ TotalBonded * RateBase \in Nat /\ v * RateBase \in Nat
    BY <1>3, <1>4, <1>6, <1>7, <1>8, RateFacts
  <2> QED
    BY <1>6, <1>8, <2>1, <2>2, <2>3, <2>4, <2>5
<1>10. TotalBonded' > 0
  BY <1>4, <1>8
<1>11. Backed'
  BY <1>1, <1>9, <1>10 DEF Backed
<1> QED
  BY <1>1, <1>11, TradeKept

LEMMA UnbondBacked ==
  ASSUME FisInv, FisTypes', Trusted, NEW who \in User, NEW p \in Pool, NEW v \in Value,
         LiquidityUnbond(who, p, v)
  PROVE  ReportInv'
<1>1. eraRate[activeEra] # None /\ UNCHANGED <<activeEra, rate, eraRate, after, mempool>>
  BY DEF LiquidityUnbond, eraVars, reportVars, txVars
<1>2. FisTypes /\ Backed /\ LedgerOK /\ LedgerOK' /\ rtokens \in RT!TokenLedger /\ rate # None
  BY <1>1, EraRated DEF FisInv, FisTypes, StakeTypes, RateInv, ReportInv, RateTypes
<1>3. PICK x \in Nat, b \in Nat, era \in UnlockEra :
           /\ rate # None /\ rate \in Nat
           /\ b = RtokenToToken(rate, x)
           /\ rtokens'.issuance = IF rtokens.issuance >= x THEN rtokens.issuance - x ELSE 0
           /\ p \in BondedPools /\ ledger[p].active >= b
           /\ Restaked(p, Unlocking(ledger[p], era, b))
  BY <1>2, UnbondEffect
<1>4. x * rate < AmountLimit => b * RateBase <= x * rate
  BY <1>3, RedeemedAtMost
<1>5. rtokens.issuance \in Nat
  BY <1>2 DEF RT!TokenLedger
<1>6. TotalBonded' = TotalBonded - b /\ TotalBonded \in Nat /\ TotalBonded' \in Nat
  <2>1. /\ Staked(p)' = Unlocking(ledger[p], era, b).active /\ Staked(p) = ledger[p].active
        /\ \A r \in Pool \ {p} : Staked(r)' = Staked(r)
    BY <1>2, <1>3, RestakedFacts
  <2>2. Unlocking(ledger[p], era, b).active = ledger[p].active - b /\ ledger[p].active \in Nat
    BY <1>2, <1>3, RecordFacts DEF Unlocking
  <2>3. TotalBonded' = TotalBonded - Staked(p) + Staked(p)'
    BY <1>2, <2>1, TotalChange
  <2> QED
    BY <1>2, <1>3, <2>1, <2>2, <2>3, TotalNat, TotalNatNext
<1>7. CASE rtokens.issuance >= x
  <2>1. rtokens'.issuance = rtokens.issuance - x /\ rtokens'.issuance \in Nat
    BY <1>3, <1>5, <1>7
  <2>2. rtokens.issuance * rate = (rtokens.issuance - x) * rate + x * rate
    BY <1>3, <1>5
  <2>3. TotalBonded * RateBase = (TotalBonded - b) * RateBase + b * RateBase
    BY <1>6, RateFacts
  <2>4. rtokens.issuance * rate <= TotalBonded * RateBase
    BY <1>2 DEF Backed
  <2>5. /\ rtokens.issuance * rate \in Nat /\ rtokens'.issuance * rate \in Nat /\ x * rate \in Nat
        /\ TotalBonded * RateBase \in Nat /\ TotalBonded' * RateBase \in Nat /\ b * RateBase \in Nat
    BY <1>3, <1>5, <1>6, <2>1, RateFacts
  <2>8. TotalBonded * RateBase < AmountLimit
    BY <1>2, TotalBounded DEF FisInv
  <2>9. x * rate < AmountLimit
    BY <2>1, <2>2, <2>4, <2>5, <2>8, RateFacts
  <2>10. b * RateBase <= x * rate
    BY <1>4, <2>9
  <2>6. rtokens'.issuance * rate <= TotalBonded' * RateBase
    BY <1>6, <2>1, <2>2, <2>3, <2>4, <2>5, <2>10
  <2>7. ASSUME rtokens'.issuance > 0 PROVE TotalBonded' > 0
    <3>1. CASE rate = 0
      <4>1. b * RateBase <= 0
        BY <2>10, <3>1
      <4>2. b = 0
        BY <4>1, RateFacts
      <4>3. TotalBonded > 0
        BY <1>2, <1>5, <2>1, <2>7 DEF Backed
      <4> QED
        BY <1>6, <4>2, <4>3
    <3>2. CASE rate # 0
      <4>1. rtokens'.issuance * rate > 0
        BY <1>3, <2>1, <2>7, <3>2
      <4>2. TotalBonded' # 0
        BY <2>5, <2>6, <4>1, RateFacts
      <4> QED
        BY <1>6, <4>2
    <3> QED
      BY <3>1, <3>2
  <2> QED
    BY <1>1, <2>6, <2>7, TradeKept DEF Backed
<1>8. CASE rtokens.issuance < x
  <2>1. rtokens'.issuance = 0
    BY <1>3, <1>5, <1>8
  <2>2. 0 * rate <= TotalBonded' * RateBase
    BY <1>3, <1>6, RateFacts
  <2> QED
    BY <1>1, <2>1, <2>2, TradeKept DEF Backed
<1> QED
  BY <1>3, <1>5, <1>7, <1>8

LEMMA FinalizeBacked ==
  ASSUME FisInv, FisTypes', Trusted, OnFinalize
  PROVE  ReportInv'
<1>1. /\ FisTypes /\ ReportsInOrder /\ ReportsHold /\ LedgerOK /\ activeEra \in Era
      /\ eraRate \in [Era -> Option(RateType)] /\ rtokens' \in RT!TokenLedger
  BY DEF FisInv, RateInv, ReportInv, FisTypes, StakeTypes, EraTypes, RateTypes
<1>2. /\ rate' \in RateType /\ eraRate' = [eraRate EXCEPT ![activeEra] = rate']
      /\ after[activeEra] \in Nat /\ eraRate[activeEra] = None
      /\ Holds(after[activeEra]) /\ after[activeEra] * RateBase < AmountLimit =>
           /\ rtokens'.issuance > 0 => after[activeEra] > 0
           /\ rtokens'.issuance * rate' <= after[activeEra] * RateBase
  BY <1>1, FinalizeEffect
<1>3. UNCHANGED <<activeEra, after, mempool, pools, ledger>> /\ after[activeEra] # None
  BY DEF OnFinalize, Finalizable, eraVars, reportVars, stakeVars, txVars
<1>4. /\ TotalBonded' = TotalBonded /\ TotalBonded \in Nat
      /\ TotalBonded * RateBase < AmountLimit
  BY <1>1, <1>3, TotalBounded DEF TotalBonded, BondedPools, FisInv
<1>5. /\ rate' # None /\ rate' \in Nat /\ rtokens'.issuance \in Nat /\ RateBase \in Nat
      /\ AmountLimit \in Nat
  BY <1>1, <1>2, SetNotNone, RateFacts DEF RT!TokenLedger
<1>6. ReportsInOrder'
  BY <1>1, <1>3 DEF ReportsInOrder
<1>7. ReportsHold'
  <2>1. eraRate'[activeEra'] # None
    BY <1>1, <1>2, <1>3, <1>5
  <2> QED
    BY <1>3, <2>1 DEF ReportsHold
<1>8. Backed'
  <2>0. Holds(after[activeEra]) /\ after[activeEra] <= TotalBonded
    BY <1>1, <1>2, <1>3 DEF ReportsHold, Holds
  <2>2. after[activeEra] * RateBase <= TotalBonded * RateBase
    BY <1>2, <1>4, <1>5, <2>0, MulMono
  <2>3. rtokens'.issuance * rate' \in Nat /\ after[activeEra] * RateBase \in Nat /\ TotalBonded * RateBase \in Nat
    BY <1>2, <1>4, <1>5
  <2>4. after[activeEra] * RateBase < AmountLimit
    BY <1>4, <1>5, <2>2, <2>3
  <2>5. /\ rtokens'.issuance > 0 => after[activeEra] > 0
        /\ rtokens'.issuance * rate' <= after[activeEra] * RateBase
    BY <1>2, <2>0, <2>4
  <2>6. rtokens'.issuance > 0 => TotalBonded > 0
    BY <1>2, <1>4, <1>5, <2>0, <2>5
  <2>7. rtokens'.issuance * rate' <= TotalBonded * RateBase
    BY <2>2, <2>3, <2>5
  <2> QED
    BY <1>4, <2>6, <2>7 DEF Backed
<1> QED
  BY <1>6, <1>7, <1>8 DEF ReportInv

(* The steps of the workers' reports themselves.                            *)
LEMMA ReportBacked ==
  ASSUME FisInv, FisTypes', Trusted,
         \/ \E known : \E tx \in WorkerCalls(known) : WorkerSent(tx)
         \/ \E tx : Taken(tx) /\ SubmitTotalBondedAfter(tx)
         \/ StartEra
  PROVE  ReportInv'
<1>1. /\ FisTypes /\ ReportsInOrder /\ ReportsHold /\ Backed /\ \A tx \in mempool : CallOK(tx)
      /\ activeEra \in Era /\ currentEra \in Era /\ activeEra \in Nat /\ currentEra \in {activeEra, activeEra + 1}
      /\ after \in [Era -> Option(Nat)] /\ LedgerOK
  BY EraFacts DEF FisInv, RateInv, ReportInv, FisTypes, EraTypes, ReportTypes, StakeTypes, MempoolOK
<1>2. UNCHANGED <<pools, ledger, rtokens, rate, eraRate>>
  BY DEF stakeVars, rateVars, SubmitTotalBondedAfter, StartEra, WorkerSent
<1>3. TotalBonded' = TotalBonded /\ \A x : Holds(x)' <=> Holds(x)
  <2>1. TotalBonded' = TotalBonded
    BY <1>2 DEF TotalBonded, BondedPools
  <2> QED
    BY <1>2, <2>1 DEF Holds
<1>4. Backed'
  BY <1>1, <1>2, <1>3 DEF Backed
<1>5. ASSUME NEW known, NEW tx \in WorkerCalls(known), WorkerSent(tx)
      PROVE  ReportsInOrder' /\ ReportsHold'
  <2>1. /\ tx[1] = "after" => tx[2] = activeEra /\ tx[4] = TotalBonded
        /\ mempool' = mempool \cup {tx} /\ UNCHANGED <<activeEra, after>>
    BY <1>1, <1>5, WorkerFacts DEF WorkerSent, eraVars, reportVars
  <2>2. ReportsInOrder'
    BY <1>1, <2>1 DEF ReportsInOrder
  <2>3. Holds(TotalBonded)
    BY <1>1, TotalNat DEF Holds, Backed
  <2>4. ReportsHold'
    BY <1>1, <1>2, <1>3, <2>1, <2>3 DEF ReportsHold
  <2> QED
    BY <2>2, <2>4
<1>6. ASSUME NEW tx, Taken(tx), SubmitTotalBondedAfter(tx) PROVE ReportsInOrder' /\ ReportsHold'
  <2>1. /\ tx \in mempool /\ mempool' = mempool \ {tx} /\ tx[1] = "after" /\ tx[2] = currentEra
        /\ after' = [after EXCEPT ![currentEra] = tx[4]] /\ UNCHANGED activeEra
        /\ after[tx[2]] = None
    BY <1>6 DEF Taken, Valid, SubmitTotalBondedAfter, eraVars
  <2>2. tx[4] \in Nat /\ tx[2] <= activeEra
    BY <1>1, <2>1 DEF CallOK, ReportsInOrder
  <2>3. currentEra = activeEra
    BY <1>1, <2>1, <2>2
  <2>5. tx[4] # None
    BY <2>2, RateFacts
  <2>6. \A e \in Era : after'[e] = IF e = currentEra THEN tx[4] ELSE after[e]
    BY <1>1, <2>1
  <2>7. ReportsInOrder'
    <3>1. \A e \in Era : e > activeEra' => after'[e] = None
      BY <1>1, <2>1, <2>3, <2>6 DEF ReportsInOrder
    <3> QED
      BY <1>1, <2>1, <3>1 DEF ReportsInOrder
  <2>8. ReportsHold'
    <3>1. Holds(tx[4])
      BY <1>1, <2>1, <2>3 DEF ReportsHold
    <3>2. after'[activeEra'] = tx[4]
      BY <1>1, <2>1, <2>3, <2>6
    <3> QED
      BY <1>3, <2>5, <3>1, <3>2 DEF ReportsHold
  <2> QED
    BY <2>7, <2>8
<1>7. CASE StartEra
  <2>1. /\ activeEra' = activeEra + 1 /\ activeEra' \in Era /\ UNCHANGED <<after, mempool>>
    BY <1>1, <1>7 DEF StartEra, reportVars, txVars
  <2>2. after[activeEra'] = None
    BY <1>1, <2>1 DEF ReportsInOrder
  <2>3. \A tx \in mempool : tx[1] = "after" => tx[2] \in Nat /\ tx[2] <= activeEra
    <3>1. \A tx \in mempool : tx[2] \in Era
      BY <1>1 DEF CallOK
    <3>2. \A tx \in mempool : tx[2] \in Nat
      BY <3>1, EraFacts
    <3> QED
      BY <1>1, <3>2 DEF ReportsInOrder
  <2>4. ReportsInOrder'
    <3>1. \A e \in Era : e > activeEra' => e > activeEra
      BY <1>1, <2>1, EraFacts
    <3>2. \A tx \in mempool : tx[1] = "after" => tx[2] <= activeEra'
      BY <1>1, <2>1, <2>3
    <3> QED
      BY <1>1, <2>1, <3>1, <3>2 DEF ReportsInOrder
  <2>5. ReportsHold'
    <3>1. \A tx \in mempool : tx[1] = "after" => tx[2] # activeEra'
      BY <1>1, <2>1, <2>3
    <3> QED
      BY <2>1, <2>2, <3>1 DEF ReportsHold
  <2> QED
    BY <1>4, <2>4, <2>5 DEF ReportInv
<1> QED
  BY <1>4, <1>5, <1>6, <1>7 DEF ReportInv

LEMMA RateNext ==
  ASSUME FisInv, FisTypes', StakeStep \/ QuietStep
  PROVE  RateInv'
<1>b. RatesInOrder'
  BY RatesInOrderNext
<1>c. foreign \subseteq foreign'
  <2>1. CASE \E known : \E tx \in WorkerCalls(known) : WorkerSent(tx)
    BY <2>1 DEF WorkerSent
  <2>2. CASE \E tx \in ForeignCalls : OthersSent(tx)
    BY <2>2 DEF OthersSent
  <2> QED
    BY <2>1, <2>2, MempoolStep DEF sentVars
<1> SUFFICES ASSUME Trusted, Trusted' PROVE ReportInv'
  BY <1>b, <1>c DEF RateInv, Trusted
<1>0. FisTypes /\ LedgerOK /\ LedgerOK' /\ StakesHeld
  BY DEF FisInv, FisTypes, StakeTypes, StakeInv
<1>a. TotalBonded \in Nat /\ \A q \in Pool : Staked(q) \in Nat
  BY <1>0, TotalNat, LedgerFacts
<1>1. CASE QuietStep
  <2>1. UNCHANGED stakeVars /\ QuietEffect
    BY <1>0, <1>1, QuietStakes, QuietCases DEF FisTypes
  <2>2. TotalBonded' = TotalBonded
    BY <2>1 DEF TotalBonded, BondedPools, stakeVars
  <2>3. ASSUME UNCHANGED <<activeEra, rateVars, after>>,
               \A tx \in mempool' : tx[1] = "after" => tx \in mempool
        PROVE  ReportInv'
    BY <1>a, <2>2, <2>3, RateKept
  <2>4. CASE PlanEra
    BY <2>3, <2>4 DEF PlanEra, reportVars, txVars
  <2>5. CASE Configure \/ \E v \in Validator : Onboard(v) \/ Offboard(v)
    BY <2>3, <2>5 DEF Configure, Onboard, Offboard, eraVars, reportVars, txVars
  <2>6. CASE \E tx : Taken(tx) /\ (SubmitTotalBondedBefore(tx) \/ SubmitNomination(tx))
    BY <2>3, <2>6 DEF Taken, SubmitTotalBondedBefore, SubmitNomination, eraVars, reportVars
  <2>7. CASE UNCHANGED <<eraVars, rateVars, reportVars, voteVars, sentVars>> /\ mempool' \subseteq mempool
    BY <2>3, <2>7 DEF eraVars, reportVars
  <2>a. ASSUME NEW tx \in ForeignCalls, SubmitForeign(tx) PROVE ReportInv'
    <3>1. /\ mempool' = mempool \cup {tx} /\ <<tx[1], tx[2]>> \in foreign'
          /\ UNCHANGED <<activeEra, rateVars, after>>
      BY <2>a DEF SubmitForeign, eraVars, reportVars
    <3>2. tx[1] # "after"
      BY <3>1, ForeignFacts DEF Trusted, CallOK
    <3> QED
      BY <2>3, <3>1, <3>2
  <2>8. CASE OffchainWorker \/ StartEra \/ \E tx : Taken(tx) /\ SubmitTotalBondedAfter(tx)
    BY <2>8, ReportBacked DEF OffchainWorker, WorkerSent
  <2>9. CASE OnFinalize
    BY <2>9, FinalizeBacked
  <2> QED
    BY <2>1, <2>4, <2>5, <2>6, <2>7, <2>8, <2>9, <2>a DEF QuietEffect
<1>2. ASSUME \A q \in Pool : Staked(q) <= Staked(q)', rtokens' = rtokens, StakeStep PROVE ReportInv'
  <2>1. TotalBonded <= TotalBonded'
    BY <1>0, <1>2, TotalGrows
  <2>2. /\ UNCHANGED <<activeEra, rateVars, after>>
        /\ \A tx \in mempool' : tx[1] = "after" => tx \in mempool
    BY <1>2, StakeStepLeaves DEF eraVars, rateVars
  <2> QED
    BY <2>1, <2>2, RateKept
<1>3. CASE StakeStep
  <2>1. ASSUME NEW p \in Pool, AddNewPool(p) \/ BondForPool(p) PROVE ReportInv'
    <3>1. \A q \in Pool : Staked(q) <= Staked(q)'
      <4>1. CASE AddNewPool(p)
        BY <1>a, <4>1 DEF AddNewPool, Staked, StakedIn
      <4>2. CASE BondForPool(p)
        <5>1. ledger \in [Pool -> Option(StakingLedger)] /\ ledger[p] = None /\ \A q \in Pool \ {p} : ledger'[q] = ledger[q]
          BY <1>0, <4>2 DEF BondForPool, LedgerOK, LedgersOK
        <5>2. Staked(p) = 0 /\ Staked(p)' \in Nat
          BY <1>0, <5>1, LedgersFacts DEF Staked, StakedIn, LedgerOK
        <5> QED
          BY <1>a, <5>1, <5>2 DEF Staked, StakedIn
      <4> QED
        BY <2>1, <4>1, <4>2
    <3>2. rtokens' = rtokens
      BY <2>1 DEF AddNewPool, BondForPool, rateVars
    <3> QED
      BY <1>2, <1>3, <3>1, <3>2
  <2>2. ASSUME NEW p \in Pool, NEW e \in UnlockEra, NEW v \in Value, AddPoolUnlock(p, e, v) PROVE ReportInv'
    <3>1. PICK l \in StakingLedger : l.active = ledger[p].active /\ Restaked(p, l)
      BY <1>0, <2>2, AddUnlockEffect
    <3>2. \A q \in Pool : Staked(q) <= Staked(q)'
      BY <1>0, <1>a, <3>1, RestakedFacts
    <3>3. rtokens' = rtokens
      BY <2>2 DEF AddPoolUnlock, rateVars
    <3> QED
      BY <1>2, <1>3, <3>2, <3>3
  <2>3. ASSUME NEW p \in Pool, NEW to \in Owner, NEW v \in Value, LiquidityBond(p, to, v) PROVE ReportInv'
    BY <2>3, BondBacked
  <2>4. ASSUME NEW who \in User, NEW p \in Pool, NEW v \in Value, LiquidityUnbond(who, p, v) PROVE ReportInv'
    BY <2>4, UnbondBacked
  <2>5. CASE (\E p \in Pool, v \in Value, fee \in SwapFee : BondAndSwapTaken(p, v, fee))
             \/ (\E who \in User, p \in Pool : LiquidityWithdrawUnbond(who, p))
    <3>1. ledger' = ledger /\ rtokens' = rtokens
      BY <2>5 DEF BondAndSwapTaken, LiquidityWithdrawUnbond, rateVars
    <3>2. \A q \in Pool : Staked(q) <= Staked(q)'
      BY <1>a, <3>1 DEF Staked
    <3> QED
      BY <1>2, <1>3, <3>1, <3>2
  <2>6. ASSUME NEW tx, Taken(tx), SubmitUnlocks(tx) PROVE ReportInv'
    <3>1. PICK p \in BondedPools, l \in StakingLedger : l.active = ledger[p].active /\ Restaked(p, l)
      BY <1>0, <2>6, UnlockEffect DEF Taken
    <3>2. \A q \in Pool : Staked(q) <= Staked(q)'
      <4>1. p \in Pool
        BY <3>1 DEF Restaked
      <4>2. Staked(p)' = Staked(p) /\ \A q \in Pool \ {p} : Staked(q)' = Staked(q)
        BY <1>0, <3>1, RestakedFacts
      <4> QED
        BY <1>a, <4>1, <4>2
    <3>3. rtokens' = rtokens
      BY <2>6 DEF SubmitUnlocks, rateVars
    <3> QED
      BY <1>2, <1>3, <3>2, <3>3
  <2>7. CASE PayoutStep
    <3>1. pools' = pools /\ rtokens' = rtokens
      BY <2>7 DEF PayoutStep, rateVars
    <3>2. PICK v \in Validator, e \in Era, reward \in Reward : PayoutStakers(v, e, reward)
      BY <2>7 DEF PayoutStep
    <3>3. \A q \in Pool : Staked(q) <= Staked(q)'
      <4> SUFFICES ASSUME NEW q \in Pool PROVE Staked(q) <= Staked(q)'
        OBVIOUS
      <4>1. /\ reward \in Nat
            /\ \/ ledger'[q] = ledger[q]
               \/ /\ ledger[q] # None /\ ledger'[q] # None /\ ledger[q] \in StakingLedger
                  /\ ledger'[q] = Grown(ledger[q], reward)
        BY <1>0, <3>1, <3>2, PayoutEffect
      <4>2. CASE ledger'[q] = ledger[q]
        BY <1>a, <4>2 DEF Staked, StakedIn
      <4>3. CASE ledger'[q] = Grown(ledger[q], reward) /\ ledger[q] # None /\ ledger'[q] # None
        <5>1. Staked(q)' = Staked(q) + reward
          BY <4>3 DEF Staked, StakedIn, Grown
        <5> QED
          BY <1>a, <4>1, <5>1
      <4> QED
        BY <4>1, <4>2, <4>3
    <3> QED
      BY <1>2, <1>3, <3>1, <3>3
  <2> QED
    BY <1>3, <2>1, <2>2, <2>3, <2>4, <2>5, <2>6, <2>7 DEF StakeStep
<1> QED
  BY <1>1, <1>3

-----------------------------------------------------------------------------
(* rfis: the theorems.                                                      *)

LEMMA FirstSettings ==
  ASSUME NEW s \in [switch : {FALSE}, receiver : {FALSE}, commission : CommissionPart,
                    unbondCommission : UnbondPart, min : NominationNum, max : NominationNum, limit : {0}]
  PROVE  s \in Settings
<1>1. s.switch \in {FALSE} /\ s.receiver \in {FALSE} /\ s.limit \in {0}
  OBVIOUS
<1>2. s.switch \in BOOLEAN /\ s.receiver \in BOOLEAN
  BY <1>1, Zenon
<1>3. s.limit \in Nat
  BY <1>1
<1> QED
  BY <1>2, <1>3 DEF Settings

LEMMA FisInitTypes == RFisInit => FisTypes
<1> SUFFICES ASSUME RFisInit PROVE FisTypes
  OBVIOUS
<1> USE DEF RFisInit
<1>1. EraTypes
  BY ConstantFacts DEF EraTypes
<1>2. StakeTypes
  <2>1. NoChunks \in Chunks
    BY SumChunksNone
  <2> QED
    BY <2>1, ConstantFacts DEF StakeTypes, LedgerOK, LedgersOK, UnbondingOK, Option
<1>3. RateTypes
  BY DEF RateTypes, RT!NoTokens, RT!TokenLedger, Option
<1>4. ReportTypes
  BY DEF ReportTypes, Option
<1>5. SettingTypes
  <2>1. settings \in Settings
    BY FirstSettings
  <2>2. IsFiniteSet(onboard) /\ Cardinality(onboard) = 0 /\ onboard \subseteq Validator
    BY FS_EmptySet
  <2>3. Cardinality(onboard) <= MAX_ONBOARD_VALIDATORS + 1
    BY <2>2, ConstantFacts
  <2>4. nominated \in [Era \X Pool -> Option(SUBSET Validator)]
    BY DEF Option
  <2> QED
    BY <2>1, <2>2, <2>3, <2>4 DEF SettingTypes
<1>6. MempoolOK
  BY DEF MempoolOK
<1> QED
  BY <1>1, <1>2, <1>3, <1>4, <1>5, <1>6 DEF FisTypes

LEMMA FisInit == RFisInit => FisInv
<1> SUFFICES ASSUME RFisInit PROVE FisInv
  OBVIOUS
<1>1. FisTypes
  BY FisInitTypes
<1>2. NomineeInv
  <2>1. OneNomination /\ TargetsFree
    BY DEF RFisInit, OneNomination, TargetsFree
  <2>2. NomineesNotShared
    BY DEF RFisInit, NomineesNotShared, OrElse
  <2> QED
    BY <2>1, <2>2 DEF NomineeInv
<1>3. StakeInv
  <2>1. \A p \in Pool : PoolOK(p)
    BY ConstantFacts DEF RFisInit, PoolOK
  <2> QED
    BY <1>1, <2>1, StakeInvPools DEF FisTypes, StakeTypes
<1>4. RateInv
  <2>1. /\ rate = None /\ rtokens.issuance = 0 /\ mempool = {} /\ \A e \in Era : after[e] = None /\ eraRate[e] = None
        /\ activeEra \in Era
    BY ConstantFacts DEF RFisInit, RT!NoTokens
  <2>2. RatesInOrder /\ ReportsInOrder /\ ReportsHold
    BY <2>1 DEF RatesInOrder, ReportsInOrder, ReportsHold
  <2>3. Backed
    BY <2>1 DEF Backed
  <2> QED
    BY <2>2, <2>3 DEF RateInv, ReportInv
<1>5. StakesBounded
  BY ConstantFacts DEF RFisInit, StakesBounded, Staked, StakedIn
<1> QED
  BY <1>1, <1>2, <1>3, <1>4, <1>5 DEF FisInv

LEMMA FisNext == FisInv /\ [RFisNext]_rfisVars => FisInv'
<1> SUFFICES ASSUME FisInv, [RFisNext]_rfisVars PROVE FisInv'
  OBVIOUS
<1>1. StakeStep \/ QuietStep
  BY NextCases DEF FisInv, FisTypes
<1>2. FisTypes'
  BY <1>1, FisTypesNext
<1>3. NomineeInv' /\ StakeInv' /\ StakesBounded' /\ RateInv'
  BY <1>1, <1>2, NomineesNext, StakesNext, BoundsNext, RateNext
<1> QED
  BY <1>2, <1>3 DEF FisInv

LEMMA FisAlways == RFisSpec => []FisInv
<1>1. RFisInit => FisInv
  BY FisInit
<1>2. FisInv /\ [RFisNext]_rfisVars => FisInv'
  BY FisNext
<1> QED
  BY <1>1, <1>2, PTL DEF RFisSpec

(* What the rate promises, cut to whole tokens, is there.                   *)
LEMMA BackedSolvent == FisInv => Solvent
<1> SUFFICES ASSUME FisInv, rate # None, Trusted
             PROVE  RtokenToToken(rate, rtokens.issuance) <= TotalBonded
  BY DEF Solvent, Trusted
<1>1. /\ TotalBonded \in Nat /\ TotalBonded * RateBase < AmountLimit
      /\ rtokens.issuance \in Nat /\ rate \in Nat /\ RateBase \in Nat \ {0}
  <2>1. LedgerOK /\ StakesBounded /\ rtokens \in RT!TokenLedger /\ rate \in RateType
    BY DEF FisInv, FisTypes, StakeTypes, RateTypes, Option
  <2> QED
    BY <2>1, TotalBounded, RateFacts DEF RT!TokenLedger
<1>2. PICK i \in Nat, r \in Nat : i = rtokens.issuance /\ r = rate
  BY <1>1
<1>3. i * r <= TotalBonded * RateBase
  BY <1>2 DEF FisInv, RateInv, ReportInv, Backed
<1>4. i * r \in Nat /\ TotalBonded * RateBase \in Nat /\ AmountLimit \in Nat
  BY <1>1, RateFacts
<1>5. i * r < AmountLimit
  BY <1>1, <1>3, <1>4
<1> DEFINE q == Quotient(i, r, RateBase)
<1>6. q \in Nat /\ q = (i * r) \div RateBase
  BY <1>1, <1>5, QuotientFacts
<1>7. q <= TotalBonded
  BY <1>1, <1>3, <1>4, <1>6, DivAtMost
<1>8. RtokenToToken(rate, rtokens.issuance) = IF q < AmountLimit THEN q ELSE 0
  BY <1>2, RateFacts DEF RtokenToToken, MultiplyByRational
<1> HIDE DEF q
<1> QED
  BY <1>1, <1>7, <1>8

(* The types of rfis: the eras, the pools' ledgers at the staking pallet,   *)
(* the reports, the nominations and the waiting transactions keep theirs.   *)
THEOREM RFisTypes == RFisSpec => []RFisTypeOK
<1>1. FisInv => RFisTypeOK
  BY FisTypesOK DEF FisInv
<1> QED
  BY <1>1, FisAlways, PTL

(* No validator is nominated by two pools in an era whose nominations are   *)
(* all the workers' and each of them knew of the one that waited, whatever  *)
(* the workers saw of the chain when they chose: the tag, which names the   *)
(* era and not the pool, keeps a second nomination out while one waits.     *)
THEOREM NomineesApart == RFisSpec => []NomineesNotShared
<1>1. FisInv => NomineesNotShared
  BY DEF FisInv, NomineeInv
<1> QED
  BY <1>1, FisAlways, PTL

(* A pool's account always covers its bond and all it owes to users who     *)
(* have unbonded, and its staking ledger agrees with the users' records,    *)
(* for any number of pools, users and eras.                                 *)
THEOREM UnbondsPaid == RFisSpec => []UnbondsCovered
<1>1. FisInv => UnbondsCovered
  BY DEF FisInv, StakeInv
<1> QED
  BY <1>1, FisAlways, PTL

(* All rFIS, at the current rate, are worth at most what the pools have     *)
(* bonded, although the rate comes from a total that was read blocks ago,   *)
(* as long as every second report came from a worker; whatever others send  *)
(* besides, and however many nodes report the same era at once.             *)
THEOREM AlwaysSolvent == RFisSpec => []Solvent
  BY BackedSolvent, FisAlways, PTL

=============================================================================
