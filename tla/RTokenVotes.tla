---------------------------- MODULE RTokenVotes ----------------------------
(***************************************************************************)
(* Proposal voting of rtoken/votes (acknowledge_proposal) over the         *)
(* rtoken/relayers registry.  Relayers of a symbol vote for or against a   *)
(* (prop_id, call) pair.  Unlike bridge/common, a decided proposal has no  *)
(* executed state: every further acknowledgement by any relayer, also one  *)
(* that has voted already, dispatches the call again, and the dispatch     *)
(* result is not recorded.  What a dispatch does is left to the modules of *)
(* the pallets that are called.                                            *)
(***************************************************************************)
EXTENDS Options, Integers, Sequences, FiniteSets, Functions

CONSTANTS RSymbol,           \* rtoken symbols
          Account,           \* accounts that may become relayers
          MaxThreshold,      \* bound on the threshold
          PropId,            \* proposal ids (hashes)
          Call,              \* dispatchable calls
          ProposalLifetime,  \* blocks a proposal stays open
          MaxBlock           \* bound on the block number

ASSUME RTokenVotesAssumption ==
  /\ ProposalLifetime \in Nat
  /\ MaxBlock \in Nat
  /\ None \notin Account

VARIABLES relayers, relayerThreshold, relayerCount,   \* rtoken/relayers
          now,          \* block number
          votes,        \* Votes: (symbol, (prop_id, call)) -> votes or None
          lastVoter,    \* rtoken/ledger's LastVoter, written here
          quorum,       \* history: the threshold when the proposal was decided
          dispatched    \* history: the statuses under which the call was dispatched

registryVars == <<relayers, relayerThreshold, relayerCount>>
vars == <<registryVars, now, votes, lastVoter, quorum, dispatched>>

\* rtoken/relayers, keyed by symbol.
Registry == INSTANCE Relayers WITH Id <- RSymbol

Proposal == [symbol : RSymbol, id : PropId, call : Call]

RproposalStatus == {"Initiated", "Approved", "Rejected", "Expired"}

RproposalVotes == [votes_for : Seq(Account), votes_against : Seq(Account),
                   status : RproposalStatus, expiry : Nat]

ASSUME NoneIsNoVotes == None \notin RproposalVotes

TypeOK ==
  /\ Registry!TypeOK
  /\ now \in Nat
  /\ votes \in [Proposal -> RproposalVotes \cup {None}]
  /\ lastVoter \in [RSymbol -> Account \cup {None}]
  /\ quorum \in [Proposal -> Nat]
  /\ dispatched \in [Proposal -> SUBSET RproposalStatus]

Init ==
  /\ Registry!Init
  /\ now = 0
  /\ votes = [p \in Proposal |-> None]
  /\ lastVoter = [s \in RSymbol |-> None]
  /\ quorum = [p \in Proposal |-> 0]
  /\ dispatched = [p \in Proposal |-> {}]

-----------------------------------------------------------------------------
\* What commit_vote reads: the stored votes, or a fresh record.
VotesOf(p) ==
  IF votes[p] = None
  THEN [votes_for |-> << >>, votes_against |-> << >>, status |-> "Initiated",
        expiry |-> now + ProposalLifetime]
  ELSE votes[p]

IsCompleted(v) == v.status # "Initiated"

HasVoted(v, who) == who \in Range(v.votes_for) \cup Range(v.votes_against)

IsExpired(v) == v.expiry <= now

\* The votes with who's vote pushed.
Pushed(v, who, inFavour) ==
  IF inFavour THEN [v EXCEPT !.votes_for = Append(@, who)]
              ELSE [v EXCEPT !.votes_against = Append(@, who)]

\* derivate that rejects one vote too early.
MutDerivateEarly(v, threshold, total) ==
  IF Len(v.votes_for) >= threshold THEN [v EXCEPT !.status = "Approved"]
  ELSE IF total >= threshold /\ Len(v.votes_against) + threshold >= total
       THEN [v EXCEPT !.status = "Rejected"]
  ELSE v

\* derivate that never finds a proposal beyond approval.
MutDerivateNever(v, threshold, total) ==
  IF Len(v.votes_for) >= threshold THEN [v EXCEPT !.status = "Approved"] ELSE v

\* derivate that counts all votes towards approval.
MutDerivateAll(v, threshold, total) ==
  IF Len(v.votes_for) + Len(v.votes_against) >= threshold
  THEN [v EXCEPT !.status = "Approved"]
  ELSE v

\* derivate: approved when the votes in favour reach the threshold, rejected
\* when the relayers that did not vote against cannot reach it any more.
Derivate(v, threshold, total) ==
  IF Len(v.votes_for) >= threshold THEN [v EXCEPT !.status = "Approved"]
  ELSE IF total >= threshold /\ Len(v.votes_against) + threshold > total
       THEN [v EXCEPT !.status = "Rejected"]
  ELSE v

-----------------------------------------------------------------------------
\* try_resolve_proposal, and what acknowledge_proposal always does: LastVoter
\* is written before the vote is looked at, and the call is dispatched when
\* the stored status is Approved or Rejected.
Resolve(p, who, v) ==
  /\ lastVoter' = [lastVoter EXCEPT ![p.symbol] = who]
  /\ dispatched' = [dispatched EXCEPT ![p] =
                      IF v.status \in {"Approved", "Rejected"} THEN @ \cup {v.status} ELSE @]
  /\ UNCHANGED <<registryVars, now>>

\* The account has voted: the stored votes stay, a decided call is dispatched.
AcknowledgeAgain(p, who) ==
  /\ Registry!IsRelayer(p.symbol, who)
  /\ HasVoted(VotesOf(p), who)
  /\ Resolve(p, who, VotesOf(p))
  /\ UNCHANGED <<votes, quorum>>

\* A new vote on a proposal that is decided or expired is stored, too.
AcknowledgeClosed(p, who, inFavour) ==
  /\ Registry!IsRelayer(p.symbol, who)
  /\ ~HasVoted(VotesOf(p), who)
  /\ IsCompleted(VotesOf(p))
  /\ votes' = [votes EXCEPT ![p] = Pushed(VotesOf(p), who, inFavour)]
  /\ Resolve(p, who, VotesOf(p))
  /\ UNCHANGED quorum

\* The vote finds the proposal past its expiry: vote and status Expired are
\* stored and the call returns ProposalExpired.
AcknowledgeLate(p, who, inFavour) ==
  /\ Registry!IsRelayer(p.symbol, who)
  /\ ~HasVoted(VotesOf(p), who)
  /\ ~IsCompleted(VotesOf(p))
  /\ IsExpired(VotesOf(p))
  /\ votes' = [votes EXCEPT ![p] =
                 [Pushed(VotesOf(p), who, inFavour) EXCEPT !.status = "Expired"]]
  /\ lastVoter' = [lastVoter EXCEPT ![p.symbol] = who]
  /\ UNCHANGED <<registryVars, now, quorum, dispatched>>

\* A vote on an open proposal is counted and may decide it.
AcknowledgeOpen(p, who, inFavour) ==
  /\ Registry!IsRelayer(p.symbol, who)
  /\ ~HasVoted(VotesOf(p), who)
  /\ ~IsCompleted(VotesOf(p))
  /\ ~IsExpired(VotesOf(p))
  /\ LET v == Derivate(Pushed(VotesOf(p), who, inFavour),
                       relayerThreshold[p.symbol], relayerCount[p.symbol]) IN
       /\ votes' = [votes EXCEPT ![p] = v]
       /\ quorum' = [quorum EXCEPT ![p] = relayerThreshold[p.symbol]]
       /\ Resolve(p, who, v)

AcknowledgeProposal(p, who, inFavour) ==
  \/ AcknowledgeAgain(p, who)
  \/ AcknowledgeClosed(p, who, inFavour)
  \/ AcknowledgeLate(p, who, inFavour)
  \/ AcknowledgeOpen(p, who, inFavour)

\* Root's calls to rtoken/relayers.
RegistryCall ==
  /\ Registry!Next
  /\ UNCHANGED <<now, votes, lastVoter, quorum, dispatched>>

NextBlock ==
  /\ now < MaxBlock
  /\ now' = now + 1
  /\ UNCHANGED <<registryVars, votes, lastVoter, quorum, dispatched>>

Next ==
  \/ \E p \in Proposal, who \in Account, inFavour \in BOOLEAN :
       AcknowledgeProposal(p, who, inFavour)
  \/ RegistryCall
  \/ NextBlock

Spec == Init /\ [][Next]_vars

-----------------------------------------------------------------------------
Status(p) == IF votes[p] = None THEN "None" ELSE votes[p].status

VotersFor(p) == Range(VotesOf(p).votes_for)
VotersAgainst(p) == Range(VotesOf(p).votes_against)

(* The count that derivate takes for the electorate is the number of        *)
(* relayers in every state: it is a storage item of its own, adjusted by    *)
(* hand in add_relayer and remove_relayer.                                  *)
CountIsExact == Registry!CountIsExact

(* Approval means what the threshold promises: an approved proposal has as  *)
(* many different accounts in favour as the threshold asked for when it was *)
(* decided, and no account is counted twice or on both sides (commit_vote's *)
(* has_voted, derivate).                                                    *)
ApprovalHasQuorum ==
  \A p \in Proposal :
    /\ VotersFor(p) \cap VotersAgainst(p) = {}
    /\ Status(p) = "Approved" => Cardinality(VotersFor(p)) >= quorum[p]

(* A verdict is final: whatever votes, registry changes and blocks follow,  *)
(* a proposal that is approved, rejected or expired keeps that status.      *)
(* Relayers act on the first verdict they see (commit_vote's is_completed). *)
VerdictIsFinal ==
  [][\A p \in Proposal :
       Status(p) \in {"Approved", "Rejected", "Expired"} => votes'[p].status = Status(p)]_vars

(* A proposal is rejected only when it could no longer be approved: as long *)
(* as those who voted are still relayers, the step that rejects it leaves   *)
(* too few relayers without a vote to reach the threshold.  This joins the  *)
(* count kept by the registry to derivate's arithmetic.                     *)
RejectedOnlyIfHopeless ==
  [][\A p \in Proposal :
       /\ Status(p) \in {"None", "Initiated"}
       /\ Status(p)' = "Rejected"
       /\ (VotersFor(p) \cup VotersAgainst(p))' \subseteq relayers[p.symbol]
       => Cardinality(VotersFor(p)') +
            Cardinality(relayers[p.symbol] \ (VotersFor(p) \cup VotersAgainst(p))')
          < relayerThreshold[p.symbol]]_vars

=============================================================================
