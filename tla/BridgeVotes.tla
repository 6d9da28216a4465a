---------------------------- MODULE BridgeVotes ----------------------------
(***************************************************************************)
(* Proposal voting of bridge/common (acknowledge_proposal), together with  *)
(* the two registries around it: bridge/relayers, which voting consults,   *)
(* and the relayer set bridge/common itself still keeps, which it does     *)
(* not.  Relayers of a source chain vote for a (nonce, call) pair; the     *)
(* vote that reaches the threshold dispatches the call.                    *)
(*                                                                         *)
(* A dispatchable of this runtime is not transactional: what it wrote      *)
(* before returning an error stays.  An expired vote therefore leaves the  *)
(* status Expired behind, and a failed dispatch leaves the counted vote    *)
(* and the status Passed.                                                  *)
(***************************************************************************)
EXTENDS BridgeChains, FiniteSets, Functions

CONSTANTS Account,           \* accounts that may become relayers of a chain
          MaxThreshold,      \* bound on the bridge/relayers threshold
          OwnAccount,        \* accounts in bridge/common's own relayer set
          OwnMaxThreshold,   \* bound on bridge/common's own threshold
          DepositNonce,      \* deposit nonces of the source chains
          Call,              \* dispatchable calls
          Outcome,           \* what dispatching a call may return: TRUE is Ok
          ProposalLifetime,  \* blocks a proposal stays open
          MaxBlock           \* bound on the block number

ASSUME BridgeVotesAssumption ==
  /\ Outcome \subseteq BOOLEAN
  /\ ProposalLifetime \in Nat
  /\ MaxBlock \in Nat

VARIABLES relayers, relayerThreshold, relayerCount,   \* bridge/relayers
          ownRelayers, ownThreshold, ownCount,        \* bridge/common's own set
          now,         \* block number
          votes,       \* Votes: (src, (nonce, call)) -> ProposalVotes or None
          quorum,      \* history: the threshold met when the proposal passed
          enrolled,    \* history: accounts that ever were relayers of a chain
          executions   \* history: dispatches of the proposal that returned Ok

registryVars == <<relayers, relayerThreshold, relayerCount, enrolled>>
ownVars == <<ownRelayers, ownThreshold, ownCount>>
voteVars == <<votes, quorum, executions>>
vars == <<chainVars, registryVars, ownVars, now, voteVars>>

\* bridge/relayers, keyed by chain.
Brelayers == INSTANCE Relayers WITH Id <- Chain

\* The registry inside bridge/common, under a single key.
Own == INSTANCE Relayers WITH
         Id <- {ChainIdentity}, Account <- OwnAccount,
         MaxThreshold <- OwnMaxThreshold, relayers <- ownRelayers,
         relayerThreshold <- ownThreshold, relayerCount <- ownCount

\* The key of Votes: two calls under one nonce are two proposals.
Proposal == [src : Chain, nonce : DepositNonce, call : Call]

ProposalStatus == {"Active", "Passed", "Expired", "Executed"}

ProposalVotes == [voted : Seq(Account), status : ProposalStatus, expiry : Nat]

ASSUME NoneIsNoVotes == None \notin ProposalVotes

TypeOK ==
  /\ ChainTypeOK
  /\ Brelayers!TypeOK
  /\ Own!TypeOK
  /\ now \in Nat
  /\ votes \in [Proposal -> ProposalVotes \cup {None}]
  /\ quorum \in [Proposal -> Nat \cup {None}]
  /\ enrolled \in [Chain -> SUBSET Account]
  /\ executions \in [Proposal -> Nat]

Init ==
  /\ ChainInit
  /\ Brelayers!Init
  /\ ownRelayers = [id \in {ChainIdentity} |-> {}]
  /\ ownThreshold = [id \in {ChainIdentity} |-> 1]
  /\ ownCount = [id \in {ChainIdentity} |-> 0]
  /\ now = 0
  /\ votes = [p \in Proposal |-> None]
  /\ quorum = [p \in Proposal |-> None]
  /\ enrolled = [c \in Chain |-> {}]
  /\ executions = [p \in Proposal |-> 0]

-----------------------------------------------------------------------------
\* What commit_vote reads: the stored votes, or a fresh record.
VotesOf(p) ==
  IF votes[p] = None
  THEN [voted |-> << >>, status |-> "Active", expiry |-> now + ProposalLifetime]
  ELSE votes[p]

IsCompleted(v) == v.status \in {"Executed", "Expired"}

HasVoted(v, who) == who \in Range(v.voted)

IsExpired(v) == v.expiry <= now

\* derivate that asks for one vote more than the threshold.
MutDerivate(v, threshold) ==
  IF IsCompleted(v) THEN v
  ELSE IF IsExpired(v) THEN [v EXCEPT !.status = "Expired"]
  ELSE IF Len(v.voted) > threshold THEN [v EXCEPT !.status = "Passed"]
  ELSE v

\* derivate that asks for one vote less than the threshold.
MutDerivateEarly(v, threshold) ==
  IF IsCompleted(v) THEN v
  ELSE IF IsExpired(v) THEN [v EXCEPT !.status = "Expired"]
  ELSE IF Len(v.voted) + 1 >= threshold THEN [v EXCEPT !.status = "Passed"]
  ELSE v

\* derivate: a status other than Passed is only ever left for Passed, and a
\* Passed one stays although the threshold may have been raised since.
Derivate(v, threshold) ==
  IF IsCompleted(v) THEN v
  ELSE IF IsExpired(v) THEN [v EXCEPT !.status = "Expired"]
  ELSE IF Len(v.voted) >= threshold THEN [v EXCEPT !.status = "Passed"]
  ELSE v

\* The votes after who's vote is counted.
Counted(p, who) ==
  LET v == VotesOf(p) IN
    Derivate([v EXCEPT !.voted = Append(@, who)], relayerThreshold[p.src])

\* The checks of acknowledge_proposal, and commit_vote's without has_voted.
MutAdmitted(p, who, r) ==
  /\ Brelayers!IsRelayer(p.src, who)
  /\ ChainWhitelisted(p.src)
  /\ r \in resources
  /\ ~IsCompleted(VotesOf(p))

\* The checks of acknowledge_proposal, then those of commit_vote: the voter
\* is a relayer of the source chain now, the chain is whitelisted, the named
\* resource exists (it is not tied to the call), the proposal is not closed
\* and the account has not voted on it.
Admitted(p, who, r) ==
  /\ Brelayers!IsRelayer(p.src, who)
  /\ ChainWhitelisted(p.src)
  /\ r \in resources
  /\ ~IsCompleted(VotesOf(p))
  /\ ~HasVoted(VotesOf(p), who)

-----------------------------------------------------------------------------
\* A vote on a proposal past its expiry: the status Expired is stored and the
\* call returns ProposalExpired.
AcknowledgeExpired(p, who, r) ==
  /\ Admitted(p, who, r)
  /\ IsExpired(VotesOf(p))
  /\ votes' = [votes EXCEPT ![p] = [VotesOf(p) EXCEPT !.status = "Expired"]]
  /\ UNCHANGED <<chainVars, registryVars, ownVars, now, quorum, executions>>

\* A vote that is counted and leaves the proposal short of the threshold.
AcknowledgeCounted(p, who, r) ==
  /\ Admitted(p, who, r)
  /\ ~IsExpired(VotesOf(p))
  /\ Counted(p, who).status # "Passed"
  /\ votes' = [votes EXCEPT ![p] = Counted(p, who)]
  /\ UNCHANGED <<chainVars, registryVars, ownVars, now, quorum, executions>>

\* try_resolve_proposal on a Passed proposal: Executed if the call returned
\* Ok, otherwise the error is returned and the stored votes stay as they are.
Resolved(v, ok) == IF ok THEN [v EXCEPT !.status = "Executed"] ELSE v

\* A vote that makes or finds the proposal Passed: the call is dispatched
\* from the bridge account in the same step, with outcome ok.
AcknowledgeDispatch(p, who, r, ok) ==
  /\ Admitted(p, who, r)
  /\ ~IsExpired(VotesOf(p))
  /\ Counted(p, who).status = "Passed"
  /\ votes' = [votes EXCEPT ![p] = Resolved(Counted(p, who), ok)]
  /\ quorum' = [quorum EXCEPT ![p] = IF @ = None THEN relayerThreshold[p.src] ELSE @]
  /\ executions' = [executions EXCEPT ![p] = IF ok THEN @ + 1 ELSE @]
  /\ UNCHANGED <<chainVars, registryVars, ownVars, now>>

\* acknowledge_proposal calls that change the state.
AcknowledgeProposal(p, who, r) ==
  \/ AcknowledgeExpired(p, who, r)
  \/ AcknowledgeCounted(p, who, r)
  \/ \E ok \in Outcome : AcknowledgeDispatch(p, who, r, ok)

\* Root's calls to bridge/relayers.
Registry(c) ==
  /\ \/ \E t \in 0..MaxThreshold : Brelayers!SetThreshold(c, t)
     \/ \E a \in Account : Brelayers!AddRelayer(c, a) \/ Brelayers!RemoveRelayer(c, a)
  /\ enrolled' = [enrolled EXCEPT ![c] = @ \cup relayers'[c]]
  /\ UNCHANGED <<chainVars, ownVars, now, voteVars>>

\* The admin's calls to bridge/common's own relayer set.
OwnRegistry ==
  /\ Own!Next
  /\ UNCHANGED <<chainVars, registryVars, now, voteVars>>

\* Calls on the whitelist and the resources, and transfers by other pallets.
Chains ==
  /\ ChainNext
  /\ UNCHANGED <<registryVars, ownVars, now, voteVars>>

NextBlock ==
  /\ now < MaxBlock
  /\ now' = now + 1
  /\ UNCHANGED <<chainVars, registryVars, ownVars, voteVars>>

Next ==
  \/ \E p \in Proposal, who \in Account, r \in Resource : AcknowledgeProposal(p, who, r)
  \/ \E c \in Chain : Registry(c)
  \/ OwnRegistry
  \/ Chains
  \/ NextBlock

Spec == Init /\ [][Next]_vars

-----------------------------------------------------------------------------
Status(p) == IF votes[p] = None THEN "None" ELSE votes[p].status

(* No call takes effect without its quorum: a proposal that was executed,   *)
(* or is waiting for a retry after a failed dispatch, has at least as many  *)
(* distinct voters as the threshold in force when it passed, and each was   *)
(* at some time a relayer of the source chain (commit_vote, derivate).      *)
QuorumBehindExecution ==
  \A p \in Proposal :
    Status(p) \in {"Passed", "Executed"} =>
      /\ quorum[p] # None
      /\ Cardinality(Range(votes[p].voted)) >= quorum[p]
      /\ Range(votes[p].voted) \subseteq enrolled[p.src]

(* A proposal's call succeeds at most once, however many relayers vote, and *)
(* in whatever order dispatch failures, retries and expiry happen           *)
(* (try_resolve_proposal, to_be_executed).                                  *)
ExecutedAtMostOnce ==
  \A p \in Proposal : executions[p] = IF Status(p) = "Executed" THEN 1 ELSE 0

(* An executed or expired proposal is never touched again: no later vote    *)
(* reopens it, adds a voter or restarts its expiry (is_completed).          *)
CompletedIsFinal ==
  [][\A p \in Proposal :
       Status(p) \in {"Executed", "Expired"} => votes'[p] = votes[p]]_vars

(* No call is dispatched at or after its proposal's expiry block, also not  *)
(* by the retry that follows a failed dispatch (is_expired).                *)
NothingExecutedLate ==
  [][\A p \in Proposal :
       executions'[p] # executions[p] => now < votes'[p].expiry]_vars

\* The abstract promise, read off the stored votes.
Promise == INSTANCE QuorumExecution WITH
  endorsers <- [p \in Proposal |-> Range(VotesOf(p).voted)],
  verdict <- [p \in Proposal |-> CASE Status(p) = "Executed" -> "executed"
                                   [] Status(p) = "Expired" -> "lapsed"
                                   [] OTHER -> "open"],
  performed <- executions

(* Voting implements QuorumExecution: every behaviour of the pallet, with   *)
(* registry changes, failing dispatches and expiry, is one of the abstract  *)
(* endorse / perform once / lapse protocol.                                 *)
ImplementsPromise == Promise!Spec

=============================================================================
