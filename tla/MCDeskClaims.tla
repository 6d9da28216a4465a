---------------------------- MODULE MCDeskClaims ----------------------------
(* rdexn and the claims pallets share no state; each has scenes of its own: *)
(* "desk" is rdexn from the start, with all payers in office, "queue" rdexn *)
(* open for swaps, where root changes the payers' threshold and sets blocks *)
(* as dealt; the series' names and "xclaim" are the claims, from the start. *)
EXTENDS RDexnSwap, RClaim, XClaim, TLC

VARIABLE scene

DeskInit ==
  /\ RDexnInit
  /\ scene \in Series \cup {"xclaim"}

QueueInit ==
  /\ scene \in {"desk", "queue"}
  /\ deskConfig = [total |-> scene = "queue", switch |-> [d \in Desk |-> TRUE],
                   fund |-> IF scene = "queue" THEN Fund ELSE Unset, pool |-> Unset,
                   fee |-> Max(DeskFee), limit |-> MaxSwaps,
                   rate |-> [d \in Desk |-> IF scene = "queue"
                              THEN [lock |-> Min(Lock), rate |-> Max(SwapRate)] ELSE Unset]]
  /\ nativeReserve = IF scene = "queue" THEN Max(DeskReserve) ELSE 0
  /\ transInfos = [b \in Block |-> << >>]
  /\ latestDealBlock = 0 /\ deskNow = 1
  /\ voteInfos = [b \in Block |-> << >>]
  /\ voteInfosWithIndex = [k \in Block \X (1..MaxSwaps) |-> << >>]
  /\ payers = [id \in {0} |-> Payer]
  /\ payerThreshold = [id \in {0} |-> 0]
  /\ payerCount = [id \in {0} |-> Cardinality(Payer)]
  /\ lowestThreshold = 0 /\ byRoot = {} /\ early = {}
  /\ signatures = [p \in ProposalId |-> << >>]
  /\ deskNative = [a \in RDexnAccount |-> StartNative]
  /\ deskRtokens = Endowed /\ deskRfis = Endowed


MCInit == (DeskInit \/ QueueInit) /\ RClaimInit /\ XClaimInit

\* The desk's states without and with signatures are looked at apart.
DeskNext ==
  \/ (Swappers \/ DeskRoot) /\ signatures = [p \in ProposalId |-> << >>]
  \/ Signers /\ deskConfig = [deskConfig EXCEPT !.total = FALSE, !.fund = Unset]

\* Nobody reports the genesis block.
QueueNext ==
  /\ \/ \E who \in Swapper, amount \in RtokenIn, rate \in RtokenRate :
          SwapRtokenForNativeToken(who, amount, rate)
     \/ Payers \/ PayersNext \/ NextDeskBlock
     \/ \E b \in Block : SetLatestDealBlock(b)
  /\ voteInfos'[0] = << >> /\ 0 \notin byRoot'

\* One series at a time; acts after the first have one total and lock.
ClaimsNext(s) ==
  /\ RClaimNext
  /\ \A other \in Series \ {s} : acts'[other] = << >> /\ currentCycle'[other] = 0
  /\ rethRewarder' = Rewarder => s = "reth"
  /\ \A c \in 2..Len(acts'[s]) :
       acts'[s][c].terms.total = Max(ActReward) /\ acts'[s][c].terms.locked = Min(LockedBlocks)

MCNext ==
  /\ \/ scene = "desk" /\ DeskNext /\ UNCHANGED <<rclaimVars, xclaimVars>>
     \/ scene = "queue" /\ QueueNext /\ UNCHANGED <<rclaimVars, xclaimVars>>
     \/ scene \in Series /\ ClaimsNext(scene) /\ UNCHANGED <<rdexnVars, xclaimVars>>
     \/ scene = "xclaim" /\ XClaimNext /\ UNCHANGED <<rdexnVars, rclaimVars>>
  /\ UNCHANGED scene

MCSpec == MCInit /\ [][MCNext]_<<rdexnVars, rclaimVars, xclaimVars, scene>>

Symmetry == Permutations(Payer) \cup Permutations(Minter) \cup Permutations(Claimant)
=============================================================================
