------------------------------ MODULE MCRFis ------------------------------
(* Four scenes, with the fairness of the offchain workers.  In "users" one  *)
(* pool is set up and users come and go over all eras; in "pools" there are *)
(* two of them; in "others" somebody who is not a worker sends one unsigned *)
(* call; in "root" the chain starts empty and root and the validators       *)
(* change its setup.  All but the first are about the first two eras; in    *)
(* "pools" and "others" nodes may not know of each other's transactions.    *)
EXTENDS RFis

CONSTANT FirstPool

VARIABLE scene

Ready(chosen) ==
  /\ pools' = chosen
  /\ ledger' = [p \in Pool |->
       IF p \in chosen THEN [active |-> 0, total |-> 0, unlocking |-> NoChunks] ELSE None]
  /\ settings' = [settings EXCEPT !.switch = TRUE, !.receiver = TRUE]
  /\ onboard' = Validator
  /\ UNCHANGED <<eraVars, free, unbonding, adjusted, rateVars, reportVars, nominated, txVars>>

SceneInit == RFisInit /\ scene \in {"users", "pools", "others", "root"}

SetUp ==
  \/ scene \in {"users", "others"} /\ pools = {} /\ Ready({FirstPool})
  \/ scene = "pools" /\ pools = {} /\ Ready(Pool)

UsersNext ==
  /\ scene # "root" /\ pools # {}
  /\ \/ \E who \in User, p \in Pool, v \in Value :
          LiquidityBond(p, who, v) \/ LiquidityUnbond(who, p, v)
     \/ scene # "pools" /\ \E who \in User, p \in Pool : LiquidityWithdrawUnbond(who, p)
     \/ scene = "others" /\ foreign = {} /\ ForeignCall
     \/ scene = "users" /\ SwapCall
     \/ /\ scene = "users" /\ adjusted = {}
        /\ \E p \in Pool, v \in Value : AddPoolUnlock(p, MaxEra, v)
     \/ Chain

RootNext ==
  /\ scene = "root"
  /\ \/ RootCall
     \/ ValidatorCall
     \/ Chain

MCNext ==
  /\ SetUp \/ UsersNext \/ RootNext
  /\ scene # "users" => activeEra' + currentEra' <= 2
  /\ scene \in {"users", "root"} => crossed' = {}
  /\ UNCHANGED scene

IncludeKind(kind) == \E tx \in mempool : tx[1] = kind /\ Include(tx)

\* Validators run their worker after every block.  A transaction may be lost,
\* but one that is submitted again and again is included in the end.
\* on_finalize runs in every block.
FairSpec ==
  /\ SceneInit
  /\ [][MCNext]_<<rfisVars, scene>>
  /\ WF_rfisVars(SetUp)
  /\ WF_rfisVars(OffchainWorker)
  /\ WF_rfisVars(OnFinalize)
  /\ WF_rfisVars(\E tx \in mempool : Stale(tx) /\ Drop(tx))
  /\ \A kind \in Kind : SF_rfisVars(IncludeKind(kind))

(* An era that lasts gets its rate, without which nobody can bond or        *)
(* unbond: whatever transactions are lost, the workers go through unlocks,  *)
(* first report, payouts and second report, and no step waits for one that  *)
(* cannot be done.                                                          *)
EraGetsRate ==
  \A e \in Era : <>[](activeEra = e /\ currentEra = e) => <>(eraRate[e] # None)
=============================================================================
