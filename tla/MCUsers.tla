------------------------------ MODULE MCUsers ------------------------------
(* What users do with the tokens, one scene each: "swap", over the bridge,  *)
(* "unbond", and "sign", the check of a bonding user's signature.           *)
EXTENDS BridgeSwap, RTokenUnbond, Signatures

CONSTANT MaxAttested   \* bound on the signatures made

VARIABLE scene

MCInit ==
  /\ scene \in {"swap", "unbond", "sign"}
  /\ Init /\ UnbondInit /\ SignaturesInit

MCNext ==
  /\ \/ scene = "swap" /\ Next /\ UNCHANGED <<unbondVars, signatureVars>>
     \/ scene = "unbond" /\ UnbondNext /\ UNCHANGED <<vars, signatureVars>>
     \/ scene = "sign" /\ SignaturesNext /\ UNCHANGED <<vars, unbondVars>>
  /\ Cardinality(attested') <= MaxAttested
  /\ UNCHANGED scene

MCSpec == MCInit /\ [][MCNext]_<<vars, unbondVars, signatureVars, scene>>
=============================================================================
