----------------------------- MODULE Signatures -----------------------------
(***************************************************************************)
(* The signature a bonding user shows (general/signature and its copy in   *)
(* rtoken/series): the owner of the key that made the deposit on the other *)
(* chain signs the account the rtokens go to, in that chain's wallet.      *)
(*                                                                         *)
(* Cryptography is external and ideal: a signature is who signed what, and *)
(* only that verifies.  Bytes are abstracted to the formats a wallet puts  *)
(* an account's encoding into; keys and signatures keep their lengths.     *)
(***************************************************************************)
EXTENDS Integers, FiniteSets

CONSTANTS Owner,    \* holders of keys on other chains
          Bonder    \* accounts of this chain

BondSymbol == {"RFIS", "RDOT", "RKSM", "RATOM", "RSOL", "RMATIC", "RBNB", "RETH"}

\* chain_type.
ChainType(symbol) ==
  CASE symbol \in {"RFIS", "RDOT", "RKSM"} -> "Substrate"
    [] symbol = "RATOM" -> "Tendermint"
    [] symbol = "RSOL" -> "Solana"
    [] symbol \in {"RMATIC", "RBNB", "RETH"} -> "Ethereum"

\* Keys: "address" is a secp256k1 key that is known by its Ethereum address.
Scheme == {"sr25519", "ed25519", "ecdsa", "address"}
Key == [owner : Owner, scheme : Scheme]
KeyLength(k) == CASE k.scheme \in {"sr25519", "ed25519"} -> 32 [] k.scheme = "ecdsa" -> 33 [] OTHER -> 20
SignatureLength(scheme) == IF scheme \in {"sr25519", "ed25519"} THEN 64 ELSE 65

\* What a wallet signs of an account: its encoding, in <Bytes> tags, as hex,
\* or as hex under Ethereum's prefix with the length.
Format == {"plain", "tagged", "hex", "prefixed hex"}
Signature == [key : Key, account : Bonder, format : Format]

VARIABLES attested,  \* external: the signatures that were made
          bonders    \* [symbol, key, signature, account]: bonds that passed the check

signatureVars == <<attested, bonders>>

SignaturesInit == attested = {} /\ bonders = {}

\* External: somebody signs an account.
Attest(s) ==
  /\ attested' = attested \cup {s}
  /\ UNCHANGED bonders

-----------------------------------------------------------------------------
\* AppCrypto::verify of the scheme, with the key's bytes taken as a key of it.
Verifies(scheme, k, s, account, format) ==
  s = [key |-> k, account |-> account, format |-> format] /\ k.scheme = scheme

\* from_slice panics on a signature of another length than the scheme's.
Sized(scheme, s) == SignatureLength(s.key.scheme) = SignatureLength(scheme)

\* A key of 32 bytes is tried as sr25519, then as ed25519; one of 33 as ecdsa.
SubstrateVerify(k, s, account, format) ==
  LET schemes == CASE KeyLength(k) = 32 -> {"sr25519", "ed25519"}
                   [] KeyLength(k) = 33 -> {"ecdsa"}
                   [] OTHER -> {}
  IN IF schemes = {} THEN "InvalidPubkey"
     ELSE IF \E scheme \in schemes : ~Sized(scheme, s) THEN "panic"
     ELSE IF \E scheme \in schemes : Verifies(scheme, k, s, account, format) THEN "Pass"
     ELSE "Fail"

CheckTendermintPubkey(k) == KeyLength(k) = 33

\* tendermint_verify looks at the key's length and at nothing else.
TendermintVerify(k) == IF CheckTendermintPubkey(k) THEN "Pass" ELSE "InvalidPubkey"

Ed25519Verify(k, s, account, format) ==
  IF KeyLength(k) # 32 THEN "InvalidPubkey"
  ELSE IF ~Sized("ed25519", s) THEN "panic"
  ELSE IF Verifies("ed25519", k, s, account, format) THEN "Pass"
  ELSE "Fail"

\* eth_recover: the address that signed, if the message is the one signed;
\* otherwise an address nobody has, or none, and unwrap panics.
EthRecover(s, account, format) ==
  IF s.key.scheme = "address" /\ s.account = account /\ s.format = format
    THEN {s.key} ELSE {}

EthereumVerify(k, s, account, format) ==
  IF KeyLength(k) # 20 THEN "InvalidPubkey"
  ELSE IF ~Sized("address", s) THEN "panic"
  ELSE IF k \in EthRecover(s, account, format) THEN "Pass"
  ELSE "Fail"

\* Both chains with ed25519 keys take the message tagged.
MutMessageFormat(chain) ==
  CASE chain \in {"Substrate", "Solana"} -> "tagged"
    [] chain = "Tendermint" -> "plain"
    [] chain = "Ethereum" -> "prefixed hex"

\* The message: bondable encodes the account, as hex for Ethereum;
\* verify_signature tags it for Substrate and turns it to hex for Solana;
\* ethereum_verify prefixes it.
MessageFormat(chain) ==
  CASE chain = "Substrate" -> "tagged"
    [] chain = "Tendermint" -> "plain"
    [] chain = "Solana" -> "hex"
    [] chain = "Ethereum" -> "prefixed hex"

VerifySignature(symbol, k, s, account) ==
  LET chain == ChainType(symbol)
      format == MessageFormat(chain)
  IN CASE chain = "Substrate" -> SubstrateVerify(k, s, account, format)
       [] chain = "Tendermint" -> TendermintVerify(k)
       [] chain = "Solana" -> Ed25519Verify(k, s, account, format)
       [] chain = "Ethereum" -> EthereumVerify(k, s, account, format)

\* The end of bondable: the call goes on if the verdict is neither of the
\* other two, and a panic undoes it.
CheckBonder(symbol, k, s, account) ==
  /\ VerifySignature(symbol, k, s, account) = "Pass"
  /\ bonders' = bonders \cup {[symbol |-> symbol, key |-> k, signature |-> s, account |-> account]}
  /\ UNCHANGED attested

SignaturesNext ==
  \/ \E s \in Signature : Attest(s)
  \/ \E s \in attested, symbol \in BondSymbol, k \in Key, account \in Bonder :
       CheckBonder(symbol, k, s, account)

SignaturesSpec == SignaturesInit /\ [][SignaturesNext]_signatureVars

-----------------------------------------------------------------------------
\* A signature shown once is spent for every other use: the bonds it was
\* accepted for, by whoever and whenever, are of one account, one key and one
\* kind of chain.  It is not the keys that keep the chains apart: the same 32
\* bytes are an ed25519 key to Solana and one of the two schemes tried for
\* Substrate, so it rests on the messages differing, and on the account being
\* in them (verify_signature, substrate_verify, ed25519_verify).  Tendermint is
\* left out, where no signature is looked at; chains of one kind share them.
SignatureIsForOneAccount ==
  \A b, c \in bonders :
    (b.signature = c.signature /\ "Tendermint" \notin {ChainType(b.symbol), ChainType(c.symbol)}) =>
      b.account = c.account /\ b.key = c.key /\ ChainType(b.symbol) = ChainType(c.symbol)
=============================================================================
