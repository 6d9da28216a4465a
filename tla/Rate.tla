-------------------------------- MODULE Rate --------------------------------
(***************************************************************************)
(* The exchange rate arithmetic of rtoken/rate: how many tokens one rtoken *)
(* stands for, in units of 1 / RateBase, and the two conversions.  Values  *)
(* are functions of the stored rate (None before the first set_rate).      *)
(***************************************************************************)
EXTENDS Options, Integers

CONSTANTS RateBase,     \* RATEBASE, 10^12 in the code
          RateLimit,    \* number of values of RateType, 2^64 in the code
          AmountLimit,  \* number of values of an amount, 2^128 in the code
          LimbLimit     \* number of values of a limb of a big integer, 2^32

ASSUME RateAssumption ==
  /\ RateBase \in Nat \ {0}
  /\ RateLimit \in Nat
  /\ RateBase < RateLimit
  /\ AmountLimit \in Nat
  /\ RateLimit <= AmountLimit
  /\ LimbLimit \in Nat
  /\ None \notin Nat

Amount == 0..(AmountLimit - 1)
RateType == 0..(RateLimit - 1)

\* sp_arithmetic divides a product that fits an amount with truncation.  A
\* wider product goes through big integers, which truncate when the divisor
\* is one limb and round to the nearest when it is longer.
Quotient(a, b, c) ==
  LET roundsUp == a * b >= AmountLimit /\ c >= LimbLimit /\ (a * b) % c > c \div 2
  IN (a * b) \div c + (IF roundsUp THEN 1 ELSE 0)

\* sp_arithmetic's multiply_by_rational(a, b, c), with the caller's default
\* for a result that does not fit an amount.
MultiplyByRational(a, b, c, default) ==
  IF Quotient(a, b, c) < AmountLimit THEN Quotient(a, b, c) ELSE default

\* set_rate: the new rate, cut to RateType by the cast.
NewRate(total, rtotal) ==
  IF total = 0 \/ rtotal = 0 THEN RateBase
  ELSE MultiplyByRational(total, RateBase, rtotal, RateBase) % RateLimit

TokenToRtoken(rate, balance) ==
  IF rate = None \/ rate = 0 THEN balance
  ELSE MultiplyByRational(balance, RateBase, rate, balance)

RtokenToToken(rate, rbalance) ==
  IF rate = None THEN rbalance
  ELSE MultiplyByRational(rbalance, rate, RateBase, 0)

-----------------------------------------------------------------------------
(* Bonding and unbonding at one rate hardly gains: x tokens turned into     *)
(* rtokens and back are at most x while x in units of 1 / RateBase fits an  *)
(* amount.  Beyond that both conversions round to the nearest, and the gain *)
(* is at most what half a unit of rtokens is worth and one unit of tokens.  *)
(* This is for every rate a symbol can have, zero, missing and overflowing  *)
(* results included (token_to_rtoken, rtoken_to_token).                     *)
RoundTripIsBounded(rate, x) ==
  LET back == RtokenToToken(rate, TokenToRtoken(rate, x))
  IN /\ rate = None \/ x * RateBase < AmountLimit => back <= x
     /\ rate # None => back <= x + rate \div (2 * RateBase) + 1

(* A rate never promises more than there is, up to the same rounding: when  *)
(* set_rate derives it from total tokens and rtotal rtokens, redeeming all  *)
(* rtokens asks for at most total tokens while total in units of            *)
(* 1 / RateBase fits an amount, and beyond that for at most half a unit of  *)
(* rate per rtoken more.  (With no token at all the rate falls back to      *)
(* RateBase and promises one for one.)                                      *)
RateIsBacked(total, rtotal) ==
  total > 0 =>
    LET owed == RtokenToToken(NewRate(total, rtotal), rtotal)
    IN /\ total * RateBase < AmountLimit => owed <= total
       /\ owed <= total + rtotal \div (2 * RateBase) + 1
=============================================================================
