------------------------------- MODULE XClaim -------------------------------
(***************************************************************************)
(* claims/xclaim: claims on xtokens of one symbol held by the pallet's     *)
(* account, the pot.  Proxy accounts mint claims, accounts claim what is   *)
(* due to them.  Claims and Claimed are read with a default of 0, so a     *)
(* missing entry is 0.                                                     *)
(***************************************************************************)
EXTENDS Integers, FiniteSets, Functions

CONSTANTS Claimant,     \* accounts that claim
          Proxy,        \* accounts root may make proxies
          Pot,          \* account_id()
          XTokenLimit,  \* balances are below it (2^128)
          ClaimValue,   \* values of claims
          PotTokens     \* what is deposited in the pot at a time

XToken == INSTANCE Balances WITH Holder <- Claimant \cup {Pot}, TokenLimit <- XTokenLimit

ASSUME XClaimAssumption ==
  /\ IsFiniteSet(Claimant) /\ Pot \notin Claimant
  /\ XTokenLimit \in Nat \ {0} /\ ClaimValue \subseteq Nat /\ PotTokens \in Nat

VARIABLES xClaims,   \* Claims
          xClaimed,  \* Claimed
          xTotal,    \* Total
          proxies,   \* ProxyAccounts
          xtokens    \* the xtoken ledger

xclaimVars == <<xClaims, xClaimed, xTotal, proxies, xtokens>>

XClaimTypeOK ==
  /\ xClaims \in [Claimant -> Nat] /\ xClaimed \in [Claimant -> Nat]
  /\ xTotal \in Nat /\ proxies \subseteq Proxy
  /\ xtokens \in XToken!TokenLedger

XClaimInit ==
  /\ xClaims = [a \in Claimant |-> 0] /\ xClaimed = [a \in Claimant |-> 0]
  /\ xTotal = 0 /\ proxies = {}
  /\ xtokens = XToken!NoTokens

\* set_proxy_accounts and remove_proxy_accounts.
SetProxyAccounts ==
  /\ \E a \in Proxy : proxies' = proxies \cup {a} \/ proxies' = proxies \ {a}
  /\ UNCHANGED <<xClaims, xClaimed, xTotal, xtokens>>

\* A claim that leaves the total as it was.
MutClaim(who) ==
  /\ xClaims[who] > xClaimed[who]
  /\ xtokens' = XToken!Transferred(xtokens, Pot, who, xClaims[who] - xClaimed[who])
  /\ xClaimed' = [xClaimed EXCEPT ![who] = xClaims[who]]
  /\ UNCHANGED <<xClaims, xTotal, proxies>>

Claim(who) ==
  LET due == xClaims[who] - xClaimed[who] IN
    /\ due > 0
    /\ xTotal >= due
    /\ XToken!CanTransfer(xtokens, Pot, who, due)
    /\ xtokens' = XToken!Transferred(xtokens, Pot, who, due)
    /\ xTotal' = xTotal - due
    /\ xClaimed' = [xClaimed EXCEPT ![who] = xClaims[who]]
    /\ UNCHANGED <<xClaims, proxies>>

MintClaim(proxy, dest, value) ==
  /\ value > 0 /\ proxy \in proxies
  /\ xClaims[dest] + value < XTokenLimit /\ xTotal + value < XTokenLimit
  /\ xtokens.free[Pot] >= xTotal + value
  /\ xTotal' = xTotal + value
  /\ xClaims' = [xClaims EXCEPT ![dest] = @ + value]
  /\ UNCHANGED <<xClaimed, proxies, xtokens>>

\* The bridge mints xtokens into the pot, within the supply.
FundPot ==
  /\ XToken!Held(xtokens) + PotTokens < XTokenLimit
  /\ xtokens' = XToken!Minted(xtokens, Pot, PotTokens)
  /\ UNCHANGED <<xClaims, xClaimed, xTotal, proxies>>

\* A claimant gives tokens to any account, the pot too.
GiveXtokens(who, to, value) ==
  /\ XToken!CanTransfer(xtokens, who, to, value)
  /\ xtokens' = XToken!Transferred(xtokens, who, to, value)
  /\ UNCHANGED <<xClaims, xClaimed, xTotal, proxies>>

XClaimNext ==
  \/ SetProxyAccounts \/ FundPot
  \/ \E who \in Claimant : Claim(who)
  \/ \E p \in Proxy, who \in Claimant, value \in ClaimValue : MintClaim(p, who, value)
  \/ \E who \in Claimant, to \in Claimant \cup {Pot}, value \in ClaimValue :
       GiveXtokens(who, to, value)

XClaimSpec == XClaimInit /\ [][XClaimNext]_xclaimVars

-----------------------------------------------------------------------------
(* Every claim can be paid at any time: Total is what is due to all         *)
(* claimants together and the pot holds it, so no claim makes another one   *)
(* fail with PotUnderflow, whose own comment calls it a logic error.        *)
PotCoversClaims ==
  /\ xTotal = SumFunction([a \in Claimant |-> xClaims[a] - xClaimed[a]])
  /\ xtokens.free[Pot] >= xTotal

=============================================================================
