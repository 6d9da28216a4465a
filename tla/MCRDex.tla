------------------------------ MODULE MCRDex ------------------------------
(* Two scenes: "swap", from the start, without mining; and "mining", where  *)
(* every user provided the same share of a pool and nobody swaps.           *)
EXTENDS RDexMining, TLC

CONSTANT Share   \* what each user has put into the pool of "mining"

VARIABLE scene

Providers == Cardinality(User)

MiningInit ==
  /\ pool = [fis |-> Share * Providers, rtoken |-> Share * Providers, unit |-> Share * Providers]
  /\ lpAllowed = [switch |-> TRUE, whitelist |-> {}]
  /\ native = [a \in Account |-> CASE a = SwapAccount -> Float + Share * Providers
                                   [] a = MiningAccount -> MiningFund
                                   [] OTHER -> UserNative - Share]
  /\ rtokens = [free |-> [a \in Account |-> CASE a = SwapAccount -> Share * Providers
                                              [] a = MiningAccount -> 0
                                              [] OTHER -> UserTokens - Share],
                issuance |-> UserTokens * Providers]
  /\ lp = [free |-> [a \in Account |-> IF a \in User THEN Share ELSE 0],
           issuance |-> Share * Providers]
  /\ block = 0
  /\ stakePools = << >>
  /\ stakes = [k \in User \X Index |-> << >>]
  /\ depositAllowed = [switch |-> FALSE, whitelist |-> {}]
  /\ guardReserve = 0
  /\ shifted = FALSE

MCInit == (scene = "swap" /\ Init) \/ (scene = "mining" /\ MiningInit)

\* Who may add and deposit is set before there is a pool; for mining,
\* everybody is.  Pools of later grades have one total reward.
MCNext ==
  /\ \/ scene = "swap" /\ SwapNext /\ UNCHANGED miningVars
     \/ scene = "mining" /\ (MiningCall \/ MiningRoot \/ NextBlock)
  /\ pool # None => UNCHANGED lpAllowed
  /\ stakePools # << >> => UNCHANGED depositAllowed
  /\ stakePools' # << >> => depositAllowed'.whitelist = User /\ ~depositAllowed'.switch
  /\ \A i \in DOMAIN stakePools' : \A g \in 2..Len(stakePools'[i]) :
       stakePools'[i][g].reward = Max(TotalReward)
  /\ UNCHANGED scene

MCSpec == MCInit /\ [][MCNext]_<<vars, scene>>

Symmetry == Permutations(User)
=============================================================================
