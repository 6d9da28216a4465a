----------------------------- MODULE RDexProofs -----------------------------
(***************************************************************************)
(* Proofs about rdex/mining and rdex/swap (RDexMining over RDexSwap).      *)
(***************************************************************************)
EXTENDS RDexMining, CountingLemmas

-----------------------------------------------------------------------------
(* Stakes by slot.  The tables are parameters here, so that the sums before *)
(* and after a step can be compared.                                        *)

Table == [User \X Index -> Seq(StakeUser)]
Has(st, i, k) == k[2] \in DOMAIN st[<<k[1], i>>]
Item(st, i, k) == st[<<k[1], i>>][k[2]]
Of(st, i, g, k) == Has(st, i, k) /\ Item(st, i, k).grade = g

\* The sum of one figure of the stakes of a pool.
Column(st, i, g, v) == [k \in Slot |-> IF Of(st, i, g, k) THEN v[Item(st, i, k)] ELSE 0]
Total(st, i, g, v) == SumFunctionOnSet(Column(st, i, g, v), Slot)

LpOf == [s \in StakeUser |-> s.lp]
NetOf == [s \in StakeUser |-> s.claimed - s.debt]
RoundingsOf == [s \in StakeUser |-> s.roundings]

\* Only the stake of one slot has changed, and it has stayed in its pool.
OneSlotChanged(st, st2, i0, k0) ==
  /\ Has(st2, i0, k0)
  /\ Has(st, i0, k0) => Item(st2, i0, k0).grade = Item(st, i0, k0).grade
  /\ \A i \in Index, k \in Slot : i # i0 \/ k # k0 =>
       /\ Has(st2, i, k) = Has(st, i, k)
       /\ Has(st, i, k) => Item(st2, i, k) = Item(st, i, k)

LEMMA SlotFinite == IsFiniteSet(Slot) /\ IsFiniteSet(Index \X Slot) /\ IsFiniteSet(Index)
<1>0. MaxStakes \in Int /\ MaxIndex \in Int /\ 1 \in Int
  BY MiningAssumption
<1>1. IsFiniteSet(1..MaxStakes) /\ IsFiniteSet(Index)
  BY <1>0, FS_Interval DEF Index
<1>2. IsFiniteSet(Slot)
  BY <1>1, SwapAssumption, FS_Product DEF Slot
<1> QED
  BY <1>1, <1>2, FS_Product

LEMMA ItemType ==
  ASSUME NEW st \in Table, NEW i \in Index, NEW k \in Slot, Has(st, i, k)
  PROVE  Item(st, i, k) \in StakeUser
<1>1. k[1] \in User /\ k[2] \in 1..MaxStakes
  BY DEF Slot
<1>2. st[<<k[1], i>>] \in Seq(StakeUser)
  BY <1>1 DEF Table
<1> QED
  BY <1>2 DEF Has, Item

LEMMA ColumnType ==
  ASSUME NEW st \in Table, NEW i \in Index, NEW g, NEW v \in [StakeUser -> Int]
  PROVE  /\ \A k \in Slot : Column(st, i, g, v)[k] \in Int
         /\ Total(st, i, g, v) \in Int
<1>1. ASSUME NEW k \in Slot PROVE Column(st, i, g, v)[k] \in Int
  BY ItemType DEF Column, Of
<1> QED
  BY <1>1, SlotFinite, SumInt DEF Total

(* A changed stake changes the sums of its own pool alone, and by as much.  *)
LEMMA ColumnChange ==
  ASSUME NEW st \in Table, NEW st2 \in Table, NEW i0 \in Index, NEW k0 \in Slot,
         OneSlotChanged(st, st2, i0, k0), NEW v \in [StakeUser -> Int],
         NEW i \in Index, NEW g
  PROVE  /\ i # i0 \/ g # Item(st2, i0, k0).grade =>
              Total(st2, i, g, v) = Total(st, i, g, v)
         /\ i = i0 /\ g = Item(st2, i0, k0).grade =>
              Total(st2, i, g, v) = Total(st, i, g, v) +
                (v[Item(st2, i0, k0)] - (IF Has(st, i0, k0) THEN v[Item(st, i0, k0)] ELSE 0))
<1> DEFINE a == Column(st, i, g, v)
           b == Column(st2, i, g, v)
<1>1. ASSUME NEW k \in Slot, i # i0 \/ k # k0 PROVE b[k] = a[k]
  BY <1>1 DEF OneSlotChanged, Column, Of
<1>2. ASSUME i # i0 \/ g # Item(st2, i0, k0).grade
      PROVE  Total(st2, i, g, v) = Total(st, i, g, v)
  <2>1. ASSUME NEW k \in Slot PROVE b[k] = a[k]
    <3>1. CASE i # i0 \/ k # k0
      BY <1>1, <3>1
    <3>2. CASE i = i0 /\ k = k0
      BY <1>2, <3>2 DEF OneSlotChanged, Column, Of
    <3> QED
      BY <3>1, <3>2
  <2> HIDE DEF a, b
  <2>2. SumFunctionOnSet(b, Slot) = SumFunctionOnSet(a, Slot)
    BY <2>1, SlotFinite, SumSame
  <2> QED
    BY <2>2 DEF Total, a, b
<1>3. ASSUME i = i0, g = Item(st2, i0, k0).grade
      PROVE  Total(st2, i, g, v) = Total(st, i, g, v) +
               (v[Item(st2, i0, k0)] - (IF Has(st, i0, k0) THEN v[Item(st, i0, k0)] ELSE 0))
  <2>1. /\ b[k0] = v[Item(st2, i0, k0)]
        /\ a[k0] = IF Has(st, i0, k0) THEN v[Item(st, i0, k0)] ELSE 0
    BY <1>3 DEF OneSlotChanged, Column, Of
  <2>2. \A k \in Slot : a[k] \in Int /\ b[k] \in Int
    BY ColumnType
  <2>3. \A k \in Slot \ {k0} : b[k] = a[k]
    BY <1>1
  <2> HIDE DEF a, b
  <2>4. SumFunctionOnSet(b, Slot) = SumFunctionOnSet(a, Slot) - a[k0] + b[k0]
    BY <2>2, <2>3, SlotFinite, SumChange
  <2>5. SumFunctionOnSet(a, Slot) \in Int /\ a[k0] \in Int /\ b[k0] \in Int
    BY <2>2, SlotFinite, SumInt
  <2>6. SumFunctionOnSet(b, Slot) = SumFunctionOnSet(a, Slot) + (b[k0] - a[k0])
    BY <2>4, <2>5
  <2> QED
    BY <2>1, <2>6 DEF Total, a, b
<1> QED
  BY <1>2, <1>3

\* The sum over all lists, pools and users.
LpIn(st) == [ik \in Index \X Slot |-> IF Has(st, ik[1], ik[2]) THEN Item(st, ik[1], ik[2]).lp ELSE 0]
AllLp(st) == SumFunctionOnSet(LpIn(st), Index \X Slot)

LEMMA LpInType ==
  ASSUME NEW st \in Table
  PROVE  /\ \A ik \in Index \X Slot : LpIn(st)[ik] \in Nat
         /\ AllLp(st) \in Nat
         /\ \A ik \in Index \X Slot : LpIn(st)[ik] <= AllLp(st)
<1>1. ASSUME NEW ik \in Index \X Slot PROVE LpIn(st)[ik] \in Nat
  <2>1. ik[1] \in Index /\ ik[2] \in Slot
    OBVIOUS
  <2>2. Has(st, ik[1], ik[2]) => Item(st, ik[1], ik[2]).lp \in Nat
    BY <2>1, ItemType DEF StakeUser
  <2> QED
    BY <2>2 DEF LpIn
<1> QED
  BY <1>1, SlotFinite, SumNat DEF AllLp

LEMMA AllLpChange ==
  ASSUME NEW st \in Table, NEW st2 \in Table, NEW i0 \in Index, NEW k0 \in Slot,
         OneSlotChanged(st, st2, i0, k0)
  PROVE  AllLp(st2) = AllLp(st) +
           (Item(st2, i0, k0).lp - (IF Has(st, i0, k0) THEN Item(st, i0, k0).lp ELSE 0))
<1> DEFINE a == LpIn(st)
           b == LpIn(st2)
           e == <<i0, k0>>
<1>0. e \in Index \X Slot
  OBVIOUS
<1>1. \A ik \in Index \X Slot : a[ik] \in Int /\ b[ik] \in Int
  BY LpInType
<1>2. ASSUME NEW ik \in (Index \X Slot) \ {e} PROVE b[ik] = a[ik]
  <2>1. PICK i \in Index, k \in Slot : ik = <<i, k>>
    OBVIOUS
  <2>2. i # i0 \/ k # k0
    BY <1>2, <2>1
  <2> QED
    BY <2>1, <2>2 DEF OneSlotChanged, LpIn
<1>3. /\ b[e] = Item(st2, i0, k0).lp
      /\ a[e] = IF Has(st, i0, k0) THEN Item(st, i0, k0).lp ELSE 0
  BY <1>0 DEF OneSlotChanged, LpIn
<1> DEFINE T == Index \X Slot
<1>4. IsFiniteSet(T) /\ e \in T /\ (\A x \in T : a[x] \in Int /\ b[x] \in Int)
      /\ \A x \in T \ {e} : b[x] = a[x]
  BY <1>0, <1>1, <1>2, SlotFinite
<1> HIDE DEF a, b, e, T
<1>5. SumFunctionOnSet(b, T) = SumFunctionOnSet(a, T) - a[e] + b[e]
  BY <1>4, SumChange
<1>6. SumFunctionOnSet(a, T) \in Int /\ a[e] \in Int /\ b[e] \in Int
  BY <1>4, SumInt
<1>7. SumFunctionOnSet(b, T) = SumFunctionOnSet(a, T) + (b[e] - a[e])
  BY <1>5, <1>6
<1> QED
  BY <1>3, <1>7 DEF AllLp, a, b, T

\* Changes of a table or of the list of pools.
AppendTo(f, key, x) == [f EXCEPT ![key] = Append(@, x)]
SetItem(f, key, n, x) == [f EXCEPT ![key][n] = x]

(* A deposit fills the next slot of its list.                               *)
LEMMA AppendedSlot ==
  ASSUME NEW st \in Table, NEW who \in User, NEW i \in Index, NEW x \in StakeUser,
         Len(st[<<who, i>>]) < MaxStakes,
         \A key \in User \X Index : Len(st[key]) <= MaxStakes,
         NEW n, n = Len(st[<<who, i>>]) + 1
  PROVE  LET st2 == AppendTo(st, <<who, i>>, x) IN
         /\ st2 \in Table /\ <<who, n>> \in Slot
         /\ OneSlotChanged(st, st2, i, <<who, n>>)
         /\ ~Has(st, i, <<who, n>>) /\ Item(st2, i, <<who, n>>) = x
         /\ \A key \in User \X Index : Len(st2[key]) <= MaxStakes
<1> DEFINE key0 == <<who, i>>
           list == st[key0]
           longer == Append(list, x)
           st2 == [st EXCEPT ![key0] = longer]
           k0 == <<who, n>>
<1>1. key0 \in User \X Index /\ list \in Seq(StakeUser) /\ Len(list) \in Nat
      /\ DOMAIN list = 1..Len(list) /\ MaxStakes \in Nat
  BY MiningAssumption DEF Table
<1>2. /\ longer \in Seq(StakeUser) /\ Len(longer) = n /\ DOMAIN longer = 1..n
      /\ longer[n] = x /\ \A d \in 1..Len(list) : longer[d] = list[d]
  BY <1>1
<1>3. n \in 1..MaxStakes /\ n \notin DOMAIN list /\ k0 \in Slot
  BY <1>1 DEF Slot
<1> HIDE DEF longer
<1>4. st2 \in Table /\ st2[key0] = longer /\ \A key \in User \X Index : key # key0 => st2[key] = st[key]
  BY <1>1, <1>2 DEF Table
<1> HIDE DEF st2
<1>5. Has(st2, i, k0) /\ ~Has(st, i, k0) /\ Item(st2, i, k0) = x
  BY <1>1, <1>2, <1>3, <1>4 DEF Has, Item
<1>6. ASSUME NEW j \in Index, NEW k \in Slot, j # i \/ k # k0
      PROVE  /\ Has(st2, j, k) = Has(st, j, k)
             /\ Has(st, j, k) => Item(st2, j, k) = Item(st, j, k)
  <2>1. PICK u \in User, m \in 1..MaxStakes : k = <<u, m>>
    BY DEF Slot
  <2>2. CASE <<u, j>> # key0
    <3>1. st2[<<u, j>>] = st[<<u, j>>]
      BY <1>4, <2>2
    <3> QED
      BY <2>1, <3>1 DEF Has, Item
  <2>3. CASE <<u, j>> = key0
    <3>1. u = who /\ j = i /\ m # n
      BY <1>6, <2>1, <2>3
    <3>2. m \in DOMAIN longer <=> m \in DOMAIN list
      BY <1>1, <1>2, <3>1
    <3>3. m \in DOMAIN list => longer[m] = list[m]
      BY <1>1, <1>2
    <3> QED
      BY <1>4, <2>1, <3>1, <3>2, <3>3 DEF Has, Item
  <2> QED
    BY <2>2, <2>3
<1>7. OneSlotChanged(st, st2, i, k0)
  BY <1>5, <1>6 DEF OneSlotChanged
<1>8. ASSUME NEW key \in User \X Index
      PROVE  Len(st2[key]) <= MaxStakes
  <2>1. CASE key = key0
    BY <1>1, <1>2, <1>3, <1>4, <2>1
  <2>2. CASE key # key0
    BY <1>4, <1>8, <2>2
  <2> QED
    BY <2>1, <2>2
<1> QED
  BY <1>3, <1>4, <1>5, <1>7, <1>8 DEF st2, longer, AppendTo

(* Replacing one item of one of several lists changes nothing else.         *)
LEMMA ItemReplaced ==
  ASSUME NEW K, NEW S, NEW f \in [K -> Seq(S)], NEW k \in K, NEW c \in DOMAIN f[k], NEW x \in S
  PROVE  LET g == [f EXCEPT ![k][c] = x] IN
         /\ g \in [K -> Seq(S)]
         /\ \A j \in K : Len(g[j]) = Len(f[j]) /\ DOMAIN g[j] = DOMAIN f[j]
         /\ g[k][c] = x
         /\ \A j \in K : j # k => g[j] = f[j]
         /\ \A d \in DOMAIN f[k] : d # c => g[k][d] = f[k][d]
<1> DEFINE list == [f[k] EXCEPT ![c] = x]
           g == [f EXCEPT ![k] = list]
<1>0. g = [f EXCEPT ![k][c] = x]
  OBVIOUS
<1>1. f[k] \in Seq(S) /\ Len(f[k]) \in Nat /\ DOMAIN f[k] = 1..Len(f[k])
  OBVIOUS
<1>2. list \in Seq(S) /\ Len(list) = Len(f[k]) /\ DOMAIN list = DOMAIN f[k]
      /\ list[c] = x /\ \A d \in DOMAIN f[k] : d # c => list[d] = f[k][d]
  BY <1>1
<1> HIDE DEF list
<1>3. g \in [K -> Seq(S)] /\ g[k] = list /\ \A j \in K : j # k => g[j] = f[j]
  BY <1>2
<1> HIDE DEF g
<1>4. \A j \in K : Len(g[j]) = Len(f[j]) /\ DOMAIN g[j] = DOMAIN f[j]
  BY <1>2, <1>3
<1> QED
  BY <1>0, <1>2, <1>3, <1>4

(* A claim or a withdrawal rewrites the stake of one slot.                  *)
LEMMA ReplacedSlot ==
  ASSUME NEW st \in Table, NEW who \in User, NEW i \in Index, NEW n \in 1..MaxStakes,
         n \in DOMAIN st[<<who, i>>], NEW x \in StakeUser,
         \A key \in User \X Index : Len(st[key]) <= MaxStakes,
         x.grade = st[<<who, i>>][n].grade
  PROVE  LET st2 == SetItem(st, <<who, i>>, n, x) IN
         /\ st2 \in Table /\ <<who, n>> \in Slot
         /\ OneSlotChanged(st, st2, i, <<who, n>>)
         /\ Has(st, i, <<who, n>>) /\ Item(st, i, <<who, n>>) = st[<<who, i>>][n]
         /\ Item(st2, i, <<who, n>>) = x
         /\ \A key \in User \X Index : Len(st2[key]) <= MaxStakes
<1> DEFINE key0 == <<who, i>>
           k0 == <<who, n>>
           st2 == [st EXCEPT ![key0][n] = x]
<1>1. key0 \in User \X Index /\ k0 \in Slot
  BY DEF Slot
<1> DEFINE K == User \X Index
<1>0. st \in [K -> Seq(StakeUser)] /\ key0 \in K /\ n \in DOMAIN st[key0]
  BY <1>1 DEF Table
<1>2. /\ st2 \in Table
      /\ \A key \in User \X Index : Len(st2[key]) = Len(st[key]) /\ DOMAIN st2[key] = DOMAIN st[key]
      /\ st2[key0][n] = x
      /\ \A key \in User \X Index : key # key0 => st2[key] = st[key]
      /\ \A d \in DOMAIN st[key0] : d # n => st2[key0][d] = st[key0][d]
  <2> HIDE DEF K, key0
  <2> QED
    BY <1>0, ItemReplaced DEF Table, K
<1> HIDE DEF st2
<1>3. /\ Has(st2, i, k0) /\ Has(st, i, k0)
      /\ Item(st, i, k0) = st[key0][n] /\ Item(st2, i, k0) = x
  BY <1>1, <1>2 DEF Has, Item
<1>6. ASSUME NEW j \in Index, NEW k \in Slot, j # i \/ k # k0
      PROVE  /\ Has(st2, j, k) = Has(st, j, k)
             /\ Has(st, j, k) => Item(st2, j, k) = Item(st, j, k)
  <2>1. PICK u \in User, m \in 1..MaxStakes : k = <<u, m>>
    BY DEF Slot
  <2>2. CASE <<u, j>> # key0
    <3>1. st2[<<u, j>>] = st[<<u, j>>]
      BY <1>2, <2>2
    <3> QED
      BY <2>1, <3>1 DEF Has, Item
  <2>3. CASE <<u, j>> = key0
    <3>1. u = who /\ j = i /\ m # n
      BY <1>6, <2>1, <2>3
    <3>2. DOMAIN st2[key0] = DOMAIN st[key0]
      BY <1>1, <1>2
    <3>3. m \in DOMAIN st[key0] => st2[key0][m] = st[key0][m]
      BY <1>2, <3>1
    <3> QED
      BY <2>1, <3>1, <3>2, <3>3 DEF Has, Item
  <2> QED
    BY <2>2, <2>3
<1>7. OneSlotChanged(st, st2, i, k0)
  BY <1>3, <1>6 DEF OneSlotChanged
<1> QED
  BY <1>1, <1>2, <1>3, <1>7 DEF st2, SetItem

-----------------------------------------------------------------------------
(* One pool of a list and the stakes in it.                                 *)

(* Min and Max of two numbers.                                              *)
LEMMA MinMaxOfTwo ==
  ASSUME NEW a \in Int, NEW b \in Int
  PROVE  /\ Min({a, b}) = IF a <= b THEN a ELSE b
         /\ Max({a, b}) = IF a >= b THEN a ELSE b
<1>1. Min({a, b}) = IF a <= b THEN a ELSE b
  <2> DEFINE m == IF a <= b THEN a ELSE b
  <2>1. m \in {a, b} /\ \A y \in {a, b} : m <= y
    OBVIOUS
  <2>2. \A x \in {a, b} : (\A y \in {a, b} : x <= y) => x = m
    OBVIOUS
  <2> QED
    BY <2>1, <2>2 DEF Min
<1>2. Max({a, b}) = IF a >= b THEN a ELSE b
  <2> DEFINE m == IF a >= b THEN a ELSE b
  <2>1. m \in {a, b} /\ \A y \in {a, b} : m >= y
    OBVIOUS
  <2>2. \A x \in {a, b} : (\A y \in {a, b} : x >= y) => x = m
    OBVIOUS
  <2> QED
    BY <2>1, <2>2 DEF Max
<1> QED
  BY <1>1, <1>2

\* What a pool has paid, and owes at its present share, is within what it has
\* issued, up to the roundings; and no debt is ahead of the share.
Covered(st, sp, i, g) ==
  /\ sp.total = Total(st, i, g, LpOf)
  /\ REWARD_FACTOR * Total(st, i, g, NetOf) + sp.share * sp.total
       <= REWARD_FACTOR * sp.issued + (REWARD_FACTOR - 1) * Total(st, i, g, RoundingsOf)
  /\ \A k \in Slot : Of(st, i, g, k) =>
       REWARD_FACTOR * Item(st, i, k).debt <= Item(st, i, k).lp * sp.share

LEMMA FiguresType ==
  LpOf \in [StakeUser -> Int] /\ NetOf \in [StakeUser -> Int] /\ RoundingsOf \in [StakeUser -> Int]
BY DEF LpOf, NetOf, RoundingsOf, StakeUser

(* update_pool raises the share of a token by at most what it issues.       *)
LEMMA UpdatedFacts ==
  ASSUME block \in Nat, NEW sp \in StakePool
  PROVE  LET up == Updated(sp) IN
         /\ up \in StakePool /\ up.total = sp.total
         /\ up.share >= sp.share /\ up.issued >= sp.issued
         /\ (up.share - sp.share) * sp.total <= REWARD_FACTOR * (up.issued - sp.issued)
<1> DEFINE up == Updated(sp)
<1>0. /\ sp.total \in Nat /\ sp.share \in Nat /\ sp.issued \in Nat /\ sp.left \in Nat
      /\ sp.last \in Nat /\ sp.perBlock \in Nat /\ REWARD_FACTOR \in Nat
  BY MiningAssumption DEF StakePool
<1>1. CASE block <= sp.last
  <2>1. up = sp
    BY <1>1 DEF Updated
  <2> QED
    BY <1>0, <2>1
<1>2. CASE ~(block <= sp.last) /\ sp.total = 0
  <2>1. up = [sp EXCEPT !.last = block]
    BY <1>2 DEF Updated
  <2>2. up \in StakePool /\ up.total = sp.total /\ up.share = sp.share /\ up.issued = sp.issued
    BY <2>1 DEF StakePool
  <2> QED
    BY <1>0, <2>2
<1>3. CASE ~(block <= sp.last) /\ sp.total # 0
  <2> DEFINE reward == PoolReward(sp)
             more == (reward * REWARD_FACTOR) \div sp.total
  <2>1. reward \in Nat /\ reward <= sp.left
    <3>1. block - sp.last \in Nat
      BY <1>0, <1>3
    <3>2. (block - sp.last) * sp.perBlock \in Nat
      BY <1>0, <3>1
    <3>3. PICK a \in Nat : a = (block - sp.last) * sp.perBlock
      BY <3>2
    <3>4. reward = IF a <= sp.left THEN a ELSE sp.left
      BY <1>0, <3>3, MinMaxOfTwo DEF PoolReward
    <3> QED
      BY <1>0, <3>4
  <2>2. reward * REWARD_FACTOR \in Nat
    BY <1>0, <2>1
  <2>3. more \in Nat /\ more * sp.total <= reward * REWARD_FACTOR
    BY <1>0, <1>3, <2>2, DivFloor
  <2>4. up = [sp EXCEPT !.left = @ - reward, !.issued = @ + reward, !.last = block,
                        !.share = @ + more]
    BY <1>3 DEF Updated
  <2> HIDE DEF reward, more, up
  <2>5. /\ up \in StakePool /\ up.total = sp.total /\ up.share = sp.share + more
        /\ up.issued = sp.issued + reward
    <3>1. PICK l \in Nat, e \in Nat, h \in Nat :
            l = sp.left - reward /\ e = sp.issued + reward /\ h = sp.share + more
      BY <1>0, <2>1, <2>3
    <3>2. up = [sp EXCEPT !.left = l, !.issued = e, !.last = block, !.share = h]
      BY <2>4, <3>1
    <3>3. up \in StakePool /\ up.total = sp.total /\ up.share = h /\ up.issued = e
      BY <3>2 DEF StakePool
    <3> QED
      BY <3>1, <3>3
  <2>6. up.share - sp.share = more /\ up.issued - sp.issued = reward
    BY <1>0, <2>1, <2>3, <2>5
  <2>7. reward * REWARD_FACTOR = REWARD_FACTOR * reward
    BY <1>0, <2>1
  <2>8. (up.share - sp.share) * sp.total <= REWARD_FACTOR * (up.issued - sp.issued)
    BY <2>3, <2>6, <2>7
  <2>9. up.share >= sp.share /\ up.issued >= sp.issued
    BY <1>0, <2>1, <2>3, <2>5
  <2> QED
    BY <2>5, <2>8, <2>9 DEF up
<1> QED
  BY <1>1, <1>2, <1>3

(* update_pool keeps a pool covered.                                        *)
LEMMA UpdatedCovered ==
  ASSUME block \in Nat, NEW sp \in StakePool, NEW st \in Table, NEW i \in Index, NEW g,
         Covered(st, sp, i, g)
  PROVE  Covered(st, Updated(sp), i, g)
<1>0. PICK up \in StakePool : up = Updated(sp)
  BY UpdatedFacts
<1>1. /\ up.total = sp.total
      /\ up.share >= sp.share /\ up.issued >= sp.issued
      /\ (up.share - sp.share) * sp.total <= REWARD_FACTOR * (up.issued - sp.issued)
  BY <1>0, UpdatedFacts
<1>2. /\ sp.total \in Nat /\ sp.share \in Nat /\ sp.issued \in Nat
      /\ up.share \in Nat /\ up.issued \in Nat /\ REWARD_FACTOR \in Nat
  BY MiningAssumption DEF StakePool
<1>3. PICK net \in Int, slack \in Int : /\ net = Total(st, i, g, NetOf)
                                        /\ slack = Total(st, i, g, RoundingsOf)
  BY FiguresType, ColumnType
<1>4. REWARD_FACTOR * net + up.share * up.total
        <= REWARD_FACTOR * up.issued + (REWARD_FACTOR - 1) * slack
  <2>1. PICK d \in Nat, e \in Nat : up.share = sp.share + d /\ up.issued = sp.issued + e
    <3>1. up.share - sp.share \in Nat /\ up.issued - sp.issued \in Nat
      BY <1>1, <1>2
    <3> QED
      BY <1>2, <3>1
  <2>2. d * sp.total <= REWARD_FACTOR * e
    BY <1>1, <1>2, <2>1
  <2>3. /\ up.share * up.total = sp.share * sp.total + d * sp.total
        /\ REWARD_FACTOR * up.issued = REWARD_FACTOR * sp.issued + REWARD_FACTOR * e
    BY <1>1, <1>2, <2>1
  <2>4. PICK a \in Int, b \in Int, c \in Int, x \in Int, y \in Int, z \in Int :
          /\ a = REWARD_FACTOR * net /\ b = sp.share * sp.total /\ c = d * sp.total
          /\ x = REWARD_FACTOR * sp.issued /\ y = REWARD_FACTOR * e
          /\ z = (REWARD_FACTOR - 1) * slack
    BY <1>2
  <2>5. a + b <= x + z
    BY <1>3, <2>4 DEF Covered
  <2>6. a + (b + c) <= (x + y) + z
    BY <2>2, <2>4, <2>5
  <2> QED
    BY <2>3, <2>4, <2>6
<1>5. ASSUME NEW k \in Slot, Of(st, i, g, k)
      PROVE  REWARD_FACTOR * Item(st, i, k).debt <= Item(st, i, k).lp * up.share
  <2>1. PICK s \in StakeUser : s = Item(st, i, k)
    BY <1>5, ItemType DEF Of
  <2>2. s.lp \in Nat /\ s.debt \in Nat
    BY DEF StakeUser
  <2>3. REWARD_FACTOR * s.debt <= s.lp * sp.share
    BY <1>5, <2>1 DEF Covered
  <2>4. sp.share * s.lp <= up.share * s.lp
    BY <1>1, <1>2, <2>2, MulMono
  <2>5. sp.share * s.lp = s.lp * sp.share /\ up.share * s.lp = s.lp * up.share
    BY <1>2, <2>2
  <2>6. REWARD_FACTOR * s.debt \in Int /\ s.lp * sp.share \in Int /\ s.lp * up.share \in Int
    BY <1>2, <2>2
  <2> QED
    BY <2>1, <2>3, <2>4, <2>5, <2>6
<1> QED
  BY <1>0, <1>1, <1>3, <1>4, <1>5 DEF Covered

\* What a stake counts for in the sum of Covered.
Weight(s, share) == REWARD_FACTOR * (s.claimed - s.debt) + share * s.lp

NoStake == [lp |-> 0, debt |-> 0, height |-> 0, grade |-> 1, claimed |-> 0, roundings |-> 0]

(* A changed stake keeps its pool covered if its weight grows by less than  *)
(* one token for each rounding, and other pools whatever it does.           *)
LEMMA StakeStep ==
  ASSUME NEW st \in Table, NEW st2 \in Table, NEW i \in Index, NEW k0 \in Slot,
         OneSlotChanged(st, st2, i, k0), NEW sp \in StakePool, NEW sp2 \in StakePool,
         NEW old \in StakeUser, NEW new \in StakeUser, new = Item(st2, i, k0),
         old = (IF Has(st, i, k0) THEN Item(st, i, k0) ELSE NoStake),
         Covered(st, sp, i, new.grade),
         sp2.share = sp.share, sp2.issued = sp.issued, sp2.total = sp.total + (new.lp - old.lp),
         Weight(new, sp.share)
           <= Weight(old, sp.share) + (REWARD_FACTOR - 1) * (new.roundings - old.roundings),
         REWARD_FACTOR * new.debt <= new.lp * sp.share
  PROVE  Covered(st2, sp2, i, new.grade)
<1> DEFINE g == new.grade
           F == REWARD_FACTOR
<1>1. ASSUME NEW v \in [StakeUser -> Int], v[NoStake] = 0
      PROVE  Total(st2, i, g, v) = Total(st, i, g, v) + (v[new] - v[old])
  BY <1>1, ColumnChange
<1>2. NoStake \in StakeUser
  BY DEF NoStake, StakeUser
<1>3. LpOf[NoStake] = 0 /\ NetOf[NoStake] = 0 /\ RoundingsOf[NoStake] = 0
  BY <1>2 DEF LpOf, NetOf, RoundingsOf, NoStake
<1>4. /\ Total(st2, i, g, LpOf) = Total(st, i, g, LpOf) + (new.lp - old.lp)
      /\ Total(st2, i, g, NetOf)
           = Total(st, i, g, NetOf) + ((new.claimed - new.debt) - (old.claimed - old.debt))
      /\ Total(st2, i, g, RoundingsOf)
           = Total(st, i, g, RoundingsOf) + (new.roundings - old.roundings)
  <2>1. /\ LpOf[new] = new.lp /\ LpOf[old] = old.lp
        /\ NetOf[new] = new.claimed - new.debt /\ NetOf[old] = old.claimed - old.debt
        /\ RoundingsOf[new] = new.roundings /\ RoundingsOf[old] = old.roundings
    BY DEF LpOf, NetOf, RoundingsOf
  <2>2. Total(st2, i, g, LpOf) = Total(st, i, g, LpOf) + (LpOf[new] - LpOf[old])
    BY <1>1, <1>3, FiguresType
  <2>3. Total(st2, i, g, NetOf) = Total(st, i, g, NetOf) + (NetOf[new] - NetOf[old])
    BY <1>1, <1>3, FiguresType
  <2>4. Total(st2, i, g, RoundingsOf)
          = Total(st, i, g, RoundingsOf) + (RoundingsOf[new] - RoundingsOf[old])
    BY <1>1, <1>3, FiguresType
  <2> QED
    BY <2>1, <2>2, <2>3, <2>4
<1>5. sp2.total = Total(st2, i, g, LpOf)
  BY <1>4 DEF Covered
<1>6. F * Total(st2, i, g, NetOf) + sp2.share * sp2.total
        <= F * sp2.issued + (F - 1) * Total(st2, i, g, RoundingsOf)
  <2>1. PICK net \in Int, slack \in Int : /\ net = Total(st, i, g, NetOf)
                                          /\ slack = Total(st, i, g, RoundingsOf)
    BY FiguresType, ColumnType
  <2>2. PICK n1 \in Int, n0 \in Int, r \in Int, l1 \in Int, l0 \in Int :
          /\ n1 = new.claimed - new.debt /\ n0 = old.claimed - old.debt
          /\ r = new.roundings - old.roundings /\ l1 = new.lp /\ l0 = old.lp
    <3>1. /\ new.claimed \in Int /\ new.debt \in Int /\ new.lp \in Int /\ new.roundings \in Int
          /\ old.claimed \in Int /\ old.debt \in Int /\ old.lp \in Int /\ old.roundings \in Int
      BY DEF StakeUser
    <3>2. /\ new.claimed - new.debt \in Int /\ old.claimed - old.debt \in Int
          /\ new.roundings - old.roundings \in Int
      BY <3>1
    <3> QED
      BY <3>1, <3>2, Zenon
  <2>3. PICK share \in Int, total \in Int, issued \in Int :
          share = sp.share /\ total = sp.total /\ issued = sp.issued
    BY DEF StakePool
  <2>4. F \in Int
    BY MiningAssumption
  <2>5. F * net + share * total <= F * issued + (F - 1) * slack
    BY <2>1, <2>3 DEF Covered
  <2>6. F * n1 + share * l1 <= F * n0 + share * l0 + (F - 1) * r
    BY <2>2, <2>3 DEF Weight
  <2> HIDE DEF F
  <2>7. /\ F * (net + (n1 - n0)) = F * net + F * n1 - F * n0
        /\ share * (total + (l1 - l0)) = share * total + share * l1 - share * l0
        /\ (F - 1) * (slack + r) = (F - 1) * slack + (F - 1) * r
    BY <2>4
  <2>8. PICK a \in Int, b \in Int, c \in Int, d \in Int, e \in Int, h \in Int,
             x \in Int, y \in Int, z \in Int :
          /\ a = F * net /\ b = F * n1 /\ c = F * n0 /\ d = share * total /\ e = share * l1
          /\ h = share * l0 /\ x = F * issued /\ y = (F - 1) * slack /\ z = (F - 1) * r
    BY <2>4
  <2>9. a + d <= x + y /\ b + e <= c + h + z
    BY <2>5, <2>6, <2>8
  <2>10. F * (net + (n1 - n0)) = a + b - c /\ share * (total + (l1 - l0)) = d + e - h
         /\ (F - 1) * (slack + r) = y + z
    BY <2>7, <2>8
  <2>11. (a + b - c) + (d + e - h) <= x + (y + z)
    BY <2>9
  <2>12. F * (net + (n1 - n0)) + share * (total + (l1 - l0))
           <= F * issued + (F - 1) * (slack + r)
    BY <2>8, <2>10, <2>11
  <2> QED
    BY <1>4, <2>1, <2>2, <2>3, <2>12
<1>7. ASSUME NEW k \in Slot, Of(st2, i, g, k)
      PROVE  F * Item(st2, i, k).debt <= Item(st2, i, k).lp * sp2.share
  <2>1. CASE k = k0
    BY <2>1
  <2>2. CASE k # k0
    <3>1. Of(st, i, g, k) /\ Item(st2, i, k) = Item(st, i, k)
      BY <1>7, <2>2 DEF OneSlotChanged, Of
    <3> QED
      BY <3>1 DEF Covered
  <2> QED
    BY <2>1, <2>2
<1> QED
  BY <1>5, <1>6, <1>7 DEF Covered

LEMMA OtherStep ==
  ASSUME NEW st \in Table, NEW st2 \in Table, NEW i0 \in Index, NEW k0 \in Slot,
         OneSlotChanged(st, st2, i0, k0), NEW i \in Index, NEW g, NEW sp,
         i # i0 \/ g # Item(st2, i0, k0).grade, Covered(st, sp, i, g)
  PROVE  Covered(st2, sp, i, g)
<1>1. /\ Total(st2, i, g, LpOf) = Total(st, i, g, LpOf)
      /\ Total(st2, i, g, NetOf) = Total(st, i, g, NetOf)
      /\ Total(st2, i, g, RoundingsOf) = Total(st, i, g, RoundingsOf)
  BY ColumnChange, FiguresType
<1>2. ASSUME NEW k \in Slot, Of(st2, i, g, k)
      PROVE  Of(st, i, g, k) /\ Item(st2, i, k) = Item(st, i, k)
  BY <1>2 DEF OneSlotChanged, Of
<1> QED
  BY <1>1, <1>2 DEF Covered

-----------------------------------------------------------------------------
(* The lists of pools.                                                      *)

Pools == Seq(Seq(StakePool))

LEMMA PoolReplaced ==
  ASSUME NEW pools \in Pools, NEW i \in DOMAIN pools, NEW g \in DOMAIN pools[i],
         NEW x \in StakePool
  PROVE  LET pools2 == SetItem(pools, i, g, x) IN
         /\ pools2 \in Pools /\ Len(pools2) = Len(pools) /\ DOMAIN pools2 = DOMAIN pools
         /\ \A j \in DOMAIN pools : DOMAIN pools2[j] = DOMAIN pools[j]
         /\ pools2[i][g] = x
         /\ \A j \in DOMAIN pools : \A h \in DOMAIN pools[j] :
              j # i \/ h # g => pools2[j][h] = pools[j][h]
<1> DEFINE K == DOMAIN pools
           pools2 == [pools EXCEPT ![i][g] = x]
<1>1. pools \in [K -> Seq(StakePool)] /\ K = 1..Len(pools) /\ Len(pools) \in Nat
  BY DEF Pools
<1>2. /\ pools2 \in [K -> Seq(StakePool)]
      /\ \A j \in K : DOMAIN pools2[j] = DOMAIN pools[j]
      /\ pools2[i][g] = x
      /\ \A j \in K : j # i => pools2[j] = pools[j]
      /\ \A d \in DOMAIN pools[i] : d # g => pools2[i][d] = pools[i][d]
  <2>1. i \in K
    OBVIOUS
  <2> HIDE DEF K
  <2> QED
    BY <1>1, <2>1, ItemReplaced
<1> HIDE DEF pools2
<1>3. pools2 \in Pools /\ Len(pools2) = Len(pools) /\ DOMAIN pools2 = K
  <2>1. PICK n \in Nat : n = Len(pools) /\ K = 1..n
    BY <1>1
  <2>2. pools2 \in [1..n -> Seq(StakePool)]
    BY <1>2, <2>1
  <2> HIDE DEF K
  <2>3. pools2 \in Seq(Seq(StakePool)) /\ Len(pools2) = n /\ DOMAIN pools2 = 1..n
    BY <2>2
  <2> QED
    BY <2>1, <2>3 DEF Pools
<1>4. \A j \in K : \A h \in DOMAIN pools[j] : j # i \/ h # g => pools2[j][h] = pools[j][h]
  BY <1>2
<1> QED
  BY <1>2, <1>3, <1>4 DEF pools2, SetItem

\* Every stake names a pool, and every pool is covered.
Graded(st, pools) ==
  \A j \in Index, k \in Slot : Has(st, j, k) =>
    j \in DOMAIN pools /\ Item(st, j, k).grade \in DOMAIN pools[j]
AllCovered(st, pools) ==
  \A j \in DOMAIN pools : \A h \in DOMAIN pools[j] : Covered(st, pools[j][h], j, h)

(* A call on one stake rewrites it and its pool.                            *)
LEMMA StakeAndPool ==
  ASSUME NEW st \in Table, NEW st2 \in Table, NEW pools \in Pools, Len(pools) <= MaxIndex,
         NEW i \in DOMAIN pools, NEW g \in DOMAIN pools[i], NEW x \in StakePool, NEW k0 \in Slot,
         OneSlotChanged(st, st2, i, k0), Item(st2, i, k0).grade = g,
         Graded(st, pools), AllCovered(st, pools), Covered(st2, x, i, g)
  PROVE  LET pools2 == SetItem(pools, i, g, x) IN Graded(st2, pools2) /\ AllCovered(st2, pools2)
<1> DEFINE pools2 == SetItem(pools, i, g, x)
<1>1. /\ DOMAIN pools2 = DOMAIN pools
      /\ \A j \in DOMAIN pools : DOMAIN pools2[j] = DOMAIN pools[j]
      /\ pools2[i][g] = x
      /\ \A j \in DOMAIN pools : \A h \in DOMAIN pools[j] :
           j # i \/ h # g => pools2[j][h] = pools[j][h]
  BY PoolReplaced
<1> HIDE DEF pools2
<1>2. DOMAIN pools \subseteq Index
  <2>1. DOMAIN pools = 1..Len(pools) /\ Len(pools) \in Nat /\ MaxIndex \in Nat
    BY MiningAssumption DEF Pools
  <2> QED
    BY <2>1 DEF Index
<1>3. ASSUME NEW j \in Index, NEW k \in Slot, Has(st2, j, k)
      PROVE  j \in DOMAIN pools2 /\ Item(st2, j, k).grade \in DOMAIN pools2[j]
  <2>1. CASE j = i /\ k = k0
    BY <1>1, <2>1
  <2>2. CASE j # i \/ k # k0
    <3>1. Has(st, j, k) /\ Item(st2, j, k) = Item(st, j, k)
      BY <1>2, <1>3, <2>2 DEF OneSlotChanged
    <3>2. j \in DOMAIN pools /\ Item(st, j, k).grade \in DOMAIN pools[j]
      BY <3>1 DEF Graded
    <3> QED
      BY <1>1, <3>1, <3>2
  <2> QED
    BY <2>1, <2>2
<1>4. ASSUME NEW j \in DOMAIN pools2, NEW h \in DOMAIN pools2[j]
      PROVE  Covered(st2, pools2[j][h], j, h)
  <2>0. j \in DOMAIN pools /\ h \in DOMAIN pools[j] /\ j \in Index /\ i \in Index
    BY <1>1, <1>2
  <2>1. CASE j = i /\ h = g
    BY <1>1, <2>1
  <2>2. CASE j # i \/ h # g
    <3>1. Covered(st, pools[j][h], j, h) /\ pools2[j][h] = pools[j][h]
      BY <1>1, <2>0, <2>2 DEF AllCovered
    <3> QED
      BY <2>0, <2>2, <3>1, OtherStep
  <2> QED
    BY <2>1, <2>2
<1>5. Graded(st2, pools2) /\ AllCovered(st2, pools2)
  BY <1>3, <1>4 DEF Graded, AllCovered
<1> QED
  BY <1>5 DEF pools2

(* Root may replace a pool by one with the same share, total and issue.     *)
LEMMA PoolOnly ==
  ASSUME NEW st \in Table, NEW pools \in Pools, NEW i \in DOMAIN pools,
         NEW g \in DOMAIN pools[i], NEW x \in StakePool,
         x.share = pools[i][g].share, x.total = pools[i][g].total, x.issued = pools[i][g].issued,
         Graded(st, pools), AllCovered(st, pools)
  PROVE  LET pools2 == SetItem(pools, i, g, x) IN Graded(st, pools2) /\ AllCovered(st, pools2)
<1> DEFINE pools2 == SetItem(pools, i, g, x)
<1>1. /\ DOMAIN pools2 = DOMAIN pools
      /\ \A j \in DOMAIN pools : DOMAIN pools2[j] = DOMAIN pools[j]
      /\ pools2[i][g] = x
      /\ \A j \in DOMAIN pools : \A h \in DOMAIN pools[j] :
           j # i \/ h # g => pools2[j][h] = pools[j][h]
  BY PoolReplaced
<1> HIDE DEF pools2
<1>2. Graded(st, pools2)
  BY <1>1 DEF Graded
<1>3. ASSUME NEW j \in DOMAIN pools2, NEW h \in DOMAIN pools2[j]
      PROVE  Covered(st, pools2[j][h], j, h)
  <2>0. j \in DOMAIN pools /\ h \in DOMAIN pools[j] /\ Covered(st, pools[j][h], j, h)
    BY <1>1 DEF AllCovered
  <2>1. CASE j = i /\ h = g
    BY <1>1, <2>0, <2>1 DEF Covered
  <2>2. CASE j # i \/ h # g
    BY <1>1, <2>0, <2>2
  <2> QED
    BY <2>1, <2>2
<1>4. AllCovered(st, pools2)
  BY <1>3 DEF AllCovered
<1> QED
  BY <1>2, <1>4 DEF pools2

-----------------------------------------------------------------------------
(* The LP tokens of the mining account.  What the calls of rdex/swap do to  *)
(* the ledger does not matter here, only that it keeps its shape.           *)

Shape(b) ==
  /\ b = [free |-> b.free, issuance |-> b.issuance]
  /\ b.free = [a \in Account |-> b.free[a]]

LEMMA Accounts ==
  /\ SwapAccount \in Account /\ MiningAccount \in Account /\ User \subseteq Account
  /\ SwapAccount \notin User /\ MiningAccount \notin User /\ SwapAccount # MiningAccount
BY SwapAssumption DEF Account

LEMMA ShapeKept ==
  ASSUME NEW b, Shape(b), NEW who \in User, NEW value
  PROVE  /\ Shape(LP!Minted(b, who, value)) /\ Shape(LP!Burned(b, who, value))
         /\ LP!Minted(b, who, value).free[MiningAccount] = b.free[MiningAccount]
         /\ LP!Burned(b, who, value).free[MiningAccount] = b.free[MiningAccount]
BY Accounts DEF Shape, LP!Minted, LP!Burned

LEMMA LpMoved ==
  ASSUME NEW b, Shape(b), NEW from \in Account, NEW to \in Account, from # to,
         NEW value \in Nat, b.free[MiningAccount] \in Int
  PROVE  LET c == LP!Transferred(b, from, to, value) IN
         /\ Shape(c)
         /\ to = MiningAccount => c.free[MiningAccount] = b.free[MiningAccount] + value
         /\ from = MiningAccount => c.free[MiningAccount] = b.free[MiningAccount] - value
<1> DEFINE c == LP!Transferred(b, from, to, value)
<1>1. CASE value = 0
  <2>1. c = b
    BY <1>1 DEF LP!Transferred, LP!Idle
  <2> QED
    BY <1>1, <2>1
<1>2. CASE value # 0
  <2>1. PICK f, n : b = [free |-> f, issuance |-> n] /\ f = [a \in Account |-> f[a]] /\ b.free = f
    BY DEF Shape
  <2>2. c = [b EXCEPT !.free[from] = @ - value, !.free[to] = @ + value]
    BY <1>2 DEF LP!Transferred, LP!Idle
  <2>3. c = [free |-> [f EXCEPT ![from] = @ - value, ![to] = @ + value], issuance |-> n]
    BY <2>1, <2>2
  <2>4. DOMAIN f = Account
    BY <2>1
  <2> HIDE DEF c
  <2>5. Shape(c)
    BY <2>3, <2>4 DEF Shape
  <2>6. c.free = [f EXCEPT ![from] = @ - value, ![to] = @ + value]
    BY <2>3
  <2>7. /\ to = MiningAccount => c.free[MiningAccount] = f[MiningAccount] + value
        /\ from = MiningAccount => c.free[MiningAccount] = f[MiningAccount] - value
    BY <2>4, <2>6
  <2> QED
    BY <2>1, <2>5, <2>7 DEF c
<1> QED
  BY <1>1, <1>2

-----------------------------------------------------------------------------
(* The inductive invariant of mining.                                       *)

\* The types of MiningTypeOK that do not depend on the pool of rdex/swap.
StakeTypes ==
  /\ block \in 0..MaxBlock
  /\ stakePools \in Pools
  /\ stakes \in Table
  /\ depositAllowed \in Allowance
  /\ shifted \in BOOLEAN

MiningInv ==
  /\ StakeTypes
  /\ Len(stakePools) <= MaxIndex
  /\ \A key \in User \X Index : Len(stakes[key]) <= MaxStakes
  /\ Shape(lp) /\ lp.free[MiningAccount] = AllLp(stakes)
  /\ ~shifted => Graded(stakes, stakePools) /\ AllCovered(stakes, stakePools)

LEMMA MiningFacts ==
  ASSUME MiningInv
  PROVE  /\ stakes \in Table /\ stakePools \in Pools /\ block \in Nat /\ Len(stakePools) \in Nat
         /\ DOMAIN stakePools = 1..Len(stakePools) /\ DOMAIN stakePools \subseteq Index
         /\ AllLp(stakes) \in Nat
<1>1. stakes \in Table /\ stakePools \in Pools /\ block \in Nat
  BY MiningAssumption DEF MiningInv, StakeTypes, Table, Pools
<1>2. Len(stakePools) \in Nat /\ DOMAIN stakePools = 1..Len(stakePools) /\ MaxIndex \in Nat
      /\ Len(stakePools) <= MaxIndex
  BY <1>1, MiningAssumption DEF Pools, MiningInv
<1>3. DOMAIN stakePools \subseteq Index
  BY <1>2 DEF Index
<1> QED
  BY <1>1, <1>2, <1>3, LpInType

(* What every call on one stake has to show.                                *)
LEMMA StakeCall ==
  ASSUME MiningInv, NEW i \in DOMAIN stakePools, NEW g \in DOMAIN stakePools[i],
         NEW x \in StakePool, NEW k0 \in Slot, NEW st2 \in Table,
         OneSlotChanged(stakes, st2, i, k0), Item(st2, i, k0).grade = g,
         \A key \in User \X Index : Len(st2[key]) <= MaxStakes,
         ~shifted => Covered(st2, x, i, g),
         stakes' = st2, stakePools' = SetItem(stakePools, i, g, x),
         Shape(lp'), lp'.free[MiningAccount] = AllLp(st2),
         UNCHANGED <<block, depositAllowed, shifted>>
  PROVE  MiningInv'
<1>1. stakes \in Table /\ stakePools \in Pools
  BY MiningFacts
<1>2. stakePools' \in Pools /\ Len(stakePools') = Len(stakePools)
  BY <1>1, PoolReplaced
<1>3. StakeTypes'
  BY <1>2 DEF MiningInv, StakeTypes, Table, Pools
<1>4. Len(stakePools') <= MaxIndex
  BY <1>2 DEF MiningInv
<1>5. (\A key \in User \X Index : Len(stakes[key]) <= MaxStakes)'
  OBVIOUS
<1>6. (Shape(lp) /\ lp.free[MiningAccount] = AllLp(stakes))'
  BY DEF Shape, AllLp, LpIn, Has, Item
<1>7. ASSUME ~shifted PROVE Graded(st2, stakePools') /\ AllCovered(st2, stakePools')
  BY <1>1, <1>7, StakeAndPool DEF MiningInv
<1>8. (~shifted => Graded(stakes, stakePools) /\ AllCovered(stakes, stakePools))'
  <2>1. ASSUME ~shifted PROVE Graded(stakes, stakePools)'
    BY <1>7, <2>1
  <2>2. ASSUME ~shifted PROVE AllCovered(stakes, stakePools)'
    BY <1>7, <2>2
  <2> QED
    BY <2>1, <2>2
<1> QED
  BY <1>3, <1>4, <1>5, <1>6, <1>8 DEF MiningInv

(* A reward is rounded down by less than one token.                         *)
LEMMA EarnedFacts ==
  ASSUME NEW amount \in Nat, NEW sp \in StakePool
  PROVE  /\ Earned(amount, sp) \in Nat
         /\ REWARD_FACTOR * Earned(amount, sp) <= amount * sp.share
         /\ amount * sp.share <= REWARD_FACTOR * Earned(amount, sp) + (REWARD_FACTOR - 1)
         /\ amount * sp.share = sp.share * amount /\ amount * sp.share \in Nat
<1> DEFINE q == (amount * sp.share) \div REWARD_FACTOR
           F == REWARD_FACTOR
<1>1. sp.share \in Nat /\ F \in Nat \ {0}
  BY MiningAssumption DEF StakePool
<1>2. PICK p \in Nat : p = amount * sp.share
  BY <1>1
<1>3. q \in Nat /\ q * F <= p /\ p < (q + 1) * F
  BY <1>1, <1>2, DivFloor
<1> HIDE DEF q, F
<1>4. q * F = F * q /\ (q + 1) * F = F * q + F /\ F * q \in Nat
  BY <1>1, <1>3
<1>5. F * q <= p /\ p <= F * q + (F - 1)
  BY <1>1, <1>3, <1>4
<1>6. amount * sp.share = sp.share * amount
  BY <1>1
<1> QED
  BY <1>2, <1>3, <1>5, <1>6 DEF Earned, q, F

LEMMA DepositKeeps ==
  ASSUME MiningInv, NEW who \in User, NEW i \in Index, NEW g \in 1..MaxGrade,
         NEW amount \in StakeAmount, Deposit(who, i, g, amount)
  PROVE  MiningInv'
<1>1. amount \in Nat /\ i \in DOMAIN stakePools /\ g \in DOMAIN stakePools[i]
      /\ Len(stakes[<<who, i>>]) < MaxStakes
  BY MiningAssumption DEF Deposit, HasPool
<1>2. PICK sp \in StakePool : sp = stakePools[i][g]
  BY <1>1, MiningFacts DEF Pools
<1>3. PICK up \in StakePool : up = Updated(sp)
  BY MiningFacts, UpdatedFacts
<1>4. PICK new : new = NewStake(amount, g, sp, up)
  OBVIOUS
<1>5. /\ new \in StakeUser /\ new.lp = amount /\ new.debt = Earned(amount, up) /\ new.grade = g
      /\ new.claimed = 0 /\ new.roundings = 1
  <2>1. Earned(amount, up) \in Nat /\ g \in Nat \ {0} /\ block \in Nat
    BY <1>1, EarnedFacts, MiningFacts, MiningAssumption
  <2> QED
    BY <1>1, <1>4, <2>1 DEF NewStake, StakeUser
<1> DEFINE st2 == AppendTo(stakes, <<who, i>>, new)
           n == Len(stakes[<<who, i>>]) + 1
           k0 == <<who, n>>
<1>7. /\ st2 \in Table /\ k0 \in Slot
      /\ OneSlotChanged(stakes, st2, i, k0)
      /\ ~Has(stakes, i, k0) /\ Item(st2, i, k0) = new
      /\ \A key \in User \X Index : Len(st2[key]) <= MaxStakes
  <2>1. \A key \in User \X Index : Len(stakes[key]) <= MaxStakes
    BY DEF MiningInv
  <2> QED
    BY <1>1, <1>5, <2>1, MiningFacts, AppendedSlot
<1>6. st2 = [stakes EXCEPT ![<<who, i>>] = Append(@, new)]
  BY DEF AppendTo
<1> HIDE DEF st2, k0
<1>8. PICK x : x = [up EXCEPT !.total = @ + amount]
  OBVIOUS
<1>9. x \in StakePool /\ x.share = up.share /\ x.issued = up.issued /\ x.total = up.total + amount
  <2>1. up.total + amount \in Nat
    <3>1. up.total \in Nat
      BY DEF StakePool
    <3> QED
      BY <1>1, <3>1
  <2> QED
    BY <1>8, <2>1 DEF StakePool
<1>10. /\ stakes' = st2 /\ stakePools' = SetItem(stakePools, i, g, x)
       /\ lp' = LP!Transferred(lp, who, MiningAccount, amount)
       /\ UNCHANGED <<block, depositAllowed, shifted>>
  BY <1>2, <1>3, <1>4, <1>6, <1>8 DEF Deposit, SetItem
<1>11. Shape(lp') /\ lp'.free[MiningAccount] = AllLp(st2)
  <2>1. AllLp(st2) = AllLp(stakes) + (amount - 0)
    BY <1>5, <1>7, MiningFacts, AllLpChange
  <2>2. Shape(lp) /\ lp.free[MiningAccount] = AllLp(stakes) /\ AllLp(stakes) \in Int
    BY MiningFacts DEF MiningInv
  <2>3. Shape(lp') /\ lp'.free[MiningAccount] = lp.free[MiningAccount] + amount
    BY <1>1, <1>10, <2>2, Accounts, LpMoved
  <2> QED
    BY <1>1, <2>1, <2>2, <2>3
<1>12. ASSUME ~shifted PROVE Covered(st2, x, i, g)
  <2>1. Covered(stakes, up, i, g)
    BY <1>1, <1>2, <1>3, <1>12, MiningFacts, UpdatedCovered DEF MiningInv, AllCovered
  <2>2. NoStake \in StakeUser /\ NoStake.lp = 0 /\ NoStake.debt = 0 /\ NoStake.claimed = 0
        /\ NoStake.roundings = 0
    BY DEF NoStake, StakeUser
  <2>3. PICK e \in Nat : e = Earned(amount, up)
    BY <1>1, EarnedFacts
  <2>4. /\ REWARD_FACTOR * e <= amount * up.share /\ amount * up.share = up.share * amount
        /\ amount * up.share <= REWARD_FACTOR * e + (REWARD_FACTOR - 1)
        /\ amount * up.share \in Nat
    BY <1>1, <2>3, EarnedFacts
  <2>5. REWARD_FACTOR \in Int /\ up.share \in Int
    BY MiningAssumption DEF StakePool
  <2>6. /\ Weight(new, up.share) = REWARD_FACTOR * (0 - e) + up.share * amount
        /\ Weight(NoStake, up.share) = REWARD_FACTOR * (0 - 0) + up.share * 0
    BY <1>5, <2>2, <2>3 DEF Weight
  <2>7. REWARD_FACTOR * (0 - e) = 0 - REWARD_FACTOR * e /\ REWARD_FACTOR * (0 - 0) = 0
        /\ up.share * 0 = 0 /\ REWARD_FACTOR * e \in Int /\ (REWARD_FACTOR - 1) * 1 = REWARD_FACTOR - 1
    BY <2>5
  <2>8. PICK fe \in Int, p \in Int : fe = REWARD_FACTOR * e /\ p = amount * up.share
    BY <2>4, <2>7
  <2>9. (0 - fe) + p <= REWARD_FACTOR - 1
    BY <2>4, <2>5, <2>8
  <2>10. Weight(new, up.share) = (0 - fe) + p /\ Weight(NoStake, up.share) = 0
    BY <2>4, <2>6, <2>7, <2>8
  <2>11. Weight(new, up.share)
           <= Weight(NoStake, up.share) + (REWARD_FACTOR - 1) * (new.roundings - NoStake.roundings)
    BY <1>5, <2>2, <2>5, <2>7, <2>9, <2>10
  <2>12. x.total = up.total + (new.lp - NoStake.lp) /\ REWARD_FACTOR * new.debt <= new.lp * up.share
    BY <1>1, <1>5, <1>9, <2>2, <2>3, <2>4
  <2>13. NoStake = IF Has(stakes, i, k0) THEN Item(stakes, i, k0) ELSE NoStake
    BY <1>7
  <2> QED
    BY <1>5, <1>7, <1>9, <2>1, <2>2, <2>11, <2>12, <2>13, MiningFacts, StakeStep
<1> QED
  BY <1>1, <1>5, <1>7, <1>9, <1>10, <1>11, <1>12, StakeCall

(* The stake and the pool a call finds, and the LP tokens behind the stake. *)
LEMMA StakeFound ==
  ASSUME MiningInv, NEW who \in User, NEW i \in Index, NEW n \in 1..MaxStakes, HasStake(who, i, n)
  PROVE  /\ n \in DOMAIN stakes[<<who, i>>] /\ stakes[<<who, i>>][n] \in StakeUser
         /\ i \in DOMAIN stakePools
         /\ stakes[<<who, i>>][n].grade \in DOMAIN stakePools[i]
         /\ stakePools[i][stakes[<<who, i>>][n].grade] \in StakePool
         /\ stakes[<<who, i>>][n].lp <= lp.free[MiningAccount]
         /\ lp.free[MiningAccount] \in Nat
         /\ \A key \in User \X Index : Len(stakes[key]) <= MaxStakes
<1>1. /\ i \in DOMAIN stakePools /\ n \in DOMAIN stakes[<<who, i>>]
      /\ stakes[<<who, i>>][n].grade \in DOMAIN stakePools[i]
  BY DEF HasStake, HasPool
<1>2. stakes[<<who, i>>] \in Seq(StakeUser) /\ stakePools[i] \in Seq(StakePool)
  BY <1>1, MiningFacts DEF Table, Pools
<1>3. PICK k \in Slot : k = <<who, n>>
  BY DEF Slot
<1>4. Has(stakes, i, k) /\ Item(stakes, i, k) = stakes[<<who, i>>][n]
  BY <1>1, <1>3 DEF Has, Item
<1>5. PICK ik \in Index \X Slot : ik = <<i, k>>
  OBVIOUS
<1>6. LpIn(stakes)[ik] = stakes[<<who, i>>][n].lp
  BY <1>4, <1>5 DEF LpIn
<1>7. stakes[<<who, i>>][n].lp <= AllLp(stakes)
  BY <1>6, MiningFacts, LpInType
<1> QED
  BY <1>1, <1>2, <1>7, MiningFacts DEF MiningInv

(* What a stake can draw: while no pool was removed, exactly the difference *)
(* of what it has earned and its debt.                                      *)
LEMMA RewardFacts ==
  ASSUME NEW s \in StakeUser, NEW sp \in StakePool
  PROVE  /\ WithdrawReward(s, sp) \in Nat
         /\ REWARD_FACTOR * s.debt <= s.lp * sp.share =>
              s.debt <= Earned(s.lp, sp) /\ WithdrawReward(s, sp) = Earned(s.lp, sp) - s.debt
<1>1. s.lp \in Nat /\ s.debt \in Nat /\ REWARD_FACTOR \in Nat \ {0} /\ sp.share \in Nat
  BY MiningAssumption DEF StakeUser, StakePool
<1>2. PICK e \in Nat : e = Earned(s.lp, sp)
  BY <1>1, EarnedFacts
<1>3. s.lp * sp.share <= REWARD_FACTOR * e + (REWARD_FACTOR - 1) /\ s.lp * sp.share \in Nat
  BY <1>1, <1>2, EarnedFacts
<1>4. PICK d \in Int : d = e - s.debt
  BY <1>1
<1>5. WithdrawReward(s, sp) = IF d >= 0 THEN d ELSE 0
  <2>1. Max({d, 0}) = IF d >= 0 THEN d ELSE 0
    BY MinMaxOfTwo
  <2> QED
    BY <1>2, <1>4, <2>1 DEF WithdrawReward
<1>6. ASSUME REWARD_FACTOR * s.debt <= s.lp * sp.share PROVE s.debt <= e
  <2>1. SUFFICES ASSUME e + 1 <= s.debt PROVE FALSE
    BY <1>1
  <2>2. (e + 1) * REWARD_FACTOR <= s.debt * REWARD_FACTOR
    BY <1>1, <2>1, MulMono
  <2>3. (e + 1) * REWARD_FACTOR = REWARD_FACTOR * e + REWARD_FACTOR
        /\ s.debt * REWARD_FACTOR = REWARD_FACTOR * s.debt
        /\ REWARD_FACTOR * e \in Int /\ REWARD_FACTOR * s.debt \in Int
    BY <1>1
  <2> QED
    BY <1>1, <1>3, <1>6, <2>2, <2>3
<1> QED
  BY <1>1, <1>2, <1>4, <1>5, <1>6

(* The weight of a stake after its reward is drawn and left tokens remain.  *)
LEMMA DrawnWeight ==
  ASSUME NEW s \in StakeUser, NEW sp \in StakePool, NEW left \in Nat, NEW new \in StakeUser,
         REWARD_FACTOR * s.debt <= s.lp * sp.share,
         new.lp = left, new.debt = Earned(left, sp),
         new.claimed = s.claimed + WithdrawReward(s, sp)
  PROVE  /\ REWARD_FACTOR * new.debt <= new.lp * sp.share
         /\ Weight(new, sp.share) <= Weight(s, sp.share) + (REWARD_FACTOR - 1)
         /\ left = s.lp => Weight(new, sp.share) <= Weight(s, sp.share)
<1> DEFINE F == REWARD_FACTOR
<1>1. /\ s.lp \in Nat /\ s.debt \in Nat /\ s.claimed \in Nat /\ F \in Nat \ {0} /\ sp.share \in Nat
  BY MiningAssumption DEF StakeUser, StakePool
<1>2. PICK e \in Nat, r \in Nat : e = Earned(s.lp, sp) /\ r = Earned(left, sp)
  BY <1>1, EarnedFacts
<1>3. /\ F * e <= s.lp * sp.share /\ s.lp * sp.share = sp.share * s.lp
      /\ F * r <= left * sp.share /\ left * sp.share <= F * r + (F - 1)
      /\ left * sp.share = sp.share * left
  BY <1>1, <1>2, EarnedFacts
<1>4. WithdrawReward(s, sp) = e - s.debt
  BY <1>2, RewardFacts
<1>5. /\ Weight(new, sp.share) = F * ((s.claimed + (e - s.debt)) - r) + sp.share * left
      /\ Weight(s, sp.share) = F * (s.claimed - s.debt) + sp.share * s.lp
  BY <1>2, <1>4 DEF Weight
<1>6. PICK c \in Int, d \in Int, fe \in Int, fr \in Int, p \in Int, q \in Int :
        /\ c = F * s.claimed /\ d = F * s.debt /\ fe = F * e /\ fr = F * r
        /\ p = sp.share * s.lp /\ q = sp.share * left
  BY <1>1
<1> HIDE DEF F
<1>7. /\ F * ((s.claimed + (e - s.debt)) - r) = F * s.claimed + F * e - F * s.debt - F * r
      /\ F * (s.claimed - s.debt) = F * s.claimed - F * s.debt
  BY <1>1
<1>8. Weight(new, sp.share) = (c + fe - d - fr) + q /\ Weight(s, sp.share) = (c - d) + p
  BY <1>5, <1>6, <1>7
<1>9. fe <= p /\ fr <= q /\ q <= fr + (F - 1)
  BY <1>3, <1>6
<1>10. (c + fe - d - fr) + q <= (c - d) + p + (F - 1)
  BY <1>1, <1>9
<1>11. ASSUME left = s.lp PROVE (c + fe - d - fr) + q <= (c - d) + p
  <2>1. fr = fe /\ q = p
    BY <1>2, <1>6, <1>11
  <2> QED
    BY <2>1
<1>12. REWARD_FACTOR * new.debt <= new.lp * sp.share
  BY <1>2, <1>3 DEF F
<1> QED
  BY <1>8, <1>10, <1>11, <1>12 DEF F

LEMMA WithdrawKeeps ==
  ASSUME MiningInv, NEW who \in User, NEW i \in Index, NEW n \in 1..MaxStakes,
         NEW amount \in StakeAmount, Withdraw(who, i, n, amount)
  PROVE  MiningInv'
<1>1. amount \in Nat /\ HasStake(who, i, n)
  BY MiningAssumption DEF Withdraw
<1>2. PICK s \in StakeUser : s = stakes[<<who, i>>][n]
  BY <1>1, StakeFound
<1>3. PICK g : g = s.grade
  OBVIOUS
<1>4. PICK sp \in StakePool : sp = stakePools[i][g]
  BY <1>1, <1>2, <1>3, StakeFound
<1>5. PICK up \in StakePool : up = Updated(sp)
  BY MiningFacts, UpdatedFacts
<1>6. PICK reward \in Nat : reward = WithdrawReward(s, up)
  BY RewardFacts
<1>7. amount <= s.lp /\ s.lp <= sp.total /\ up.total = sp.total
  BY <1>2, <1>3, <1>4, <1>5, MiningFacts, UpdatedFacts DEF Withdraw
<1>8. s.lp \in Nat /\ s.claimed \in Nat /\ s.roundings \in Nat /\ up.total \in Nat
  BY DEF StakeUser, StakePool
<1>9. PICK left \in Nat : left = s.lp - amount
  BY <1>1, <1>7, <1>8
<1>10. PICK new : new = [s EXCEPT !.lp = left, !.debt = Earned(left, up),
                                  !.claimed = @ + reward, !.roundings = @ + 1]
  OBVIOUS
<1>11. /\ new \in StakeUser /\ new.grade = g /\ new.lp = left /\ new.debt = Earned(left, up)
       /\ new.claimed = s.claimed + reward /\ new.roundings = s.roundings + 1
  <2>1. PICK d \in Nat, c \in Nat, r \in Nat :
          d = Earned(left, up) /\ c = s.claimed + reward /\ r = s.roundings + 1
    <3>1. Earned(left, up) \in Nat
      BY EarnedFacts
    <3> QED
      BY <1>8, <3>1
  <2>2. new = [s EXCEPT !.lp = left, !.debt = d, !.claimed = c, !.roundings = r]
    BY <1>10, <2>1
  <2>3. new \in StakeUser /\ new.grade = s.grade /\ new.lp = left /\ new.debt = d
        /\ new.claimed = c /\ new.roundings = r
    BY <2>2 DEF StakeUser
  <2> QED
    BY <1>3, <2>1, <2>3
<1>12. PICK x : x = [up EXCEPT !.total = @ - amount]
  OBVIOUS
<1>13. x \in StakePool /\ x.share = up.share /\ x.issued = up.issued /\ x.total = up.total - amount
  <2>1. up.total - amount \in Nat
    BY <1>1, <1>7, <1>8
  <2> QED
    BY <1>12, <2>1 DEF StakePool
<1> DEFINE st2 == SetItem(stakes, <<who, i>>, n, new)
           k0 == <<who, n>>
<1>14. /\ st2 \in Table /\ k0 \in Slot
       /\ OneSlotChanged(stakes, st2, i, k0)
       /\ Has(stakes, i, k0) /\ Item(stakes, i, k0) = s /\ Item(st2, i, k0) = new
       /\ \A key \in User \X Index : Len(st2[key]) <= MaxStakes
  BY <1>1, <1>2, <1>3, <1>11, MiningFacts, StakeFound, ReplacedSlot
<1>15. stakes' = st2
  BY <1>2, <1>3, <1>4, <1>5, <1>6, <1>9, <1>10 DEF Withdraw, SetItem
<1> HIDE DEF st2, k0
<1>16. /\ stakePools' = SetItem(stakePools, i, g, x)
       /\ lp' = LP!Transferred(lp, MiningAccount, who, amount)
       /\ UNCHANGED <<block, depositAllowed, shifted>>
  BY <1>2, <1>3, <1>4, <1>5, <1>12 DEF Withdraw, SetItem
<1>17. Shape(lp') /\ lp'.free[MiningAccount] = AllLp(st2)
  <2>1. AllLp(st2) = AllLp(stakes) + (left - s.lp)
    BY <1>11, <1>14, MiningFacts, AllLpChange
  <2>2. Shape(lp) /\ lp.free[MiningAccount] = AllLp(stakes) /\ AllLp(stakes) \in Int
    BY MiningFacts DEF MiningInv
  <2>3. Shape(lp') /\ lp'.free[MiningAccount] = lp.free[MiningAccount] - amount
    BY <1>1, <1>16, <2>2, Accounts, LpMoved
  <2> QED
    BY <1>1, <1>8, <1>9, <2>1, <2>2, <2>3
<1>18. ASSUME ~shifted PROVE Covered(st2, x, i, g)
  <2>1. Covered(stakes, sp, i, g)
    BY <1>1, <1>2, <1>3, <1>4, <1>18, StakeFound DEF MiningInv, AllCovered
  <2>2. Covered(stakes, up, i, g)
    BY <1>5, <2>1, MiningFacts, UpdatedCovered
  <2>3. REWARD_FACTOR * s.debt <= s.lp * up.share
    BY <1>3, <1>14, <2>2 DEF Covered, Of
  <2>4. /\ REWARD_FACTOR * new.debt <= new.lp * up.share
        /\ Weight(new, up.share) <= Weight(s, up.share) + (REWARD_FACTOR - 1)
    BY <1>6, <1>11, <2>3, DrawnWeight
  <2>5. new.roundings - s.roundings = 1 /\ x.total = up.total + (new.lp - s.lp)
    BY <1>1, <1>8, <1>9, <1>11, <1>13
  <2>6. REWARD_FACTOR - 1 = (REWARD_FACTOR - 1) * 1
    BY MiningAssumption
  <2>7. Weight(new, up.share)
          <= Weight(s, up.share) + (REWARD_FACTOR - 1) * (new.roundings - s.roundings)
    BY <2>4, <2>5, <2>6
  <2>8. s = IF Has(stakes, i, k0) THEN Item(stakes, i, k0) ELSE NoStake
    BY <1>14
  <2> QED
    BY <1>11, <1>13, <1>14, <2>2, <2>4, <2>5, <2>7, <2>8, MiningFacts, StakeStep
<1>19. i \in DOMAIN stakePools /\ g \in DOMAIN stakePools[i]
  BY <1>1, <1>2, <1>3, StakeFound
<1> QED
  BY <1>11, <1>13, <1>14, <1>15, <1>16, <1>17, <1>18, <1>19, StakeCall

LEMMA ClaimKeepsMining ==
  ASSUME MiningInv, NEW who \in User, NEW i \in Index, NEW n \in 1..MaxStakes,
         ClaimReward(who, i, n)
  PROVE  MiningInv'
<1>1. HasStake(who, i, n)
  BY DEF ClaimReward
<1>2. PICK s \in StakeUser : s = stakes[<<who, i>>][n]
  BY <1>1, StakeFound
<1>3. PICK g : g = s.grade
  OBVIOUS
<1>4. PICK sp \in StakePool : sp = stakePools[i][g]
  BY <1>1, <1>2, <1>3, StakeFound
<1>5. PICK up \in StakePool : up = Updated(sp)
  BY MiningFacts, UpdatedFacts
<1>6. PICK reward \in Nat : reward = WithdrawReward(s, up)
  BY RewardFacts
<1>8. s.lp \in Nat /\ s.claimed \in Nat /\ s.roundings \in Nat /\ up.total \in Nat
  BY DEF StakeUser, StakePool
<1>10. PICK new : new = [s EXCEPT !.debt = Earned(s.lp, up), !.claimed = @ + reward]
  OBVIOUS
<1>11. /\ new \in StakeUser /\ new.grade = g /\ new.lp = s.lp /\ new.debt = Earned(s.lp, up)
       /\ new.claimed = s.claimed + reward /\ new.roundings = s.roundings
  <2>1. PICK d \in Nat, c \in Nat : d = Earned(s.lp, up) /\ c = s.claimed + reward
    <3>1. Earned(s.lp, up) \in Nat
      BY <1>8, EarnedFacts
    <3> QED
      BY <1>8, <3>1
  <2>2. new = [s EXCEPT !.debt = d, !.claimed = c]
    BY <1>10, <2>1
  <2>3. new \in StakeUser /\ new.grade = s.grade /\ new.lp = s.lp /\ new.debt = d
        /\ new.claimed = c /\ new.roundings = s.roundings
    BY <2>2 DEF StakeUser
  <2> QED
    BY <1>3, <2>1, <2>3
<1> DEFINE st2 == SetItem(stakes, <<who, i>>, n, new)
           k0 == <<who, n>>
<1>14. /\ st2 \in Table /\ k0 \in Slot
       /\ OneSlotChanged(stakes, st2, i, k0)
       /\ Has(stakes, i, k0) /\ Item(stakes, i, k0) = s /\ Item(st2, i, k0) = new
       /\ \A key \in User \X Index : Len(st2[key]) <= MaxStakes
  BY <1>1, <1>2, <1>3, <1>11, MiningFacts, StakeFound, ReplacedSlot
<1>15. stakes' = st2
  BY <1>2, <1>3, <1>4, <1>5, <1>6, <1>10 DEF ClaimReward, SetItem
<1> HIDE DEF st2, k0
<1>16. /\ stakePools' = SetItem(stakePools, i, g, up) /\ lp' = lp
       /\ UNCHANGED <<block, depositAllowed, shifted>>
  BY <1>2, <1>3, <1>4, <1>5 DEF ClaimReward, SetItem
<1>17. Shape(lp') /\ lp'.free[MiningAccount] = AllLp(st2)
  <2>1. AllLp(st2) = AllLp(stakes) + (s.lp - s.lp)
    BY <1>11, <1>14, MiningFacts, AllLpChange
  <2>2. Shape(lp) /\ lp.free[MiningAccount] = AllLp(stakes) /\ AllLp(stakes) \in Int
    BY MiningFacts DEF MiningInv
  <2>3. lp'.free[MiningAccount] = AllLp(st2)
    BY <1>8, <1>16, <2>1, <2>2
  <2> QED
    BY <1>16, <2>2, <2>3
<1>18. ASSUME ~shifted PROVE Covered(st2, up, i, g)
  <2>1. Covered(stakes, sp, i, g)
    BY <1>1, <1>2, <1>3, <1>4, <1>18, StakeFound DEF MiningInv, AllCovered
  <2>2. Covered(stakes, up, i, g)
    BY <1>5, <2>1, MiningFacts, UpdatedCovered
  <2>3. REWARD_FACTOR * s.debt <= s.lp * up.share
    BY <1>3, <1>14, <2>2 DEF Covered, Of
  <2>4. /\ REWARD_FACTOR * new.debt <= new.lp * up.share
        /\ Weight(new, up.share) <= Weight(s, up.share)
    BY <1>6, <1>8, <1>11, <2>3, DrawnWeight
  <2>5. new.roundings - s.roundings = 0 /\ up.total = up.total + (new.lp - s.lp)
    BY <1>8, <1>11
  <2>6. (REWARD_FACTOR - 1) * 0 = 0
    BY MiningAssumption
  <2>7. Weight(s, up.share) \in Int
    <3>1. s.debt \in Int /\ up.share \in Int /\ REWARD_FACTOR \in Int
      BY MiningAssumption DEF StakeUser, StakePool
    <3> QED
      BY <1>8, <3>1 DEF Weight
  <2>9. Weight(new, up.share)
          <= Weight(s, up.share) + (REWARD_FACTOR - 1) * (new.roundings - s.roundings)
    BY <2>4, <2>5, <2>6, <2>7
  <2>8. s = IF Has(stakes, i, k0) THEN Item(stakes, i, k0) ELSE NoStake
    BY <1>14
  <2> QED
    BY <1>11, <1>14, <2>2, <2>4, <2>5, <2>8, <2>9, MiningFacts, StakeStep
<1>19. i \in DOMAIN stakePools /\ g \in DOMAIN stakePools[i]
  BY <1>1, <1>2, <1>3, StakeFound
<1> QED
  BY <1>11, <1>14, <1>15, <1>16, <1>17, <1>18, <1>19, StakeCall

LEMMA EmergencyKeeps ==
  ASSUME MiningInv, NEW who \in User, NEW i \in Index, NEW n \in 1..MaxStakes,
         EmergencyWithdraw(who, i, n)
  PROVE  MiningInv'
<1>1. HasStake(who, i, n)
  BY DEF EmergencyWithdraw
<1>2. PICK s \in StakeUser : s = stakes[<<who, i>>][n]
  BY <1>1, StakeFound
<1>3. PICK g : g = s.grade
  OBVIOUS
<1>4. PICK sp \in StakePool : sp = stakePools[i][g]
  BY <1>1, <1>2, <1>3, StakeFound
<1>8. s.lp \in Nat /\ s.debt \in Nat /\ s.claimed \in Nat /\ s.roundings \in Nat /\ sp.total \in Nat
      /\ sp.share \in Nat /\ REWARD_FACTOR \in Nat
  BY MiningAssumption DEF StakeUser, StakePool
<1>10. PICK new : new = [s EXCEPT !.lp = 0, !.debt = 0]
  OBVIOUS
<1>11. /\ new \in StakeUser /\ new.grade = g /\ new.lp = 0 /\ new.debt = 0
       /\ new.claimed = s.claimed /\ new.roundings = s.roundings
  BY <1>3, <1>10 DEF StakeUser
<1>12. PICK x : x = [sp EXCEPT !.total = Max({@ - s.lp, 0})]
  OBVIOUS
<1>13. /\ x \in StakePool /\ x.share = sp.share /\ x.issued = sp.issued
       /\ s.lp <= sp.total => x.total = sp.total - s.lp
  <2>1. PICK d \in Int : d = sp.total - s.lp
    BY <1>8
  <2>2. Max({d, 0}) = IF d >= 0 THEN d ELSE 0
    BY MinMaxOfTwo
  <2>3. PICK m \in Nat : m = Max({sp.total - s.lp, 0}) /\ (s.lp <= sp.total => m = sp.total - s.lp)
    BY <1>8, <2>1, <2>2
  <2>4. x = [sp EXCEPT !.total = m]
    BY <1>12, <2>3
  <2>5. x \in StakePool /\ x.share = sp.share /\ x.issued = sp.issued /\ x.total = m
    BY <2>4 DEF StakePool
  <2> QED
    BY <2>3, <2>5
<1> DEFINE st2 == SetItem(stakes, <<who, i>>, n, new)
           k0 == <<who, n>>
<1>14. /\ st2 \in Table /\ k0 \in Slot
       /\ OneSlotChanged(stakes, st2, i, k0)
       /\ Has(stakes, i, k0) /\ Item(stakes, i, k0) = s /\ Item(st2, i, k0) = new
       /\ \A key \in User \X Index : Len(st2[key]) <= MaxStakes
  BY <1>1, <1>2, <1>3, <1>11, MiningFacts, StakeFound, ReplacedSlot
<1>15. stakes' = st2
  BY <1>2, <1>10 DEF EmergencyWithdraw, SetItem
<1> HIDE DEF st2, k0
<1>16. /\ stakePools' = SetItem(stakePools, i, g, x)
       /\ lp' = LP!Transferred(lp, MiningAccount, who, s.lp)
       /\ UNCHANGED <<block, depositAllowed, shifted>>
  BY <1>2, <1>3, <1>4, <1>12 DEF EmergencyWithdraw, SetItem
<1>17. Shape(lp') /\ lp'.free[MiningAccount] = AllLp(st2)
  <2>1. AllLp(st2) = AllLp(stakes) + (0 - s.lp)
    BY <1>11, <1>14, MiningFacts, AllLpChange
  <2>2. Shape(lp) /\ lp.free[MiningAccount] = AllLp(stakes) /\ AllLp(stakes) \in Int
    BY MiningFacts DEF MiningInv
  <2>3. Shape(lp') /\ lp'.free[MiningAccount] = lp.free[MiningAccount] - s.lp
    BY <1>8, <1>16, <2>2, Accounts, LpMoved
  <2> QED
    BY <1>8, <2>1, <2>2, <2>3
<1>18. ASSUME ~shifted PROVE Covered(st2, x, i, g)
  <2>1. Covered(stakes, sp, i, g)
    BY <1>1, <1>2, <1>3, <1>4, <1>18, StakeFound DEF MiningInv, AllCovered
  <2>2. REWARD_FACTOR * s.debt <= s.lp * sp.share
    BY <1>3, <1>14, <2>1 DEF Covered, Of
  <2>3. s.lp <= sp.total
    <3>1. \A k \in Slot : Column(stakes, i, g, LpOf)[k] \in Nat
      <4>1. ASSUME NEW k \in Slot PROVE Column(stakes, i, g, LpOf)[k] \in Nat
        <5>1. CASE Of(stakes, i, g, k)
          <6>1. Item(stakes, i, k) \in StakeUser
            BY <5>1, MiningFacts, ItemType DEF Of
          <6> QED
            BY <5>1, <6>1 DEF Column, LpOf, StakeUser
        <5>2. CASE ~Of(stakes, i, g, k)
          BY <5>2 DEF Column
        <5> QED
          BY <5>1, <5>2
      <4> QED
        BY <4>1
    <3>2. Column(stakes, i, g, LpOf)[k0] = s.lp
      BY <1>3, <1>14 DEF Column, LpOf, Of
    <3>3. Column(stakes, i, g, LpOf)[k0] <= Total(stakes, i, g, LpOf)
      BY <1>14, <3>1, SlotFinite, SumNat DEF Total
    <3> QED
      BY <2>1, <3>2, <3>3 DEF Covered
  <2>4. /\ Weight(new, sp.share) = REWARD_FACTOR * (s.claimed - 0) + sp.share * 0
        /\ Weight(s, sp.share) = REWARD_FACTOR * (s.claimed - s.debt) + sp.share * s.lp
    BY <1>11 DEF Weight
  <2>5. PICK c \in Int, d \in Int, p \in Int :
          c = REWARD_FACTOR * s.claimed /\ d = REWARD_FACTOR * s.debt /\ p = sp.share * s.lp
    BY <1>8
  <2>6. /\ REWARD_FACTOR * (s.claimed - 0) + sp.share * 0 = c
        /\ REWARD_FACTOR * (s.claimed - s.debt) = c - d /\ s.lp * sp.share = p
    BY <1>8, <2>5
  <2>7. Weight(new, sp.share) = c /\ Weight(s, sp.share) = (c - d) + p /\ d <= p
    BY <2>2, <2>4, <2>5, <2>6
  <2>8. new.roundings - s.roundings = 0 /\ (REWARD_FACTOR - 1) * 0 = 0
        /\ x.total = sp.total + (new.lp - s.lp)
    BY <1>8, <1>11, <1>13, <2>3
  <2>9. Weight(new, sp.share)
          <= Weight(s, sp.share) + (REWARD_FACTOR - 1) * (new.roundings - s.roundings)
    BY <2>7, <2>8
  <2>10. s = IF Has(stakes, i, k0) THEN Item(stakes, i, k0) ELSE NoStake
    BY <1>14
  <2>11. REWARD_FACTOR * new.debt <= new.lp * sp.share
    BY <1>8, <1>11
  <2> QED
    BY <1>11, <1>13, <1>14, <2>1, <2>8, <2>9, <2>10, <2>11, MiningFacts, StakeStep
<1>19. i \in DOMAIN stakePools /\ g \in DOMAIN stakePools[i]
  BY <1>1, <1>2, <1>3, StakeFound
<1> QED
  BY <1>11, <1>13, <1>14, <1>15, <1>16, <1>17, <1>18, <1>19, StakeCall

-----------------------------------------------------------------------------
(* Root's calls, the blocks and rdex/swap.                                  *)

(* A new list of pools, or a new pool at the end of one.                    *)
LEMMA IncreaseKeeps ==
  ASSUME MiningInv, IncreasePoolIndex
  PROVE  MiningInv'
<1>1. /\ Len(stakePools) < MaxIndex /\ stakePools' = Append(stakePools, << >>)
      /\ UNCHANGED <<lp, block, stakes, depositAllowed, shifted>>
  BY DEF IncreasePoolIndex, RootUnchanged, swapVars
<1>2. PICK pools \in Pools : pools = stakePools
  BY MiningFacts
<1>3. PICK pools2 : pools2 = Append(pools, << >>)
  OBVIOUS
<1>4. /\ pools2 \in Pools /\ Len(pools2) = Len(pools) + 1 /\ Len(pools) \in Nat
      /\ DOMAIN pools = 1..Len(pools) /\ DOMAIN pools2 = 1..(Len(pools) + 1)
      /\ \A j \in 1..Len(pools) : pools2[j] = pools[j]
      /\ pools2[Len(pools) + 1] = << >>
  <2>1. << >> \in Seq(StakePool)
    OBVIOUS
  <2> QED
    BY <1>3, <2>1 DEF Pools
<1>5. ASSUME ~shifted
      PROVE  Graded(stakes, pools2) /\ AllCovered(stakes, pools2)
  <2>1. Graded(stakes, pools) /\ AllCovered(stakes, pools)
    BY <1>2, <1>5 DEF MiningInv
  <2>2. Graded(stakes, pools2)
    BY <1>4, <2>1 DEF Graded
  <2>3. ASSUME NEW j \in DOMAIN pools2, NEW h \in DOMAIN pools2[j]
        PROVE  Covered(stakes, pools2[j][h], j, h)
    <3>1. j \in DOMAIN pools /\ pools2[j] = pools[j]
      BY <1>4, <2>3
    <3> QED
      BY <2>1, <3>1 DEF AllCovered
  <2> QED
    BY <2>2, <2>3 DEF AllCovered
<1>6. StakeTypes'
  BY <1>1, <1>2, <1>3, <1>4 DEF MiningInv, StakeTypes, Pools
<1>7. Len(stakePools') <= MaxIndex
  <2>1. MaxIndex \in Nat
    BY MiningAssumption
  <2> QED
    BY <1>1, <1>2, <1>3, <1>4, <2>1
<1> QED
  BY <1>1, <1>2, <1>3, <1>5, <1>6, <1>7 DEF MiningInv

(* Nobody has staked in a pool no stake names.                              *)
LEMMA NewPoolCovered ==
  ASSUME NEW st \in Table, NEW i \in Index, NEW g, NEW sp \in StakePool,
         \A k \in Slot : ~Of(st, i, g, k), sp.total = 0, sp.share = 0, sp.issued = 0
  PROVE  Covered(st, sp, i, g)
<1>1. ASSUME NEW v PROVE Total(st, i, g, v) = 0
  <2>1. \A k \in Slot : Column(st, i, g, v)[k] = 0
    BY DEF Column
  <2> QED
    BY <2>1, SlotFinite, SumZero DEF Total
<1>2. REWARD_FACTOR * 0 + 0 * 0 <= REWARD_FACTOR * 0 + (REWARD_FACTOR - 1) * 0
  BY MiningAssumption
<1> QED
  BY <1>1, <1>2 DEF Covered

LEMMA AddPoolKeeps ==
  ASSUME MiningInv, NEW i \in Index, NEW perBlock \in RewardPerBlock, NEW reward \in TotalReward,
         NEW start \in StartBlock, NEW locked \in StakeLock, AddPool(i, start, locked, perBlock, reward)
  PROVE  MiningInv'
<1>1. perBlock \in Nat /\ reward \in Nat /\ start \in Nat /\ locked \in Nat /\ block \in Nat
  BY MiningAssumption, MiningFacts
<1>2. PICK p : p = [emergency |-> FALSE, total |-> 0, start |-> start, perBlock |-> perBlock,
                    reward |-> reward, left |-> reward, locked |-> locked,
                    last |-> Max({block, start}), share |-> 0, issued |-> 0]
  OBVIOUS
<1>3. p \in StakePool /\ p.total = 0 /\ p.share = 0 /\ p.issued = 0
  <2>1. Max({block, start}) \in Nat
    <3>1. PICK b \in Nat : b = block
      BY <1>1
    <3>2. Max({b, start}) = IF b >= start THEN b ELSE start
      BY <1>1, MinMaxOfTwo
    <3> QED
      BY <1>1, <3>1, <3>2
  <2> QED
    BY <1>1, <1>2, <2>1 DEF StakePool
<1>4. /\ i \in DOMAIN stakePools /\ stakePools' = [stakePools EXCEPT ![i] = Append(@, p)]
      /\ UNCHANGED <<lp, block, stakes, depositAllowed, shifted>>
  BY <1>2 DEF AddPool, RootUnchanged, swapVars
<1>5. PICK pools \in Pools : pools = stakePools
  BY MiningFacts
<1>6. PICK list \in Seq(StakePool) : list = pools[i]
  BY <1>4, <1>5 DEF Pools
<1>7. PICK longer : longer = Append(list, p)
  OBVIOUS
<1>8. /\ longer \in Seq(StakePool) /\ Len(list) \in Nat /\ DOMAIN list = 1..Len(list)
      /\ DOMAIN longer = 1..(Len(list) + 1)
      /\ \A h \in 1..Len(list) : longer[h] = list[h]
      /\ longer[Len(list) + 1] = p
  BY <1>3, <1>7
<1>9. PICK pools2 : pools2 = [pools EXCEPT ![i] = longer]
  OBVIOUS
<1>10. /\ pools2 \in Pools /\ Len(pools2) = Len(pools) /\ DOMAIN pools2 = DOMAIN pools
       /\ pools2[i] = longer /\ \A j \in DOMAIN pools : j # i => pools2[j] = pools[j]
  <2>1. i \in DOMAIN pools
    BY <1>4, <1>5
  <2> QED
    BY <1>8, <1>9, <2>1 DEF Pools
<1>11. stakePools' = pools2
  BY <1>4, <1>5, <1>6, <1>7, <1>9
<1>12. ASSUME ~shifted
       PROVE  Graded(stakes, pools2) /\ AllCovered(stakes, pools2)
  <2>1. Graded(stakes, pools) /\ AllCovered(stakes, pools)
    BY <1>5, <1>12 DEF MiningInv
  <2>2. \A j \in DOMAIN pools : DOMAIN pools[j] \subseteq DOMAIN pools2[j]
    BY <1>6, <1>8, <1>10
  <2>3. Graded(stakes, pools2)
    BY <1>10, <2>1, <2>2 DEF Graded
  <2>4. ASSUME NEW j \in DOMAIN pools2, NEW h \in DOMAIN pools2[j]
        PROVE  Covered(stakes, pools2[j][h], j, h)
    <3>1. CASE j # i
      <4>1. j \in DOMAIN pools /\ pools2[j] = pools[j]
        BY <1>10, <3>1
      <4> QED
        BY <2>1, <4>1 DEF AllCovered
    <3>2. CASE j = i /\ h \in DOMAIN list
      <4>1. j \in DOMAIN pools /\ h \in DOMAIN pools[j] /\ pools2[j][h] = pools[j][h]
        BY <1>6, <1>8, <1>10, <3>2
      <4> QED
        BY <2>1, <4>1 DEF AllCovered
    <3>3. CASE j = i /\ h \notin DOMAIN list
      <4>1. h = Len(list) + 1 /\ pools2[j][h] = p
        BY <1>8, <1>10, <2>4, <3>3
      <4>2. \A k \in Slot : ~Of(stakes, i, h, k)
        BY <1>6, <2>1, <3>3 DEF Graded, Of
      <4> QED
        BY <1>3, <3>3, <4>1, <4>2, MiningFacts, NewPoolCovered
    <3> QED
      BY <3>1, <3>2, <3>3
  <2> QED
    BY <2>3, <2>4 DEF AllCovered
<1>13. StakeTypes'
  BY <1>4, <1>10, <1>11 DEF MiningInv, StakeTypes, Pools
<1>14. Len(stakePools') <= MaxIndex
  BY <1>5, <1>10, <1>11 DEF MiningInv
<1> QED
  BY <1>4, <1>11, <1>12, <1>13, <1>14 DEF MiningInv

(* A pool whose figures of Covered root leaves alone.                       *)
LEMMA PoolSetting ==
  ASSUME MiningInv, NEW i \in DOMAIN stakePools, NEW g \in DOMAIN stakePools[i],
         NEW x \in StakePool, x.share = stakePools[i][g].share,
         x.total = stakePools[i][g].total, x.issued = stakePools[i][g].issued,
         stakePools' = SetItem(stakePools, i, g, x),
         UNCHANGED <<lp, block, stakes, depositAllowed, shifted>>
  PROVE  MiningInv'
<1>1. stakes \in Table /\ stakePools \in Pools
  BY MiningFacts
<1>2. stakePools' \in Pools /\ Len(stakePools') = Len(stakePools)
  BY <1>1, PoolReplaced
<1>3. StakeTypes'
  BY <1>2 DEF MiningInv, StakeTypes, Pools
<1>4. Len(stakePools') <= MaxIndex
  BY <1>2 DEF MiningInv
<1>5. ASSUME ~shifted PROVE Graded(stakes, stakePools') /\ AllCovered(stakes, stakePools')
  BY <1>1, <1>5, PoolOnly DEF MiningInv
<1> QED
  BY <1>3, <1>4, <1>5 DEF MiningInv

LEMMA UpdateStakePoolKeeps ==
  ASSUME MiningInv, NEW i \in Index, NEW g \in 1..MaxGrade, NEW perBlock \in RewardPerBlock,
         NEW reward \in TotalReward, UpdateStakePool(i, g, perBlock, reward)
  PROVE  MiningInv'
<1>1. i \in DOMAIN stakePools /\ g \in DOMAIN stakePools[i]
  BY DEF UpdateStakePool, HasPool
<1>2. PICK sp \in StakePool : sp = stakePools[i][g]
  BY <1>1, MiningFacts DEF Pools
<1>3. perBlock \in Nat /\ reward \in Nat /\ sp.left \in Nat /\ sp.reward \in Nat
  BY MiningAssumption DEF StakePool
<1>4. PICK d \in Int : d = sp.left + reward - sp.reward
  BY <1>3
<1>5. PICK left \in Nat : left = Max({sp.left + reward - sp.reward, 0})
  <2>1. Max({d, 0}) = IF d >= 0 THEN d ELSE 0
    BY MinMaxOfTwo
  <2> QED
    BY <1>4, <2>1
<1>6. PICK x : x = [sp EXCEPT !.perBlock = perBlock, !.reward = reward, !.left = left]
  OBVIOUS
<1>7. x \in StakePool /\ x.share = sp.share /\ x.total = sp.total /\ x.issued = sp.issued
  BY <1>3, <1>6 DEF StakePool
<1>8. /\ stakePools' = SetItem(stakePools, i, g, x)
      /\ UNCHANGED <<lp, block, stakes, depositAllowed, shifted>>
  BY <1>2, <1>5, <1>6 DEF UpdateStakePool, RootUnchanged, swapVars, SetItem
<1> QED
  BY <1>1, <1>2, <1>7, <1>8, PoolSetting

LEMMA EmergencySwitchKeeps ==
  ASSUME MiningInv, NEW i \in Index, NEW g \in 1..MaxGrade, EmergencySwitch(i, g)
  PROVE  MiningInv'
<1>1. i \in DOMAIN stakePools /\ g \in DOMAIN stakePools[i]
  BY DEF EmergencySwitch, HasPool
<1>2. PICK sp \in StakePool : sp = stakePools[i][g]
  BY <1>1, MiningFacts DEF Pools
<1>3. PICK x : x = [sp EXCEPT !.emergency = ~@]
  OBVIOUS
<1>4. x \in StakePool /\ x.share = sp.share /\ x.total = sp.total /\ x.issued = sp.issued
  BY <1>3 DEF StakePool
<1>5. /\ stakePools' = SetItem(stakePools, i, g, x)
      /\ UNCHANGED <<lp, block, stakes, depositAllowed, shifted>>
  BY <1>2, <1>3 DEF EmergencySwitch, RootUnchanged, swapVars, SetItem
<1> QED
  BY <1>1, <1>2, <1>4, <1>5, PoolSetting

LEMMA RmPoolKeeps ==
  ASSUME MiningInv, NEW i \in Index, NEW g \in 1..MaxGrade, RmPool(i, g)
  PROVE  MiningInv'
<1>1. /\ i \in DOMAIN stakePools /\ g \in DOMAIN stakePools[i]
      /\ stakePools' = [stakePools EXCEPT ![i] = RemoveAt(@, g)] /\ shifted'
      /\ UNCHANGED <<lp, block, stakes, depositAllowed>>
  BY DEF RmPool, HasPool, RootUnchanged, swapVars
<1>2. PICK list \in Seq(StakePool) : list = stakePools[i]
  BY <1>1, MiningFacts DEF Pools
<1>3. RemoveAt(list, g) \in Seq(StakePool)
  <2>1. g \in 1..Len(list) /\ Len(list) \in Nat
    BY <1>1, <1>2
  <2>2. SubSeq(list, 1, g - 1) \in Seq(StakePool) /\ SubSeq(list, g + 1, Len(list)) \in Seq(StakePool)
    BY <2>1
  <2> QED
    BY <2>2 DEF RemoveAt
<1>4. PICK shorter \in Seq(StakePool) : shorter = RemoveAt(list, g)
  BY <1>3
<1>5. stakePools' = [stakePools EXCEPT ![i] = shorter]
  BY <1>1, <1>2, <1>4
<1>6. stakePools' \in Pools /\ Len(stakePools') = Len(stakePools)
  BY <1>1, <1>5, MiningFacts DEF Pools
<1>7. StakeTypes'
  BY <1>1, <1>6 DEF MiningInv, StakeTypes, Pools
<1> QED
  BY <1>1, <1>6, <1>7 DEF MiningInv

(* What no call changes here.                                               *)
LEMMA MiningIdle ==
  ASSUME MiningInv, UNCHANGED <<stakePools, stakes, shifted>>,
         block' \in 0..MaxBlock, depositAllowed' \in Allowance,
         Shape(lp'), lp'.free[MiningAccount] = lp.free[MiningAccount]
  PROVE  MiningInv'
<1>1. StakeTypes'
  BY DEF MiningInv, StakeTypes
<1>2. Shape(lp)' /\ lp'.free[MiningAccount] = AllLp(stakes)
  BY DEF MiningInv
<1> QED
  BY <1>1, <1>2 DEF MiningInv

LEMMA AllowedType ==
  ASSUME NEW a \in Allowance, NEW b, Allowed(a, b)
  PROVE  b \in Allowance
BY DEF Allowed, Allowance

(* Min of a finite set of naturals.                                         *)
LEMMA MinOfThree ==
  ASSUME NEW a \in Nat, NEW b \in Nat, NEW c \in Nat
  PROVE  Min({a, b, c}) \in Nat /\ Min({a, b, c}) <= a /\ Min({a, b, c}) <= b /\ Min({a, b, c}) <= c
<1>1. \E x \in {a, b, c} : \A y \in {a, b, c} : x <= y
  <2>1. CASE a <= b /\ a <= c
    BY <2>1
  <2>2. CASE b <= a /\ b <= c
    BY <2>2
  <2>3. CASE c <= a /\ c <= b
    BY <2>3
  <2> QED
    BY <2>1, <2>2, <2>3
<1>2. Min({a, b, c}) \in {a, b, c} /\ \A y \in {a, b, c} : Min({a, b, c}) <= y
  BY <1>1 DEF Min
<1> QED
  BY <1>2

(* The calls of rdex/swap keep off the mining account's LP tokens.          *)
LEMMA SwapKeepsMining ==
  ASSUME MiningInv, SwapNext, UNCHANGED miningVars
  PROVE  MiningInv'
<1>1. Shape(lp)
  BY DEF MiningInv
<1>2. \/ lp' = lp
      \/ \E who \in User : \E value : lp' = LP!Minted(lp, who, value) \/ lp' = LP!Burned(lp, who, value)
  <2>1. ASSUME NEW who \in User, NEW x \in SwapAmount, SwapFis(who, x) \/ SwapRtoken(who, x)
        PROVE  lp' = lp
    BY <2>1 DEF SwapFis, SwapRtoken
  <2>2. ASSUME NEW who \in User, NEW f, NEW r, AddLiquidity(who, f, r) \/ CreatePool(who, f, r)
        PROVE  \E value : lp' = LP!Minted(lp, who, value)
    BY <2>2 DEF AddLiquidity, CreatePool, Provide
  <2>3. ASSUME NEW who \in User, NEW u \in Units, NEW s \in Units \cup {0}, NEW isFis \in BOOLEAN,
               RemoveLiquidity(who, u, s, isFis)
        PROVE  lp' = LP!Burned(lp, who, u)
    BY <2>3 DEF RemoveLiquidity
  <2>4. AllowLp => lp' = lp
    BY DEF AllowLp
  <2> QED
    BY <2>1, <2>2, <2>3, <2>4 DEF SwapNext
<1>3. Shape(lp') /\ lp'.free[MiningAccount] = lp.free[MiningAccount]
  BY <1>1, <1>2, ShapeKept
<1>4. UNCHANGED <<stakePools, stakes, shifted, block, depositAllowed>>
  BY DEF miningVars
<1> QED
  BY <1>3, <1>4, MiningIdle DEF MiningInv, StakeTypes

LEMMA MiningInit == Init => MiningInv
<1> SUFFICES ASSUME Init PROVE MiningInv
  OBVIOUS
<1>1. /\ block = 0 /\ stakePools = << >> /\ stakes = [k \in User \X Index |-> << >>] /\ ~shifted
      /\ shifted \in BOOLEAN /\ depositAllowed = [switch |-> FALSE, whitelist |-> {}]
      /\ lp = LP!NoTokens
  BY DEF Init, SwapInit
<1>2. StakeTypes
  <2>1. 0 \in 0..MaxBlock
    BY MiningAssumption
  <2>2. << >> \in Seq(StakeUser) /\ << >> \in Pools
    BY DEF Pools
  <2> QED
    BY <1>1, <2>1, <2>2 DEF StakeTypes, Table, Allowance
<1>3. Len(stakePools) <= MaxIndex /\ \A key \in User \X Index : Len(stakes[key]) <= MaxStakes
  <2>1. MaxIndex \in Nat /\ MaxStakes \in Nat /\ Len(<< >>) = 0
    BY MiningAssumption
  <2> QED
    BY <1>1, <2>1
<1>4. ASSUME NEW j \in Index, NEW k \in Slot PROVE ~Has(stakes, j, k)
  <2>1. k[1] \in User
    BY DEF Slot
  <2>2. stakes[<<k[1], j>>] = << >>
    BY <1>1, <2>1
  <2> QED
    BY <2>2 DEF Has
<1>5. AllLp(stakes) = 0
  <2>1. ASSUME NEW ik \in Index \X Slot PROVE LpIn(stakes)[ik] = 0
    BY <1>4 DEF LpIn
  <2> QED
    BY <2>1, SlotFinite, SumZero DEF AllLp
<1>6. Shape(lp) /\ lp.free[MiningAccount] = 0
  BY <1>1, Accounts DEF Shape, LP!NoTokens
<1>7. Graded(stakes, stakePools) /\ AllCovered(stakes, stakePools)
  BY <1>1, <1>4 DEF Graded, AllCovered
<1> QED
  BY <1>2, <1>3, <1>5, <1>6, <1>7 DEF MiningInv

LEMMA MiningNext == MiningInv /\ [Next]_vars => MiningInv'
<1> SUFFICES ASSUME MiningInv, [Next]_vars PROVE MiningInv'
  OBVIOUS
<1>1. CASE SwapNext /\ UNCHANGED miningVars
  BY <1>1, SwapKeepsMining
<1>2. CASE MiningCall
  BY <1>2, DepositKeeps, WithdrawKeeps, ClaimKeepsMining, EmergencyKeeps DEF MiningCall
<1>3. Shape(lp) /\ block \in 0..MaxBlock /\ depositAllowed \in Allowance
  BY DEF MiningInv, StakeTypes
<1>4. CASE MiningRoot
  <2>1. ASSUME NEW amount \in Guard,
               SetGuardReserve(amount) \/ \E to \in User : WithdrawGuardFund(to, amount)
        PROVE  UNCHANGED <<lp, stakePools, stakes, shifted, block, depositAllowed>>
    BY <2>1 DEF SetGuardReserve, WithdrawGuardFund, RootUnchanged, swapVars
  <2>2. ASSUME AllowDeposit
        PROVE  /\ UNCHANGED <<lp, stakePools, stakes, shifted, block>>
               /\ depositAllowed' \in Allowance
    BY <1>3, <2>2, AllowedType DEF AllowDeposit, RootUnchanged, swapVars
  <2> QED
    BY <1>3, <1>4, <2>1, <2>2, IncreaseKeeps, AddPoolKeeps, UpdateStakePoolKeeps, RmPoolKeeps,
       EmergencySwitchKeeps, MiningIdle DEF MiningRoot
<1>5. CASE NextBlock
  <2>1. block' \in 0..MaxBlock
    <3>1. MaxBlock \in Nat
      BY MiningAssumption
    <3> QED
      BY <1>3, <1>5, <3>1 DEF NextBlock
  <2>2. UNCHANGED <<lp, stakePools, stakes, shifted, depositAllowed>>
    BY <1>5 DEF NextBlock, swapVars
  <2> QED
    BY <1>3, <2>1, <2>2, MiningIdle
<1>6. CASE UNCHANGED vars
  BY <1>3, <1>6, MiningIdle DEF vars, miningVars, swapVars
<1> QED
  BY <1>1, <1>2, <1>4, <1>5, <1>6 DEF Next

(* The sums of the properties are those of the invariant.                   *)
LEMMA StakedIsTotal ==
  ASSUME NEW i, NEW g, stakes \in Table, i \in Index
  PROVE  /\ Staked(i, g) = Total(stakes, i, g, LpOf)
         /\ Slack(i, g) = Total(stakes, i, g, RoundingsOf)
<1>1. ASSUME NEW k \in Slot
      PROVE  /\ InPool(i, g, k) <=> Of(stakes, i, g, k)
             /\ StakeAt(i, k) = Item(stakes, i, k)
             /\ Of(stakes, i, g, k) => Item(stakes, i, k) \in StakeUser
  BY ItemType DEF InPool, Taken, StakeAt, Of, Has, Item
<1>2. Staked(i, g) = Total(stakes, i, g, LpOf)
  <2> DEFINE a == [k \in Slot |-> IF InPool(i, g, k) THEN StakeAt(i, k).lp ELSE 0]
             b == Column(stakes, i, g, LpOf)
  <2>1. ASSUME NEW k \in Slot PROVE a[k] = b[k]
    BY <1>1 DEF Column, LpOf
  <2>2. DOMAIN a = Slot
    OBVIOUS
  <2>3. Staked(i, g) = SumFunction(a)
    BY DEF Staked
  <2> HIDE DEF a, b
  <2>4. SumFunctionOnSet(a, Slot) = SumFunctionOnSet(b, Slot)
    BY <2>1, SlotFinite, SumSame
  <2> QED
    BY <2>2, <2>3, <2>4, SumOfFunction DEF Total, b
<1>3. Slack(i, g) = Total(stakes, i, g, RoundingsOf)
  <2> DEFINE a == [k \in Slot |-> IF InPool(i, g, k) THEN StakeAt(i, k).roundings ELSE 0]
             b == Column(stakes, i, g, RoundingsOf)
  <2>1. ASSUME NEW k \in Slot PROVE a[k] = b[k]
    BY <1>1 DEF Column, RoundingsOf
  <2>2. DOMAIN a = Slot
    OBVIOUS
  <2>3. Slack(i, g) = SumFunction(a)
    BY DEF Slack
  <2> HIDE DEF a, b
  <2>4. SumFunctionOnSet(a, Slot) = SumFunctionOnSet(b, Slot)
    BY <2>1, SlotFinite, SumSame
  <2> QED
    BY <2>2, <2>3, <2>4, SumOfFunction DEF Total, b
<1> QED
  BY <1>2, <1>3

(* The mining account holds the LP tokens of all stakes, and until a pool   *)
(* is removed each pool's total is the sum of its stakes, for any users,    *)
(* lists, grades and amounts (deposit, withdraw, emergency_withdraw).       *)
THEOREM StakesSound == Spec => []StakesAddUp
<1>1. MiningInv => StakesAddUp
  <2> SUFFICES ASSUME MiningInv PROVE StakesAddUp
    OBVIOUS
  <2>1. SumFunction([ik \in Index \X Slot |->
                      IF Taken(ik[1], ik[2]) THEN StakeAt(ik[1], ik[2]).lp ELSE 0]) = AllLp(stakes)
    <3> DEFINE a == [ik \in Index \X Slot |->
                       IF Taken(ik[1], ik[2]) THEN StakeAt(ik[1], ik[2]).lp ELSE 0]
               T == Index \X Slot
    <3>1. a = LpIn(stakes)
      BY DEF Taken, StakeAt, LpIn, Has, Item
    <3>2. DOMAIN a = T
      OBVIOUS
    <3>3. SumFunction(a) = SumFunctionOnSet(a, T)
      <4> HIDE DEF a, T
      <4> QED
        BY <3>2, SumOfFunction
    <3> QED
      BY <3>1, <3>3 DEF AllLp
  <2>2. ASSUME ~shifted, NEW i \in DOMAIN stakePools, NEW g \in DOMAIN stakePools[i]
        PROVE  stakePools[i][g].total = Staked(i, g)
    BY <2>2, MiningFacts, StakedIsTotal DEF MiningInv, AllCovered, Covered
  <2> QED
    BY <2>1, <2>2 DEF StakesAddUp, MiningInv
<1> QED
  BY MiningInit, MiningNext, <1>1, PTL DEF Spec

(* What the stakes of a covered pool have got and can get.                  *)
LEMMA GotWithin ==
  ASSUME stakes \in Table, NEW i \in DOMAIN stakePools, i \in Index,
         NEW g \in DOMAIN stakePools[i], stakePools[i][g] \in StakePool,
         Covered(stakes, stakePools[i][g], i, g)
  PROVE  Got(i, g) <= stakePools[i][g].issued + Slack(i, g)
<1>0. PICK sp \in StakePool : sp = stakePools[i][g]
  OBVIOUS
<1> DEFINE F == REWARD_FACTOR
           got == [k \in Slot |-> IF InPool(i, g, k)
                    THEN StakeAt(i, k).claimed + WithdrawReward(StakeAt(i, k), stakePools[i][g])
                    ELSE 0]
           net == Column(stakes, i, g, NetOf)
           tokens == Column(stakes, i, g, LpOf)
           zero == [k \in Slot |-> 0]
           scaled == [k \in Slot |-> 0 + F * got[k]]
           worth == [k \in Slot |-> 0 + F * net[k]]
           due == [k \in Slot |-> worth[k] + sp.share * tokens[k]]
<1>1. F \in Nat \ {0} /\ F \in Int /\ sp.share \in Nat /\ sp.issued \in Nat /\ sp.total \in Nat
  BY MiningAssumption DEF StakePool
<1>2. ASSUME NEW k \in Slot
      PROVE  got[k] \in Int /\ net[k] \in Int /\ tokens[k] \in Int
             /\ F * got[k] <= F * net[k] + sp.share * tokens[k]
  <2>1. CASE ~Of(stakes, i, g, k)
    <3>1. got[k] = 0 /\ net[k] = 0 /\ tokens[k] = 0
      BY <2>1 DEF InPool, Taken, StakeAt, Of, Has, Item, Column
    <3> QED
      BY <1>1, <3>1
  <2>2. CASE Of(stakes, i, g, k)
    <3>1. PICK s \in StakeUser : s = Item(stakes, i, k)
      BY <2>2, ItemType DEF Of
    <3>2. s.claimed \in Nat /\ s.debt \in Nat /\ s.lp \in Nat
      BY DEF StakeUser
    <3>3. PICK e \in Nat : e = Earned(s.lp, sp)
      BY <3>2, EarnedFacts
    <3>4. F * s.debt <= s.lp * sp.share
      BY <1>0, <2>2, <3>1 DEF Covered
    <3>5. WithdrawReward(s, sp) = e - s.debt /\ F * e <= sp.share * s.lp
      BY <3>2, <3>3, <3>4, RewardFacts, EarnedFacts
    <3>6. got[k] = s.claimed + (e - s.debt) /\ net[k] = s.claimed - s.debt /\ tokens[k] = s.lp
      BY <1>0, <2>2, <3>1, <3>5 DEF InPool, Taken, StakeAt, Of, Has, Item, Column, NetOf, LpOf
    <3> HIDE DEF got, net, tokens, F
    <3>7. /\ F * (s.claimed + (e - s.debt)) = F * (s.claimed - s.debt) + F * e
          /\ F * (s.claimed - s.debt) \in Int /\ F * e \in Int /\ sp.share * s.lp \in Int
      BY <1>1, <3>2
    <3>8. F * got[k] <= F * net[k] + sp.share * tokens[k]
      BY <3>5, <3>6, <3>7
    <3>9. got[k] \in Int /\ net[k] \in Int /\ tokens[k] \in Int
      BY <3>2, <3>6
    <3> QED
      BY <3>8, <3>9
  <2> QED
    BY <2>1, <2>2
<1>3. DOMAIN got = Slot /\ Got(i, g) = SumFunction(got)
  BY DEF Got
<1> HIDE DEF got, net, tokens, F
<1>4. \A k \in Slot : /\ zero[k] = 0 /\ zero[k] \in Int
                      /\ scaled[k] = 0 + F * got[k] /\ worth[k] = 0 + F * net[k]
                      /\ due[k] = worth[k] + sp.share * tokens[k]
  OBVIOUS
<1>5. \A k \in Slot : worth[k] \in Int /\ scaled[k] \in Int /\ due[k] \in Int /\ scaled[k] <= due[k]
  <2>1. ASSUME NEW k \in Slot
        PROVE  worth[k] \in Int /\ scaled[k] \in Int /\ due[k] \in Int /\ scaled[k] <= due[k]
    <3>1. PICK x \in Int, y \in Int, z \in Int : x = got[k] /\ y = net[k] /\ z = tokens[k]
      BY <1>2, Zenon
    <3>2. F * x \in Int /\ F * y \in Int /\ sp.share * z \in Int
      BY <1>1
    <3>3. F * got[k] \in Int /\ F * net[k] \in Int /\ sp.share * tokens[k] \in Int
      BY <3>1, <3>2, Zenon
    <3>4. PICK a \in Int, b \in Int, c \in Int :
            a = F * got[k] /\ b = F * net[k] /\ c = sp.share * tokens[k]
      BY <3>3, Zenon
    <3>5. a <= b + c
      BY <1>2, <3>4
    <3> QED
      BY <1>4, <3>4, <3>5
  <2> QED
    BY <2>1
<1>6. \A k \in Slot : scaled[k] = zero[k] + F * got[k] /\ worth[k] = zero[k] + F * net[k]
  BY <1>4
<1> HIDE DEF zero, scaled, worth, due
<1>7. SumFunctionOnSet(zero, Slot) = 0
  BY <1>4, SlotFinite, SumZero
<1>8. SumFunctionOnSet(scaled, Slot) = SumFunctionOnSet(zero, Slot) + F * SumFunctionOnSet(got, Slot)
  BY <1>1, <1>2, <1>4, <1>6, SlotFinite, SumLinear
<1>9. SumFunctionOnSet(worth, Slot) = SumFunctionOnSet(zero, Slot) + F * SumFunctionOnSet(net, Slot)
  BY <1>1, <1>2, <1>4, <1>6, SlotFinite, SumLinear
<1>10. SumFunctionOnSet(due, Slot)
         = SumFunctionOnSet(worth, Slot) + sp.share * SumFunctionOnSet(tokens, Slot)
  BY <1>1, <1>2, <1>4, <1>5, SlotFinite, SumLinear
<1>11. SumFunctionOnSet(scaled, Slot) <= SumFunctionOnSet(due, Slot)
  BY <1>5, SlotFinite, SumAtMost
<1>12. PICK sumGot \in Int, sumNet \in Int, slack \in Nat :
         /\ sumGot = SumFunctionOnSet(got, Slot) /\ sumNet = SumFunctionOnSet(net, Slot)
         /\ slack = Slack(i, g)
  <2>1. \A k \in Slot : Column(stakes, i, g, RoundingsOf)[k] \in Nat
    <3>1. ASSUME NEW k \in Slot PROVE Column(stakes, i, g, RoundingsOf)[k] \in Nat
      <4>1. CASE Of(stakes, i, g, k)
        <5>1. Item(stakes, i, k) \in StakeUser
          BY <4>1, ItemType DEF Of
        <5> QED
          BY <4>1, <5>1 DEF Column, RoundingsOf, StakeUser
      <4>2. CASE ~Of(stakes, i, g, k)
        BY <4>2 DEF Column
      <4> QED
        BY <4>1, <4>2
    <3> QED
      BY <3>1
  <2>2. Slack(i, g) \in Nat
    BY <2>1, SlotFinite, SumNat, StakedIsTotal DEF Total
  <2>3. SumFunctionOnSet(got, Slot) \in Int /\ SumFunctionOnSet(net, Slot) \in Int
    BY <1>2, SlotFinite, SumInt
  <2> QED
    BY <2>2, <2>3
<1>13. SumFunctionOnSet(net, Slot) = Total(stakes, i, g, NetOf)
       /\ SumFunctionOnSet(tokens, Slot) = Total(stakes, i, g, LpOf)
  BY DEF Total, net, tokens
<1>14. F * sumNet + sp.share * sp.total <= F * sp.issued + (F - 1) * slack
       /\ sp.total = SumFunctionOnSet(tokens, Slot)
  BY <1>0, <1>12, <1>13, StakedIsTotal DEF Covered, F
<1>15. F * sumGot <= F * sumNet + sp.share * sp.total
  <2>1. PICK a \in Int, b \in Int, c \in Int :
          a = F * sumGot /\ b = F * sumNet /\ c = sp.share * sp.total
    BY <1>1
  <2> QED
    BY <1>7, <1>8, <1>9, <1>10, <1>11, <1>12, <1>14, <2>1
<1>16. F * sumGot <= F * (sp.issued + slack)
  <2>1. PICK a \in Int, b \in Int, c \in Int, d \in Int, e \in Int :
          /\ a = F * sumGot /\ b = F * sumNet /\ c = sp.share * sp.total
          /\ d = F * sp.issued /\ e = F * slack
    BY <1>1
  <2>2. (F - 1) * slack = e - slack /\ F * (sp.issued + slack) = d + e
    BY <1>1, <2>1
  <2>3. a <= b + c /\ b + c <= d + (e - slack)
    BY <1>14, <1>15, <2>1, <2>2
  <2>4. a <= d + e
    BY <2>3
  <2> QED
    BY <2>1, <2>2, <2>4
<1>17. sumGot <= sp.issued + slack
  <2>0. PICK m \in Nat : m = sp.issued + slack
    BY <1>1
  <2>1. SUFFICES ASSUME m + 1 <= sumGot PROVE FALSE
    BY <2>0
  <2>2. (m + 1) * F <= sumGot * F
    <3>1. sumGot \in Nat
      BY <2>1
    <3> QED
      BY <1>1, <2>1, <3>1, MulMono
  <2>3. (m + 1) * F = F * m + F /\ sumGot * F = F * sumGot /\ F * m \in Int /\ F * sumGot \in Int
    BY <1>1
  <2> QED
    BY <1>1, <1>16, <2>0, <2>2, <2>3
<1> QED
  BY <1>0, <1>3, <1>12, <1>17, SumOfFunction

(* A pool never owes or pays more than it has issued and one token for each *)
(* rounding of a debt, whatever the reward factor and however deposits,     *)
(* claims and withdrawals are spread over users and blocks (update_pool,    *)
(* claim_reward, withdraw), until a pool is removed.                        *)
THEOREM RewardsSound == Spec => []RewardsCovered
<1>1. MiningInv => RewardsCovered
  <2> SUFFICES ASSUME MiningInv, ~shifted,
                      NEW i \in DOMAIN stakePools, NEW g \in DOMAIN stakePools[i]
               PROVE  Got(i, g) <= stakePools[i][g].issued + Slack(i, g)
    BY DEF RewardsCovered
  <2>1. Covered(stakes, stakePools[i][g], i, g)
    BY DEF MiningInv, AllCovered
  <2>2. stakePools[i][g] \in StakePool /\ stakes \in Table /\ i \in Index
    BY MiningFacts DEF Pools
  <2> QED
    BY <2>1, <2>2, GotWithin
<1> QED
  BY MiningInit, MiningNext, <1>1, PTL DEF Spec


-----------------------------------------------------------------------------
(* The pool of rdex/swap and the ledgers behind it.                         *)

\* The LP tokens in circulation fit their type.  Beyond it the issuance
\* saturates, and the pool's count of units with it.
LpFits == LP!Held(lp) < TokenLimit

\* A sound ledger: its issuance is the sum of its balances.
Sound(b) == b \in LP!TokenLedger /\ b.issuance = LP!Held(b)

SwapInv ==
  /\ SwapTypeOK /\ guardReserve \in Nat
  /\ Sound(lp)
  /\ pool = None => lp.issuance = 0
  /\ PoolBacked

LEMMA HeldIsSum == \A b : LP!Held(b) = SumFunction(b.free)
<1>1. \A f : LP!SumFunction(f) = SumFunction(f)
  BY DEF LP!SumFunction, SumFunction, LP!SumFunctionOnSet, SumFunctionOnSet,
     LP!FoldFunctionOnSet, FoldFunctionOnSet, LP!MapThenFoldSet, MapThenFoldSet
<1> QED
  BY <1>1 DEF LP!Held

LEMMA AccountFinite == IsFiniteSet(Account)
<1>1. IsFiniteSet({SwapAccount, MiningAccount})
  <2>1. IsFiniteSet({SwapAccount}) /\ IsFiniteSet({MiningAccount})
    BY FS_Singleton
  <2>2. {SwapAccount, MiningAccount} = {SwapAccount} \cup {MiningAccount}
    OBVIOUS
  <2> QED
    BY <2>1, <2>2, FS_Union
<1> QED
  BY <1>1, SwapAssumption, FS_Union DEF Account

(* One balance that changes changes the sum by as much.                     *)
LEMMA HeldChange ==
  ASSUME NEW f \in [Account -> Nat], NEW who \in Account, NEW v \in Nat
  PROVE  /\ SumFunction([f EXCEPT ![who] = v]) = SumFunction(f) + (v - f[who])
         /\ SumFunction(f) \in Nat /\ f[who] <= SumFunction(f)
<1> DEFINE g == [f EXCEPT ![who] = v]
<1>1. /\ DOMAIN f = Account /\ DOMAIN g = Account /\ g[who] = v
      /\ \A x \in Account : f[x] \in Int /\ g[x] \in Int /\ f[x] \in Nat
      /\ \A x \in Account \ {who} : g[x] = f[x]
  OBVIOUS
<1> HIDE DEF g
<1>2. SumFunctionOnSet(g, Account) = SumFunctionOnSet(f, Account) - f[who] + g[who]
  BY <1>1, AccountFinite, SumChange
<1>3. SumFunctionOnSet(f, Account) \in Nat /\ f[who] <= SumFunctionOnSet(f, Account)
  BY <1>1, AccountFinite, SumNat
<1>4. SumFunction(g) = SumFunctionOnSet(g, Account) /\ SumFunction(f) = SumFunctionOnSet(f, Account)
  BY <1>1, SumOfFunction
<1>5. SumFunction(g) = SumFunction(f) + (v - f[who])
  BY <1>1, <1>2, <1>3, <1>4
<1> QED
  BY <1>3, <1>4, <1>5 DEF g

Moved(f, from, to, v) == [f EXCEPT ![from] = @ - v, ![to] = @ + v]

LEMMA MoveHeld ==
  ASSUME NEW f \in [Account -> Nat], NEW from \in Account, NEW to \in Account, from # to,
         NEW v \in Nat, v <= f[from]
  PROVE  \E g \in [Account -> Nat] :
           /\ g = Moved(f, from, to, v) /\ SumFunction(g) = SumFunction(f)
           /\ g[from] = f[from] - v /\ g[to] = f[to] + v
           /\ \A a \in Account \ {from, to} : g[a] = f[a]
<1>1. PICK x \in Nat, y \in Nat : x = f[from] - v /\ y = f[to] + v
  OBVIOUS
<1>2. PICK h \in [Account -> Nat] : h = [f EXCEPT ![from] = x]
  OBVIOUS
<1>3. PICK g \in [Account -> Nat] : g = [h EXCEPT ![to] = y]
  OBVIOUS
<1>4. SumFunction(h) = SumFunction(f) + (x - f[from]) /\ SumFunction(f) \in Nat
  BY <1>2, HeldChange
<1>5. SumFunction(g) = SumFunction(h) + (y - h[to])
  BY <1>3, HeldChange
<1>6. h[to] = f[to] /\ f[to] \in Nat /\ f[from] \in Nat
  BY <1>2
<1>7. SumFunction(g) = SumFunction(f)
  BY <1>1, <1>4, <1>5, <1>6
<1>8. /\ g = Moved(f, from, to, v)
      /\ g[from] = f[from] - v /\ g[to] = f[to] + v
      /\ \A a \in Account \ {from, to} : g[a] = f[a]
  BY <1>1, <1>2, <1>3, <1>6 DEF Moved
<1> QED
  BY <1>7, <1>8

(* A transfer keeps a ledger sound.                                         *)
LEMMA TransferSound ==
  ASSUME NEW b, b \in LP!TokenLedger, NEW from \in Account, NEW to \in Account, from # to,
         NEW v \in Nat, v <= b.free[from]
  PROVE  LET c == LP!Transferred(b, from, to, v) IN
         /\ c \in LP!TokenLedger /\ LP!Held(c) = LP!Held(b) /\ c.issuance = b.issuance
         /\ c.free[from] = b.free[from] - v /\ c.free[to] = b.free[to] + v
         /\ \A a \in Account \ {from, to} : c.free[a] = b.free[a]
<1> DEFINE c == LP!Transferred(b, from, to, v)
<1>0. PICK f \in [Account -> Nat], n \in Nat : b = [free |-> f, issuance |-> n]
  BY DEF LP!TokenLedger
<1>1. b.free = f /\ b.issuance = n /\ f[from] \in Nat /\ f[to] \in Nat
  BY <1>0
<1>2. CASE v = 0
  <2>1. c = b
    BY <1>2 DEF LP!Transferred, LP!Idle
  <2> HIDE DEF c
  <2>2. b.free[from] = b.free[from] - v /\ b.free[to] = b.free[to] + v
    BY <1>1, <1>2
  <2> QED
    BY <2>1, <2>2 DEF c
<1>3. CASE v # 0
  <2>1. c = [b EXCEPT !.free[from] = @ - v, !.free[to] = @ + v]
    BY <1>3 DEF LP!Transferred, LP!Idle
  <2>2. PICK g \in [Account -> Nat] :
          /\ g = Moved(f, from, to, v) /\ SumFunction(g) = SumFunction(f)
          /\ g[from] = f[from] - v /\ g[to] = f[to] + v
          /\ \A a \in Account \ {from, to} : g[a] = f[a]
    BY <1>1, MoveHeld
  <2>3. c = [free |-> g, issuance |-> n]
    BY <1>0, <2>1, <2>2 DEF Moved
  <2> HIDE DEF c
  <2>4. c.free = g /\ c.issuance = n /\ c \in LP!TokenLedger
    BY <2>3 DEF LP!TokenLedger
  <2>5. LP!Held(c) = LP!Held(b)
    BY <1>1, <2>2, <2>4, HeldIsSum
  <2> QED
    BY <1>1, <2>2, <2>4, <2>5 DEF c
<1> QED
  BY <1>2, <1>3

(* Units minted raise the sum by as much, and the issuance while it fits.   *)
LEMMA MintSound ==
  ASSUME NEW b, Sound(b), NEW who \in Account, NEW v \in Nat
  PROVE  LET c == LP!Minted(b, who, v) IN
         /\ c \in LP!TokenLedger /\ LP!Held(c) = LP!Held(b) + v
         /\ b.issuance + v < TokenLimit => Sound(c) /\ c.issuance = b.issuance + v
<1> DEFINE c == LP!Minted(b, who, v)
<1>0. PICK f \in [Account -> Nat], n \in Nat : b = [free |-> f, issuance |-> n]
  BY DEF LP!TokenLedger, Sound
<1>1. b.free = f /\ b.issuance = n /\ f[who] \in Nat
  BY <1>0
<1>2. PICK w \in Nat : w = f[who] + v
  BY <1>1
<1>3. PICK m \in Nat : m = IF n + v < TokenLimit THEN n + v ELSE TokenLimit - 1
  BY SwapAssumption
<1> DEFINE g == [f EXCEPT ![who] = w]
<1>4. c = [free |-> g, issuance |-> m]
  BY <1>1, <1>2, <1>3 DEF LP!Minted
<1>5. g \in [Account -> Nat]
  OBVIOUS
<1>6. SumFunction(g) = SumFunction(f) + (w - f[who]) /\ SumFunction(f) \in Nat
  BY HeldChange
<1> HIDE DEF c, g
<1>7. c.free = g /\ c.issuance = m /\ c \in LP!TokenLedger
  BY <1>4, <1>5 DEF LP!TokenLedger
<1>8. LP!Held(c) = SumFunction(g) /\ LP!Held(b) = SumFunction(f)
  BY <1>1, <1>7, HeldIsSum
<1>9. LP!Held(c) = LP!Held(b) + v
  BY <1>1, <1>2, <1>6, <1>8
<1>10. ASSUME n + v < TokenLimit PROVE Sound(c) /\ c.issuance = n + v
  BY <1>1, <1>3, <1>7, <1>9, <1>10 DEF Sound
<1> QED
  BY <1>1, <1>7, <1>9, <1>10 DEF c

LEMMA BurnSound ==
  ASSUME NEW b, Sound(b), NEW who \in Account, NEW v \in Nat, v <= b.free[who]
  PROVE  LET c == LP!Burned(b, who, v) IN
         /\ v <= b.issuance /\ Sound(c) /\ c.issuance = b.issuance - v
<1> DEFINE c == LP!Burned(b, who, v)
<1>0. PICK f \in [Account -> Nat], n \in Nat : b = [free |-> f, issuance |-> n]
  BY DEF LP!TokenLedger, Sound
<1>1. b.free = f /\ b.issuance = n /\ f[who] \in Nat
  BY <1>0
<1>2. PICK w \in Nat : w = f[who] - v
  BY <1>1
<1> DEFINE g == [f EXCEPT ![who] = w]
<1>3. /\ SumFunction(g) = SumFunction(f) + (w - f[who])
      /\ SumFunction(f) \in Nat /\ f[who] <= SumFunction(f)
  BY HeldChange
<1>4. LP!Held(b) = SumFunction(f) /\ n = SumFunction(f)
  BY <1>1, HeldIsSum DEF Sound
<1>5. v <= n /\ n - v \in Nat
  BY <1>1, <1>3, <1>4
<1>6. c = [free |-> g, issuance |-> n - v]
  BY <1>1, <1>2, <1>5 DEF LP!Burned
<1>7. g \in [Account -> Nat]
  OBVIOUS
<1> HIDE DEF c, g
<1>8. c.free = g /\ c.issuance = n - v /\ c \in LP!TokenLedger
  BY <1>5, <1>6, <1>7 DEF LP!TokenLedger
<1>9. LP!Held(c) = SumFunction(g)
  BY <1>8, HeldIsSum
<1>10. LP!Held(c) = n - v
  BY <1>1, <1>2, <1>3, <1>4, <1>9
<1> QED
  BY <1>1, <1>5, <1>8, <1>10 DEF Sound, c

(* Both ledgers are instances of one module over the same accounts.         *)
LEMMA SameLedgers ==
  /\ RT!TokenLedger = LP!TokenLedger
  /\ \A b, from, to, v : RT!Transferred(b, from, to, v) = LP!Transferred(b, from, to, v)
BY DEF RT!TokenLedger, LP!TokenLedger, RT!Transferred, LP!Transferred, RT!Idle, LP!Idle

LEMMA PaidFacts ==
  ASSUME NEW n \in [Account -> Nat], NEW from \in Account, NEW to \in Account, from # to,
         NEW v \in Nat, CanPay(n, from, to, v)
  PROVE  LET m == Paid(n, from, to, v) IN
         /\ m \in [Account -> Nat]
         /\ m[from] = n[from] - v /\ m[to] = n[to] + v
         /\ \A a \in Account \ {from, to} : m[a] = n[a]
<1>1. n[from] \in Nat /\ n[to] \in Nat
  OBVIOUS
<1>2. v <= n[from]
  BY <1>1, DepositAssumption DEF CanPay
<1>3. n[from] - v \in Nat /\ n[to] + v \in Nat
  BY <1>1, <1>2
<1> QED
  BY <1>3 DEF Paid

(* The pool's arithmetic.                                                   *)
LEMMA SwapResultType ==
  ASSUME NEW X \in Nat, NEW Y \in Nat, NEW x \in Nat
  PROVE  CalSwapResult(X, Y, x) \in Nat
<1>1. CASE X = 0 \/ Y = 0 \/ x = 0
  BY <1>1 DEF CalSwapResult
<1>2. CASE X > 0 /\ Y > 0 /\ x > 0
  <2>1. PICK n \in Nat : n = x * X * Y
    OBVIOUS
  <2>2. PICK d \in Nat \ {0} : d = (x + X) * (x + X)
    <3>1. PICK s \in Nat \ {0} : s = x + X
      BY <1>2
    <3>2. s * s \in Nat \ {0}
      OBVIOUS
    <3> QED
      BY <3>1, <3>2
  <2>3. n \div d \in Nat
    BY DivFloor
  <2> QED
    BY <1>2, <2>1, <2>2, <2>3 DEF CalSwapResult
<1> QED
  BY <1>1, <1>2

(* A share of an amount: all of it for all units, less for fewer.           *)
LEMMA ShareFacts ==
  ASSUME NEW u \in Nat, NEW P \in Nat \ {0}, NEW a \in Nat, u <= P
  PROVE  /\ ShareOf(u, P, a) \in Nat /\ ShareOf(u, P, a) <= a
         /\ P * ShareOf(u, P, a) <= u * a
         /\ u = P => ShareOf(u, P, a) = a
         /\ u < P /\ a > 0 => ShareOf(u, P, a) < a
<1>1. PICK n \in Nat : n = u * a
  OBVIOUS
<1>2. PICK q \in Nat : q = n \div P
  BY DivFloor
<1>3. ShareOf(u, P, a) = q
  BY <1>1, <1>2 DEF ShareOf
<1>4. q * P <= n /\ n < (q + 1) * P
  BY <1>2, DivFloor
<1>5. u * a <= P * a
  BY MulMono
<1>6. q <= a
  <2>1. n <= a * P
    BY <1>1, <1>5
  <2> QED
    BY <1>2, <2>1, DivAtMost
<1>7. ASSUME u = P PROVE q = a
  <2>1. SUFFICES ASSUME q + 1 <= a PROVE FALSE
    BY <1>6
  <2>2. (q + 1) * P <= a * P
    BY <2>1, MulMono
  <2>3. (q + 1) * P \in Nat /\ a * P \in Nat /\ n = a * P
    BY <1>1, <1>7
  <2> QED
    BY <1>4, <2>2, <2>3
<1>8. ASSUME u < P, a > 0 PROVE q < a
  <2>1. SUFFICES ASSUME q = a PROVE FALSE
    BY <1>6, <1>8
  <2>2. (u + 1) * a <= P * a
    BY <1>8, MulMono
  <2>3. (u + 1) * a = n + a /\ a * P = P * a /\ P * a \in Nat
    BY <1>1
  <2> QED
    BY <1>4, <1>8, <2>1, <2>2, <2>3
<1>9. P * q = q * P
  OBVIOUS
<1> QED
  BY <1>1, <1>3, <1>4, <1>6, <1>7, <1>8, <1>9

LEMMA ShareMono ==
  ASSUME NEW s \in Nat, NEW u \in Nat, NEW P \in Nat \ {0}, NEW a \in Nat, s <= u, u <= P
  PROVE  ShareOf(s, P, a) <= ShareOf(u, P, a)
<1>1. PICK n \in Nat, m \in Nat : n = s * a /\ m = u * a
  OBVIOUS
<1>2. n <= m
  BY <1>1, MulMono
<1>3. PICK p \in Nat, q \in Nat : p = n \div P /\ q = m \div P
  BY DivFloor
<1>4. p * P <= n /\ m < (q + 1) * P
  BY <1>3, DivFloor
<1>5. p <= q
  <2>1. SUFFICES ASSUME q + 1 <= p PROVE FALSE
    OBVIOUS
  <2>2. (q + 1) * P <= p * P
    BY <2>1, MulMono
  <2>3. (q + 1) * P \in Nat /\ p * P \in Nat
    OBVIOUS
  <2> QED
    BY <1>2, <1>4, <2>2, <2>3
<1> QED
  BY <1>1, <1>3, <1>5 DEF ShareOf

(* What slips is at most what is added, and without it the units added      *)
(* would be worth what is brought, at the price of the pool.                *)
LEMMA AddedUnitFacts ==
  ASSUME NEW P \in Nat, NEW F \in Nat \ {0}, NEW R \in Nat \ {0}, NEW f \in Nat, NEW r \in Nat
  PROVE  /\ AddedUnit(P, F, R, f, r) \in Nat
         /\ AddedUnit(P, F, R, f, r) * (2 * R * F) <= P * (F * r + f * R)
<1>1. PICK Fr \in Nat, fR \in Nat, fr \in Nat, FR \in Nat \ {0} :
        Fr = F * r /\ fR = f * R /\ fr = f * r /\ FR = R * F
  OBVIOUS
<1>2. PICK D \in Nat \ {0} : D = (f + F) * (r + R) /\ D = fr + fR + Fr + FR
  <2>1. (f + F) * (r + R) = fr + fR + Fr + FR
    BY <1>1
  <2> QED
    BY <2>1
<1>3. PICK gap \in Nat : gap = (IF Fr > fR THEN Fr - fR ELSE fR - Fr)
  <2>1. (IF Fr > fR THEN Fr - fR ELSE fR - Fr) \in Nat
    OBVIOUS
  <2> QED
    BY <2>1
<1>4. gap <= D
  BY <1>2, <1>3
<1>5. PICK raw \in Nat : /\ raw = (P * (F * r + f * R)) \div (2 * R * F)
                         /\ raw * (2 * R * F) <= P * (F * r + f * R)
  <2>1. PICK n \in Nat, d \in Nat \ {0} : n = P * (F * r + f * R) /\ d = 2 * R * F
    <3>1. P * (Fr + fR) \in Nat /\ 2 * FR \in Nat \ {0}
      OBVIOUS
    <3>2. 2 * R * F = 2 * FR
      BY <1>1
    <3> QED
      BY <1>1, <3>1, <3>2
  <2>2. n \div d \in Nat /\ (n \div d) * d <= n
    BY DivFloor
  <2> QED
    BY <2>1, <2>2
<1>6. PICK m \in Nat : m = raw * gap
  OBVIOUS
<1>7. m <= raw * D
  <2>1. gap * raw <= D * raw
    BY <1>4, MulMono
  <2> QED
    BY <1>6, <2>1
<1>8. PICK slip \in Nat : slip = m \div D /\ slip <= raw
  BY <1>7, DivFloor, DivAtMost
<1>9. AddedUnit(P, F, R, f, r) = raw - slip
  BY <1>1, <1>2, <1>3, <1>5, <1>6, <1>8 DEF AddedUnit
<1>10. PICK added \in Nat : added = AddedUnit(P, F, R, f, r) /\ added <= raw
  BY <1>8, <1>9
<1>11. PICK d \in Nat, n \in Nat : d = 2 * R * F /\ n = P * (F * r + f * R)
  OBVIOUS
<1>12. added * d <= raw * d
  BY <1>10, MulMono
<1>13. added * d <= n
  <2>1. added * d \in Nat /\ raw * d \in Nat
    OBVIOUS
  <2> QED
    BY <1>5, <1>11, <1>12, <2>1
<1> QED
  BY <1>10, <1>11, <1>13

LEMMA ProductMono ==
  ASSUME NEW a \in Nat, NEW b \in Nat, NEW c \in Nat, NEW d \in Nat, a <= c, b <= d
  PROVE  a * b <= c * d
<1>1. a * b <= c * b /\ b * c <= d * c
  BY MulMono
<1>2. a * b \in Nat /\ c * b \in Nat /\ d * c \in Nat /\ b * c = c * b /\ d * c = c * d
  OBVIOUS
<1> QED
  BY <1>1, <1>2

(* A swap never lowers the product of both sides: the fee for the slip is   *)
(* more than what rounding can take.                                        *)
LEMMA SwapGain ==
  ASSUME NEW X \in Nat, NEW Y \in Nat, NEW x \in Nat, NEW y \in Nat,
         y = CalSwapResult(X, Y, x), y <= Y
  PROVE  X * Y <= (X + x) * (Y - y)
<1>1. PICK S \in Nat : S = X + x
  OBVIOUS
<1>2. S * y <= x * Y
  <2>1. CASE X = 0 \/ Y = 0 \/ x = 0
    <3>1. y = 0
      BY <2>1 DEF CalSwapResult
    <3>2. S * y = 0 /\ x * Y >= 0
      BY <3>1
    <3> QED
      BY <3>2
  <2>2. CASE X > 0 /\ Y > 0 /\ x > 0
    <3>1. PICK n \in Nat, d \in Nat \ {0} : n = x * X * Y /\ d = S * S
      <4>1. S > 0
        BY <1>1, <2>2
      <4>2. S * S \in Nat \ {0}
        BY <4>1
      <4> QED
        BY <4>2
    <3>2. y = n \div d
      BY <1>1, <2>2, <3>1 DEF CalSwapResult
    <3>3. y * d <= n
      BY <3>2, DivFloor
    <3>4. PICK q \in Nat, w \in Nat : q = S * y /\ w = x * Y
      OBVIOUS
    <3>5. q * S <= w * X
      <4>1. y * d = q * S /\ n = w * X
        BY <3>1, <3>4
      <4> QED
        BY <3>3, <4>1
    <3>6. w * X <= w * S
      <4>1. X * w <= S * w
        BY <1>1, MulMono
      <4> QED
        BY <4>1
    <3>7. q <= w
      <4>1. SUFFICES ASSUME w + 1 <= q PROVE FALSE
        BY <3>4
      <4>2. (w + 1) * S <= q * S
        BY <4>1, MulMono
      <4>3. (w + 1) * S = w * S + S /\ S > 0 /\ w * S \in Nat /\ q * S \in Nat /\ w * X \in Nat
        BY <1>1, <2>2
      <4> QED
        BY <3>5, <3>6, <4>2, <4>3
    <3> QED
      BY <3>4, <3>7
  <2> QED
    BY <2>1, <2>2
<1>3. PICK a \in Int, b \in Int, c \in Int : a = X * Y /\ b = x * Y /\ c = S * y
  OBVIOUS
<1>4. (X + x) * (Y - y) = a + b - c
  <2>1. (X + x) * (Y - y) = X * Y + x * Y - S * y
    BY <1>1
  <2> QED
    BY <1>3, <2>1
<1> QED
  BY <1>2, <1>3, <1>4

(* Nor does a removal, since the shares paid out are rounded down.          *)
LEMMA LeftWorth ==
  ASSUME NEW F \in Nat, NEW R \in Nat, NEW P \in Nat, NEW u \in Nat, u <= P,
         NEW oF \in Nat, NEW oR \in Nat, oF <= F, oR <= R, P * oF <= u * F, P * oR <= u * R
  PROVE  F * R * (P - u) * (P - u) <= (F - oF) * (R - oR) * P * P
<1>1. PICK lF \in Nat, lR \in Nat, lP \in Nat : lF = F - oF /\ lR = R - oR /\ lP = P - u
  OBVIOUS
<1>2. F * lP <= lF * P
  <2>1. PICK a \in Int, b \in Int, c \in Int : a = F * P /\ b = P * oF /\ c = u * F
    OBVIOUS
  <2>2. F * lP = a - c /\ lF * P = a - b
    BY <1>1, <2>1
  <2> QED
    BY <2>1, <2>2
<1>3. R * lP <= lR * P
  <2>1. PICK a \in Int, b \in Int, c \in Int : a = R * P /\ b = P * oR /\ c = u * R
    OBVIOUS
  <2>2. R * lP = a - c /\ lR * P = a - b
    BY <1>1, <2>1
  <2> QED
    BY <2>1, <2>2
<1>4. (F * lP) * (R * lP) <= (lF * P) * (lR * P)
  <2>1. F * lP \in Nat /\ R * lP \in Nat /\ lF * P \in Nat /\ lR * P \in Nat
    OBVIOUS
  <2> QED
    BY <1>2, <1>3, <2>1, ProductMono
<1>5. /\ (F * lP) * (R * lP) = F * R * lP * lP
      /\ (lF * P) * (lR * P) = lF * lR * P * P
  OBVIOUS
<1> QED
  BY <1>1, <1>4, <1>5

(* An addition gives at most the units it brings at the pool's price.       *)
LEMMA AddWorth ==
  ASSUME NEW F \in Nat, NEW R \in Nat, NEW P \in Nat, NEW f \in Nat, NEW r \in Nat,
         NEW added \in Nat, added * (2 * R * F) <= P * (F * r + f * R)
  PROVE  2 * F * R * (P + added) <= ((F + f) * R + (R + r) * F) * P
<1>1. PICK a \in Int, b \in Int, c \in Int :
        a = 2 * F * R * P /\ b = added * (2 * R * F) /\ c = P * (F * r + f * R)
  OBVIOUS
<1>2. 2 * F * R * (P + added) = 2 * F * R * P + added * (2 * R * F)
  OBVIOUS
<1>3. ((F + f) * R + (R + r) * F) * P = 2 * F * R * P + P * (F * r + f * R)
  OBVIOUS
<1> QED
  BY <1>1, <1>2, <1>3

-----------------------------------------------------------------------------
LEMMA SwapInvInit == Init => SwapInv
<1> SUFFICES ASSUME Init PROVE SwapInv
  OBVIOUS
<1>1. /\ pool = None /\ lpAllowed = [switch |-> FALSE, whitelist |-> {}] /\ guardReserve = 0
      /\ lp = LP!NoTokens
      /\ native = [a \in Account |-> CASE a = SwapAccount -> Float
                                       [] a = MiningAccount -> MiningFund
                                       [] OTHER -> UserNative]
      /\ rtokens = [free |-> [a \in Account |-> IF a \in User THEN UserTokens ELSE 0],
                    issuance |-> UserTokens * Cardinality(User)]
  BY DEF Init, SwapInit
<1>2. /\ UserTokens \in Nat /\ UserNative \in Nat /\ Float \in Nat /\ MiningFund \in Nat
      /\ Cardinality(User) \in Nat
  BY SwapAssumption, FS_CardinalityType
<1>3. native \in [Account -> Nat]
  BY <1>1, <1>2
<1>4. rtokens \in RT!TokenLedger
  <2>1. UserTokens * Cardinality(User) \in Nat
    BY <1>2
  <2>2. [a \in Account |-> IF a \in User THEN UserTokens ELSE 0] \in [Account -> Nat]
    BY <1>2
  <2> QED
    BY <1>1, <2>1, <2>2 DEF RT!TokenLedger
<1>5. PICK z \in [Account -> Nat] : z = [a \in Account |-> 0]
  OBVIOUS
<1>6. lp = [free |-> z, issuance |-> 0]
  BY <1>1, <1>5 DEF LP!NoTokens
<1>7. LP!Held(lp) = 0
  <2>1. LP!Held(lp) = SumFunction(z)
    BY <1>6, HeldIsSum
  <2>2. DOMAIN z = Account /\ \A a \in Account : z[a] = 0
    BY <1>5
  <2>3. SumFunction(z) = SumFunctionOnSet(z, Account)
    BY <2>2, SumOfFunction
  <2> QED
    BY <2>1, <2>2, <2>3, AccountFinite, SumZero
<1>8. Sound(lp) /\ lp.issuance = 0
  BY <1>6, <1>7 DEF Sound, LP!TokenLedger
<1> QED
  BY <1>1, <1>3, <1>4, <1>8 DEF SwapInv, SwapTypeOK, PoolBacked, Sound, Allowance

(* What a step that leaves the pool alone has to show.                      *)
LEMMA PoolIdle ==
  ASSUME SwapInv, UNCHANGED <<pool, rtokens>>, lpAllowed' \in Allowance, guardReserve' \in Nat,
         native' \in [Account -> Nat], native'[SwapAccount] = native[SwapAccount],
         lp' \in LP!TokenLedger, LP!Held(lp') = LP!Held(lp), lp'.issuance = lp.issuance
  PROVE  SwapInv'
<1>1. SwapTypeOK'
  BY DEF SwapInv, SwapTypeOK
<1>2. Sound(lp')
  BY DEF SwapInv, Sound
<1>3. PoolBacked'
  BY DEF SwapInv, PoolBacked
<1> QED
  BY <1>1, <1>2, <1>3 DEF SwapInv

(* What a step that gives the pool new figures has to show.                 *)
LEMMA PoolStep ==
  ASSUME SwapInv, UNCHANGED <<guardReserve>>, lpAllowed' \in Allowance,
         pool' \in SwapPool, native' \in [Account -> Nat], rtokens' \in LP!TokenLedger,
         Sound(lp'), pool'.unit = lp'.issuance,
         native'[SwapAccount] >= pool'.fis, rtokens'.free[SwapAccount] >= pool'.rtoken,
         (pool'.fis = 0) = (pool'.rtoken = 0), (pool'.fis = 0) = (pool'.unit = 0)
  PROVE  SwapInv'
<1>1. SwapTypeOK'
  BY SameLedgers DEF SwapTypeOK, Sound
<1>2. pool' # None
  BY SwapAssumption
<1>3. PoolBacked'
  BY DEF PoolBacked, Sound
<1> QED
  BY <1>1, <1>2, <1>3 DEF SwapInv

(* The pool and the ledgers before a call.                                  *)
LEMMA PoolFacts ==
  ASSUME SwapInv
  PROVE  /\ native \in [Account -> Nat] /\ rtokens \in LP!TokenLedger /\ Sound(lp)
         /\ lp \in LP!TokenLedger /\ lpAllowed \in Allowance /\ guardReserve \in Nat
         /\ \A a \in Account : native[a] \in Nat /\ rtokens.free[a] \in Nat /\ lp.free[a] \in Nat
         /\ pool = None => lp.issuance = 0
         /\ pool # None =>
              /\ pool \in SwapPool
              /\ pool.fis \in Nat /\ pool.rtoken \in Nat /\ pool.unit \in Nat
              /\ pool.unit = lp.issuance
              /\ native[SwapAccount] >= pool.fis /\ rtokens.free[SwapAccount] >= pool.rtoken
              /\ (pool.fis = 0) = (pool.rtoken = 0) /\ (pool.fis = 0) = (pool.unit = 0)
<1>1. /\ native \in [Account -> Nat] /\ rtokens \in LP!TokenLedger /\ Sound(lp)
      /\ lp \in LP!TokenLedger /\ lpAllowed \in Allowance /\ guardReserve \in Nat
  BY SameLedgers DEF SwapInv, SwapTypeOK, Sound
<1>2. \A a \in Account : native[a] \in Nat /\ rtokens.free[a] \in Nat /\ lp.free[a] \in Nat
  BY <1>1 DEF LP!TokenLedger
<1>3. pool # None => pool \in SwapPool
  BY DEF SwapInv, SwapTypeOK
<1>4. pool # None => pool.fis \in Nat /\ pool.rtoken \in Nat /\ pool.unit \in Nat
  BY <1>3 DEF SwapPool
<1> QED
  BY <1>1, <1>2, <1>3, <1>4 DEF SwapInv, PoolBacked

\* The step UnitValueKept allows.
WorthKept ==
  pool # None => IF lp'.issuance > lp.issuance THEN MeanKept(pool, pool')
                 ELSE ProductKept(pool, pool')

LEMMA NoUnitsAdded ==
  ASSUME NEW a \in Nat, NEW b \in Nat, lp.issuance = a, lp'.issuance = b, b <= a,
         ProductKept(pool, pool')
  PROVE  WorthKept
<1>1. ~(b > a)
  OBVIOUS
<1> QED
  BY <1>1 DEF WorthKept

LEMMA SwapFisKeeps ==
  ASSUME SwapInv, NEW who \in User, NEW x \in SwapAmount, SwapFis(who, x), UNCHANGED guardReserve
  PROVE  SwapInv' /\ WorthKept
<1>0. x \in Nat /\ x > 0 /\ pool # None /\ who \in Account /\ who # SwapAccount
  BY SwapAssumption, Accounts DEF SwapFis
<1>1. PICK F \in Nat, R \in Nat, P \in Nat : pool = [fis |-> F, rtoken |-> R, unit |-> P]
  BY <1>0, PoolFacts DEF SwapPool
<1>2. /\ native[SwapAccount] >= F /\ rtokens.free[SwapAccount] >= R /\ P = lp.issuance
      /\ (F = 0) = (R = 0) /\ (F = 0) = (P = 0)
  BY <1>0, <1>1, PoolFacts
<1>3. PICK y \in Nat : y = CalSwapResult(F, R, x)
  BY <1>0, SwapResultType
<1>4. /\ y < R /\ CanPay(native, who, SwapAccount, x)
      /\ native' = Paid(native, who, SwapAccount, x)
      /\ rtokens' = RT!Transferred(rtokens, SwapAccount, who, y)
      /\ pool' = [pool EXCEPT !.fis = @ + x, !.rtoken = @ - y]
      /\ lp' = lp /\ lpAllowed' = lpAllowed
  BY <1>1, <1>3 DEF SwapFis
<1>5. pool' = [fis |-> F + x, rtoken |-> R - y, unit |-> P]
  BY <1>1, <1>4
<1>6. native' \in [Account -> Nat] /\ native'[SwapAccount] = native[SwapAccount] + x
  BY <1>0, <1>4, PoolFacts, PaidFacts, Accounts
<1>7. rtokens' \in LP!TokenLedger /\ rtokens'.free[SwapAccount] = rtokens.free[SwapAccount] - y
  <2>1. rtokens' = LP!Transferred(rtokens, SwapAccount, who, y)
    BY <1>4, SameLedgers
  <2>2. y <= rtokens.free[SwapAccount] /\ rtokens \in LP!TokenLedger
    BY <1>2, <1>4, PoolFacts, Accounts
  <2> QED
    BY <1>0, <2>1, <2>2, TransferSound, Accounts
<1>8. native[SwapAccount] \in Nat /\ rtokens.free[SwapAccount] \in Nat
  BY PoolFacts, Accounts
<1>9. /\ F + x \in Nat /\ R - y \in Nat /\ F + x # 0 /\ R - y # 0 /\ P # 0
      /\ native'[SwapAccount] >= F + x /\ rtokens'.free[SwapAccount] >= R - y
  BY <1>0, <1>2, <1>4, <1>6, <1>7, <1>8
<1>10. pool' \in SwapPool /\ pool'.fis = F + x /\ pool'.rtoken = R - y /\ pool'.unit = P
  BY <1>5, <1>9 DEF SwapPool
<1>11. WorthKept
  <2>1. F * R <= (F + x) * (R - y)
    <3>1. F * R <= (F + x) * (R - y)
      BY <1>0, <1>3, <1>4, SwapGain
    <3>2. PICK a \in Int, b \in Int : a = F * R /\ b = (F + x) * (R - y)
      BY <1>0
    <3>3. F * R = a /\ (F + x) * (R - y) = b
      BY <1>0, <3>2
    <3> QED
      BY <3>1, <3>2, <3>3
  <2>2. PICK a \in Nat, b \in Nat, c \in Nat : a = F * R /\ b = (F + x) * (R - y) /\ c = P * P
    <3>1. PICK n \in Nat, m \in Nat : n = F + x /\ m = R - y
      BY <1>9
    <3>2. F * R \in Nat /\ n * m \in Nat /\ P * P \in Nat
      OBVIOUS
    <3> QED
      BY <3>1, <3>2
  <2>3. a * c <= b * c
    BY <2>1, <2>2, MulMono
  <2>4. a * c = F * R * P * P /\ b * c = (F + x) * (R - y) * P * P
    BY <1>9, <2>2
  <2>5. F * R * P * P <= (F + x) * (R - y) * P * P /\ a * c \in Nat /\ b * c \in Nat
    BY <2>3, <2>4
  <2>6. pool.fis = F /\ pool.rtoken = R /\ pool.unit = P
    BY <1>1
  <2>7. ProductKept(pool, pool')
    BY <1>10, <2>4, <2>5, <2>6 DEF ProductKept
  <2> QED
    BY <1>2, <1>4, <2>7, NoUnitsAdded
<1>12. SwapInv'
    BY <1>2, <1>4, <1>6, <1>7, <1>9, <1>10, PoolFacts, PoolStep
<1> QED
  BY <1>11, <1>12

LEMMA SwapRtokenKeeps ==
  ASSUME SwapInv, NEW who \in User, NEW x \in SwapAmount, SwapRtoken(who, x), UNCHANGED guardReserve
  PROVE  SwapInv' /\ WorthKept
<1>0. x \in Nat /\ x > 0 /\ pool # None /\ who \in Account /\ who # SwapAccount
  BY SwapAssumption, Accounts DEF SwapRtoken
<1>1. PICK F \in Nat, R \in Nat, P \in Nat : pool = [fis |-> F, rtoken |-> R, unit |-> P]
  BY <1>0, PoolFacts DEF SwapPool
<1>2. /\ native[SwapAccount] >= F /\ rtokens.free[SwapAccount] >= R /\ P = lp.issuance
      /\ (F = 0) = (R = 0) /\ (F = 0) = (P = 0)
  BY <1>0, <1>1, PoolFacts
<1>3. PICK y \in Nat : y = CalSwapResult(R, F, x)
  BY <1>0, SwapResultType
<1>4. /\ y < F /\ x <= rtokens.free[who] /\ CanPay(native, SwapAccount, who, y)
      /\ native' = Paid(native, SwapAccount, who, y)
      /\ rtokens' = RT!Transferred(rtokens, who, SwapAccount, x)
      /\ pool' = [pool EXCEPT !.rtoken = @ + x, !.fis = @ - y]
      /\ lp' = lp /\ lpAllowed' = lpAllowed
  <2>1. rtokens.free[who] \in Nat
    BY <1>0, PoolFacts
  <2> QED
    BY <1>0, <1>1, <1>3, <2>1 DEF SwapRtoken
<1>5. pool' = [fis |-> F - y, rtoken |-> R + x, unit |-> P]
  BY <1>1, <1>4
<1>6. native' \in [Account -> Nat] /\ native'[SwapAccount] = native[SwapAccount] - y
  BY <1>0, <1>4, PoolFacts, PaidFacts, Accounts
<1>7. rtokens' \in LP!TokenLedger /\ rtokens'.free[SwapAccount] = rtokens.free[SwapAccount] + x
  <2>1. rtokens' = LP!Transferred(rtokens, who, SwapAccount, x)
    BY <1>4, SameLedgers
  <2> QED
    BY <1>0, <1>4, <2>1, PoolFacts, TransferSound, Accounts
<1>8. native[SwapAccount] \in Nat /\ rtokens.free[SwapAccount] \in Nat
  BY PoolFacts, Accounts
<1>9. /\ F - y \in Nat /\ R + x \in Nat /\ F - y # 0 /\ R + x # 0 /\ P # 0
      /\ native'[SwapAccount] >= F - y /\ rtokens'.free[SwapAccount] >= R + x
  BY <1>0, <1>2, <1>4, <1>6, <1>7, <1>8
<1>10. pool' \in SwapPool /\ pool'.fis = F - y /\ pool'.rtoken = R + x /\ pool'.unit = P
  BY <1>5, <1>9 DEF SwapPool
<1>11. WorthKept
  <2>1. F * R <= (F - y) * (R + x)
    <3>1. R * F <= (R + x) * (F - y)
      BY <1>0, <1>3, <1>4, SwapGain
    <3>2. PICK a \in Int, b \in Int : a = F * R /\ b = (F - y) * (R + x)
      BY <1>0
    <3>3. R * F = a /\ (R + x) * (F - y) = b
      BY <1>0, <3>2
    <3> QED
      BY <3>1, <3>2, <3>3
  <2>2. PICK a \in Nat, b \in Nat, c \in Nat : a = F * R /\ b = (F - y) * (R + x) /\ c = P * P
    <3>1. PICK n \in Nat, m \in Nat : n = F - y /\ m = R + x
      BY <1>9
    <3>2. F * R \in Nat /\ n * m \in Nat /\ P * P \in Nat
      OBVIOUS
    <3> QED
      BY <3>1, <3>2
  <2>3. a * c <= b * c
    BY <2>1, <2>2, MulMono
  <2>4. a * c = F * R * P * P /\ b * c = (F - y) * (R + x) * P * P
    BY <1>9, <2>2
  <2>5. F * R * P * P <= (F - y) * (R + x) * P * P /\ a * c \in Nat /\ b * c \in Nat
    BY <2>3, <2>4
  <2>6. pool.fis = F /\ pool.rtoken = R /\ pool.unit = P
    BY <1>1
  <2>7. ProductKept(pool, pool')
    BY <1>10, <2>4, <2>5, <2>6 DEF ProductKept
  <2> QED
    BY <1>2, <1>4, <2>7, NoUnitsAdded
<1>12. SwapInv'
    BY <1>2, <1>4, <1>6, <1>7, <1>9, <1>10, PoolFacts, PoolStep
<1> QED
  BY <1>11, <1>12

(* Providing f and r to a pool of F and R, for units that fit.              *)
LEMMA ProvideKeeps ==
  ASSUME SwapInv, NEW who \in User, NEW f \in Nat, NEW r \in Nat, NEW added \in Nat,
         NEW F \in Nat, NEW R \in Nat, NEW total \in Nat,
         Provide(who, f, r, added), UNCHANGED guardReserve,
         native[SwapAccount] >= F, rtokens.free[SwapAccount] >= R,
         pool' = [fis |-> F + f, rtoken |-> R + r, unit |-> total],
         lp.issuance + added < TokenLimit => total = lp.issuance + added,
         F + f > 0, R + r > 0, total > 0, LP!Held(lp') < TokenLimit
  PROVE  SwapInv'
<1>0. who \in Account /\ who # SwapAccount
  BY Accounts
<1>1. /\ r <= rtokens.free[who] /\ CanPay(native, who, SwapAccount, f)
      /\ native' = Paid(native, who, SwapAccount, f)
      /\ rtokens' = RT!Transferred(rtokens, who, SwapAccount, r)
      /\ lp' = LP!Minted(lp, who, added) /\ lpAllowed' = lpAllowed
  <2>1. rtokens.free[who] \in Nat
    BY <1>0, PoolFacts
  <2> QED
    BY <2>1 DEF Provide
<1>2. native' \in [Account -> Nat] /\ native'[SwapAccount] = native[SwapAccount] + f
  BY <1>0, <1>1, PoolFacts, PaidFacts, Accounts
<1>3. rtokens' \in LP!TokenLedger /\ rtokens'.free[SwapAccount] = rtokens.free[SwapAccount] + r
  <2>1. rtokens' = LP!Transferred(rtokens, who, SwapAccount, r)
    BY <1>1, SameLedgers
  <2> QED
    BY <1>0, <1>1, <2>1, PoolFacts, TransferSound, Accounts
<1>4. Sound(lp) /\ LP!Held(lp) = lp.issuance
  BY PoolFacts DEF Sound
<1>5. LP!Held(lp') = LP!Held(lp) + added
  BY <1>0, <1>1, <1>4, MintSound
<1>6. lp.issuance + added < TokenLimit
  BY <1>4, <1>5
<1>7. Sound(lp') /\ lp'.issuance = total
  BY <1>0, <1>1, <1>4, <1>6, MintSound
<1>8. native[SwapAccount] \in Nat /\ rtokens.free[SwapAccount] \in Nat
  BY PoolFacts, Accounts
<1>9. /\ F + f \in Nat /\ R + r \in Nat /\ F + f # 0 /\ R + r # 0 /\ total # 0
      /\ native'[SwapAccount] >= F + f /\ rtokens'.free[SwapAccount] >= R + r
  BY <1>2, <1>3, <1>8
<1>10. pool' \in SwapPool /\ pool'.fis = F + f /\ pool'.rtoken = R + r /\ pool'.unit = total
  BY <1>9 DEF SwapPool
<1> QED
  BY <1>1, <1>2, <1>3, <1>7, <1>9, <1>10, PoolFacts, PoolStep

LEMMA AddLiquidityKeeps ==
  ASSUME SwapInv, NEW who \in User, NEW f \in Nat, NEW r \in Nat, AddLiquidity(who, f, r),
         UNCHANGED guardReserve, LP!Held(lp') < TokenLimit
  PROVE  SwapInv' /\ WorthKept
<1>0. pool # None /\ TokenLimit \in Nat \ {0}
  BY SwapAssumption DEF AddLiquidity
<1>1. PICK F \in Nat, R \in Nat, P \in Nat : pool = [fis |-> F, rtoken |-> R, unit |-> P]
  BY <1>0, PoolFacts DEF SwapPool
<1>2. /\ native[SwapAccount] >= F /\ rtokens.free[SwapAccount] >= R /\ P = lp.issuance
      /\ (F = 0) = (R = 0) /\ (F = 0) = (P = 0)
  BY <1>0, <1>1, PoolFacts
<1>3. PICK u : u = CalPoolUnit(P, F, R, f, r)
  OBVIOUS
<1>4. /\ u.added > 0
      /\ pool' = [fis |-> F + f, rtoken |-> R + r, unit |-> u.total]
      /\ Provide(who, f, r, u.added)
  BY <1>1, <1>3 DEF AddLiquidity
<1>5. CASE F = 0
  <2>1. F + f > 0 /\ R + r > 0 /\ u = [total |-> f, added |-> f]
    <3>1. CASE F + f = 0 \/ R + r = 0
      <4>1. u = [total |-> 0, added |-> 0]
        BY <1>3, <3>1 DEF CalPoolUnit
      <4> QED
        BY <1>4, <4>1
    <3>2. CASE F + f > 0 /\ R + r > 0
      BY <1>3, <1>5, <3>2 DEF CalPoolUnit
    <3> QED
      BY <3>1, <3>2
  <2>2. u.total = f /\ u.added = f /\ f > 0 /\ lp.issuance + f = f
    BY <1>2, <1>4, <1>5, <2>1
  <2>3. SwapInv'
    BY <1>2, <1>4, <2>1, <2>2, ProvideKeeps
  <2>4. pool.fis = 0 /\ pool.rtoken = 0 /\ pool.unit = 0
    BY <1>1, <1>2, <1>5
  <2>5. pool'.fis \in Nat /\ pool'.rtoken \in Nat /\ pool'.unit \in Nat
    BY <1>4, <2>2
  <2>6. PICK a \in Nat, b \in Nat, c \in Nat : a = pool'.fis /\ b = pool'.rtoken /\ c = pool'.unit
    BY <2>5
  <2>7. a * b * 0 * 0 >= 0 * 0 * c * c /\ (a * 0 + b * 0) * 0 >= 2 * 0 * 0 * c
    OBVIOUS
  <2>8. MeanKept(pool, pool') /\ ProductKept(pool, pool')
    BY <2>4, <2>6, <2>7 DEF MeanKept, ProductKept
  <2> QED
    BY <2>3, <2>8 DEF WorthKept
<1>6. CASE F # 0
  <2>1. F \in Nat \ {0} /\ R \in Nat \ {0} /\ F + f > 0 /\ R + r > 0
    BY <1>2, <1>6
  <2>2. PICK a \in Nat : /\ a = AddedUnit(P, F, R, f, r)
                         /\ a * (2 * R * F) <= P * (F * r + f * R)
    BY <2>1, AddedUnitFacts
  <2>3. u = [total |-> IF a = 0 THEN 0 ELSE SafeToU128(P + a), added |-> SafeToU128(a)]
    BY <1>3, <2>1, <2>2 DEF CalPoolUnit
  <2>4. u.total = (IF a = 0 THEN 0 ELSE SafeToU128(P + a)) /\ u.added = SafeToU128(a)
    BY <2>3
  <2>5. P \in Nat \ {0}
    BY <1>2, <1>6
  <2>6. a # 0
    BY <1>0, <1>4, <2>4 DEF SafeToU128
  <2>7. SafeToU128(a) \in Nat /\ SafeToU128(P + a) \in Nat
    BY <1>0 DEF SafeToU128
  <2>8. ASSUME lp.issuance + SafeToU128(a) < TokenLimit
        PROVE  SafeToU128(P + a) = lp.issuance + SafeToU128(a)
    BY <1>0, <1>2, <2>5, <2>8 DEF SafeToU128
  <2>9. SafeToU128(a) = a /\ SafeToU128(P + a) = P + a /\ lp'.issuance = P + a
    <3>1. LP!Held(lp) = lp.issuance /\ Sound(lp)
      BY PoolFacts DEF Sound
    <3>2. lp' = LP!Minted(lp, who, SafeToU128(a)) /\ who \in Account
      BY <1>4, <2>4, Accounts DEF Provide
    <3>3. LP!Held(lp') = LP!Held(lp) + SafeToU128(a)
      BY <2>7, <3>1, <3>2, MintSound
    <3>4. lp.issuance + SafeToU128(a) < TokenLimit
      BY <3>1, <3>3
    <3>5. SafeToU128(P + a) = P + SafeToU128(a)
      BY <1>2, <2>8, <3>4
    <3>6. SafeToU128(a) = a
      BY <1>0, <1>2, <2>5, <3>4 DEF SafeToU128
    <3>7. lp'.issuance = lp.issuance + SafeToU128(a)
      BY <2>7, <3>1, <3>2, <3>4, MintSound
    <3> QED
      BY <1>2, <3>5, <3>6, <3>7
  <2>10. SafeToU128(P + a) > 0
    BY <2>5, <2>9
  <2>11. SwapInv'
    BY <1>2, <1>4, <2>1, <2>4, <2>6, <2>7, <2>8, <2>10, ProvideKeeps
  <2>12. 2 * F * R * (P + a) <= ((F + f) * R + (R + r) * F) * P
    BY <2>2, AddWorth
  <2>13. /\ pool.fis = F /\ pool.rtoken = R /\ pool.unit = P
         /\ pool'.fis = F + f /\ pool'.rtoken = R + r /\ pool'.unit = P + a
    BY <1>1, <1>4, <2>4, <2>6, <2>9
  <2>14. PICK m \in Int, n \in Int :
           m = 2 * F * R * (P + a) /\ n = ((F + f) * R + (R + r) * F) * P
    OBVIOUS
  <2>15. MeanKept(pool, pool')
    BY <2>12, <2>13, <2>14 DEF MeanKept
  <2>16. lp'.issuance > lp.issuance
    BY <1>2, <2>6, <2>9
  <2> QED
    BY <2>11, <2>15, <2>16 DEF WorthKept
<1> QED
  BY <1>5, <1>6

LEMMA CreatePoolKeeps ==
  ASSUME SwapInv, NEW who \in User, NEW f \in Nat, NEW r \in Nat, CreatePool(who, f, r),
         UNCHANGED guardReserve, LP!Held(lp') < TokenLimit
  PROVE  SwapInv' /\ WorthKept
<1>1. CalPoolUnit(0, 0, 0, f, r) = [total |-> f, added |-> f] /\ f > 0 /\ r > 0
  BY DEF CreatePool, CalPoolUnit
<1>2. /\ pool' = [fis |-> f, rtoken |-> r, unit |-> f] /\ Provide(who, f, r, f)
      /\ lp.issuance = 0
  BY <1>1, PoolFacts DEF CreatePool
<1>3. native[SwapAccount] >= 0 /\ rtokens.free[SwapAccount] >= 0
  BY PoolFacts, Accounts
<1>4. pool' = [fis |-> 0 + f, rtoken |-> 0 + r, unit |-> f]
  BY <1>2
<1>5. SwapInv'
  BY <1>1, <1>2, <1>3, <1>4, ProvideKeeps
<1> QED
  BY <1>5 DEF CreatePool, WorthKept

(* A removal divides the pool between what is left and what is paid out,    *)
(* leaves a pool without units exactly when it leaves nothing, and leaves   *)
(* the other units at least what they stood for.                            *)
Left(fis, rtoken, unit) == [fis |-> fis, rtoken |-> rtoken, unit |-> unit]
Out(fis, rtoken) == [fis |-> fis, rtoken |-> rtoken]

Divides(rem, F, R, P, unit) ==
  \E F2 \in Nat, R2 \in Nat, oF \in Nat, oR \in Nat :
    /\ rem.left = Left(F2, R2, unit) /\ rem.out = Out(oF, oR)
    /\ F2 + oF = F /\ R2 + oR = R
    /\ (F2 = 0) = (unit = 0)
    /\ F * R * unit * unit <= F2 * R2 * P * P

\* A removal that goes through.
Ok(rem) == rem.ok

Rem(ok, left, out) == [ok |-> ok, left |-> left, out |-> out]

LEMMA RemovalFis ==
  ASSUME NEW F \in Nat \ {0}, NEW R \in Nat \ {0}, NEW P \in Nat \ {0}, pool = Left(F, R, P),
         NEW u \in Nat, u <= P, NEW s \in Nat, s <= u,
         NEW rem, rem = Removal(u, s, TRUE), Ok(rem)
  PROVE  Divides(rem, F, R, P, P - u)
<1>1. pool.fis = F /\ pool.rtoken = R /\ pool.unit = P
  BY Zenon DEF Left
<1>2. PICK oF \in Nat, oR \in Nat : /\ oF = ShareOf(u, P, F) /\ oF <= F
                                    /\ oR = ShareOf(u, P, R) /\ oR <= R
  BY ShareFacts
<1>3. /\ u = P => oF = F /\ oR = R
      /\ u < P => oF < F /\ oR < R
  <2>1. F > 0 /\ R > 0
    OBVIOUS
  <2>2. u = P => oF = F /\ oR = R
    BY <1>2, ShareFacts
  <2>3. u < P => oF < F /\ oR < R
    BY <1>2, <2>1, ShareFacts
  <2> QED
    BY <2>2, <2>3, Zenon
<1>4. PICK lF \in Nat, lR \in Nat, lP \in Nat : lF = F - oF /\ lR = R - oR /\ lP = P - u
  BY <1>2
<1>5. (lF = 0) = (lP = 0) /\ (lR = 0) = (lP = 0) /\ lF + oF = F /\ lR + oR = R
  BY <1>2, <1>3, <1>4
<1>6. PICK x \in Nat : x = ShareOf(s, P, F) /\ x <= oF
  <2>1. s <= P
    OBVIOUS
  <2>2. ShareOf(s, P, F) \in Nat
    BY <2>1, ShareFacts
  <2>3. ShareOf(s, P, F) <= ShareOf(u, P, F)
    BY ShareMono
  <2> QED
    BY <1>2, <2>2, <2>3
<1>7. F * R * lP * lP <= lF * lR * P * P
  <2>1. P * oF <= u * F /\ P * oR <= u * R
    BY <1>2, ShareFacts
  <2> QED
    BY <1>2, <1>4, <2>1, LeftWorth
<1>8. rem = IF x > 0 THEN WithSwap(Left(lF, lR, lP), Out(oF, oR), x, TRUE)
            ELSE Rem(TRUE, Left(lF, lR, lP), Out(oF, oR))
  BY <1>1, <1>2, <1>4, <1>6 DEF Removal, Left, Out, Rem
<1>9. ASSUME ~(x > 0) PROVE Divides(rem, F, R, P, P - u)
  <2>1. rem = Rem(TRUE, Left(lF, lR, lP), Out(oF, oR))
    BY <1>8, <1>9, Zenon
  <2>2. rem.left = Left(lF, lR, lP) /\ rem.out = Out(oF, oR)
    <3>1. PICK l, o : l = Left(lF, lR, lP) /\ o = Out(oF, oR)
      OBVIOUS
    <3>2. Rem(TRUE, l, o).left = l /\ Rem(TRUE, l, o).out = o
      BY Zenon DEF Rem
    <3>3. rem = Rem(TRUE, l, o)
      BY <2>1, <3>1, Zenon
    <3> QED
      BY <3>1, <3>2, <3>3, Zenon
  <2>3. Divides(rem, F, R, P, lP)
    BY <1>5, <1>7, <2>2, Zenon DEF Divides
  <2> QED
    BY <1>4, <2>3, Zenon
<1>10. ASSUME x > 0 PROVE Divides(rem, F, R, P, P - u)
  <2>1. rem = WithSwap(Left(lF, lR, lP), Out(oF, oR), x, TRUE)
    BY <1>8, <1>10, Zenon
  <2>2. PICK y \in Nat : y = CalSwapResult(lF, lR, x)
    BY SwapResultType
  <2>3. /\ y < lR /\ rem.left = Left(lF + x, lR - y, lP)
        /\ rem.out = Out(oF - x, oR + y)
    <3>1. rem = Rem(y > 0 /\ y < lR, Left(lF + x, lR - y, lP), Out(oF - x, oR + y))
      BY <2>1, <2>2 DEF WithSwap, Left, Out, Rem
    <3>2. PICK ok, l, o : ok = (y > 0 /\ y < lR) /\ l = Left(lF + x, lR - y, lP) /\ o = Out(oF - x, oR + y)
      BY Zenon
    <3>3. rem = Rem(ok, l, o)
      BY <3>1, <3>2, Zenon
    <3>4. Rem(ok, l, o).ok = ok /\ Rem(ok, l, o).left = l /\ Rem(ok, l, o).out = o
      BY Zenon DEF Rem
    <3>5. rem.ok = ok /\ rem.left = l /\ rem.out = o
      BY <3>3, <3>4, Zenon
    <3>6. y > 0 /\ y < lR
      BY <3>2, <3>5, Zenon DEF Ok
    <3> QED
      BY <3>2, <3>5, <3>6, Zenon
  <2>4. PICK F2 \in Nat, R2 \in Nat, p \in Nat, r \in Nat :
          F2 = lF + x /\ R2 = lR - y /\ p = oF - x /\ r = oR + y
    <3>1. lF + x \in Nat /\ lR - y \in Nat /\ oF - x \in Nat /\ oR + y \in Nat
      BY <1>6, <2>3
    <3> QED
      BY <3>1
  <2>5. F2 + p = F /\ R2 + r = R /\ F2 # 0 /\ lP # 0
    BY <1>5, <1>6, <1>10, <2>3, <2>4
  <2>6. rem.left = Left(F2, R2, lP) /\ rem.out = Out(p, r)
    BY <2>3, <2>4, Zenon
  <2>7. (F2 = 0) = (lP = 0)
    BY <2>5
  <2>8. lF * lR <= F2 * R2
    <3>1. lF * lR <= (lF + x) * (lR - y)
      BY <2>2, <2>3, SwapGain
    <3>2. (lF + x) * (lR - y) = F2 * R2
      BY <2>4
    <3> QED
      BY <3>1, <3>2
  <2>9. F * R * lP * lP <= F2 * R2 * P * P
    <3>1. PICK a \in Nat, b \in Nat, c \in Nat : a = lF * lR /\ b = F2 * R2 /\ c = P * P
      OBVIOUS
    <3>2. a * c <= b * c
      BY <2>8, <3>1, MulMono
    <3>3. a * c = lF * lR * P * P /\ b * c = F2 * R2 * P * P
      BY <3>1
    <3>4. PICK m \in Int, n \in Int, k \in Int :
            m = F * R * lP * lP /\ n = lF * lR * P * P /\ k = F2 * R2 * P * P
      OBVIOUS
    <3> QED
      BY <1>7, <3>2, <3>3, <3>4
  <2> QED
    BY <1>4, <2>5, <2>6, <2>7, <2>9, Zenon DEF Divides
<1> QED
  BY <1>9, <1>10, Zenon

LEMMA RemovalRtoken ==
  ASSUME NEW F \in Nat \ {0}, NEW R \in Nat \ {0}, NEW P \in Nat \ {0}, pool = Left(F, R, P),
         NEW u \in Nat, u <= P, NEW s \in Nat, s <= u,
         NEW rem, rem = Removal(u, s, FALSE), Ok(rem)
  PROVE  Divides(rem, F, R, P, P - u)
<1>1. pool.fis = F /\ pool.rtoken = R /\ pool.unit = P
  BY Zenon DEF Left
<1>2. PICK oF \in Nat, oR \in Nat : /\ oF = ShareOf(u, P, F) /\ oF <= F
                                    /\ oR = ShareOf(u, P, R) /\ oR <= R
  BY ShareFacts
<1>3. /\ u = P => oF = F /\ oR = R
      /\ u < P => oF < F /\ oR < R
  <2>1. F > 0 /\ R > 0
    OBVIOUS
  <2>2. u = P => oF = F /\ oR = R
    BY <1>2, ShareFacts
  <2>3. u < P => oF < F /\ oR < R
    BY <1>2, <2>1, ShareFacts
  <2> QED
    BY <2>2, <2>3, Zenon
<1>4. PICK lF \in Nat, lR \in Nat, lP \in Nat : lF = F - oF /\ lR = R - oR /\ lP = P - u
  BY <1>2
<1>5. (lF = 0) = (lP = 0) /\ (lR = 0) = (lP = 0) /\ lF + oF = F /\ lR + oR = R
  BY <1>2, <1>3, <1>4
<1>6. PICK x \in Nat : x = ShareOf(s, P, R) /\ x <= oR
  <2>1. s <= P
    OBVIOUS
  <2>2. ShareOf(s, P, R) \in Nat
    BY <2>1, ShareFacts
  <2>3. ShareOf(s, P, R) <= ShareOf(u, P, R)
    BY ShareMono
  <2> QED
    BY <1>2, <2>2, <2>3
<1>7. F * R * lP * lP <= lF * lR * P * P
  <2>1. P * oF <= u * F /\ P * oR <= u * R
    BY <1>2, ShareFacts
  <2> QED
    BY <1>2, <1>4, <2>1, LeftWorth
<1>8. rem = IF x > 0 THEN WithSwap(Left(lF, lR, lP), Out(oF, oR), x, FALSE)
            ELSE Rem(TRUE, Left(lF, lR, lP), Out(oF, oR))
  BY <1>1, <1>2, <1>4, <1>6 DEF Removal, Left, Out, Rem
<1>9. ASSUME ~(x > 0) PROVE Divides(rem, F, R, P, P - u)
  <2>1. rem = Rem(TRUE, Left(lF, lR, lP), Out(oF, oR))
    BY <1>8, <1>9, Zenon
  <2>2. rem.left = Left(lF, lR, lP) /\ rem.out = Out(oF, oR)
    <3>1. PICK l, o : l = Left(lF, lR, lP) /\ o = Out(oF, oR)
      OBVIOUS
    <3>2. Rem(TRUE, l, o).left = l /\ Rem(TRUE, l, o).out = o
      BY Zenon DEF Rem
    <3>3. rem = Rem(TRUE, l, o)
      BY <2>1, <3>1, Zenon
    <3> QED
      BY <3>1, <3>2, <3>3, Zenon
  <2>3. Divides(rem, F, R, P, lP)
    BY <1>5, <1>7, <2>2, Zenon DEF Divides
  <2> QED
    BY <1>4, <2>3, Zenon
<1>10. ASSUME x > 0 PROVE Divides(rem, F, R, P, P - u)
  <2>1. rem = WithSwap(Left(lF, lR, lP), Out(oF, oR), x, FALSE)
    BY <1>8, <1>10, Zenon
  <2>2. PICK y \in Nat : y = CalSwapResult(lR, lF, x)
    BY SwapResultType
  <2>3. /\ y < lF /\ rem.left = Left(lF - y, lR + x, lP)
        /\ rem.out = Out(oF + y, oR - x)
    <3>1. rem = Rem(y > 0 /\ y < lF, Left(lF - y, lR + x, lP), Out(oF + y, oR - x))
      BY <2>1, <2>2 DEF WithSwap, Left, Out, Rem
    <3>2. PICK ok, l, o : ok = (y > 0 /\ y < lF) /\ l = Left(lF - y, lR + x, lP) /\ o = Out(oF + y, oR - x)
      BY Zenon
    <3>3. rem = Rem(ok, l, o)
      BY <3>1, <3>2, Zenon
    <3>4. Rem(ok, l, o).ok = ok /\ Rem(ok, l, o).left = l /\ Rem(ok, l, o).out = o
      BY Zenon DEF Rem
    <3>5. rem.ok = ok /\ rem.left = l /\ rem.out = o
      BY <3>3, <3>4, Zenon
    <3>6. y > 0 /\ y < lF
      BY <3>2, <3>5, Zenon DEF Ok
    <3> QED
      BY <3>2, <3>5, <3>6, Zenon
  <2>4. PICK F2 \in Nat, R2 \in Nat, p \in Nat, r \in Nat :
          F2 = lF - y /\ R2 = lR + x /\ p = oF + y /\ r = oR - x
    <3>1. lF - y \in Nat /\ lR + x \in Nat /\ oF + y \in Nat /\ oR - x \in Nat
      BY <1>6, <2>3
    <3> QED
      BY <3>1
  <2>5. F2 + p = F /\ R2 + r = R /\ F2 # 0 /\ lP # 0
    BY <1>5, <1>6, <1>10, <2>3, <2>4
  <2>6. rem.left = Left(F2, R2, lP) /\ rem.out = Out(p, r)
    BY <2>3, <2>4, Zenon
  <2>7. (F2 = 0) = (lP = 0)
    BY <2>5
  <2>8. lF * lR <= F2 * R2
    <3>1. lR * lF <= (lR + x) * (lF - y)
      BY <2>2, <2>3, SwapGain
    <3>2. (lR + x) * (lF - y) = F2 * R2 /\ lR * lF = lF * lR
      BY <2>4
    <3> QED
      BY <3>1, <3>2
  <2>9. F * R * lP * lP <= F2 * R2 * P * P
    <3>1. PICK a \in Nat, b \in Nat, c \in Nat : a = lF * lR /\ b = F2 * R2 /\ c = P * P
      OBVIOUS
    <3>2. a * c <= b * c
      BY <2>8, <3>1, MulMono
    <3>3. a * c = lF * lR * P * P /\ b * c = F2 * R2 * P * P
      BY <3>1
    <3>4. PICK m \in Int, n \in Int, k \in Int :
            m = F * R * lP * lP /\ n = lF * lR * P * P /\ k = F2 * R2 * P * P
      OBVIOUS
    <3> QED
      BY <1>7, <3>2, <3>3, <3>4
  <2> QED
    BY <1>4, <2>5, <2>6, <2>7, <2>9, Zenon DEF Divides
<1> QED
  BY <1>9, <1>10, Zenon

LEMMA RemoveLiquidityKeeps ==
  ASSUME SwapInv, NEW who \in User, NEW u \in Nat, NEW s \in Nat, NEW isFis \in BOOLEAN,
         RemoveLiquidity(who, u, s, isFis), UNCHANGED guardReserve
  PROVE  SwapInv' /\ WorthKept
<1>0. /\ pool # None /\ who \in Account /\ who # SwapAccount
      /\ u > 0 /\ s <= u /\ u <= lp.free[who]
  BY Accounts DEF RemoveLiquidity
<1>1. PICK F \in Nat, R \in Nat, P \in Nat : pool = Left(F, R, P)
  BY <1>0, PoolFacts DEF SwapPool, Left
<1>2. /\ native[SwapAccount] >= F /\ rtokens.free[SwapAccount] >= R /\ P = lp.issuance
      /\ (F = 0) = (R = 0) /\ (F = 0) = (P = 0)
  BY <1>0, <1>1, PoolFacts DEF Left
<1>3. lp' = LP!Burned(lp, who, u) /\ lpAllowed' = lpAllowed
  BY DEF RemoveLiquidity
<1>4. Sound(lp') /\ u <= lp.issuance /\ lp'.issuance = P - u
  BY <1>0, <1>2, <1>3, PoolFacts, BurnSound
<1>5. F \in Nat \ {0} /\ R \in Nat \ {0} /\ P \in Nat \ {0} /\ u <= P /\ P - u \in Nat
  BY <1>0, <1>2, <1>4
<1>6. PICK rem : rem = Removal(u, s, isFis)
  OBVIOUS
<1>7. /\ (rem.left.fis = 0) = (rem.left.rtoken = 0)
      /\ CanPay(native, SwapAccount, who, rem.out.fis)
      /\ native' = Paid(native, SwapAccount, who, rem.out.fis)
      /\ rtokens' = RT!Transferred(rtokens, SwapAccount, who, rem.out.rtoken)
      /\ rtokens.free[SwapAccount] >= rem.out.rtoken
      /\ pool' = rem.left
  BY <1>6 DEF RemoveLiquidity
<1>8. Divides(rem, F, R, P, P - u)
  <2>1. Ok(rem)
    BY <1>6, Zenon DEF RemoveLiquidity, Ok
  <2>2. ASSUME isFis = TRUE PROVE Divides(rem, F, R, P, P - u)
    <3>1. rem = Removal(u, s, TRUE)
      BY <1>6, <2>2, Zenon
    <3> QED
      BY <1>0, <1>1, <1>5, <2>1, <3>1, RemovalFis, Zenon
  <2>3. ASSUME isFis = FALSE PROVE Divides(rem, F, R, P, P - u)
    <3>1. rem = Removal(u, s, FALSE)
      BY <1>6, <2>3, Zenon
    <3> QED
      BY <1>0, <1>1, <1>5, <2>1, <3>1, RemovalRtoken, Zenon
  <2> QED
    BY <2>2, <2>3, Zenon
<1>9. PICK F2 \in Nat, R2 \in Nat, oF \in Nat, oR \in Nat :
        /\ rem.left = Left(F2, R2, P - u) /\ rem.out = Out(oF, oR)
        /\ F2 + oF = F /\ R2 + oR = R
        /\ (F2 = 0) = (P - u = 0)
        /\ F * R * (P - u) * (P - u) <= F2 * R2 * P * P
  BY <1>8, Zenon DEF Divides
<1>10. /\ rem.out.fis = oF /\ rem.out.rtoken = oR /\ rem.left.fis = F2 /\ rem.left.rtoken = R2
       /\ rem.left.unit = P - u /\ rem.left \in SwapPool
  BY <1>5, <1>9 DEF Left, Out, SwapPool
<1>11. native' \in [Account -> Nat] /\ native'[SwapAccount] = native[SwapAccount] - oF
  BY <1>0, <1>7, <1>10, PoolFacts, PaidFacts, Accounts
<1>12. native[SwapAccount] \in Nat /\ rtokens.free[SwapAccount] \in Nat
  BY PoolFacts, Accounts
<1>13. rtokens' \in LP!TokenLedger /\ rtokens'.free[SwapAccount] = rtokens.free[SwapAccount] - oR
  <2>1. rtokens' = LP!Transferred(rtokens, SwapAccount, who, oR)
    BY <1>7, <1>10, SameLedgers
  <2>2. oR <= rtokens.free[SwapAccount]
    BY <1>7, <1>10, <1>12
  <2> QED
    BY <1>0, <2>1, <2>2, PoolFacts, TransferSound, Accounts
<1>14. native'[SwapAccount] >= F2 /\ rtokens'.free[SwapAccount] >= R2
  BY <1>2, <1>5, <1>9, <1>11, <1>12, <1>13
<1>15. /\ pool' \in SwapPool /\ pool'.fis = F2 /\ pool'.rtoken = R2 /\ pool'.unit = P - u
  BY <1>7, <1>10
<1>16. (F2 = 0) = (R2 = 0)
  BY <1>7, <1>10
<1>17. WorthKept
  <2>1. pool.fis = F /\ pool.rtoken = R /\ pool.unit = P
    BY <1>1 DEF Left
  <2>2. PICK a \in Int, b \in Int : a = F * R * (P - u) * (P - u) /\ b = F2 * R2 * P * P
    BY <1>5
  <2>3. ProductKept(pool, pool')
    BY <1>9, <1>15, <2>1, <2>2 DEF ProductKept
  <2>4. P - u <= P
    BY <1>5
  <2> QED
    BY <1>2, <1>4, <1>5, <2>3, <2>4, NoUnitsAdded
<1>18. SwapInv'
    BY <1>3, <1>4, <1>9, <1>11, <1>13, <1>14, <1>15, <1>16, PoolFacts, PoolStep
<1> QED
  BY <1>17, <1>18

LEMMA SamePoolWorth ==
  ASSUME SwapInv, pool' = pool, lp'.issuance = lp.issuance
  PROVE  WorthKept
<1>1. CASE pool = None
  BY <1>1 DEF WorthKept
<1>2. CASE pool # None
  <2>1. PICK F \in Nat, R \in Nat, P \in Nat :
          F = pool.fis /\ R = pool.rtoken /\ P = pool.unit /\ P = lp.issuance
    BY <1>2, PoolFacts
  <2>2. F * R * P * P >= F * R * P * P
    OBVIOUS
  <2>3. ProductKept(pool, pool')
    BY <2>1, <2>2 DEF ProductKept
  <2> QED
    BY <2>1, <2>3, NoUnitsAdded
<1> QED
  BY <1>1, <1>2

LEMMA SwapNextKeeps ==
  ASSUME SwapInv, SwapNext, UNCHANGED guardReserve, LP!Held(lp') < TokenLimit
  PROVE  SwapInv' /\ WorthKept
<1>0. SwapAmount \subseteq Nat /\ PoolAmount \subseteq Nat /\ Units \subseteq Nat
  BY SwapAssumption
<1>1. ASSUME NEW who \in User, NEW f \in SwapAmount \cup {0}, NEW r \in SwapAmount \cup {0},
             AddLiquidity(who, f, r)
      PROVE  SwapInv' /\ WorthKept
  BY <1>0, <1>1, AddLiquidityKeeps
<1>2. ASSUME NEW who \in User, NEW f \in PoolAmount, NEW r \in PoolAmount, CreatePool(who, f, r)
      PROVE  SwapInv' /\ WorthKept
  BY <1>0, <1>2, CreatePoolKeeps
<1>3. ASSUME NEW who \in User, NEW u \in Units, NEW s \in Units \cup {0}, NEW isFis \in BOOLEAN,
             RemoveLiquidity(who, u, s, isFis)
      PROVE  SwapInv' /\ WorthKept
  BY <1>0, <1>3, RemoveLiquidityKeeps
<1>4. ASSUME AllowLp PROVE SwapInv' /\ WorthKept
  <2>1. lpAllowed' \in Allowance /\ UNCHANGED <<pool, native, rtokens, lp>>
    BY <1>4, PoolFacts, AllowedType DEF AllowLp
  <2>2. SwapInv'
    BY <2>1, PoolFacts, PoolIdle
  <2>3. pool' = pool /\ lp' = lp
    BY <2>1
  <2> QED
    BY <2>2, <2>3, SamePoolWorth
<1> QED
  BY <1>1, <1>2, <1>3, <1>4, SwapFisKeeps, SwapRtokenKeeps DEF SwapNext

(* Mining moves LP tokens and native tokens between users and its own       *)
(* account, and leaves the pool alone.                                      *)
LEMMA MiningCallKeeps ==
  ASSUME SwapInv, MiningInv, MiningCall
  PROVE  SwapInv'
<1>0. SUFFICES ASSUME NEW who \in User, NEW i \in Index,
                      \/ \E g \in 1..MaxGrade, amount \in StakeAmount : Deposit(who, i, g, amount)
                      \/ \E n \in 1..MaxStakes :
                           \/ \E amount \in StakeAmount : Withdraw(who, i, n, amount)
                           \/ ClaimReward(who, i, n)
                           \/ EmergencyWithdraw(who, i, n)
               PROVE  SwapInv'
  BY DEF MiningCall
<1>1. /\ who \in Account /\ who # SwapAccount /\ who # MiningAccount /\ MiningAccount \in Account
      /\ SwapAccount \in Account /\ MiningAccount # SwapAccount
      /\ native \in [Account -> Nat] /\ lp \in LP!TokenLedger /\ lpAllowed \in Allowance
      /\ guardReserve \in Nat /\ lp.free[who] \in Nat
  BY Accounts, PoolFacts
<1>2. ASSUME NEW g \in 1..MaxGrade, NEW amount \in StakeAmount, Deposit(who, i, g, amount)
      PROVE  SwapInv'
  <2>1. amount \in Nat
    BY MiningAssumption
  <2>2. /\ lp' = LP!Transferred(lp, who, MiningAccount, amount)
        /\ UNCHANGED <<pool, lpAllowed, native, rtokens, guardReserve>>
        /\ amount <= lp.free[who]
    BY <1>1, <1>2, <2>1 DEF Deposit
  <2>3. lp' \in LP!TokenLedger /\ LP!Held(lp') = LP!Held(lp) /\ lp'.issuance = lp.issuance
    BY <1>1, <2>1, <2>2, TransferSound
  <2> QED
    BY <1>1, <2>2, <2>3, PoolIdle
<1>3. ASSUME NEW reward \in Nat, CanPay(native, MiningAccount, who, reward)
      PROVE  LET paid == Paid(native, MiningAccount, who, reward) IN
             paid \in [Account -> Nat] /\ paid[SwapAccount] = native[SwapAccount]
  BY <1>1, <1>3, PaidFacts
<1>4. ASSUME NEW amount \in Nat, amount <= lp.free[MiningAccount]
      PROVE  LET moved == LP!Transferred(lp, MiningAccount, who, amount) IN
             /\ moved \in LP!TokenLedger /\ LP!Held(moved) = LP!Held(lp)
             /\ moved.issuance = lp.issuance
  BY <1>1, <1>4, TransferSound
<1>5. ASSUME NEW n \in 1..MaxStakes, HasStake(who, i, n)
      PROVE  /\ stakes[<<who, i>>][n].lp \in Nat
             /\ stakes[<<who, i>>][n].lp <= lp.free[MiningAccount]
             /\ lp.free[MiningAccount] \in Nat
             /\ WithdrawReward(stakes[<<who, i>>][n],
                               Updated(stakePools[i][stakes[<<who, i>>][n].grade])) \in Nat
  <2>1. PICK s \in StakeUser : s = stakes[<<who, i>>][n]
    BY <1>5, StakeFound
  <2>2. PICK sp \in StakePool : sp = stakePools[i][s.grade]
    BY <1>5, <2>1, StakeFound
  <2>3. PICK up \in StakePool : up = Updated(sp)
    BY MiningFacts, UpdatedFacts
  <2>4. WithdrawReward(s, up) \in Nat /\ s.lp \in Nat
    BY RewardFacts DEF StakeUser
  <2> QED
    BY <1>5, <2>1, <2>2, <2>3, <2>4, StakeFound
<1>6. ASSUME NEW n \in 1..MaxStakes, NEW amount \in StakeAmount, Withdraw(who, i, n, amount)
      PROVE  SwapInv'
  <2>1. amount \in Nat /\ HasStake(who, i, n)
    BY <1>6, MiningAssumption DEF Withdraw
  <2>2. PICK reward \in Nat :
          reward = WithdrawReward(stakes[<<who, i>>][n],
                                  Updated(stakePools[i][stakes[<<who, i>>][n].grade]))
    BY <1>5, <2>1
  <2>3. /\ CanPay(native, MiningAccount, who, reward)
        /\ native' = Paid(native, MiningAccount, who, reward)
        /\ lp' = LP!Transferred(lp, MiningAccount, who, amount)
        /\ UNCHANGED <<pool, lpAllowed, rtokens, guardReserve>>
        /\ stakes[<<who, i>>][n].lp >= amount
    BY <1>6, <2>2 DEF Withdraw
  <2>4. amount <= lp.free[MiningAccount]
    BY <1>5, <2>1, <2>3
  <2> QED
    BY <1>1, <1>3, <1>4, <2>1, <2>3, <2>4, PoolIdle
<1>7. ASSUME NEW n \in 1..MaxStakes, ClaimReward(who, i, n)
      PROVE  SwapInv'
  <2>1. HasStake(who, i, n)
    BY <1>7 DEF ClaimReward
  <2>2. PICK reward \in Nat :
          reward = WithdrawReward(stakes[<<who, i>>][n],
                                  Updated(stakePools[i][stakes[<<who, i>>][n].grade]))
    BY <1>5, <2>1
  <2>3. /\ CanPay(native, MiningAccount, who, reward)
        /\ native' = Paid(native, MiningAccount, who, reward)
        /\ UNCHANGED <<pool, lpAllowed, rtokens, lp, guardReserve>>
    BY <1>7, <2>2 DEF ClaimReward
  <2> QED
    BY <1>1, <1>3, <2>3, PoolIdle
<1>8. ASSUME NEW n \in 1..MaxStakes, EmergencyWithdraw(who, i, n)
      PROVE  SwapInv'
  <2>1. HasStake(who, i, n)
    BY <1>8 DEF EmergencyWithdraw
  <2>2. PICK amount \in Nat : amount = stakes[<<who, i>>][n].lp /\ amount <= lp.free[MiningAccount]
    BY <1>5, <2>1
  <2>3. /\ lp' = LP!Transferred(lp, MiningAccount, who, amount)
        /\ UNCHANGED <<pool, lpAllowed, native, rtokens, guardReserve>>
    BY <1>8, <2>2 DEF EmergencyWithdraw
  <2> QED
    BY <1>1, <1>4, <2>2, <2>3, PoolIdle
<1> QED
  BY <1>0, <1>2, <1>6, <1>7, <1>8

LEMMA GuardFundKeeps ==
  ASSUME SwapInv, NEW to \in User, NEW amount \in Guard, WithdrawGuardFund(to, amount)
  PROVE  SwapInv'
<1>1. /\ to \in Account /\ to # SwapAccount /\ to # MiningAccount /\ MiningAccount \in Account
      /\ SwapAccount \in Account /\ MiningAccount # SwapAccount
      /\ native \in [Account -> Nat] /\ lp \in LP!TokenLedger /\ lpAllowed \in Allowance
      /\ guardReserve \in Nat /\ native[MiningAccount] \in Nat /\ amount \in Nat
  BY Accounts, PoolFacts, MiningAssumption
<1>2. PICK taken \in Nat :
        taken = Min({amount, guardReserve, native[MiningAccount]}) /\ taken <= guardReserve
  BY <1>1, MinOfThree
<1>3. /\ CanPay(native, MiningAccount, to, taken)
      /\ native' = Paid(native, MiningAccount, to, taken)
      /\ guardReserve' = guardReserve - taken
      /\ UNCHANGED <<pool, lpAllowed, rtokens, lp>>
  BY <1>2 DEF WithdrawGuardFund
<1>4. native' \in [Account -> Nat] /\ native'[SwapAccount] = native[SwapAccount]
  BY <1>1, <1>3, PaidFacts
<1>5. guardReserve' \in Nat
  BY <1>1, <1>2, <1>3
<1> QED
  BY <1>1, <1>3, <1>4, <1>5, PoolIdle

LEMMA SwapInvNext ==
  ASSUME SwapInv, MiningInv, [Next]_vars, LP!Held(lp') < TokenLimit
  PROVE  SwapInv'
<1>1. CASE SwapNext /\ UNCHANGED miningVars
  BY <1>1, SwapNextKeeps DEF miningVars
<1>2. CASE MiningCall
  BY <1>2, MiningCallKeeps
<1>3. ASSUME UNCHANGED swapVars, guardReserve' \in Nat PROVE SwapInv'
  BY <1>3, PoolFacts, PoolIdle DEF swapVars
<1>4. CASE MiningRoot
  <2>1. ASSUME NEW amount \in Guard, SetGuardReserve(amount) PROVE SwapInv'
    <3>1. amount \in Nat
      BY MiningAssumption
    <3> QED
      BY <1>3, <2>1, <3>1 DEF SetGuardReserve, RootUnchanged
  <2>2. ASSUME RootUnchanged, UNCHANGED guardReserve PROVE SwapInv'
    BY <1>3, <2>2, PoolFacts DEF RootUnchanged
  <2>3. CASE IncreasePoolIndex
    BY <2>2, <2>3 DEF IncreasePoolIndex
  <2>4. ASSUME NEW i, NEW p, NEW t, NEW x, NEW l, AddPool(i, x, l, p, t) PROVE SwapInv'
    BY <2>2, <2>4 DEF AddPool
  <2>5. ASSUME NEW i, NEW g, NEW p, NEW t, UpdateStakePool(i, g, p, t) PROVE SwapInv'
    BY <2>2, <2>5 DEF UpdateStakePool
  <2>6. ASSUME NEW i, NEW g, RmPool(i, g) \/ EmergencySwitch(i, g) PROVE SwapInv'
    BY <2>2, <2>6 DEF RmPool, EmergencySwitch
  <2>7. CASE AllowDeposit
    BY <2>2, <2>7 DEF AllowDeposit
  <2> QED
    BY <1>4, <2>1, <2>3, <2>4, <2>5, <2>6, <2>7, GuardFundKeeps DEF MiningRoot
<1>5. CASE NextBlock
  BY <1>3, <1>5, PoolFacts DEF NextBlock
<1>6. CASE UNCHANGED vars
  BY <1>3, <1>6, PoolFacts DEF vars, miningVars
<1> QED
  BY <1>1, <1>2, <1>4, <1>5, <1>6 DEF Next

(* While the LP tokens in circulation fit their type, the figures of        *)
(* rdex/swap's pool are covered by the ledgers (PoolBacked), whatever is    *)
(* swapped, added, removed, staked and paid out.                            *)
THEOREM PoolSound == Spec /\ []LpFits => []PoolBacked
<1>1. Init => MiningInv /\ SwapInv
  BY MiningInit, SwapInvInit
<1>2. (MiningInv /\ SwapInv) /\ [Next]_vars /\ LpFits' => (MiningInv /\ SwapInv)'
  BY MiningNext, SwapInvNext DEF LpFits
<1>3. SwapInv => PoolBacked
  BY DEF SwapInv
<1> QED
  BY <1>1, <1>2, <1>3, PTL DEF Spec

LEMMA WorthNext ==
  ASSUME SwapInv, MiningInv, [Next]_vars, LP!Held(lp') < TokenLimit
  PROVE  [WorthKept]_swapVars
<1>1. CASE SwapNext /\ UNCHANGED miningVars
  BY <1>1, SwapNextKeeps DEF miningVars
<1>2. CASE MiningCall
  <2>1. ASSUME NEW from, NEW to, NEW v
        PROVE  LP!Transferred(lp, from, to, v).issuance = lp.issuance
    BY PoolFacts DEF LP!Transferred, LP!TokenLedger
  <2>2. ASSUME NEW who \in User, NEW i \in Index, NEW g, NEW amount, Deposit(who, i, g, amount)
        PROVE  pool' = pool /\ lp'.issuance = lp.issuance
    BY <2>1, <2>2 DEF Deposit
  <2>3. ASSUME NEW who \in User, NEW i \in Index, NEW n, NEW amount, Withdraw(who, i, n, amount)
        PROVE  pool' = pool /\ lp'.issuance = lp.issuance
    BY <2>1, <2>3 DEF Withdraw
  <2>4. ASSUME NEW who \in User, NEW i \in Index, NEW n, ClaimReward(who, i, n)
        PROVE  pool' = pool /\ lp'.issuance = lp.issuance
    BY <2>4 DEF ClaimReward
  <2>5. ASSUME NEW who \in User, NEW i \in Index, NEW n, EmergencyWithdraw(who, i, n)
        PROVE  pool' = pool /\ lp'.issuance = lp.issuance
    BY <2>1, <2>5 DEF EmergencyWithdraw
  <2>6. pool' = pool /\ lp'.issuance = lp.issuance
    BY <1>2, <2>2, <2>3, <2>4, <2>5 DEF MiningCall
  <2> QED
    BY <2>6, SamePoolWorth
<1>3. CASE MiningRoot
  <2>1. pool' = pool /\ lp' = lp
    BY <1>3 DEF MiningRoot, IncreasePoolIndex, AddPool, UpdateStakePool, RmPool, EmergencySwitch,
       SetGuardReserve, WithdrawGuardFund, AllowDeposit, RootUnchanged, swapVars
  <2> QED
    BY <2>1, SamePoolWorth
<1>4. CASE NextBlock \/ UNCHANGED vars
  BY <1>4 DEF NextBlock, vars
<1> QED
  BY <1>1, <1>2, <1>3, <1>4 DEF Next

(* Under the same premise, what a unit of the pool stands for never falls   *)
(* (UnitValueKept): for every pool, every amount and every rounding of      *)
(* cal_swap_result, cal_pool_unit and cal_remove_result.                    *)
THEOREM UnitValueSound == Spec /\ []LpFits => UnitValueKept
<1>1. Init => MiningInv /\ SwapInv
  BY MiningInit, SwapInvInit
<1>2. (MiningInv /\ SwapInv) /\ [Next]_vars /\ LpFits' => (MiningInv /\ SwapInv)'
  BY MiningNext, SwapInvNext DEF LpFits
<1>3. (MiningInv /\ SwapInv) /\ [Next]_vars /\ LpFits' => [WorthKept]_swapVars
  BY WorthNext DEF LpFits
<1>4. Spec /\ []LpFits => [][WorthKept]_swapVars
  BY <1>1, <1>2, <1>3, PTL DEF Spec
<1> QED
  BY <1>4 DEF UnitValueKept, WorthKept

=============================================================================
