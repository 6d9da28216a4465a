----------------------------- MODULE TrieBench -----------------------------
(***************************************************************************)
(* node/bench: the trie benchmarks and the storage under them.  A          *)
(* benchmark fills a seed database once; each of its runs copies the seed, *)
(* reads the warm-up keys from the copy and, in the write benchmark,       *)
(* inserts one more key there.  Trie nodes go through the overlay of       *)
(* SimpleTrie into one of two databases, of which ParityDb knows a node by *)
(* its hash alone and counts references.                                   *)
(*                                                                         *)
(* The trie (sp_trie) is external and has two levels: the root and, under  *)
(* each branch, a node for the rest of the key.  Hashes are ideal, so a    *)
(* node is its own hash.  Random keys do not collide, and never run out.   *)
(***************************************************************************)
EXTENDS Integers, FiniteSets, Functions

CONSTANTS Branch,     \* first parts of keys
          Rest,       \* second parts
          Datum,      \* values
          Warm,       \* the branch of the warm-up prefix
          Null,
          MaxRuns     \* runs of a benchmark, 50 in the code

ASSUME BenchAssumption == IsFiniteSet(Branch) /\ Warm \in Branch /\ MaxRuns \in Nat

DatabaseType == {"RocksDb", "ParityDb"}

Leaf == [Rest -> Datum \cup {Null}]
NoLeaf == [r \in Rest |-> Null]
Trie == [Branch -> Leaf]
NoTrie == [b \in Branch |-> NoLeaf]

\* External: where the nodes of a trie are, as <<prefix, hash>>.
Node(prefix, hash) == [prefix |-> prefix, hash |-> hash]
Nodes(t) == {Node(Null, t)} \cup {Node(b, t[b]) : b \in {c \in Branch : t[c] # NoLeaf}}

VARIABLES bench,    \* the benchmark that runs: its kind and database type
          seed,     \* its database, by database key: references to the node
          root,     \* its trie
          warmup,   \* its warm-up keys with their values
          stage,    \* how far the run is
          db,       \* the run's copy of the database
          overlay,  \* the overlay of the run's SimpleTrie
          newRoot,  \* the run's trie
          runs      \* runs so far

benchVars == <<bench, seed, root, warmup, stage, db, overlay, newRoot, runs>>

BenchInit ==
  /\ bench = Null /\ seed = << >> /\ root = NoTrie /\ warmup = {}
  /\ stage = "none" /\ db = << >> /\ overlay = << >> /\ newRoot = NoTrie /\ runs = 0

-----------------------------------------------------------------------------
(* The databases: functions from database keys to a count of references.    *)

\* The database key: ParityDbWrapper cuts the prefix off.
DbKey(type, node) == IF type = "ParityDb" THEN [node EXCEPT !.prefix = Null] ELSE node

Count(d, key) == IF key \in DOMAIN d THEN d[key] ELSE 0

\* A write that keeps no count of references.
MutWrite(type, d, changes) ==
  LET keys == {DbKey(type, n) : n \in DOMAIN changes}
      Is(key, op) == \E n \in DOMAIN changes : DbKey(type, n) = key /\ changes[n] = op
  IN [key \in DOMAIN d \cup keys |->
        IF Is(key, "delete") THEN 0 ELSE IF Is(key, "put") THEN 1 ELSE d[key]]

\* A transaction of puts and deletes: RocksDb stores or removes a key,
\* ParityDb, opened with ref_counted, adds or drops a reference.
Write(type, d, changes) ==
  LET keys == {DbKey(type, n) : n \in DOMAIN changes}
      Ops(key, op) == Cardinality({n \in DOMAIN changes : DbKey(type, n) = key /\ changes[n] = op})
      counted(key) == Count(d, key) + Ops(key, "put") - Ops(key, "delete")
  IN [key \in DOMAIN d \cup keys |->
        IF key \notin keys THEN d[key]
        ELSE IF type = "RocksDb" THEN Ops(key, "put")
        ELSE IF counted(key) < 0 THEN 0 ELSE counted(key)]

\* SimpleTrie::get: the overlay first.
Get(type, d, changes, node) ==
  IF node \in DOMAIN changes THEN changes[node] = "put" ELSE Count(d, DbKey(type, node)) > 0

\* SimpleTrie::emplace and remove: all of them leave an entry.
EmplaceNodes(changes, nodes) == [n \in DOMAIN changes \cup nodes |-> IF n \in nodes THEN "put" ELSE changes[n]]
RemoveNodes(changes, nodes) == [n \in DOMAIN changes \cup nodes |-> IF n \in nodes THEN "delete" ELSE changes[n]]

\* External: TrieDBMut's commit removes the nodes it has replaced and
\* emplaces the new ones.
Commit(changes, t, u) == EmplaceNodes(RemoveNodes(changes, Nodes(t) \ Nodes(u)), Nodes(u) \ Nodes(t))

\* External: a lookup walks from the root; Null also when a node is missing.
Lookup(type, d, changes, t, key) ==
  IF /\ Get(type, d, changes, Node(Null, t))
     /\ t[key[1]] # NoLeaf => Get(type, d, changes, Node(key[1], t[key[1]]))
    THEN t[key[1]][key[2]] ELSE Null

-----------------------------------------------------------------------------
\* generate_trie: all pairs in one commit, on top of the null node.
GenerateTrie(type, t) == Write(type, << >>, EmplaceNodes(EmplaceNodes(<< >>, {Node(Null, NoTrie)}), Nodes(t)))

\* setup: random pairs under the other branches; the sampled ones are stored
\* a second time, with the same value, under the warm-up prefix.
Setup(kind, type) ==
  /\ bench = Null
  /\ \E t \in {u \in Trie : u[Warm] = NoLeaf}, sample \in SUBSET ((Branch \ {Warm}) \X Rest) :
       /\ sample # {} /\ \A k \in sample : t[k[1]][k[2]] # Null
       /\ \A k, l \in sample : k[2] = l[2] => k = l
       /\ \E b \in Branch \ {Warm}, r \in Rest : t[b][r] = Null
       /\ LET copy == [r \in Rest |-> IF \E k \in sample : k[2] = r
                                        THEN t[(CHOOSE k \in sample : k[2] = r)[1]][r] ELSE Null]
              filled == [t EXCEPT ![Warm] = copy]
          IN /\ root' = filled
             /\ warmup' = {<<Warm, r>> : r \in {q \in Rest : copy[q] # Null}}
             /\ seed' = GenerateTrie(type, filled)
  /\ bench' = [kind |-> kind, type |-> type]
  /\ stage' = "ready"
  /\ UNCHANGED <<db, overlay, newRoot, runs>>

SetupWrite(type) == Setup("write", type)

\* The start of run: the copy of the database, opened.
OpenClone ==
  /\ stage = "ready" /\ runs < MaxRuns
  /\ db' = seed /\ overlay' = << >> /\ newRoot' = root
  /\ stage' = "opened" /\ runs' = runs + 1
  /\ UNCHANGED <<bench, seed, root, warmup>>

\* TrieReadBenchmark::run after the warm-up: queries write nothing.
RunRead ==
  /\ stage = "opened" /\ bench.kind = "read" /\ stage' = "done"
  /\ UNCHANGED <<bench, seed, root, warmup, db, overlay, newRoot, runs>>

\* TrieWriteBenchmark::run: a new key goes into the trie over the overlay,
Insert(key, datum) ==
  /\ stage = "opened" /\ bench.kind = "write" /\ stage' = "inserted"
  /\ newRoot[key[1]][key[2]] = Null
  /\ newRoot' = [newRoot EXCEPT ![key[1]][key[2]] = datum]
  /\ overlay' = Commit(overlay, newRoot, newRoot')
  /\ UNCHANGED <<bench, seed, root, warmup, db, runs>>

\* and the overlay into the database.
WriteOverlay ==
  /\ stage = "inserted" /\ stage' = "done"
  /\ db' = Write(bench.type, db, overlay) /\ overlay' = << >>
  /\ UNCHANGED <<bench, seed, root, warmup, newRoot, runs>>

\* The copy is dropped with the run.
RunEnds ==
  /\ stage = "done" /\ stage' = "ready"
  /\ db' = << >> /\ newRoot' = NoTrie
  /\ UNCHANGED <<bench, seed, root, warmup, overlay, runs>>

\* run_benchmark is through, and the seed is dropped; main goes on.
BenchmarkEnds ==
  /\ stage = "ready" /\ runs = MaxRuns
  /\ bench' = Null /\ seed' = << >> /\ root' = NoTrie /\ warmup' = {}
  /\ stage' = "none" /\ runs' = 0
  /\ UNCHANGED <<db, overlay, newRoot>>

BenchNext ==
  \/ \E type \in DatabaseType : Setup("read", type) \/ SetupWrite(type)
  \/ OpenClone \/ RunRead \/ WriteOverlay \/ RunEnds \/ BenchmarkEnds
  \/ \E key \in Branch \X Rest, datum \in Datum : Insert(key, datum)

BenchSpec == BenchInit /\ [][BenchNext]_benchVars

-----------------------------------------------------------------------------
\* A run works on a whole trie from its first lookup to its last write: every
\* key is found with its value through the overlay and the database, in both
\* databases, although equal nodes at two places share one key in ParityDb
\* and one of them may be removed, and whatever earlier runs have written.
\* The warm-up asserts it of the warm-up keys ("Warmup key should exist").
TrieIsWhole ==
  stage \in {"opened", "inserted", "done"} =>
    \A key \in Branch \X Rest :
      Lookup(bench.type, db, overlay, newRoot, key) = newRoot[key[1]][key[2]]
=============================================================================
