------------------------- MODULE WorkDivisionProofs -------------------------
(***************************************************************************)
(* Proofs about WorkDivision, for any number of GPUs, pairs and            *)
(* dimensions: the shards own everything exactly once, the startup checks  *)
(* accept every configuration that the command line accepts, and every     *)
(* pair's complete statistic reaches its place in host memory.             *)
(***************************************************************************)
EXTENDS WorkDivision, ProofLemmas

-----------------------------------------------------------------------------
(* The inductive invariant. *)

Divided == {"stats", "reduce", "finalize", "copy", "done"}

(* Every pair has a slot, and no two pairs have the same. *)
Permutes(o) ==
  /\ o \in [Pairs -> Pairs]
  /\ \A s, t \in Pairs : o[s] = o[t] => s = t
  /\ \A p \in Pairs : \E s \in Pairs : o[s] = p

(* The startup checks are about what the command line accepted, so that is *)
(* remembered until the shards are made.                                   *)
Planned ==
  /\ rows \in [Pairs -> (SUBSET Dims) \X (SUBSET Dims)]
  /\ partition \in {"pair", "dim"} /\ order_arg \in {"source", "bylen"}
  /\ pc \in {"cli", "refused", "plan", "shards"} \cup Divided
  /\ pc \in {"plan", "shards"} \cup Divided => ~Refused
  /\ order_arg = "source" => order = [s \in Pairs |-> s]
  /\ Permutes(order)
  /\ pc \in Divided => shards = [g \in Gpus |-> ShardFor(g)]

(* What a slot of g holds: its pair's statistic over the dimensions ds. *)
Holds(g, s, ds) == stats[g][s] = StatOf(Place(g, s), ds)

(* The GPUs whose results are finalized and copied. *)
Final(g) == collective => g = 0

IInv ==
  /\ Planned
  /\ pc = "reduce" => \A g \in Gpus : \A s \in Slots(g) : Holds(g, s, Members(shards[g].dims))
  /\ pc = "finalize" => \A g \in Gpus : \A s \in Slots(g) : Holds(g, s, Dims)
  /\ pc = "copy" => \A g \in Gpus, p \in Pairs :
                      Final(g) /\ Finalized(g, p) # {} => sims[g][p] = StatOf(p, Dims)
  /\ EveryPairInPlace

-----------------------------------------------------------------------------
(* The sorted order. *)

LEMMA RowsFinite ==
  ASSUME NEW ds \in SUBSET Dims
  PROVE  IsFiniteSet(ds) /\ Cardinality(ds) \in Nat
<1>1. IsFiniteSet(Dims)
  BY FS_Interval, NDimsAssumption DEF Dims
<1> QED
  BY <1>1, FS_Subset, FS_CardinalityType

LEMMA PairsFinite == IsFiniteSet(Pairs) /\ Cardinality(Pairs) = NPairs
<1>1. NPairs - 1 \in Int /\ ~ (0 > NPairs - 1) /\ NPairs - 1 - 0 + 1 = NPairs
  BY NPairsAssumption
<1>2. IsFiniteSet(Pairs)
  BY <1>1, FS_Interval DEF Pairs
<1>3. Cardinality(Pairs) = NPairs - 1 - 0 + 1
  BY <1>1, FS_Interval DEF Pairs
<1> QED
  BY <1>1, <1>2, <1>3

(* Before is a strict total order of the pairs ... *)
LEMMA BeforeTotal ==
  ASSUME Planned
  PROVE  /\ \A p \in Pairs : ~ Before(p, p)
         /\ \A p, q \in Pairs : p # q => Before(p, q) \/ Before(q, p)
         /\ \A p, q, r \in Pairs : Before(p, q) /\ Before(q, r) => Before(p, r)
<1>1. \A p \in Pairs : ShortLen(p) \in Nat /\ p \in Int
  <2>1. SUFFICES ASSUME NEW p \in Pairs PROVE ShortLen(p) \in Nat
    BY DEF Pairs
  <2>2. rows[p][1] \in SUBSET Dims /\ rows[p][2] \in SUBSET Dims
    BY DEF Planned
  <2> QED
    BY <2>2, RowsFinite DEF ShortLen
<1> QED
  BY <1>1 DEF Before

(* ... so that counting the pairs before it gives each pair its own slot. *)
LEMMA SlotsDiffer ==
  ASSUME Planned, NEW p \in Pairs, NEW q \in Pairs, Before(p, q)
  PROVE  SortedSlot(p) < SortedSlot(q)
<1> DEFINE P == {r \in Pairs : Before(r, p)}
           Q == {r \in Pairs : Before(r, q)}
<1>1. P \subseteq Q /\ p \in Q /\ p \notin P
  BY BeforeTotal
<1>2. IsFiniteSet(P) /\ IsFiniteSet(Q)
  BY PairsFinite, FS_Subset
<1>3. Cardinality(P) \in Nat /\ Cardinality(Q) \in Nat
  BY <1>2, FS_CardinalityType
<1>4. Cardinality(P) <= Cardinality(Q) /\ Cardinality(P) # Cardinality(Q)
  <2> HIDE DEF P, Q
  <2> QED
    BY <1>1, <1>2, FS_Subset
<1> QED
  BY <1>3, <1>4 DEF SortedSlot

LEMMA SlotInRange ==
  ASSUME Planned, NEW p \in Pairs
  PROVE  SortedSlot(p) \in Pairs
<1> DEFINE P == {r \in Pairs : Before(r, p)}
<1>1. P \subseteq Pairs /\ p \notin P
  BY BeforeTotal
<1>2. IsFiniteSet(P)
  BY PairsFinite, FS_Subset
<1>3. Cardinality(P) \in Nat
  BY <1>2, FS_CardinalityType
<1>4. Cardinality(P) <= NPairs /\ Cardinality(P) # NPairs
  <2> HIDE DEF P
  <2> QED
    BY <1>1, <1>2, PairsFinite, FS_Subset
<1> QED
  BY <1>3, <1>4, NPairsAssumption DEF SortedSlot, Pairs

LEMMA SortedPermutes ==
  ASSUME Planned
  PROVE  Permutes([s \in Pairs |-> CHOOSE p \in Pairs : SortedSlot(p) = s])
<1> DEFINE f == [p \in Pairs |-> SortedSlot(p)]
<1>1. f \in [Pairs -> Pairs]
  BY SlotInRange
<1>2. ASSUME NEW p \in Pairs, NEW q \in Pairs, p # q PROVE SortedSlot(p) # SortedSlot(q)
  <2>1. Before(p, q) \/ Before(q, p)
    BY <1>2, BeforeTotal
  <2>2. SortedSlot(p) \in Int /\ SortedSlot(q) \in Int
    BY SlotInRange DEF Pairs
  <2>3. SortedSlot(p) < SortedSlot(q) \/ SortedSlot(q) < SortedSlot(p)
    BY <2>1, SlotsDiffer
  <2> QED
    BY <2>2, <2>3
<1>3. f \in Injection(Pairs, Pairs)
  BY <1>1, <1>2 DEF Injection, IsInjective
<1>4. f \in Surjection(Pairs, Pairs)
  <2> HIDE DEF f
  <2> QED
    BY <1>3, PairsFinite, FS_Injection
<1>5. \A s \in Pairs : \E p \in Pairs : SortedSlot(p) = s
  BY <1>4 DEF Surjection
<1> DEFINE o == [s \in Pairs |-> CHOOSE p \in Pairs : SortedSlot(p) = s]
<1>6. \A s \in Pairs : o[s] \in Pairs /\ SortedSlot(o[s]) = s
  BY <1>5
<1>7. \A p \in Pairs : o[SortedSlot(p)] = p
  BY <1>2, <1>6, SlotInRange
<1>8. o \in [Pairs -> Pairs]
  BY <1>6
<1> HIDE DEF o
<1>9. Permutes(o)
  BY <1>6, <1>7, <1>8, SlotInRange DEF Permutes
<1> QED
  BY <1>9 DEF o

-----------------------------------------------------------------------------
(* The shards. *)

Dimensions(g) == Members(shards[g].dims)

LEMMA Shards ==
  ASSUME Planned, pc \in Divided, NEW g \in Gpus
  PROVE  /\ Begin(g) \in Nat /\ Window(g) \subseteq Pairs
         /\ collective => Begin(g) = 0 /\ Window(g) = Pairs
         /\ ~collective => Dimensions(g) = Dims
<1>1. shards[g] = ShardFor(g)
  BY DEF Planned
<1>2. CASE collective
  <2>1. shards[g].pairs = SplitRange(NPairs, 0, 1)
    BY <1>1, <1>2 DEF ShardFor
  <2> QED
    BY <1>2, <2>1, SplitWhole, NPairsAssumption DEF Begin, Window, Pairs
<1>3. CASE ~collective
  <2>1. shards[g].pairs = SplitRange(NPairs, g, NGpus) /\ shards[g].dims = SplitRange(NDims, 0, 1)
    BY <1>1, <1>3 DEF ShardFor
  <2>2. NPairs \in Nat /\ NGpus \in Nat \ {0} /\ g \in 0 .. NGpus - 1 /\ g \in Nat
    BY NPairsAssumption, NGpusAssumption DEF Gpus
  <2>3. Dimensions(g) = Dims
    BY <2>1, SplitWhole, NDimsAssumption DEF Dimensions, Dims
  <2>4. Begin(g) \in Nat
    BY <2>1, <2>2, SplitType DEF Begin
  <2>5. Window(g) \subseteq Pairs
    BY <2>1, <2>2, SplitWithin DEF Window, Pairs
  <2> QED
    BY <1>3, <2>3, <2>4, <2>5
<1> QED
  BY <1>2, <1>3

(* The pair of a slot; with a sorted order that is under the dim partition. *)
LEMMA Places ==
  ASSUME Planned, pc \in Divided, NEW g \in Gpus
  PROVE  /\ \A s \in Slots(g) : Begin(g) + s \in Window(g) /\ Place(g, s) \in Pairs
         /\ \A s, t \in Slots(g) : Place(g, s) = Place(g, t) => s = t
         /\ \A p \in Window(g) : Finalized(g, p) # {}
         /\ ~collective => \A s \in Slots(g) : Place(g, s) \in Window(g)
<1>1. Begin(g) \in Nat /\ Window(g) \subseteq Pairs /\ (collective => Begin(g) = 0 /\ Window(g) = Pairs)
  BY Shards
<1>2. ASSUME NEW s \in Slots(g)
      PROVE  s \in Pairs /\ s \in Int /\ Begin(g) + s \in Window(g) /\ Begin(g) + s \in Pairs
  BY <1>1 DEF Slots, Pairs
<1>3. Permutes(order)
  BY DEF Planned
<1>4. \A s \in Slots(g) : Place(g, s) \in Pairs
  BY <1>2, <1>3 DEF Place, Permutes
<1>5. ASSUME NEW s \in Slots(g), NEW t \in Slots(g), Place(g, s) = Place(g, t) PROVE s = t
  <2>1. Begin(g) + s = Begin(g) + t
    BY <1>2, <1>3, <1>5 DEF Place, Permutes
  <2> QED
    BY <1>1, <1>2, <2>1
<1>6. ASSUME ~collective PROVE order = [s \in Pairs |-> s]
  BY <1>6 DEF Planned, Refused, Divided, collective
<1>7. ASSUME ~collective, NEW s \in Slots(g) PROVE Place(g, s) = Begin(g) + s
  BY <1>2, <1>6, <1>7 DEF Place
<1>8. ASSUME NEW p \in Window(g) PROVE Finalized(g, p) # {}
  <2>1. p \in Pairs
    BY <1>1
  <2>2. CASE collective
    <3>1. PICK s \in Pairs : order[s] = p
      BY <1>3, <2>1 DEF Permutes
    <3>2. s + 0 = s /\ 0 + s = s
      BY DEF Pairs
    <3>3. s \in Slots(g)
      BY <1>1, <2>2, <3>1, <3>2 DEF Slots
    <3>4. Place(g, s) = p
      BY <1>1, <2>2, <3>1, <3>2 DEF Place
    <3> QED
      BY <3>3, <3>4 DEF Finalized
  <2>3. CASE ~collective
    <3>1. Begin(g) <= p
      BY <1>1, <1>8, <2>1 DEF Window, Members, Begin, Pairs
    <3>2. p - Begin(g) \in Pairs /\ (p - Begin(g)) + Begin(g) = p /\ Begin(g) + (p - Begin(g)) = p
      BY <1>1, <2>1, <3>1, NPairsAssumption DEF Pairs
    <3>3. p - Begin(g) \in Slots(g)
      BY <1>8, <3>2 DEF Slots
    <3>4. Place(g, p - Begin(g)) = p
      BY <1>7, <2>3, <3>2, <3>3
    <3> QED
      BY <3>3, <3>4 DEF Finalized
  <2> QED
    BY <2>2, <2>3
<1> QED
  BY <1>2, <1>4, <1>5, <1>7, <1>8

-----------------------------------------------------------------------------
(* The sum of the partial statistics. *)

(* Statistics over disjoint dimensions add up to that over all of them. *)
LEMMA StatUnion ==
  ASSUME NEW p \in Pairs, NEW ds, NEW es, ds \cap es \cap Dims = {}
  PROVE  StatOf(p, ds \cup es) = Plus(StatOf(p, ds), StatOf(p, es))
<1> DEFINE l == StatOf(p, ds \cup es)
           r == Plus(StatOf(p, ds), StatOf(p, es))
<1>1. \A q \in Pairs : \A d \in Dims : l[q][d] = r[q][d]
  BY DEF StatOf, Plus, Nothing
<1>2. l = [q \in Pairs |-> [d \in Dims |-> l[q][d]]]
  BY DEF StatOf, Nothing
<1>3. r = [q \in Pairs |-> [d \in Dims |-> r[q][d]]]
  BY DEF Plus
<1> HIDE DEF l, r
<1>4. l = r
  BY <1>1, <1>2, <1>3
<1> QED
  BY <1>4 DEF l, r

LEMMA StatEmpty == \A p \in Pairs : StatOf(p, {}) = Nothing
  BY DEF StatOf, Nothing

LEMMA StatDims ==
  ASSUME NEW p \in Pairs, NEW ds, Dims \subseteq ds
  PROVE  StatOf(p, ds) = StatOf(p, Dims)
  BY DEF StatOf

(* Under the dim partition no dimension is counted twice, and none missed. *)
LEMMA Disjoint ==
  ASSUME Planned, pc \in Divided, collective
  PROVE  /\ Dims \subseteq UNION {Dimensions(g) : g \in Gpus}
         /\ \A g, h \in Gpus : g # h => Dimensions(g) \cap Dimensions(h) \cap Dims = {}
<1>1. \A g \in Gpus : Dimensions(g) = Members(SplitRange(NDims, g, NGpus))
  BY DEF Planned, Dimensions, ShardFor
<1>2. Gpus = 0 .. NGpus - 1 /\ Dims = 0 .. NDims - 1
  BY DEF Gpus, Dims
<1>3. ASSUME NEW d \in Dims
      PROVE  /\ \E g \in Gpus : d \in Dimensions(g)
             /\ \A g, h \in Gpus : d \in Dimensions(g) /\ d \in Dimensions(h) => g = h
  <2>1. d \in 0 .. NDims - 1
    BY <1>2
  <2>2. /\ \E g \in 0 .. NGpus - 1 : d \in Members(SplitRange(NDims, g, NGpus))
        /\ \A g, h \in 0 .. NGpus - 1 : d \in Members(SplitRange(NDims, g, NGpus))
             /\ d \in Members(SplitRange(NDims, h, NGpus)) => g = h
    BY <2>1, SplitOwnsOnce, NGpusAssumption, NDimsAssumption
  <2> QED
    BY <1>1, <1>2, <2>2
<1> QED
  BY <1>3

(* Every GPU's partial statistic enters the sum once. *)
LEMMA TotalIsWhole ==
  ASSUME Planned, pc \in Divided, collective, NEW s \in Pairs, NEW p \in Pairs,
         \A g \in Gpus : stats[g][s] = StatOf(p, Dimensions(g))
  PROVE  Total(s) = StatOf(p, Dims)
<1> DEFINE Chosen(q) == CHOOSE x \in q : TRUE
           Rec(f) == [q \in SUBSET Gpus |-> IF q = {} THEN Nothing
                                           ELSE Plus(stats[Chosen(q)][s], f[q \ {Chosen(q)}])]
           Union(q) == UNION {Dimensions(g) : g \in q}
           H == [q \in SUBSET Gpus |-> StatOf(p, Union(q))]
<1>1. Total(s) = (CHOOSE f : f = Rec(f))[Gpus]
  BY DEF Total, FoldSet, MapThenFoldSet
<1>2. H = Rec(H)
  <2>1. SUFFICES ASSUME NEW q \in SUBSET Gpus
                 PROVE  H[q] = IF q = {} THEN Nothing
                               ELSE Plus(stats[Chosen(q)][s], H[q \ {Chosen(q)}])
    OBVIOUS
  <2>2. CASE q = {}
    BY <2>2, StatEmpty
  <2>3. CASE q # {}
    <3>1. PICK x \in q : x = Chosen(q)
      BY <2>3
    <3>2. Union(q) = Dimensions(x) \cup Union(q \ {x})
      BY <3>1
    <3>3. Dimensions(x) \cap Union(q \ {x}) \cap Dims = {}
      BY Disjoint
    <3>4. StatOf(p, Union(q)) = Plus(StatOf(p, Dimensions(x)), StatOf(p, Union(q \ {x})))
      BY <3>2, <3>3, StatUnion
    <3>5. q \ {x} \in SUBSET Gpus /\ x \in Gpus
      OBVIOUS
    <3> QED
      BY <2>3, <3>1, <3>4, <3>5
  <2> QED
    BY <2>2, <2>3
<1>3. ASSUME NEW f, f = Rec(f) PROVE f = H
  <2>1. IsFiniteSet(Gpus)
    BY FS_Interval, NGpusAssumption DEF Gpus
  <2>2. ASSUME NEW q \in SUBSET Gpus, \A u \in SUBSET q : u # q => f[u] = H[u] PROVE f[q] = H[q]
    <3>1. CASE q = {}
      BY <1>2, <1>3, <3>1
    <3>2. CASE q # {}
      <4>1. Chosen(q) \in q
        BY <3>2
      <4>2. f[q \ {Chosen(q)}] = H[q \ {Chosen(q)}]
        BY <2>2, <4>1
      <4>3. f[q] = Plus(stats[Chosen(q)][s], f[q \ {Chosen(q)}])
        BY <1>3, <3>2
      <4>4. H[q] = Plus(stats[Chosen(q)][s], H[q \ {Chosen(q)}])
        BY <1>2, <3>2
      <4> QED
        BY <4>2, <4>3, <4>4
    <3> QED
      BY <3>1, <3>2
  <2>3. f = [q \in SUBSET Gpus |-> f[q]]
    BY <1>3
  <2>4. \A q \in SUBSET Gpus : f[q] = H[q]
    <3> HIDE DEF H
    <3> QED
      BY <2>1, <2>2, AgreeOnSets
  <2> QED
    BY <2>3, <2>4
<1>4. (CHOOSE f : f = Rec(f)) = H
  <2> HIDE DEF H, Rec
  <2> QED
    BY <1>2, <1>3
<1>5. StatOf(p, Union(Gpus)) = StatOf(p, Dims)
  BY Disjoint, StatDims
<1> QED
  BY <1>1, <1>4, <1>5

-----------------------------------------------------------------------------
(* Every step preserves the invariant. *)

LEMMA InitIInv == Init => IInv
<1> SUFFICES ASSUME Init PROVE IInv
  OBVIOUS
<1>1. Permutes(order)
  BY DEF Init, Permutes
<1>2. rows \in [Pairs -> (SUBSET Dims) \X (SUBSET Dims)]
  BY DEF Init
<1> QED
  BY <1>1, <1>2 DEF Init, IInv, Planned, Divided, EveryPairInPlace

LEMMA CliStep == IInv /\ Cli => IInv'
<1> SUFFICES ASSUME IInv, Cli PROVE IInv'
  OBVIOUS
<1>1. pc = "cli" /\ pc' \in {"refused", "plan"} /\ (pc' = "plan" => ~Refused)
  BY DEF Cli
<1>2. UNCHANGED <<input, order, shards, stats, sims, host>>
  BY DEF Cli
<1>3. Planned'
  BY <1>1, <1>2 DEF IInv, Planned, Permutes, Divided, Refused, input
<1> QED
  BY <1>1, <1>3 DEF IInv, EveryPairInPlace

LEMMA PlanStep == IInv /\ PlanPairs => IInv'
<1> SUFFICES ASSUME IInv, PlanPairs PROVE IInv'
  OBVIOUS
<1>1. pc = "plan" /\ pc' = "shards" /\ UNCHANGED <<input, shards>>
  BY DEF PlanPairs
<1>2. Planned
  BY DEF IInv
<1>3. Permutes(order')
  <2>1. Permutes([s \in Pairs |-> s])
    BY DEF Permutes
  <2> QED
    BY <1>2, <2>1, SortedPermutes DEF PlanPairs
<1>4. order_arg = "source" => order' = [s \in Pairs |-> s]
  BY DEF PlanPairs
<1>5. Planned'
  BY <1>1, <1>2, <1>3, <1>4 DEF Planned, Permutes, Divided, Refused, input
<1> QED
  BY <1>1, <1>5 DEF IInv, EveryPairInPlace

LEMMA DivideStep == IInv /\ DivideWork => IInv'
<1> SUFFICES ASSUME IInv, DivideWork PROVE IInv'
  OBVIOUS
<1>1. shards' = [g \in Gpus |-> ShardFor(g)] /\ UNCHANGED <<input, order>> /\ pc = "shards"
  BY DEF DivideWork
<1>2. \A g \in Gpus : ShardFor(g)' = ShardFor(g)
  BY <1>1 DEF ShardFor, collective, input
<1>3. Planned
  BY DEF IInv
<1>4. StartupCheck
  <2>1. SUFFICES ASSUME partition = "pair"
                 PROVE  /\ RangesTile([g \in Gpus |-> shards'[g].pairs], NGpus, NPairs)
                        /\ OrderIsIdentity(order, NPairs)
    BY DEF StartupCheck
  <2>2. [g \in Gpus |-> shards'[g].pairs]
        = [g \in 0 .. NGpus - 1 |-> SplitRange(NPairs, g, NGpus)]
    BY <1>1, <2>1 DEF ShardFor, collective, Gpus
  <2>3. RangesTile([g \in Gpus |-> shards'[g].pairs], NGpus, NPairs)
    BY <2>2, SplitTiles, NGpusAssumption, NPairsAssumption
  <2>4. order = [s \in Pairs |-> s]
    BY <1>1, <1>3, <2>1 DEF Planned, Refused
  <2> QED
    BY <2>3, <2>4 DEF OrderIsIdentity, Pairs
<1>5. pc' = "stats"
  BY <1>4 DEF DivideWork
<1>6. Planned'
  BY <1>1, <1>2, <1>3, <1>5 DEF Planned, Permutes, Divided, Refused, input
<1> QED
  BY <1>5, <1>6 DEF IInv, EveryPairInPlace

(* After the shards are made they stay, and so does all they are made of. *)
LEMMA Settled ==
  ASSUME Planned, UNCHANGED <<input, order, shards>>,
         (pc \in Divided /\ pc' \in Divided) \/ UNCHANGED pc
  PROVE  /\ Planned'
         /\ \A p, ds : StatOf(p, ds)' = StatOf(p, ds)
         /\ \A g : Slots(g)' = Slots(g) /\ Final(g)' = Final(g)
         /\ \A g, s : Place(g, s)' = Place(g, s)
         /\ \A g, p : Finalized(g, p)' = Finalized(g, p)
<1>1. \A g \in Gpus : ShardFor(g)' = ShardFor(g)
  BY DEF ShardFor, collective, input
<1>2. Planned'
  BY <1>1 DEF Planned, Permutes, Divided, Refused, input
<1>3. \A p, ds : StatOf(p, ds)' = StatOf(p, ds)
  BY DEF StatOf, input
<1>4. \A g : Slots(g)' = Slots(g)
  BY DEF Slots, Begin, Window
<1>5. \A g, s : Place(g, s)' = Place(g, s)
  BY DEF Place, Begin
<1>6. \A g : Final(g)' = Final(g)
  BY DEF Final, collective, input
<1>7. \A g, p : Finalized(g, p)' = Finalized(g, p)
  BY <1>4, <1>5 DEF Finalized
<1> QED
  BY <1>2, <1>3, <1>4, <1>5, <1>6, <1>7

LEMMA ComputeStep == IInv /\ ComputeStats => IInv'
<1> SUFFICES ASSUME IInv, ComputeStats PROVE IInv'
  OBVIOUS
<1>1. pc = "stats" /\ pc' = "reduce" /\ UNCHANGED <<input, order, shards>>
  BY DEF ComputeStats
<1>2. Planned /\ Planned'
  BY <1>1, Settled DEF IInv, Divided
<1>3. ASSUME NEW g \in Gpus, NEW s \in Slots(g)
      PROVE  Holds(g, s, Members(shards[g].dims))'
  <2>1. s \in Pairs
    BY DEF Slots
  <2>2. stats'[g][s] = StatOf(Place(g, s), Members(shards[g].dims))
    BY <1>3, <2>1 DEF ComputeStats, Place
  <2> QED
    BY <1>1, <1>2, <2>2, Settled DEF Holds, Divided
<1>4. \A g \in Gpus : Slots(g)' = Slots(g)
  BY <1>1, <1>2, Settled DEF Divided
<1> QED
  BY <1>1, <1>2, <1>3, <1>4 DEF IInv, EveryPairInPlace

LEMMA ReduceStep == IInv /\ Reduce => IInv'
<1> SUFFICES ASSUME IInv, Reduce PROVE IInv'
  OBVIOUS
<1>1. pc = "reduce" /\ pc' = "finalize" /\ UNCHANGED <<input, order, shards>>
  BY DEF Reduce
<1>2. Planned /\ Planned' /\ pc \in Divided /\ pc' \in Divided
  BY <1>1, Settled DEF IInv, Divided
<1>3. ASSUME NEW g \in Gpus, NEW s \in Slots(g)
      PROVE  stats'[g][s] = StatOf(Place(g, s), Dims)
  <2>1. s \in Pairs /\ Place(g, s) \in Pairs
    BY <1>2, Places DEF Slots
  <2>2. CASE collective
    <3>1. \A h \in Gpus : Begin(h) = 0 /\ Slots(h) = Pairs
      <4>1. \A h \in Gpus : Begin(h) = 0 /\ Window(h) = Pairs
        BY <1>2, <2>2, Shards
      <4>2. \A t \in Pairs : t + 0 = t
        BY DEF Pairs
      <4> QED
        BY <4>1, <4>2 DEF Slots
    <3>2. \A h \in Gpus : Place(h, s) = Place(g, s)
      BY <3>1 DEF Place
    <3>3. \A h \in Gpus : stats[h][s] = StatOf(Place(g, s), Dimensions(h))
      BY <1>1, <2>1, <3>1, <3>2 DEF IInv, Holds, Dimensions
    <3>4. Total(s) = StatOf(Place(g, s), Dims)
      BY <1>2, <2>1, <2>2, <3>3, TotalIsWhole
    <3> QED
      BY <2>1, <2>2, <3>4 DEF Reduce
  <2>3. CASE ~collective
    <3>1. Dimensions(g) = Dims
      BY <1>2, <2>3, Shards
    <3> QED
      BY <1>1, <2>3, <3>1 DEF Reduce, IInv, Holds, Dimensions
  <2> QED
    BY <2>2, <2>3
<1>4. \A g \in Gpus : \A s \in Slots(g)' : Holds(g, s, Dims)'
  BY <1>1, <1>2, <1>3, Settled DEF Holds
<1> QED
  BY <1>1, <1>2, <1>4 DEF IInv, EveryPairInPlace

LEMMA FinalizeStep == IInv /\ Finalize => IInv'
<1> SUFFICES ASSUME IInv, Finalize PROVE IInv'
  OBVIOUS
<1>1. pc = "finalize" /\ pc' = "copy" /\ UNCHANGED <<input, order, shards>>
  BY DEF Finalize
<1>2. Planned /\ Planned' /\ pc \in Divided /\ pc' \in Divided
  BY <1>1, Settled DEF IInv, Divided
<1>3. ASSUME NEW g \in Gpus, NEW p \in Pairs, Final(g), Finalized(g, p) # {}
      PROVE  sims'[g][p] = StatOf(p, Dims)
  <2>1. PICK s \in Finalized(g, p) : TRUE
    BY <1>3
  <2>2. \A t \in Finalized(g, p) : t = s
    BY <1>2, <2>1, Places DEF Finalized
  <2>3. s \in Slots(g) /\ Place(g, s) = p /\ s \in Int
    BY <2>1 DEF Finalized, Slots, Pairs
  <2>4. Finalized(g, p) = {s}
    BY <2>1, <2>2
  <2>5. Max(Finalized(g, p)) = s
    <3>1. s >= s
      BY <2>3
    <3> QED
      BY <2>4, <3>1 DEF Max
  <2>6. sims'[g][p] = stats[g][s]
    BY <1>3, <2>5 DEF Finalize, Final
  <2> QED
    BY <1>1, <2>3, <2>6 DEF IInv, Holds
<1>4. \A g \in Gpus, p \in Pairs :
        Final(g)' /\ Finalized(g, p)' # {} => sims'[g][p] = StatOf(p, Dims)'
  BY <1>1, <1>2, <1>3, Settled
<1> QED
  BY <1>1, <1>2, <1>4 DEF IInv, EveryPairInPlace

LEMMA CopyStep == IInv /\ CopyBack => IInv'
<1> SUFFICES ASSUME IInv, CopyBack PROVE IInv'
  OBVIOUS
<1>1. pc = "copy" /\ pc' = "done" /\ UNCHANGED <<input, order, shards>>
  BY DEF CopyBack
<1>2. Planned /\ Planned' /\ pc \in Divided /\ pc' \in Divided
  BY <1>1, Settled DEF IInv, Divided
<1>3. ASSUME NEW p \in Pairs PROVE host'[p] = StatOf(p, Dims)
  <2>1. PICK g \in Gpus : CopiedFrom(p) = {g}
    <3>1. CASE collective
      <4>1. 0 \in Gpus
        BY NGpusAssumption DEF Gpus
      <4>2. p \in Window(0)
        BY <1>2, <3>1, <4>1, Shards
      <4>3. CopiedFrom(p) = {0}
        BY <3>1, <4>1, <4>2 DEF CopiedFrom
      <4> QED
        BY <4>1, <4>3
    <3>2. CASE ~collective
      <4>1. \A g \in Gpus : Window(g) = Members(SplitRange(NPairs, g, NGpus))
        BY <1>2, <3>2 DEF Planned, Window, ShardFor
      <4>2. p \in 0 .. NPairs - 1 /\ NPairs \in Nat /\ Gpus = 0 .. NGpus - 1
        BY NPairsAssumption DEF Pairs, Gpus
      <4>3. /\ \E g \in 0 .. NGpus - 1 : p \in Members(SplitRange(NPairs, g, NGpus))
            /\ \A g, h \in 0 .. NGpus - 1 : p \in Members(SplitRange(NPairs, g, NGpus))
                 /\ p \in Members(SplitRange(NPairs, h, NGpus)) => g = h
        BY <4>2, SplitOwnsOnce, NGpusAssumption
      <4> QED
        BY <3>2, <4>1, <4>2, <4>3 DEF CopiedFrom
    <3> QED
      BY <3>1, <3>2
  <2>2. p \in Window(g) /\ Final(g)
    BY <2>1 DEF CopiedFrom, Final
  <2>3. Finalized(g, p) # {}
    BY <1>2, <2>2, Places
  <2>4. sims[g][p] = StatOf(p, Dims)
    BY <1>1, <2>2, <2>3 DEF IInv
  <2>5. g \in Int /\ g >= g
    BY DEF Gpus
  <2>6. Max(CopiedFrom(p)) = g
    BY <2>1, <2>5 DEF Max
  <2> QED
    BY <2>1, <2>4, <2>6 DEF CopyBack
<1>4. EveryPairInPlace'
  BY <1>1, <1>2, <1>3, Settled DEF EveryPairInPlace
<1> QED
  BY <1>1, <1>2, <1>4 DEF IInv

LEMMA StutterStep == IInv /\ UNCHANGED vars => IInv'
<1> SUFFICES ASSUME IInv, UNCHANGED vars PROVE IInv'
  OBVIOUS
<1>1. UNCHANGED <<input, order, shards, pc, stats, sims, host>>
  BY DEF vars
<1>2. Planned /\ Planned'
  BY <1>1, Settled DEF IInv
<1>3. \A g, s, ds : Holds(g, s, ds)' = Holds(g, s, ds)
  BY <1>1, <1>2, Settled DEF Holds
<1>4. EveryPairInPlace'
  BY <1>1, <1>2, Settled DEF IInv, EveryPairInPlace
<1>5. \A g : Slots(g)' = Slots(g) /\ Final(g)' = Final(g)
  BY <1>1, <1>2, Settled
<1>6. \A g, p : Finalized(g, p)' = Finalized(g, p)
  BY <1>1, <1>2, Settled
<1>7. \A p, ds : StatOf(p, ds)' = StatOf(p, ds)
  BY <1>1, <1>2, Settled
<1> QED
  BY <1>1, <1>2, <1>3, <1>4, <1>5, <1>6, <1>7 DEF IInv

LEMMA NextIInv == IInv /\ [Next]_vars => IInv'
  BY CliStep, PlanStep, DivideStep, ComputeStep, ReduceStep, FinalizeStep, CopyStep,
     StutterStep DEF Next

LEMMA Invariance == Spec => []IInv
  BY InitIInv, NextIInv, PTL DEF Spec

-----------------------------------------------------------------------------
(* Whatever the command line accepts passes the startup checks. *)
THEOREM StartupAccepts == Spec => []ChecksPass
<1>1. IInv => ChecksPass
  BY DEF IInv, Planned, ChecksPass, Divided
<1> QED
  BY <1>1, Invariance, PTL

(* Every pair, or every dimension, is owned by exactly one GPU. *)
THEOREM Ownership == Spec => []OwnedOnce
<1>1. ASSUME IInv PROVE OwnedOnce
  <2>1. SUFFICES ASSUME pc \in Divided,
                        NEW x \in IF collective THEN Dims ELSE Pairs
                 PROVE  /\ \E g \in Gpus : Owned(x, g)
                        /\ \A g, h \in Gpus : Owned(x, g) /\ Owned(x, h) => g = h
    BY DEF OwnedOnce, Divided
  <2>2. shards = [g \in Gpus |-> ShardFor(g)]
    BY <1>1, <2>1 DEF IInv, Planned
  <2> DEFINE t == IF collective THEN NDims ELSE NPairs
  <2>3. t \in Nat /\ x \in 0 .. t - 1
    BY <2>1, NPairsAssumption, NDimsAssumption DEF Dims, Pairs
  <2>4. \A g \in Gpus : Owned(x, g) <=> x \in Members(SplitRange(t, g, NGpus))
    BY <2>2 DEF Owned, ShardFor
  <2> HIDE DEF t
  <2> QED
    BY <2>3, <2>4, SplitOwnsOnce, NGpusAssumption DEF Gpus
<1> QED
  BY <1>1, Invariance, PTL

(* Host memory ends up with every pair's complete statistic in its place. *)
THEOREM Placement == Spec => []EveryPairInPlace
<1>1. IInv => EveryPairInPlace
  BY DEF IInv
<1> QED
  BY <1>1, Invariance, PTL
=============================================================================
