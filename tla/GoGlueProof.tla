----------------------------- MODULE GoGlueProof -----------------------------
(***************************************************************************)
(* Proofs about GoGlue, for any number of functions and any signatures and *)
(* requests: the types hold for any calls of Dispatch and Bind, and no     *)
(* function that is kept is lost; the other invariants hold when the       *)
(* application makes these calls one at a time.                            *)
(***************************************************************************)
EXTENDS GoGlue, WellFoundedInduction, FiniteSetTheorems, TLAPS

\* The functions whose call has begun, and the slots from i on that are taken
Begun == {f \in Functions : pc[f] # "before"}
Filled(i, map) == {s \in Slots : s >= i /\ map[s] # None}

\* The index moves on only over slots that are taken: each call that begins takes
\* one slot, and either lengthens what is taken or moves the index
Room ==
  index + Cardinality(Filled(index, dispatch)) + Cardinality(Filled(index, bindings))
    <= Cardinality(Begun)

\* What holds however the calls interleave
TypeInv ==
  /\ TypeOK
  /\ Room
  /\ \A f \in Bound : pc[f] = "passed" => context[f] \in Slots

\* A call has stored its function at index, and it is the only one to have done so
OneCall ==
  /\ \A f, g \in Functions : pc[f] = "stored" /\ pc[g] = "stored" => f = g
  /\ \A f \in Dispatched : pc[f] = "stored" => dispatch[index] = f
  /\ \A f \in Bound : pc[f] = "stored" => bindings[index] = f

\* A bound function keeps its slot; a dispatched one has one slot, until it is run
Placed ==
  /\ \A f \in Bound : pc[f] = "passed" => bindings[context[f]] = f
  /\ \A s \in Slots : dispatch[s] # None => pc[dispatch[s]] # "before"
  /\ \A s, t \in Slots : dispatch[s] = dispatch[t] /\ dispatch[s] # None => s = t

\* Slots are posted once, and functions run once; only messages of calls that have
\* returned are lost
Once ==
  /\ \A i, j \in DOMAIN posted : posted[i] = posted[j] => i = j
  /\ \A i \in DOMAIN ran : /\ ran[i] \in Dispatched /\ pc[ran[i]] = "passed"
                           /\ \A s \in Slots : dispatch[s] # ran[i]
  /\ \A i, j \in DOMAIN ran : ran[i] = ran[j] => i = j
  /\ \A f \in lost : pc[f] = "passed" /\ f \in Functions

\* A dispatched function is in the map from the moment it is stored until it runs
Held(f) == \E s \in Slots : dispatch[s] = f
HasRun(f) == \E i \in DOMAIN ran : ran[i] = f
Kept == \A f \in Dispatched : pc[f] # "before" => Held(f) \/ HasRun(f)

\* What holds when calls are made one at a time
GlueInv == OneCall /\ Placed /\ Once /\ PostedIffStored /\ CallsOwnFunction
-----------------------------------------------------------------------------
\* A set of natural numbers that is not empty has a least element: the intervals
\* up to its elements are finite sets, which strict inclusion orders.
LEMMA LeastElement ==
  ASSUME NEW T \in SUBSET Nat, T # {}
  PROVE  \E x \in T : \A y \in T : x <= y
<1> DEFINE R == StrictSubsetOrdering(Nat)
           F == {0..x : x \in T}
<1>1. \A x \in T : 0..x \in SUBSET Nat /\ IsFiniteSet(0..x)
  BY FS_Interval
<1>2. F \subseteq FiniteSubsetsOf(Nat) /\ F # {}
  BY <1>1 DEF FiniteSubsetsOf
<1>3. IsWellFoundedOn(R, FiniteSubsetsOf(Nat))
  BY FS_StrictSubsetOrderingWellFounded
<1>4. \E X \in F : \A Y \in F : ~ (<<Y, X>> \in R)
  <2> HIDE DEF R, F
  <2>1. QED
    BY <1>2, <1>3, WFMin
<1>5. PICK x \in T : \A y \in T : ~ (<<0..y, 0..x>> \in R)
  BY <1>4
<1>6. ASSUME NEW y \in T, y < x PROVE FALSE
  <2>1. 0..y \subseteq 0..x /\ x \in 0..x /\ x \notin 0..y
    BY <1>6
  <2>2. <<0..y, 0..x>> \in R
    BY <1>1, <2>1 DEF StrictSubsetOrdering
  <2>3. QED
    BY <1>5, <2>2
<1>7. QED
  BY <1>6

\* There are finitely many functions, slots and taken slots.
LEMMA Finite ==
  /\ IsFiniteSet(Functions) /\ Cardinality(Functions) \in Nat
  /\ IsFiniteSet(Slots) /\ Slots \subseteq Nat
  /\ IsFiniteSet(Begun) /\ Cardinality(Begun) \in 0..Cardinality(Functions)
<1>1. IsFiniteSet(Functions)
  BY FunctionsAssumption, FS_Union DEF Functions
<1>2. Cardinality(Functions) \in Nat
  BY <1>1, FS_CardinalityType
<1>3. IsFiniteSet(Slots) /\ Slots \subseteq Nat
  BY <1>2, FS_Interval DEF Slots
<1>4. Begun \in SUBSET Functions
  BY DEF Begun
<1>5. IsFiniteSet(Begun) /\ Cardinality(Begun) <= Cardinality(Functions)
  BY <1>1, <1>4, FS_Subset
<1>6. Cardinality(Begun) \in Nat
  BY <1>5, FS_CardinalityType
<1>7. QED
  BY <1>1, <1>2, <1>3, <1>5, <1>6

\* The slots that are taken from one on are finitely many.
LEMMA FilledFinite ==
  ASSUME NEW i, NEW map
  PROVE  IsFiniteSet(Filled(i, map)) /\ Cardinality(Filled(i, map)) \in Nat
<1>1. Filled(i, map) \in SUBSET Slots
  BY DEF Filled
<1>2. QED
  BY <1>1, Finite, FS_Subset, FS_CardinalityType

\* With room left from index on, there is a free slot, and FreeSlot finds it.
LEMMA FreeSlotFound ==
  ASSUME NEW map, index \in Slots,
         index + Cardinality(Filled(index, map)) <= Cardinality(Functions)
  PROVE  /\ FreeSlot(map) \in Slots /\ FreeSlot(map) >= index
         /\ map[FreeSlot(map)] = None
         /\ \A r \in index..(FreeSlot(map) - 1) : map[r] # None
<1> DEFINE N == Cardinality(Functions)
           T == {s \in Slots : s >= index /\ map[s] = None}
<1>1. N \in Nat /\ index \in 0..N /\ Slots = 0..N
  BY Finite DEF Slots
<1>2. T # {}
  <2> SUFFICES ASSUME T = {} PROVE FALSE
    OBVIOUS
  <2>1. Filled(index, map) = index..N
    BY <1>1 DEF Filled
  <2>2. Cardinality(index..N) = N - index + 1
    BY <1>1, FS_Interval
  <2> HIDE DEF N, T
  <2>3. QED
    BY <1>1, <2>1, <2>2 DEF N
<1>3. PICK s \in T : \A t \in T : s <= t
  <2>1. T \in SUBSET Nat
    BY <1>1
  <2> HIDE DEF T
  <2>2. QED
    BY <1>2, <2>1, LeastElement
<1>4. \A r \in index..(s - 1) : map[r] # None
  BY <1>1, <1>3
<1>5. s \in Slots /\ s >= index /\ map[s] = None
  BY <1>3
<1>6. QED
  BY <1>4, <1>5 DEF FreeSlot

\* Filling the first free slot takes one slot more, or moves the index.
LEMMA FillingCounts ==
  ASSUME NEW D, NEW map \in [Slots -> D], NEW i \in Slots, NEW s \in Slots, s >= i,
         map[s] = None, \A r \in i..(s - 1) : map[r] # None, NEW f
  PROVE  s + Cardinality(Filled(s, [map EXCEPT ![s] = f]))
           <= i + Cardinality(Filled(i, map)) + 1
<1> DEFINE U == Filled(s, map)
           new == Filled(s, [map EXCEPT ![s] = f])
           passed == i..(s - 1)
<1>1. i \in Nat /\ s \in Nat /\ \A r \in passed : r \in Slots
  <2>1. Cardinality(Functions) \in Nat
    BY Finite
  <2>2. QED
    BY <2>1 DEF Slots
<1>2. Filled(i, map) = passed \cup U /\ passed \cap U = {}
  <2>1. \A t \in Slots : t \in Nat
    BY Finite
  <2>2. \A t \in Slots : t >= i <=> t \in passed \/ t >= s
    BY <1>1, <2>1
  <2>3. \A t \in passed : t \in Slots /\ t >= i /\ ~(t >= s) /\ map[t] # None
    BY <1>1
  <2>4. QED
    BY <2>2, <2>3, s >= i DEF Filled
<1>3. IsFiniteSet(passed) /\ Cardinality(passed) = s - i
  <2>1. i \in Int /\ s - 1 \in Int
    BY <1>1
  <2>2. /\ IsFiniteSet(i..(s - 1))
        /\ Cardinality(i..(s - 1)) = IF i > s - 1 THEN 0 ELSE (s - 1) - i + 1
    BY <2>1, FS_Interval
  <2>3. QED
    BY <1>1, <2>2
<1>4. IsFiniteSet(U) /\ Cardinality(U) \in Nat
  BY FilledFinite
<1>5. Cardinality(Filled(i, map)) = (s - i) + Cardinality(U)
  <2> HIDE DEF passed, U
  <2>1. Cardinality(passed \cup U) = Cardinality(passed) + Cardinality(U) - Cardinality({})
    BY <1>2, <1>3, <1>4, FS_Union
  <2>2. QED
    BY <1>1, <1>2, <1>3, <1>4, <2>1, FS_EmptySet
<1>6. new \in SUBSET (U \cup {s})
  BY DEF Filled
<1>7. IsFiniteSet(U \cup {s}) /\ Cardinality(U \cup {s}) <= Cardinality(U) + 1
  <2> HIDE DEF U
  <2>1. /\ IsFiniteSet(U \cup {s})
        /\ Cardinality(U \cup {s}) = IF s \in U THEN Cardinality(U) ELSE Cardinality(U) + 1
    BY <1>4, FS_AddElement
  <2>2. QED
    BY <1>4, <2>1
<1>8. Cardinality(new) <= Cardinality(U \cup {s}) /\ Cardinality(new) \in Nat
  <2>1. Cardinality(new) \in Nat
    BY FilledFinite
  <2> HIDE DEF U, new
  <2>2. QED
    BY <1>6, <1>7, <2>1, FS_Subset
<1> HIDE DEF U, new, passed
<1>9. Cardinality(new) <= Cardinality(U) + 1
  <2>1. Cardinality(U \cup {s}) \in Nat
    BY <1>7, FS_CardinalityType
  <2>2. QED
    BY <1>4, <1>7, <1>8, <2>1
<1>10. QED
  BY <1>1, <1>4, <1>5, <1>8, <1>9 DEF new

\* Fewer slots are taken from a higher index on, and when one was freed.
LEMMA FilledShrinks ==
  ASSUME NEW i \in Slots, NEW j \in Slots, j >= i, NEW map, NEW other,
         \A s \in Slots : other[s] # None => map[s] # None
  PROVE  Cardinality(Filled(j, other)) <= Cardinality(Filled(i, map))
<1>1. Filled(j, other) \in SUBSET Filled(i, map)
  <2>1. i \in Nat /\ j \in Nat /\ \A s \in Slots : s \in Nat
    BY Finite
  <2>2. \A s \in Slots : s >= j => s >= i
    BY <2>1
  <2>3. QED
    BY <2>2 DEF Filled
<1>2. QED
  BY <1>1, FilledFinite, FS_Subset

\* The empty maps.
LEMMA FilledEmpty == Cardinality(Filled(0, [s \in Slots |-> None])) = 0
<1>1. Filled(0, [s \in Slots |-> None]) = {}
  BY DEF Filled
<1>2. QED
  BY <1>1, FS_EmptySet
-----------------------------------------------------------------------------
\* A function is either bound or dispatched.
LEMMA BoundOrDispatched ==
  /\ Dispatched \subseteq Functions /\ Bound \subseteq Functions
  /\ \A f \in Dispatched : f \notin Bound /\ f # None
  /\ \A f \in Bound : f \notin Dispatched /\ f # None
BY FunctionsAssumption DEF Functions

\* A request that is not refused gives each parameter a value of its type.
LEMMA ArgumentsFit ==
  ASSUME NEW f \in Bound, NEW raw \in Requests, Called(SignatureOf[f], raw)
  PROVE  /\ Arguments(SignatureOf[f], raw) \in Seq(Types)
         /\ Fits(SignatureOf[f], Arguments(SignatureOf[f], raw))
<1> DEFINE h == SignatureOf[f]
<1>1. /\ h.in \in Seq(Types) /\ h.variadic \in BOOLEAN
      /\ h.variadic => Len(h.in) > 0
  BY RequestsAssumption DEF Signature
<1>2. raw \in Seq(SUBSET Types)
  BY RequestsAssumption
<1>3. /\ ~h.variadic => Len(raw) = Len(h.in)
      /\ h.variadic => Len(raw) >= Len(h.in) - 1
  BY <1>1, <1>2 DEF Called, Mismatch
<1> HIDE DEF h
<1>4. ASSUME NEW i \in 1..Len(raw)
      PROVE  /\ ArgumentType(h, i) \in Types
             /\ i <= Fixed(h) => ArgumentType(h, i) = h.in[i]
             /\ i > Fixed(h) => h.variadic /\ ArgumentType(h, i) = h.in[Len(h.in)]
  <2>1. CASE h.variadic
    BY <1>1, <1>2, <1>3, <1>4, <2>1 DEF ArgumentType, Fixed
  <2>2. CASE ~h.variadic
    BY <1>1, <1>2, <1>3, <1>4, <2>2 DEF ArgumentType, Fixed
  <2> QED BY <1>1, <2>1, <2>2
<1> DEFINE args == [i \in 1..Len(raw) |-> ArgumentType(h, i)]
<1>5. args \in Seq(Types) /\ Len(args) = Len(raw)
  BY <1>2, <1>4
<1>6. Arguments(h, raw) = args
  BY <1>2 DEF Arguments
<1>7. Fits(h, args)
  <2>1. Fixed(h) \in Nat /\ Len(raw) \in Nat /\ Len(raw) >= Fixed(h)
    BY <1>1, <1>2, <1>3 DEF Fixed
  <2>2. \A i \in 1..Len(raw) : args[i] = ArgumentType(h, i)
    OBVIOUS
  <2> HIDE DEF args
  <2> QED BY <1>4, <1>5, <2>1, <2>2 DEF Fits
<1> QED BY <1>5, <1>6, <1>7 DEF h

\* The status is zero exactly if no result is an error that is set, or has no JSON.
LEMMA StatusTells ==
  ASSUME NEW f \in Bound, NEW res \in Results(SignatureOf[f]),
         Bindable(SignatureOf[f]), Documented(SignatureOf[f])
  PROVE  Status(SignatureOf[f], res) = 0 <=>
           \A i \in DOMAIN res :
             res[i] # (IF SignatureOf[f].out[i] = "error" THEN "set" ELSE "odd")
<1> DEFINE h == SignatureOf[f]
<1>0. h.out \in Seq({"value", "error"})
  BY RequestsAssumption DEF Signature
<1>1. h.out \in Seq({"value", "error"}) /\ Len(h.out) \in {0, 1, 2}
  <2>1. Len(h.out) \in Nat /\ Len(h.out) <= 2
    BY <1>0 DEF Bindable
  <2>2. \A len \in Nat : len <= 2 => len \in {0, 1, 2}
    OBVIOUS
  <2> QED BY <1>0, <2>1, <2>2, Zenon
<1>2. /\ res \in Seq({"nil", "set", "odd"}) /\ Len(res) = Len(h.out)
      /\ DOMAIN res = 1..Len(h.out)
      /\ \A i \in DOMAIN res : res[i] # (IF h.out[i] = "error" THEN "odd" ELSE "nil")
  BY <1>1 DEF Results
<1>3. Len(h.out) = 2 => h.out[1] = "value" /\ h.out[2] = "error"
  BY DEF Documented
<1> HIDE DEF h
<1>4. CASE Len(h.out) = 0
  BY <1>2, <1>4 DEF Status, ReportsError, HasJson, h
<1>5. CASE Len(h.out) = 1
  <2>1. 1 \in DOMAIN res /\ DOMAIN res = {1} /\ res # << >> /\ Len(res) = 1
    BY <1>2, <1>5
  <2>2. res[1] \in {"nil", "set", "odd"} /\ h.out[1] \in {"value", "error"}
    BY <1>1, <1>2, <1>5, <2>1
  <2> QED BY <1>2, <2>1, <2>2 DEF Status, ReportsError, HasJson, h
<1>6. CASE Len(h.out) = 2
  <2>1. DOMAIN res = {1, 2} /\ res # << >> /\ Len(res) = 2
    BY <1>2, <1>6
  <2>2. res[1] \in {"nil", "set", "odd"} /\ res[2] \in {"nil", "set", "odd"}
    BY <1>2, <2>1
  <2> QED BY <1>2, <1>3, <1>6, <2>1, <2>2 DEF Status, ReportsError, HasJson, h
<1> QED BY <1>1, <1>4, <1>5, <1>6

\* What a request for a bound function leads to has its type.
LEMMA ReplyTyped ==
  ASSUME NEW f \in Bound, BindingCallback(f), bindings[context[f]] \in Bound \cup {None}
  PROVE  reply' \in Reply
<1> DEFINE g == bindings[context[f]]
           to_f == [NoReply EXCEPT !.asked = f, !.found = g]
<1>1. << >> \in Seq(Types) /\ << >> \in Seq({"nil", "set", "odd"})
  OBVIOUS
<1>2. to_f \in Reply
  BY <1>1 DEF NoReply, Reply
<1>3. CASE reply' = to_f
  BY <1>2, <1>3
<1>4. CASE g \in Bound /\ \E raw \in Requests : Called(SignatureOf[g], raw) /\ reply' # to_f
  <2>1. PICK raw \in Requests, res \in Results(SignatureOf[g]) :
           /\ Called(SignatureOf[g], raw)
           /\ reply' = [to_f EXCEPT !.called = TRUE,
                                    !.args = Arguments(SignatureOf[g], raw),
                                    !.res = res, !.status = Status(SignatureOf[g], res)]
    BY <1>4 DEF BindingCallback
  <2>2. Arguments(SignatureOf[g], raw) \in Seq(Types)
    BY <1>4, <2>1, ArgumentsFit
  <2>3. res \in Seq({"nil", "set", "odd"})
    <3>1. SignatureOf[g].out \in Seq({"value", "error"})
      BY <1>4, RequestsAssumption DEF Signature
    <3>2. res \in [1..Len(SignatureOf[g].out) -> {"nil", "set", "odd"}]
      BY <3>1 DEF Results
    <3> QED BY <3>1, <3>2
  <2>4. Status(SignatureOf[g], res) \in {0, -1}
    BY DEF Status
  <2> QED BY <1>2, <2>1, <2>2, <2>3, <2>4 DEF Reply
<1> QED BY <1>3, <1>4 DEF BindingCallback

\* The types, and the room for slots, hold at first.
LEMMA TypeInit == Init => TypeInv
<1> SUFFICES ASSUME Init PROVE TypeInv
  OBVIOUS
<1> USE DEF Init
<1>1. 0 \in Slots
  BY Finite DEF Slots
<1>0. << >> \in Seq(Types) /\ << >> \in Seq({"nil", "set", "odd"})
  OBVIOUS
<1>2. TypeOK
  BY <1>0, <1>1 DEF TypeOK, Reply, NoReply
<1>3. Begun = {}
  BY DEF Begun
<1>4. Cardinality(Begun) = 0
  BY <1>3, FS_EmptySet
<1>5. Room
  BY <1>4, FilledEmpty DEF Room
<1>6. \A f \in Bound : pc[f] # "passed"
  BY BoundOrDispatched
<1>7. QED
  BY <1>2, <1>5, <1>6 DEF TypeInv

\* A call that begins fills a free slot of one map, and there is one.
LEMMA StoreKeepsRoom ==
  ASSUME TypeInv, NEW f \in Functions, pc[f] = "before",
         NEW map, NEW other, NEW D, map \in [Slots -> D],
         Room <=> index + Cardinality(Filled(index, map)) + Cardinality(Filled(index, other))
                    <= Cardinality(Begun),
         index' = FreeSlot(map),
         pc' = [pc EXCEPT ![f] = "stored"]
  PROVE  /\ index' \in Slots /\ map[index'] = None
         /\ index' + Cardinality(Filled(index', [map EXCEPT ![index'] = f]))
              + Cardinality(Filled(index', other)) <= Cardinality(Begun')
<1>1. index \in Slots /\ index \in Nat
  BY Finite DEF TypeInv, TypeOK
<1>2. /\ Cardinality(Filled(index, map)) \in Nat /\ Cardinality(Filled(index, other)) \in Nat
      /\ Cardinality(Filled(index', other)) \in Nat
      /\ Cardinality(Filled(index', [map EXCEPT ![index'] = f])) \in Nat
  BY FilledFinite
<1>3. index + Cardinality(Filled(index, map)) + Cardinality(Filled(index, other))
        <= Cardinality(Begun)
  BY DEF TypeInv
<1>4. index + Cardinality(Filled(index, map)) <= Cardinality(Functions)
  BY <1>1, <1>2, <1>3, Finite
<1>5. /\ index' \in Slots /\ index' >= index /\ map[index'] = None
      /\ \A r \in index..(index' - 1) : map[r] # None
  BY <1>1, <1>4, FreeSlotFound
<1>6. index' + Cardinality(Filled(index', [map EXCEPT ![index'] = f]))
        <= index + Cardinality(Filled(index, map)) + 1
  BY <1>1, <1>5, FillingCounts
<1>7. Cardinality(Filled(index', other)) <= Cardinality(Filled(index, other))
  BY <1>1, <1>5, FilledShrinks
<1>8. Cardinality(Begun') = Cardinality(Begun) + 1
  <2>1. Begun' = Begun \cup {f} /\ f \notin Begun
    BY DEF Begun, TypeInv, TypeOK
  <2>2. QED
    BY <2>1, Finite, FS_AddElement
<1>9. Cardinality(Begun) \in Nat /\ index' \in Nat
  BY <1>5, Finite
<1>10. QED
  BY <1>1, <1>2, <1>3, <1>5, <1>6, <1>7, <1>8, <1>9

\* Every step keeps them, however calls interleave.
LEMMA TypeStep ==
  ASSUME TypeInv, [Next]_vars
  PROVE  TypeInv'
<1>1. TypeOK /\ Room
  BY DEF TypeInv
<1> USE BoundOrDispatched
<1>2. ASSUME NEW f \in Dispatched, DispatchStore(f) PROVE TypeInv'
  <2>1. /\ pc[f] = "before" /\ index' = FreeSlot(dispatch)
        /\ dispatch' = [dispatch EXCEPT ![index'] = f]
        /\ pc' = [pc EXCEPT ![f] = "stored"]
        /\ UNCHANGED <<bindings, posted, context, ran, lost, reply>>
    BY <1>2 DEF DispatchStore, MayBegin
  <2>2. dispatch \in [Slots -> Dispatched \cup {None}]
    BY <1>1 DEF TypeOK
  <2>3. /\ index' \in Slots
        /\ index' + Cardinality(Filled(index', [dispatch EXCEPT ![index'] = f]))
             + Cardinality(Filled(index', bindings)) <= Cardinality(Begun')
    BY <2>1, <2>2, StoreKeepsRoom DEF Room
  <2>4. Room'
    BY <2>1, <2>3 DEF Room
  <2>5. TypeOK'
    BY <1>1, <2>1, <2>3 DEF TypeOK
  <2>6. QED
    BY <1>1, <2>1, <2>4, <2>5 DEF TypeInv, TypeOK
<1>3. ASSUME NEW f \in Bound, BindStore(f) PROVE TypeInv'
  <2>1. /\ pc[f] = "before" /\ index' = FreeSlot(bindings)
        /\ bindings' = [bindings EXCEPT ![index'] = f]
        /\ pc' = [pc EXCEPT ![f] = "stored"]
        /\ UNCHANGED <<dispatch, posted, context, ran, lost, reply>>
    BY <1>3 DEF BindStore, MayBegin
  <2>2. bindings \in [Slots -> Bound \cup {None}]
    BY <1>1 DEF TypeOK
  <2>3. /\ index \in Nat /\ Cardinality(Filled(index, bindings)) \in Nat
        /\ Cardinality(Filled(index, dispatch)) \in Nat
    BY <1>1, Finite, FilledFinite DEF TypeOK
  <2>4. Room <=> index + Cardinality(Filled(index, bindings))
                   + Cardinality(Filled(index, dispatch)) <= Cardinality(Begun)
    BY <2>3 DEF Room
  <2>5. /\ index' \in Slots
        /\ index' + Cardinality(Filled(index', [bindings EXCEPT ![index'] = f]))
             + Cardinality(Filled(index', dispatch)) <= Cardinality(Begun')
    BY <2>1, <2>2, <2>4, StoreKeepsRoom
  <2>6. Room'
    <3>1. /\ index' \in Nat /\ Cardinality(Filled(index', bindings')) \in Nat
          /\ Cardinality(Filled(index', dispatch)) \in Nat
      BY <2>5, Finite, FilledFinite
    <3>2. QED
      BY <2>1, <2>5, <3>1 DEF Room
  <2>7. TypeOK'
    BY <1>1, <2>1, <2>5 DEF TypeOK
  <2>8. QED
    BY <1>1, <2>1, <2>6, <2>7 DEF TypeInv, TypeOK
\* What remains keeps the index and the bindings, begins nothing and fills nothing
<1>4. ASSUME UNCHANGED <<index, bindings>>, Begun' = Begun,
             \A s \in Slots : dispatch'[s] # None => dispatch[s] # None
      PROVE  Room'
  <2>1. Cardinality(Filled(index, dispatch')) <= Cardinality(Filled(index, dispatch))
    BY <1>1, <1>4, FilledShrinks, Finite DEF TypeOK
  <2>2. /\ index \in Nat /\ Cardinality(Filled(index, bindings)) \in Nat
        /\ Cardinality(Filled(index, dispatch)) \in Nat
        /\ Cardinality(Filled(index, dispatch')) \in Nat /\ Cardinality(Begun) \in Nat
    BY <1>1, Finite, FilledFinite DEF TypeOK
  <2>3. QED
    BY <1>1, <1>4, <2>1, <2>2 DEF Room
<1>5. ASSUME NEW f \in Dispatched, DispatchPost(f) PROVE TypeInv'
  <2>1. TypeOK'
    BY <1>1, <1>5 DEF DispatchPost, TypeOK
  <2>2. Begun' = Begun
    BY <1>1, <1>5 DEF DispatchPost, Begun, TypeOK
  <2>3. QED
    BY <1>1, <1>4, <1>5, <2>1, <2>2 DEF DispatchPost, TypeInv, TypeOK
<1>6. ASSUME NEW f \in Bound, BindPass(f) PROVE TypeInv'
  <2>1. TypeOK'
    BY <1>1, <1>6 DEF BindPass, TypeOK
  <2>2. Begun' = Begun
    BY <1>1, <1>6 DEF BindPass, Begun, TypeOK
  <2>3. QED
    BY <1>1, <1>4, <1>6, <2>1, <2>2 DEF BindPass, TypeInv, TypeOK
<1>7. ASSUME NEW f \in Bound, BindingCallback(f) PROVE TypeInv'
  <2>1. context[f] \in Slots
    BY <1>7 DEF BindingCallback, TypeInv
  <2>2. TypeOK'
    <3>1. reply' \in Reply
      BY <1>1, <1>7, <2>1, ReplyTyped DEF TypeOK
    <3> QED BY <1>1, <1>7, <3>1 DEF BindingCallback, TypeOK
  <2>3. QED
    BY <1>1, <1>4, <1>7, <2>2 DEF BindingCallback, TypeInv, Begun
<1>8. CASE DispatchCallback
  <2>1. posted \in Seq(Slots) /\ posted # << >>
    BY <1>1, <1>8 DEF DispatchCallback, TypeOK
  <2>2. Head(posted) \in Slots /\ Tail(posted) \in Seq(Slots)
    BY <2>1
  <2>3. TypeOK'
    BY <1>1, <1>8, <2>2 DEF DispatchCallback, TypeOK
  <2>4. \A s \in Slots : dispatch'[s] # None => dispatch[s] # None
    BY <1>1, <1>8, <2>2 DEF DispatchCallback, TypeOK
  <2>5. QED
    BY <1>1, <1>4, <1>8, <2>3, <2>4 DEF DispatchCallback, TypeInv, Begun
<1>9. CASE MessageLost
  <2>1. posted \in Seq(Slots) /\ posted # << >>
    BY <1>1, <1>9 DEF MessageLost, TypeOK
  <2>2. Head(posted) \in Slots /\ Tail(posted) \in Seq(Slots)
    BY <2>1
  <2>3. TypeOK'
    BY <1>1, <1>9, <2>2 DEF MessageLost, TypeOK
  <2>4. QED
    BY <1>1, <1>4, <1>9, <2>3 DEF MessageLost, TypeInv, Begun
<1>10. CASE UNCHANGED vars
  <2>1. Begun' = Begun /\ TypeOK'
    BY <1>1, <1>10 DEF vars, Begun, TypeOK
  <2>2. QED
    BY <1>1, <1>4, <1>10, <2>1 DEF vars, TypeInv
<1>11. QED
  BY <1>2, <1>3, <1>5, <1>6, <1>7, <1>8, <1>10, <1>9 DEF Next

\* What holds however calls of Dispatch and Bind interleave.
THEOREM TypeInvariant == Spec => []TypeInv
BY TypeInit, TypeStep, PTL DEF Spec

\* TypeOK: the search for a free slot ends, at a slot no higher than the number of
\* functions, although the index the two maps share never goes back.
THEOREM TypesHold == Spec => []TypeOK
<1>1. TypeInv => TypeOK
  BY DEF TypeInv
<1>2. QED
  BY <1>1, TypeInvariant, PTL
-----------------------------------------------------------------------------
\* What holds for calls made one at a time holds at first.
LEMMA GlueInit == Init => GlueInv
<1> SUFFICES ASSUME Init PROVE GlueInv
  OBVIOUS
<1> USE BoundOrDispatched DEF Init
<1>1. \A f \in Functions : pc[f] = "before"
  OBVIOUS
<1>2. \A s \in Slots : dispatch[s] = None
  OBVIOUS
<1>3. DOMAIN posted = {} /\ DOMAIN ran = {} /\ lost = {} /\ reply.found = reply.asked
  BY DEF NoReply
<1>4. OneCall
  BY <1>1 DEF OneCall
<1>5. Placed
  BY <1>1, <1>2 DEF Placed
<1>6. Once
  BY <1>3 DEF Once
<1>7. PostedIffStored /\ CallsOwnFunction
  BY <1>2, <1>3 DEF PostedIffStored, CallsOwnFunction
<1>8. QED
  BY <1>4, <1>5, <1>6, <1>7 DEF GlueInv

\* Storing the function of a call that begins, while no other call is under way.
LEMMA StoreDispatched ==
  ASSUME Serial, TypeInv, TypeInv', GlueInv, NEW f \in Dispatched, DispatchStore(f)
  PROVE  GlueInv'
<1> USE BoundOrDispatched
<1>1. /\ pc[f] = "before" /\ \A g \in Functions : pc[g] # "stored"
      /\ index' = FreeSlot(dispatch)
      /\ dispatch' = [dispatch EXCEPT ![index'] = f]
      /\ pc' = [pc EXCEPT ![f] = "stored"]
      /\ UNCHANGED <<bindings, posted, context, ran, lost, reply>>
  BY DEF DispatchStore, MayBegin
<1>2. TypeOK /\ index' \in Slots
  BY DEF TypeInv, TypeOK
<1>3. dispatch[index'] = None
  <2>1. /\ index \in Nat /\ index \in Slots
        /\ Cardinality(Filled(index, dispatch)) \in Nat
        /\ Cardinality(Filled(index, bindings)) \in Nat
    BY <1>2, Finite, FilledFinite DEF TypeOK
  <2>2. index + Cardinality(Filled(index, dispatch)) <= Cardinality(Functions)
    BY <2>1, Finite DEF TypeInv, Room
  <2>3. QED
    BY <1>1, <2>1, <2>2, FreeSlotFound
<1>4. /\ pc'[f] = "stored" /\ \A g \in Functions \ {f} : pc'[g] = pc[g]
      /\ dispatch'[index'] = f /\ \A s \in Slots \ {index'} : dispatch'[s] = dispatch[s]
  BY <1>1, <1>2 DEF TypeOK
<1>5. OneCall'
  BY <1>1, <1>4 DEF OneCall
<1>6. \A s \in Slots : dispatch[s] # f
  BY <1>1 DEF GlueInv, Placed
<1>7. \A s \in Slots : dispatch[s] \in Functions \cup {None}
  BY <1>2 DEF TypeOK
<1>8. Placed'
  <2>1. \A g \in Bound : pc'[g] = "passed" => bindings'[context'[g]] = g
    BY <1>1, <1>4 DEF GlueInv, Placed
  <2>2. \A s \in Slots : dispatch'[s] # None => pc'[dispatch'[s]] # "before"
    BY <1>4, <1>7 DEF GlueInv, Placed
  <2>3. \A s, t \in Slots : dispatch'[s] = dispatch'[t] /\ dispatch'[s] # None => s = t
    BY <1>4, <1>6 DEF GlueInv, Placed
  <2>4. QED
    BY <2>1, <2>2, <2>3 DEF Placed
<1>9. Once'
  <2>1. \A i \in DOMAIN ran : ran[i] # f
    BY <1>1 DEF GlueInv, Once
  <2>2. \A g \in lost' : pc'[g] = "passed" /\ g \in Functions
    BY <1>1, <1>4 DEF GlueInv, Once
  <2>3. QED
    BY <1>1, <1>4, <2>1, <2>2 DEF GlueInv, Once
<1>10. PostedIffStored'
  <2>1. \A s \in Slots \ {index'} :
          (dispatch'[s] # None /\ pc'[dispatch'[s]] = "passed" /\ dispatch'[s] \notin lost')
            <=> (dispatch[s] # None /\ pc[dispatch[s]] = "passed" /\ dispatch[s] \notin lost)
    BY <1>1, <1>4, <1>6, <1>7
  <2>2. ~\E i \in DOMAIN posted : posted[i] = index'
    BY <1>2, <1>3 DEF GlueInv, PostedIffStored
  <2>3. QED
    BY <1>1, <1>4, <2>1, <2>2 DEF GlueInv, PostedIffStored
<1>11. CallsOwnFunction'
  BY <1>1 DEF GlueInv, CallsOwnFunction
<1>12. QED
  BY <1>5, <1>8, <1>9, <1>10, <1>11 DEF GlueInv

\* Bind stores its function.
LEMMA StoreBound ==
  ASSUME Serial, TypeInv, TypeInv', GlueInv, NEW f \in Bound, BindStore(f)
  PROVE  GlueInv'
<1> USE BoundOrDispatched
<1>1. /\ pc[f] = "before" /\ \A g \in Functions : pc[g] # "stored"
      /\ index' = FreeSlot(bindings)
      /\ bindings' = [bindings EXCEPT ![index'] = f]
      /\ pc' = [pc EXCEPT ![f] = "stored"]
      /\ UNCHANGED <<dispatch, posted, context, ran, lost, reply>>
  BY DEF BindStore, MayBegin
<1>2. TypeOK /\ index' \in Slots
  BY DEF TypeInv, TypeOK
<1>3. bindings[index'] = None
  <2>1. /\ index \in Nat /\ index \in Slots
        /\ Cardinality(Filled(index, dispatch)) \in Nat
        /\ Cardinality(Filled(index, bindings)) \in Nat
    BY <1>2, Finite, FilledFinite DEF TypeOK
  <2>2. index + Cardinality(Filled(index, bindings)) <= Cardinality(Functions)
    BY <2>1, Finite DEF TypeInv, Room
  <2>3. QED
    BY <1>1, <2>1, <2>2, FreeSlotFound
<1>4. /\ pc'[f] = "stored" /\ \A g \in Functions \ {f} : pc'[g] = pc[g]
      /\ bindings'[index'] = f /\ \A s \in Slots \ {index'} : bindings'[s] = bindings[s]
  BY <1>1, <1>2 DEF TypeOK
<1>5. OneCall'
  BY <1>1, <1>4 DEF OneCall
<1>6. \A s \in Slots : dispatch[s] \in Dispatched \cup {None}
  BY <1>2 DEF TypeOK
<1>7. Placed'
  <2>1. ASSUME NEW g \in Bound, pc'[g] = "passed" PROVE bindings'[context'[g]] = g
    <3>1. g # f /\ pc[g] = "passed"
      BY <1>4, <2>1
    <3>2. context[g] \in Slots /\ bindings[context[g]] = g
      BY <3>1 DEF TypeInv, GlueInv, Placed
    <3>3. QED
      BY <1>1, <1>3, <1>4, <3>2
  <2>2. \A s \in Slots : dispatch'[s] # None => pc'[dispatch'[s]] # "before"
    BY <1>1, <1>4, <1>6 DEF GlueInv, Placed
  <2>3. QED
    BY <1>1, <2>1, <2>2 DEF GlueInv, Placed
<1>8. Once'
  BY <1>1, <1>4 DEF GlueInv, Once
<1>9. PostedIffStored'
  <2>1. \A s \in Slots : dispatch[s] # None => pc'[dispatch[s]] = pc[dispatch[s]]
    BY <1>4, <1>6
  <2>2. QED
    BY <1>1, <2>1 DEF GlueInv, PostedIffStored
<1>10. CallsOwnFunction'
  BY <1>1 DEF GlueInv, CallsOwnFunction
<1>11. QED
  BY <1>5, <1>7, <1>8, <1>9, <1>10 DEF GlueInv

\* Posting the slot of the only call under way: index has not moved since.
LEMMA PostDispatched ==
  ASSUME TypeInv, GlueInv, NEW f \in Dispatched, DispatchPost(f)
  PROVE  GlueInv'
<1> USE BoundOrDispatched
<1>1. /\ pc[f] = "stored" /\ posted' = Append(posted, index)
      /\ pc' = [pc EXCEPT ![f] = "passed"]
      /\ UNCHANGED <<index, dispatch, bindings, context, ran, lost, reply>>
  BY DEF DispatchPost
<1>2. TypeOK /\ index \in Slots /\ posted \in Seq(Slots)
  BY DEF TypeInv, TypeOK
<1>3. /\ pc'[f] = "passed" /\ \A g \in Functions \ {f} : pc'[g] = pc[g]
      /\ \A g \in Functions : pc[g] = "stored" => g = f
      /\ dispatch[index] = f
  BY <1>1, <1>2 DEF TypeOK, GlueInv, OneCall
<1>4. \A s \in Slots : dispatch[s] \in Functions \cup {None}
  BY <1>2 DEF TypeOK
<1>5. OneCall'
  BY <1>1, <1>3 DEF OneCall
<1>6. Placed'
  <2>1. \A g \in Bound : pc'[g] = "passed" => bindings'[context'[g]] = g
    BY <1>1, <1>3 DEF GlueInv, Placed
  <2>2. \A s \in Slots : dispatch'[s] # None => pc'[dispatch'[s]] # "before"
    BY <1>1, <1>3, <1>4 DEF GlueInv, Placed
  <2>3. QED
    BY <1>1, <2>1, <2>2 DEF GlueInv, Placed
<1>7. /\ DOMAIN posted' = DOMAIN posted \cup {Len(posted) + 1}
      /\ posted'[Len(posted) + 1] = index
      /\ \A i \in DOMAIN posted : posted'[i] = posted[i] /\ i # Len(posted) + 1
  BY <1>1, <1>2
<1>8. \A i \in DOMAIN posted : posted[i] # index
  BY <1>1, <1>2, <1>3 DEF GlueInv, PostedIffStored
<1>9. Once'
  <2>1. \A i, j \in DOMAIN posted' : posted'[i] = posted'[j] => i = j
    BY <1>7, <1>8 DEF GlueInv, Once
  <2>2. \A i \in DOMAIN ran : pc'[ran[i]] = "passed"
    BY <1>3 DEF GlueInv, Once
  <2>3. \A g \in lost' : pc'[g] = "passed" /\ g \in Functions
    BY <1>1, <1>3 DEF GlueInv, Once
  <2>4. QED
    BY <1>1, <2>1, <2>2, <2>3 DEF GlueInv, Once
<1>10. PostedIffStored'
  <2>1. ASSUME NEW s \in Slots, s # index
        PROVE  (dispatch[s] # None /\ pc'[dispatch[s]] = "passed" /\ dispatch[s] \notin lost)
                 <=> (dispatch[s] # None /\ pc[dispatch[s]] = "passed" /\ dispatch[s] \notin lost)
    <3>1. dispatch[s] # f
      BY <1>2, <1>3, <2>1 DEF GlueInv, Placed
    <3>2. QED
      BY <1>3, <1>4, <3>1
  <2>2. \A s \in Slots \ {index} :
          (\E i \in DOMAIN posted' : posted'[i] = s) <=> (\E i \in DOMAIN posted : posted[i] = s)
    BY <1>7
  <2>3. \E i \in DOMAIN posted' : posted'[i] = index
    BY <1>7
  <2>4. dispatch[index] # None /\ pc'[dispatch[index]] = "passed" /\ dispatch[index] \notin lost
    BY <1>1, <1>3 DEF GlueInv, Once
  <2>5. QED
    BY <1>1, <2>1, <2>2, <2>3, <2>4 DEF GlueInv, PostedIffStored
<1>11. CallsOwnFunction'
  BY <1>1 DEF GlueInv, CallsOwnFunction
<1>12. QED
  BY <1>5, <1>6, <1>9, <1>10, <1>11 DEF GlueInv

\* Bind passes the slot on to C.
LEMMA PassBound ==
  ASSUME TypeInv, GlueInv, NEW f \in Bound, BindPass(f)
  PROVE  GlueInv'
<1> USE BoundOrDispatched
<1>1. /\ pc[f] = "stored" /\ context' = [context EXCEPT ![f] = index]
      /\ pc' = [pc EXCEPT ![f] = "passed"]
      /\ UNCHANGED <<index, dispatch, bindings, posted, ran, lost, reply>>
  BY DEF BindPass
<1>2. TypeOK
  BY DEF TypeInv
<1>3. /\ pc'[f] = "passed" /\ \A g \in Functions \ {f} : pc'[g] = pc[g]
      /\ \A g \in Functions : pc[g] = "stored" => g = f
      /\ bindings[index] = f
      /\ context'[f] = index /\ \A g \in Bound \ {f} : context'[g] = context[g]
  BY <1>1, <1>2 DEF TypeOK, GlueInv, OneCall
<1>4. \A s \in Slots : dispatch[s] \in Dispatched \cup {None}
  BY <1>2 DEF TypeOK
<1>5. OneCall'
  BY <1>1, <1>3 DEF OneCall
<1>6. Placed'
  <2>1. \A g \in Bound : pc'[g] = "passed" => bindings'[context'[g]] = g
    BY <1>1, <1>3 DEF GlueInv, Placed
  <2>2. \A s \in Slots : dispatch'[s] # None => pc'[dispatch'[s]] # "before"
    BY <1>1, <1>3, <1>4 DEF GlueInv, Placed
  <2>3. QED
    BY <1>1, <2>1, <2>2 DEF GlueInv, Placed
<1>7. Once'
  BY <1>1, <1>3 DEF GlueInv, Once
<1>8. PostedIffStored'
  <2>1. \A s \in Slots : dispatch[s] # None => pc'[dispatch[s]] = pc[dispatch[s]]
    BY <1>3, <1>4
  <2>2. QED
    BY <1>1, <2>1 DEF GlueInv, PostedIffStored
<1>9. CallsOwnFunction'
  BY <1>1 DEF GlueInv, CallsOwnFunction
<1>10. QED
  BY <1>5, <1>6, <1>7, <1>8, <1>9 DEF GlueInv

\* The oldest slot leaves the queue: it is no longer posted, and all others are.
LEMMA SlotLeaves ==
  ASSUME posted \in Seq(Slots), posted # << >>, posted' = Tail(posted),
         \A i, j \in DOMAIN posted : posted[i] = posted[j] => i = j
  PROVE  /\ \A i, j \in DOMAIN posted' : posted'[i] = posted'[j] => i = j
         /\ \A s : (\E i \in DOMAIN posted' : posted'[i] = s)
                     <=> (s # Head(posted) /\ \E i \in DOMAIN posted : posted[i] = s)
<1>1. 1 \in DOMAIN posted /\ posted[1] = Head(posted)
  OBVIOUS
<1>2. \A i \in DOMAIN posted' : /\ i + 1 \in DOMAIN posted /\ posted'[i] = posted[i + 1]
                               /\ i \in Nat /\ i # 0
  OBVIOUS
<1>3. \A j \in DOMAIN posted : j # 1 => j - 1 \in DOMAIN posted' /\ posted'[j - 1] = posted[j]
  OBVIOUS
<1>4. ASSUME NEW i \in DOMAIN posted', NEW j \in DOMAIN posted', posted'[i] = posted'[j]
      PROVE  i = j
  <2>1. i + 1 = j + 1 /\ i \in Nat /\ j \in Nat
    BY <1>2, <1>4
  <2> QED BY <2>1
<1>5. ASSUME NEW i \in DOMAIN posted', posted'[i] = Head(posted) PROVE FALSE
  <2>1. i + 1 = 1 /\ i \in Nat /\ i # 0
    BY <1>1, <1>2, <1>5
  <2> QED BY <2>1
<1>6. ASSUME NEW s, s # Head(posted)
      PROVE  (\E i \in DOMAIN posted' : posted'[i] = s)
               <=> (\E i \in DOMAIN posted : posted[i] = s)
  <2>1. ASSUME NEW j \in DOMAIN posted, posted[j] = s
        PROVE  j - 1 \in DOMAIN posted' /\ posted'[j - 1] = s
    BY <1>1, <1>3, <1>6, <2>1
  <2> QED BY <1>2, <2>1
<1> QED BY <1>4, <1>5, <1>6

\* Running the oldest function posted: its slot holds it, and no other does.
LEMMA RunDispatched ==
  ASSUME TypeInv, TypeInv', GlueInv, DispatchCallback
  PROVE  GlueInv'
<1> USE BoundOrDispatched
<1>1. TypeOK
  BY DEF TypeInv
<1> DEFINE s0 == Head(posted)
           f0 == dispatch[s0]
<1>2. /\ posted \in Seq(Slots) /\ posted # << >> /\ ran \in Seq(Dispatched \cup {None})
      /\ posted' = Tail(posted) /\ ran' = Append(ran, f0)
      /\ dispatch' = [dispatch EXCEPT ![s0] = None]
      /\ UNCHANGED <<index, bindings, pc, context, lost, reply>>
      /\ \A f \in Bound : pc[f] # "stored"
  BY <1>1 DEF DispatchCallback, Binding, TypeOK
<1>3. 1 \in DOMAIN posted /\ posted[1] = s0 /\ s0 \in Slots
  BY <1>2
<1>4. f0 # None /\ pc[f0] = "passed" /\ f0 \in Dispatched
  BY <1>1, <1>3 DEF GlueInv, PostedIffStored, TypeOK
<1>5. /\ dispatch'[s0] = None
      /\ \A s \in Slots \ {s0} : dispatch'[s] = dispatch[s] /\ dispatch[s] # f0
  BY <1>1, <1>2, <1>3, <1>4 DEF TypeOK, GlueInv, Placed
<1>6. /\ \A i, j \in DOMAIN posted' : posted'[i] = posted'[j] => i = j
      /\ \A s : (\E i \in DOMAIN posted' : posted'[i] = s)
                  <=> (s # s0 /\ \E i \in DOMAIN posted : posted[i] = s)
  BY <1>2, SlotLeaves DEF GlueInv, Once
<1>8. /\ DOMAIN ran' = DOMAIN ran \cup {Len(ran) + 1}
      /\ ran'[Len(ran) + 1] = f0
      /\ \A i \in DOMAIN ran : ran'[i] = ran[i] /\ i # Len(ran) + 1
  BY <1>2
<1>9. \A i \in DOMAIN ran : ran[i] # f0
  BY <1>3 DEF GlueInv, Once
<1>10. index \in Slots
  BY <1>1 DEF TypeOK
<1> HIDE DEF s0, f0
<1>11. OneCall'
  <2>1. ASSUME NEW f \in Dispatched, pc[f] = "stored" PROVE dispatch'[index] = f
    <3>1. dispatch[index] = f
      BY <2>1 DEF GlueInv, OneCall
    <3>2. index # s0
      BY <1>4, <2>1, <3>1 DEF f0
    <3>3. QED
      BY <1>5, <1>10, <3>1, <3>2
  <2>2. QED
    BY <1>2, <2>1 DEF GlueInv, OneCall
<1>12. Placed'
  <2>1. \A s, t \in Slots : dispatch'[s] = dispatch'[t] /\ dispatch'[s] # None => s = t
    BY <1>5 DEF GlueInv, Placed
  <2>2. \A s \in Slots : dispatch'[s] # None => pc'[dispatch'[s]] # "before"
    BY <1>2, <1>5 DEF GlueInv, Placed
  <2>3. QED
    BY <1>2, <2>1, <2>2 DEF GlueInv, Placed
<1>13. Once'
  <2>2. ASSUME NEW i \in DOMAIN ran'
        PROVE  /\ ran'[i] \in Dispatched /\ pc[ran'[i]] = "passed"
               /\ \A s \in Slots : dispatch'[s] # ran'[i]
    <3>1. CASE i \in DOMAIN ran
      BY <1>3, <1>5, <1>8, <3>1 DEF GlueInv, Once
    <3>2. CASE i = Len(ran) + 1
      BY <1>3, <1>4, <1>5, <1>8, <3>2
    <3>3. QED
      BY <1>8, <3>1, <3>2
  <2>3. \A i, j \in DOMAIN ran' : ran'[i] = ran'[j] => i = j
    BY <1>8, <1>9 DEF GlueInv, Once
  <2>4. \A g \in lost' : pc'[g] = "passed" /\ g \in Functions
    BY <1>2 DEF GlueInv, Once
  <2>5. QED
    BY <1>2, <1>6, <2>2, <2>3, <2>4 DEF Once
<1>14. PostedIffStored'
  <2>1. ~\E i \in DOMAIN posted' : posted'[i] = s0
    BY <1>6
  <2>2. \A s \in Slots \ {s0} :
          (\E i \in DOMAIN posted' : posted'[i] = s) <=> (\E i \in DOMAIN posted : posted[i] = s)
    BY <1>6
  <2>3. lost' = lost /\ pc' = pc
    BY <1>2
  <2>4. QED
    BY <1>5, <2>1, <2>2, <2>3 DEF GlueInv, PostedIffStored
<1>15. CallsOwnFunction'
  BY <1>2 DEF GlueInv, CallsOwnFunction
<1>16. QED
  BY <1>11, <1>12, <1>13, <1>14, <1>15 DEF GlueInv

\* Losing the oldest message: its function stays in the map, noted as lost.
LEMMA LoseMessage ==
  ASSUME TypeInv, GlueInv, MessageLost
  PROVE  GlueInv'
<1> USE BoundOrDispatched
<1> DEFINE s0 == Head(posted)
           f0 == dispatch[s0]
<1>1. /\ posted \in Seq(Slots) /\ posted # << >> /\ posted' = Tail(posted)
      /\ lost' = lost \cup {f0}
      /\ UNCHANGED <<index, dispatch, bindings, pc, context, ran, reply>>
      /\ dispatch \in [Slots -> Dispatched \cup {None}]
  BY DEF MessageLost, TypeInv, TypeOK
<1>2. 1 \in DOMAIN posted /\ posted[1] = s0 /\ s0 \in Slots
  BY <1>1
<1>3. f0 # None /\ pc[f0] = "passed" /\ f0 \in Functions
  BY <1>1, <1>2 DEF GlueInv, PostedIffStored
<1>4. \A s \in Slots \ {s0} : dispatch[s] # f0
  BY <1>2, <1>3 DEF GlueInv, Placed
<1>5. /\ \A i, j \in DOMAIN posted' : posted'[i] = posted'[j] => i = j
      /\ \A s : (\E i \in DOMAIN posted' : posted'[i] = s)
                  <=> (s # s0 /\ \E i \in DOMAIN posted : posted[i] = s)
  BY <1>1, SlotLeaves DEF GlueInv, Once
<1>6. f0 \in lost' /\ \A g : g # f0 => (g \in lost' <=> g \in lost)
  BY <1>1
<1>7. f0 = dispatch[s0]
  OBVIOUS
<1> HIDE DEF s0, f0
<1>8. OneCall' /\ Placed' /\ CallsOwnFunction'
  BY <1>1 DEF GlueInv, OneCall, Placed, CallsOwnFunction
<1>9. Once'
  BY <1>1, <1>3, <1>5, <1>6 DEF GlueInv, Once
<1>10. PostedIffStored'
  BY <1>1, <1>4, <1>5, <1>6, <1>7 DEF GlueInv, PostedIffStored
<1> QED BY <1>8, <1>9, <1>10 DEF GlueInv

\* Every step keeps the invariant of calls made one at a time.
LEMMA GlueStep ==
  ASSUME Serial, TypeInv, TypeInv', GlueInv, [Next]_vars
  PROVE  GlueInv'
<1>1. ASSUME NEW f \in Bound, BindingCallback(f) PROVE GlueInv'
  <2>1. bindings[context[f]] = f
    BY <1>1 DEF BindingCallback, GlueInv, Placed
  <2>2. /\ reply'.asked = f /\ reply'.found = f
        /\ UNCHANGED <<index, dispatch, bindings, pc, posted, context, ran, lost>>
    BY <1>1, <2>1 DEF BindingCallback, NoReply
  <2>3. CallsOwnFunction'
    BY <2>2 DEF GlueInv, CallsOwnFunction
  <2>4. OneCall' /\ Placed' /\ Once' /\ PostedIffStored'
    BY <2>2 DEF GlueInv, OneCall, Placed, Once, PostedIffStored
  <2>5. QED
    BY <2>3, <2>4 DEF GlueInv
<1>2. CASE UNCHANGED vars
  BY <1>2 DEF vars, GlueInv, OneCall, Placed, Once, PostedIffStored, CallsOwnFunction
<1>3. QED
  BY <1>1, <1>2, StoreDispatched, PostDispatched, StoreBound, PassBound, RunDispatched,
     LoseMessage DEF Next

\* The invariant of an application that makes its calls one at a time.
THEOREM GlueInvariant ==
  ASSUME Serial
  PROVE  Spec => []GlueInv
<1>1. TypeInv /\ TypeInv' /\ GlueInv /\ [Next]_vars => GlueInv'
  BY GlueStep
<1>2. QED
  BY <1>1, GlueInit, TypeInvariant, PTL DEF Spec

\* PostedIffStored: what is on the way to the main loop is what the map holds, but
\* for the functions whose message was lost.
THEOREM PostedHolds ==
  ASSUME Serial
  PROVE  Spec => []PostedIffStored
<1>1. GlueInv => PostedIffStored
  BY DEF GlueInv
<1>2. QED
  BY <1>1, GlueInvariant, PTL

\* CallsOwnFunction: a bound function is never mistaken for another one.
THEOREM CallsOwnHolds ==
  ASSUME Serial
  PROVE  Spec => []CallsOwnFunction
<1>1. GlueInv => CallsOwnFunction
  BY DEF GlueInv
<1>2. QED
  BY <1>1, GlueInvariant, PTL

\* RunsEachOnce: no dispatched function is run twice, and the callback never finds
\* its slot empty.
THEOREM RunsOnceHolds ==
  ASSUME Serial
  PROVE  Spec => []RunsEachOnce
<1>1. ASSUME GlueInv PROVE RunsEachOnce
  <2>1. {i \in DOMAIN ran : ran[i] = None} = {}
    BY <1>1, BoundOrDispatched DEF GlueInv, Once
  <2>2. TimesRun(None) = 0
    BY <2>1, FS_EmptySet DEF TimesRun
  <2>3. ASSUME NEW f \in Dispatched PROVE TimesRun(f) <= 1
    <3> DEFINE I == {i \in DOMAIN ran : ran[i] = f}
    <3>1. \A i, j \in I : i = j
      BY <1>1 DEF GlueInv, Once
    <3>2. CASE I = {}
      BY <3>2, FS_EmptySet DEF TimesRun
    <3>3. CASE I # {}
      <4>1. PICK i \in I : I = {i}
        BY <3>1, <3>3
      <4>2. Cardinality({i}) = 1
        BY FS_Singleton
      <4>3. QED
        BY <4>1, <4>2 DEF TimesRun
    <3>4. QED
      BY <3>2, <3>3
  <2>4. QED
    BY <2>2, <2>3 DEF RunsEachOnce
<1>2. GlueInv => RunsEachOnce
  BY <1>1
<1>3. QED
  BY <1>2, GlueInvariant, PTL
-----------------------------------------------------------------------------
\* Storing a function takes a slot that no other function holds.
LEMMA StoreKeeps ==
  ASSUME TypeInv, TypeInv', Kept, NEW f \in Dispatched, DispatchStore(f)
  PROVE  Kept'
<1> USE BoundOrDispatched
<1>1. /\ pc[f] = "before" /\ index' = FreeSlot(dispatch)
      /\ dispatch' = [dispatch EXCEPT ![index'] = f]
      /\ pc' = [pc EXCEPT ![f] = "stored"] /\ UNCHANGED ran
  BY DEF DispatchStore, MayBegin
<1>2. TypeOK /\ index' \in Slots
  BY DEF TypeInv, TypeOK
<1>3. dispatch[index'] = None
  <2>1. /\ index \in Nat /\ index \in Slots
        /\ Cardinality(Filled(index, dispatch)) \in Nat
        /\ Cardinality(Filled(index, bindings)) \in Nat
    BY <1>2, Finite, FilledFinite DEF TypeOK
  <2>2. index + Cardinality(Filled(index, dispatch)) <= Cardinality(Functions)
    BY <2>1, Finite DEF TypeInv, Room
  <2>3. QED
    BY <1>1, <2>1, <2>2, FreeSlotFound
<1>4. dispatch'[index'] = f /\ \A s \in Slots \ {index'} : dispatch'[s] = dispatch[s]
  BY <1>1, <1>2 DEF TypeOK
<1>5. ASSUME NEW g \in Dispatched, pc'[g] # "before" PROVE (Held(g) \/ HasRun(g))'
  <2>1. CASE g = f
    BY <1>2, <1>4, <2>1 DEF Held
  <2>2. CASE g # f
    <3>1. pc[g] # "before"
      BY <1>1, <1>2, <1>5, <2>2 DEF TypeOK
    <3>2. CASE Held(g)
      <4>1. PICK s \in Slots : dispatch[s] = g
        BY <3>2 DEF Held
      <4>2. dispatch'[s] = g
        BY <1>3, <1>4, <4>1
      <4> QED BY <4>2 DEF Held
    <3>3. CASE HasRun(g)
      BY <1>1, <3>3 DEF HasRun
    <3> QED BY <3>1, <3>2, <3>3 DEF Kept
  <2> QED BY <2>1, <2>2
<1> QED BY <1>5 DEF Kept

\* The callback runs the function it takes out of the map, and takes no other.
LEMMA RunKeeps ==
  ASSUME TypeInv, Kept, DispatchCallback
  PROVE  Kept'
<1>1. /\ posted \in Seq(Slots) /\ posted # << >> /\ ran \in Seq(Dispatched \cup {None})
      /\ dispatch \in [Slots -> Dispatched \cup {None}]
      /\ ran' = Append(ran, dispatch[Head(posted)])
      /\ dispatch' = [dispatch EXCEPT ![Head(posted)] = None] /\ pc' = pc
  BY DEF DispatchCallback, TypeInv, TypeOK
<1>2. PICK s0 \in Slots : s0 = Head(posted)
  BY <1>1
<1>3. PICK f0 : f0 = dispatch[s0]
  OBVIOUS
<1>4. ran' = Append(ran, f0) /\ f0 \in Dispatched \cup {None}
  BY <1>1, <1>2, <1>3
<1>5. /\ Len(ran) + 1 \in DOMAIN ran' /\ ran'[Len(ran) + 1] = f0
      /\ \A i \in DOMAIN ran : i \in DOMAIN ran' /\ ran'[i] = ran[i]
  BY <1>1, <1>4
<1>6. ASSUME NEW f \in Dispatched, pc'[f] # "before" PROVE (Held(f) \/ HasRun(f))'
  <2>1. CASE Held(f)
    <3>1. PICK s \in Slots : dispatch[s] = f
      BY <2>1 DEF Held
    <3>2. CASE s = s0
      BY <1>3, <1>5, <3>1, <3>2 DEF HasRun
    <3>3. CASE s # s0
      <4>1. dispatch'[s] = f
        BY <1>1, <1>2, <3>1, <3>3
      <4> QED BY <4>1 DEF Held
    <3> QED BY <3>2, <3>3
  <2>2. CASE HasRun(f)
    BY <1>5, <2>2 DEF HasRun
  <2> QED BY <1>1, <1>6, <2>1, <2>2 DEF Kept
<1> QED BY <1>6 DEF Kept

\* However calls of Dispatch and Bind interleave, no function that was stored is
\* lost from the map before it has run.
THEOREM KeptHolds == Spec => []Kept
<1>1. Init => Kept
  BY BoundOrDispatched DEF Init, Kept
<1>2. TypeInv /\ TypeInv' /\ Kept /\ [Next]_vars => Kept'
  <2> SUFFICES ASSUME TypeInv, TypeInv', Kept, [Next]_vars PROVE Kept'
    OBVIOUS
  <2>1. ASSUME UNCHANGED <<dispatch, ran>>,
               \A f \in Dispatched : pc[f] = "before" => pc'[f] = "before"
        PROVE  Kept'
    BY <2>1 DEF Kept, Held, HasRun
  <2>2. ASSUME NEW f \in Dispatched, DispatchPost(f) PROVE Kept'
    BY <2>1, <2>2, BoundOrDispatched DEF DispatchPost, TypeInv, TypeOK
  <2>3. ASSUME NEW f \in Bound, BindStore(f) \/ BindPass(f) \/ BindingCallback(f) PROVE Kept'
    <3>1. UNCHANGED <<dispatch, ran>> /\ pc \in [Functions -> {"before", "stored", "passed"}]
      BY <2>3 DEF BindStore, BindPass, BindingCallback, TypeInv, TypeOK
    <3>2. \A g \in Dispatched : pc'[g] = pc[g]
      BY <2>3, <3>1, BoundOrDispatched DEF BindStore, BindPass, BindingCallback
    <3> QED BY <2>1, <3>1, <3>2
  <2>4. CASE MessageLost \/ UNCHANGED vars
    BY <2>1, <2>4 DEF MessageLost, vars
  <2> QED BY <2>2, <2>3, <2>4, StoreKeeps, RunKeeps DEF Next
<1> QED BY <1>1, <1>2, TypeInvariant, PTL DEF Spec

\* NoneForgotten: what Dispatch has returned from is run, or on its way to be, or
\* its message was lost.
THEOREM NoneForgottenHolds ==
  ASSUME Serial
  PROVE  Spec => []NoneForgotten
<1>1. ASSUME Kept, GlueInv, TypeInv PROVE NoneForgotten
  <2> SUFFICES ASSUME NEW f \in Dispatched, pc[f] = "passed", ~HasRun(f), f \notin lost
               PROVE  \E i \in DOMAIN posted : dispatch[posted[i]] = f
    BY DEF NoneForgotten, HasRun
  <2>1. PICK s \in Slots : dispatch[s] = f
    BY <1>1 DEF Kept, Held
  <2>2. f # None
    BY BoundOrDispatched
  <2> QED BY <1>1, <2>1, <2>2 DEF GlueInv, PostedIffStored
<1>2. Kept /\ GlueInv /\ TypeInv => NoneForgotten
  BY <1>1
<1> QED BY <1>2, KeptHolds, GlueInvariant, TypeInvariant, PTL
-----------------------------------------------------------------------------
\* A function is bound only if Bind does not refuse it; what the last request for
\* one led to is what CallsFit and ResolvedIffReturned say
ReplyInv ==
  /\ \A f \in Bound : pc[f] # "before" => Bindable(SignatureOf[f])
  /\ CallsFit /\ ResolvedIffReturned

\* No step makes a request end in another way.
LEMMA ReplyStep ==
  ASSUME TypeInv, GlueInv, ReplyInv, [Next]_vars
  PROVE  ReplyInv'
<1> USE BoundOrDispatched
<1>1. TypeOK
  BY DEF TypeInv
<1>2. ASSUME reply' = reply,
             \A f \in Bound : pc[f] = "before" => pc'[f] = "before" \/ Bindable(SignatureOf[f])
      PROVE  ReplyInv'
  BY <1>2 DEF ReplyInv, CallsFit, ResolvedIffReturned
<1>3. ASSUME NEW f \in Dispatched, DispatchStore(f) \/ DispatchPost(f) PROVE ReplyInv'
  BY <1>1, <1>2, <1>3 DEF DispatchStore, DispatchPost, TypeOK
<1>4. ASSUME NEW f \in Bound, BindStore(f) \/ BindPass(f) PROVE ReplyInv'
  BY <1>1, <1>2, <1>4 DEF BindStore, BindPass, TypeOK
<1>5. CASE DispatchCallback \/ MessageLost \/ UNCHANGED vars
  BY <1>2, <1>5 DEF DispatchCallback, MessageLost, vars
<1>6. ASSUME NEW f \in Bound, BindingCallback(f) PROVE ReplyInv'
  <2> DEFINE h == SignatureOf[f]
             to_f == [NoReply EXCEPT !.asked = f, !.found = f]
  <2>1. bindings[context[f]] = f /\ pc[f] = "passed" /\ pc' = pc
    BY <1>6 DEF BindingCallback, GlueInv, Placed
  <2>2. Bindable(h)
    BY <2>1 DEF ReplyInv
  <2>3. CASE reply' = to_f
    <3>1. reply'.asked = f /\ ~reply'.called /\ reply'.status = -1
      BY <2>3 DEF NoReply
    <3> QED BY <2>1, <3>1 DEF ReplyInv, CallsFit, ResolvedIffReturned
  <2>4. CASE reply' # to_f
    <3>1. PICK raw \in Requests, res \in Results(h) :
             /\ Called(h, raw)
             /\ reply' = [to_f EXCEPT !.called = TRUE, !.args = Arguments(h, raw),
                                      !.res = res, !.status = Status(h, res)]
      BY <1>6, <2>1, <2>4 DEF BindingCallback
    <3>2. /\ reply'.asked = f /\ reply'.called /\ reply'.res = res
          /\ reply'.args = Arguments(h, raw) /\ reply'.status = Status(h, res)
      BY <3>1 DEF NoReply
    <3>3. CallsFit'
      BY <3>1, <3>2, ArgumentsFit DEF CallsFit
    <3>4. ResolvedIffReturned'
      BY <2>2, <3>2, StatusTells DEF ResolvedIffReturned
    <3> QED BY <2>1, <3>3, <3>4 DEF ReplyInv
  <2> QED BY <2>3, <2>4
<1> QED BY <1>3, <1>4, <1>5, <1>6 DEF Next

\* What holds of requests for bound functions of any signature.
THEOREM ReplyInvariant ==
  ASSUME Serial
  PROVE  Spec => []ReplyInv
<1>1. Init => ReplyInv
  BY BoundOrDispatched DEF Init, ReplyInv, CallsFit, ResolvedIffReturned, NoReply
<1>2. TypeInv /\ GlueInv /\ ReplyInv /\ [Next]_vars => ReplyInv'
  BY ReplyStep
<1> QED BY <1>1, <1>2, TypeInvariant, GlueInvariant, PTL DEF Spec

\* CallsFit: reflection is never asked to call a function with arguments that are
\* too few, too many or of another type.
THEOREM CallsFitHolds ==
  ASSUME Serial
  PROVE  Spec => []CallsFit
<1>1. ReplyInv => CallsFit
  BY DEF ReplyInv
<1> QED BY <1>1, ReplyInvariant, PTL

\* ResolvedIffReturned: a promise is resolved exactly if its function succeeded.
THEOREM ResolvedHolds ==
  ASSUME Serial
  PROVE  Spec => []ResolvedIffReturned
<1>1. ReplyInv => ResolvedIffReturned
  BY DEF ReplyInv
<1> QED BY <1>1, ReplyInvariant, PTL
=============================================================================
