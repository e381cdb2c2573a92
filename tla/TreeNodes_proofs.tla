--------------------------- MODULE TreeNodes_proofs ---------------------------
(***************************************************************************)
(* What the proofs about both trees use: the order of the elements with    *)
(* left and right treated alike (side is one and Other(side) the other),   *)
(* the loops of the macros, and the elements of a set in order.            *)
(***************************************************************************)
EXTENDS TreeNodes, SequenceTheorems, FiniteSetTheorems, WellFoundedInduction, TLAPS

(* x lies to the side of y. *)
Before(side, x, y) == IF side = "left" THEN x < y ELSE y < x

(* The label of an element that has none on its side. *)
Far(side) == IF side = "left" THEN NULL ELSE NumNodes + 1

LEMMA TwoSides ==
  ASSUME NEW side \in Sides
  PROVE  /\ Other(side) \in Sides /\ Other(Other(side)) = side /\ Other(side) # side
         /\ Sides = {side, Other(side)}
  BY DEF Sides, Other

LEMMA Numbers ==
  /\ NULL \in Int /\ Node \subseteq Int /\ NULL \notin Node
  /\ \A side \in Sides : Far(side) \in Int /\ \A x \in Node : Before(side, Far(side), x)
  BY NodesAssumption DEF Node, NULL, Far, Before, Sides

LEMMA Order ==
  ASSUME NEW side \in Sides
  PROVE  /\ \A x \in Int : ~Before(side, x, x)
         /\ \A x, y \in Int : Before(Other(side), x, y) <=> Before(side, y, x)
         /\ \A x, y, z \in Int : Before(side, x, y) /\ Before(side, y, z) => Before(side, x, z)
  BY DEF Before, Other, Sides

LEMMA SideOf ==
  ASSUME NEW elm \in Int, NEW x \in Int
  PROVE  /\ Side(elm, x) \in Sides
         /\ elm # x => Before(Side(elm, x), elm, x)
         /\ \A side \in Sides : Before(side, elm, x) => side = Side(elm, x)
  BY DEF Side, Sides, Before

-----------------------------------------------------------------------------
(* Loops.  A non-empty set of numbers has a least member. *)
LEMMA LeastOf ==
  ASSUME NEW T, T \subseteq Nat, T # {}
  PROVE  \E x \in T : \A y \in T : x <= y
  <1>1. PICK x \in T : \A y \in T : ~ (<<y, x>> \in OpToRel(<, Nat))
    BY WFMin, NatLessThanWellFounded, Zenon
  <1>2. \A y \in T : ~(y < x)
    BY <1>1 DEF OpToRel
  <1> QED
    BY <1>2

(* The states a loop goes through exist, if each has a next one. *)
Runs(S, s, step, n, g) ==
  g \in [0 .. n -> S] /\ g[0] = s /\ \A i \in 1 .. n : g[i] = step[g[i - 1]]

LEMMA RunsAgree ==
  ASSUME NEW S, NEW s, NEW step, NEW m \in Nat, NEW n \in m .. m + 1, NEW g, NEW h,
         Runs(S, s, step, m, g), Runs(S, s, step, n, h), NEW i \in 0 .. m
  PROVE  g[i] = h[i]
  <1> DEFINE T == {j \in 0 .. m : g[j] # h[j]}
  <1>1. ASSUME T # {} PROVE FALSE
    <2>0. T \subseteq Nat
      OBVIOUS
    <2>1. PICK j \in T : \A k \in T : j <= k
      <3> HIDE DEF T
      <3> QED
        BY <1>1, <2>0, LeastOf
    <2>2. j # 0
      BY <2>1 DEF Runs
    <2>3. j - 1 \in 0 .. m /\ j \in 1 .. m /\ j \in 1 .. n /\ ~(j <= j - 1)
      BY <2>1, <2>2
    <2>4. g[j - 1] = h[j - 1]
      BY <2>1, <2>3
    <2> QED
      BY <2>1, <2>3, <2>4 DEF Runs
  <1> QED
    BY <1>1

LEMMA RunsExist ==
  ASSUME NEW S, NEW s \in S, NEW step, \A x \in S : step[x] \in S, NEW n \in Nat
  PROVE  \E g : Runs(S, s, step, n, g)
  <1> DEFINE T == {m \in Nat : ~\E g : Runs(S, s, step, m, g)}
  <1>1. ASSUME T # {} PROVE FALSE
    <2>1. PICK m \in T : \A k \in T : m <= k
      BY <1>1, LeastOf
    <2>2. Runs(S, s, step, 0, [i \in 0 .. 0 |-> s])
      BY DEF Runs
    <2>3. m # 0 /\ m \in Nat
      BY <2>1, <2>2
    <2>4. m - 1 \in Nat /\ ~(m <= m - 1)
      BY <2>3
    <2>5. PICK g : Runs(S, s, step, m - 1, g)
      BY <2>1, <2>4
    <2> DEFINE h == [i \in 0 .. m |-> IF i = m THEN step[g[m - 1]] ELSE g[i]]
    <2>6. g \in [0 .. m - 1 -> S] /\ g[0] = s /\ \A i \in 1 .. m - 1 : g[i] = step[g[i - 1]]
      BY <2>5 DEF Runs
    <2>7. g[m - 1] \in S
      BY <2>4, <2>6
    <2>8. h \in [0 .. m -> S]
      BY <2>3, <2>6, <2>7
    <2>9. h[0] = s
      BY <2>3, <2>6
    <2>10. ASSUME NEW i \in 1 .. m PROVE h[i] = step[h[i - 1]]
      <3>1. i - 1 \in 0 .. m /\ i - 1 # m /\ h[i - 1] = g[i - 1]
        BY <2>3
      <3>2. CASE i = m
        BY <3>1, <3>2
      <3>3. CASE i # m
        BY <3>1, <3>3, <2>3, <2>6
      <3> QED
        BY <3>2, <3>3
    <2>11. Runs(S, s, step, m, h)
      BY <2>8, <2>9, <2>10 DEF Runs
    <2> QED
      BY <2>1, <2>11
  <1> QED
    BY <1>1

Iteration(s, step, f) == f = [n \in Nat |-> IF n = 0 THEN s ELSE step[f[n - 1]]]

LEMMA Iterates ==
  ASSUME NEW S, NEW s \in S, NEW step, \A x \in S : step[x] \in S
  PROVE  \E f : Iteration(s, step, f)
  <1> DEFINE Run(n) == CHOOSE g : Runs(S, s, step, n, g)
             f == [n \in Nat |-> Run(n)[n]]
  <1>1. ASSUME NEW n \in Nat PROVE Runs(S, s, step, n, Run(n))
    BY RunsExist
  <1> HIDE DEF Run
  <1>3. f[0] = s
    BY <1>1 DEF Runs
  <1>4. ASSUME NEW n \in Nat, n # 0 PROVE f[n] = step[f[n - 1]]
    <2>1. n - 1 \in Nat /\ n \in n - 1 .. n - 1 + 1 /\ n - 1 \in 0 .. n - 1 /\ n \in 1 .. n
      BY <1>4
    <2>2. Run(n - 1)[n - 1] = Run(n)[n - 1]
      <3>1. Runs(S, s, step, n - 1, Run(n - 1)) /\ Runs(S, s, step, n, Run(n))
        BY <2>1, <1>1
      <3>2. ASSUME NEW m \in Nat, n \in m .. m + 1, m \in 0 .. m, NEW g, NEW h,
                   Runs(S, s, step, m, g), Runs(S, s, step, n, h)
            PROVE  g[m] = h[m]
        <4> HIDE DEF f
        <4> QED
          BY <3>2, RunsAgree
      <3> QED
        BY <2>1, <3>1, <3>2, Zenon
    <2>3. Run(n)[n] = step[Run(n)[n - 1]]
      BY <2>1, <1>1 DEF Runs
    <2> QED
      BY <2>1, <2>2, <2>3
  <1>5. Iteration(s, step, f)
    BY <1>3, <1>4 DEF Iteration
  <1> QED
    BY <1>5

(* A loop whose states get smaller until it is about to end does end. *)
LEMMA RepeatEnds ==
  ASSUME NEW Inv, NEW step, NEW state \in Inv, NEW size \in [Inv -> Nat], size[state] <= NumNodes,
         \A x \in Inv : step[x] \in Inv /\ (step[step[x]] = step[x] \/ size[step[x]] < size[x])
  PROVE  Repeat(step, state) \in Inv /\ step[Repeat(step, state)] = Repeat(step, state)
  <1> DEFINE after == CHOOSE f : f = [n \in Nat |-> IF n = 0 THEN state ELSE step[f[n - 1]]]
             last == after[NumNodes + 1]
  <1>1. after = [n \in Nat |-> IF n = 0 THEN state ELSE step[after[n - 1]]]
    <2>1. \A x \in Inv : step[x] \in Inv
      OBVIOUS
    <2>2. \E f : Iteration(state, step, f)
      BY <2>1, Iterates
    <2> QED
      BY <2>2 DEF Iteration
  <1> HIDE DEF after
  <1>2. after[0] = state /\ \A n \in Nat : after[n + 1] = step[after[n]]
    <2>1. ASSUME NEW n \in Nat PROVE after[n + 1] = step[after[n]]
      BY <1>1
    <2> QED
      BY <1>1, <2>1
  <1> DEFINE T == {n \in Nat : after[n] \notin Inv}
             U == {n \in Nat : ~(step[after[n]] = after[n] \/ size[after[n]] + n <= NumNodes)}
  <1>3. ASSUME T # {} PROVE FALSE
    <2>1. PICK n \in T : \A k \in T : n <= k
      BY <1>3, LeastOf
    <2>2. n \in Nat /\ n # 0
      BY <2>1, <1>2
    <2>3. n - 1 \in Nat /\ ~(n <= n - 1) /\ n = n - 1 + 1
      BY <2>2
    <2>4. after[n - 1] \in Inv /\ after[n] = step[after[n - 1]]
      BY <2>1, <2>3, <1>2
    <2> QED
      BY <2>1, <2>4
  <1>4. \A n \in Nat : after[n] \in Inv
    BY <1>3
  <1>5. ASSUME U # {} PROVE FALSE
    <2>1. PICK n \in U : \A k \in U : n <= k
      BY <1>5, LeastOf
    <2>2. n \in Nat /\ n # 0
      BY <2>1, <1>2
    <2>3. n - 1 \in Nat /\ ~(n <= n - 1) /\ n = n - 1 + 1
      BY <2>2
    <2>4. after[n - 1] \in Inv /\ after[n] \in Inv /\ after[n] = step[after[n - 1]]
      BY <2>2, <2>3, <1>2, <1>4
    <2>5. step[after[n - 1]] = after[n - 1] \/ size[after[n - 1]] + (n - 1) <= NumNodes
      BY <2>1, <2>3
    <2>6. step[after[n]] # after[n] /\ ~(size[after[n]] + n <= NumNodes)
      BY <2>1
    <2>7. step[after[n - 1]] # after[n - 1]
      BY <2>4, <2>6
    <2>8. size[after[n]] < size[after[n - 1]]
      BY <2>4, <2>6
    <2>9. size[after[n]] \in Nat /\ size[after[n - 1]] \in Nat
      BY <2>4
    <2> QED
      BY <2>2, <2>5, <2>6, <2>7, <2>8, <2>9, NodesAssumption
  <1>6. step[last] = last
    <2>1. NumNodes + 1 \in Nat /\ size[last] \in Nat
      BY <1>4, NodesAssumption
    <2>2. step[last] = last \/ size[last] + (NumNodes + 1) <= NumNodes
      BY <1>5, <2>1
    <2> QED
      BY <2>1, <2>2, NodesAssumption
  <1>7. last \in Inv
    BY <1>4, NodesAssumption
  <1>8. Repeat(step, state) = CASE step[last] = last -> last
    BY DEF Repeat, after
  <1> QED
    BY <1>6, <1>7, <1>8

-----------------------------------------------------------------------------
(* The elements of a set in order. *)
LEMMA NodesFinite ==
  ASSUME NEW T \in SUBSET Node
  PROVE  IsFiniteSet(T) /\ Cardinality(T) \in Nat /\ Cardinality(T) <= NumNodes
  <1>1. IsFiniteSet(Node) /\ Cardinality(Node) = NumNodes
    <2>1. IsFiniteSet(1 .. NumNodes) /\ Cardinality(1 .. NumNodes) = NumNodes
      BY FS_Interval, NodesAssumption
    <2> QED
      BY <2>1 DEF Node
  <1>2. IsFiniteSet(T) /\ Cardinality(T) <= Cardinality(Node)
    BY <1>1, FS_Subset
  <1>3. Cardinality(T) \in Nat
    BY <1>2, FS_CardinalityType
  <1> QED
    BY <1>1, <1>2, <1>3

Nth(T, k) == CHOOSE x \in T : Cardinality({y \in T : y <= x}) = k
Ordered(T) == [k \in 1 .. Cardinality(T) |-> Nth(T, k)]

LEMMA NthSame ==
  ASSUME NEW T \in SUBSET Node, NEW x \in Node, \A y \in T : y < x, NEW k \in 1 .. Cardinality(T)
  PROVE  Nth(T \cup {x}, k) = Nth(T, k)
  <1> DEFINE U == T \cup {x}
  <1>1. \A y \in U : y \in Int
    BY Numbers
  <1>2. ASSUME NEW z \in T PROVE {y \in U : y <= z} = {y \in T : y <= z}
    BY <1>1
  <1>3. {y \in U : y <= x} = U
    BY <1>1
  <1>4. Cardinality(U) = Cardinality(T) + 1
    <2>1. x \notin T
      BY <1>1
    <2>2. IsFiniteSet(T)
      BY NodesFinite
    <2> QED
      BY <2>1, <2>2, FS_AddElement
  <1>5. Cardinality(U) # k /\ Cardinality(T) \in Nat
    BY <1>4, NodesFinite
  <1>6. ASSUME NEW z
        PROVE  (z \in U /\ Cardinality({y \in U : y <= z}) = k) <=> (z \in T /\ Cardinality({y \in T : y <= z}) = k)
    <2>1. CASE z \in T
      BY <2>1, <1>2
    <2>2. CASE z = x
      BY <2>2, <1>1, <1>3, <1>5
    <2>3. CASE z \notin U
      BY <2>3
    <2> QED
      BY <2>1, <2>2, <2>3
  <1> HIDE DEF U
  <1>7. Nth(U, k) = Nth(T, k)
    BY <1>6, Zenon DEF Nth
  <1> QED
    BY <1>7 DEF U

LEMMA OrderedNext ==
  ASSUME NEW T \in SUBSET Node, NEW x \in Node, \A y \in T : y < x
  PROVE  Ordered(T \cup {x}) = Append(Ordered(T), x)
  <1> DEFINE U == T \cup {x}
             n == Cardinality(T)
  <1>1. \A y \in U : y \in Int
    BY Numbers
  <1>2. n \in Nat /\ Cardinality(U) = n + 1
    <2>1. x \notin T
      BY <1>1
    <2>2. IsFiniteSet(T) /\ n \in Nat
      BY NodesFinite
    <2> QED
      BY <2>1, <2>2, FS_AddElement
  <1>3. \A k \in 1 .. n : Nth(U, k) = Nth(T, k)
    BY NthSame
  <1>4. Nth(U, n + 1) = x
    <2>1. {y \in U : y <= x} = U
      BY <1>1
    <2>2. ASSUME NEW z \in U, Cardinality({y \in U : y <= z}) = n + 1 PROVE z = x
      <3>1. ASSUME z \in T PROVE FALSE
        <4>1. {y \in U : y <= z} \in SUBSET T
          BY <1>1, <3>1
        <4>2. Cardinality({y \in U : y <= z}) <= n
          BY <4>1, NodesFinite, FS_Subset
        <4> QED
          BY <4>2, <2>2, <1>2
      <3> QED
        BY <3>1
    <2>3. x \in U /\ Cardinality({y \in U : y <= x}) = n + 1
      BY <2>1, <1>2
    <2> HIDE DEF U
    <2> QED
      BY <2>2, <2>3 DEF Nth
  <1> HIDE DEF U
  <1>5. Ordered(U) = [k \in 1 .. n + 1 |-> Nth(U, k)]
    BY <1>2 DEF Ordered
  <1>6. Append(Ordered(T), x) = [k \in 1 .. n + 1 |-> IF k = n + 1 THEN x ELSE Ordered(T)[k]]
    <2>1. Ordered(T) = [k \in 1 .. n |-> Nth(T, k)]
      BY DEF Ordered
    <2>2. Len(Ordered(T)) = n
      BY <2>1, <1>2
    <2> QED
      BY <2>1, <2>2, <1>2
  <1>7. \A k \in 1 .. n + 1 : (IF k = n + 1 THEN x ELSE Ordered(T)[k]) = Nth(U, k)
    BY <1>2, <1>3, <1>4 DEF Ordered
  <1>8. Ordered(U) = Append(Ordered(T), x)
    BY <1>5, <1>6, <1>7
  <1> QED
    BY <1>8 DEF U

LEMMA OrderedNone == Ordered({}) = <<>>
  <1>1. Cardinality({}) = 0
    BY FS_EmptySet
  <1> QED
    BY <1>1 DEF Ordered
=============================================================================
