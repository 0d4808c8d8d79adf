---------------------------- MODULE SumTheorems ----------------------------
(***************************************************************************)
(* Facts about SumFunctionOnSet, the sum of a function's values over a     *)
(* finite set, in which the exposures, holds and working quantities of the *)
(* components are stated.  The sum is a recursive function on the subsets  *)
(* of the set; what it computes is proved by looking at a smallest         *)
(* counterexample.                                                         *)
(***************************************************************************)
EXTENDS Integers, Functions, FiniteSetTheorems, TLAPS

Pick(s) == CHOOSE x \in s : TRUE

(* h is the recursive function that the sum of f over S is read from. *)
Sums(h, f, S) ==
  h = [s \in SUBSET S |-> IF s = {} THEN 0 ELSE f[Pick(s)] + h[s \ {Pick(s)}]]

(* A set of naturals has a least element. *)
LEMMA LeastNat ==
  ASSUME NEW B, B \subseteq Nat, B # {}
  PROVE  \E n \in B : \A m \in B : n <= m
<1> DEFINE T == {0 .. n : n \in B}
<1>0. \A n \in B : IsFiniteSet(0 .. n) /\ 0 .. n \in SUBSET Nat
  BY FS_Interval
<1>1. T \subseteq FiniteSubsetsOf(Nat) /\ T # {}
  BY <1>0 DEF FiniteSubsetsOf
<1>2. PICK t \in T : \A u \in T : ~ (<<u, t>> \in StrictSubsetOrdering(Nat))
  BY <1>1, FS_StrictSubsetOrderingWellFounded, WFMin
<1>3. PICK n \in B : t = 0 .. n
  BY <1>2
<1>4. ASSUME NEW m \in B, m < n PROVE FALSE
  <2>1. n \notin 0 .. m /\ n \in 0 .. n /\ 0 .. m \subseteq 0 .. n /\ 0 .. n \subseteq Nat
    BY <1>4
  <2>2. <<0 .. m, 0 .. n>> \in StrictSubsetOrdering(Nat)
    BY <2>1 DEF StrictSubsetOrdering
  <2> QED BY <1>2, <1>3, <2>2
<1> QED BY <1>4

(* Counting with one element less. *)
LEMMA CountLess ==
  ASSUME NEW s, IsFiniteSet(s), NEW x \in s
  PROVE  /\ IsFiniteSet(s \ {x}) /\ Cardinality(s) \in Nat
         /\ Cardinality(s \ {x}) = Cardinality(s) - 1
         /\ Cardinality(s \ {x}) \in Nat
BY FS_RemoveElement, FS_CardinalityType

LEMMA PickIn == \A s : s # {} => Pick(s) \in s
BY DEF Pick

(* The recursion has a solution. *)
LEMMA SumsExists ==
  ASSUME NEW f, NEW S, IsFiniteSet(S)
  PROVE  \E h : Sums(h, f, S)
<1> DEFINE Small(n) == {s \in SUBSET S : Cardinality(s) <= n}
           Good(h, n) == h = [s \in Small(n) |-> IF s = {} THEN 0
                                                 ELSE f[Pick(s)] + h[s \ {Pick(s)}]]
           B == {n \in Nat : ~ \E h : Good(h, n)}
<1>0. \A s \in SUBSET S : /\ IsFiniteSet(s) /\ Cardinality(s) \in Nat
                          /\ Cardinality(s) <= Cardinality(S)
                          /\ (s = {} <=> Cardinality(s) = 0)
  BY FS_Subset, FS_CardinalityType, FS_EmptySet
<1>1. B = {}
  <2>1. SUFFICES ASSUME B # {} PROVE FALSE
    OBVIOUS
  <2>2. PICK n \in B : \A m \in B : n <= m
    <3>1. B \subseteq Nat
      OBVIOUS
    <3> HIDE DEF B
    <3> QED BY <2>1, <3>1, LeastNat
  <2>3. CASE n = 0
    <3>1. Good([s \in Small(0) |-> 0], 0)
      <4>1. \A s \in Small(0) : s = {}
        BY <1>0
      <4> QED BY <4>1
    <3> QED BY <2>2, <2>3, <3>1
  <2>4. CASE n # 0
    <3>n. n \in Nat
      OBVIOUS
    <3>1. n - 1 \in Nat /\ n - 1 \notin B
      <4> HIDE DEF B
      <4> QED BY <2>2, <2>4, <3>n
    <3>2. PICK g : Good(g, n - 1)
      BY <3>1
    <3> DEFINE h == [s \in Small(n) |-> IF s = {} THEN 0 ELSE f[Pick(s)] + g[s \ {Pick(s)}]]
    <3>3. \A s \in Small(n) : s # {} => s \ {Pick(s)} \in Small(n - 1)
      BY <1>0, <2>2, PickIn, CountLess
    <3>a. \A s \in Small(n - 1) : s \in Small(n)
      BY <3>n, <1>0
    <3>b. \A s \in Small(n - 1) : g[s] = IF s = {} THEN 0 ELSE f[Pick(s)] + g[s \ {Pick(s)}]
      <4> HIDE DEF Small
      <4> QED BY <3>2
    <3>4. \A s \in Small(n - 1) : g[s] = h[s]
      <4> HIDE DEF Small, Good
      <4> QED BY <3>a, <3>b
    <3>5. Good(h, n)
      BY <3>3, <3>4
    <3> QED BY <2>2, <3>5
  <2> QED BY <2>3, <2>4
<1>2. Cardinality(S) \in Nat /\ Small(Cardinality(S)) = SUBSET S
  BY <1>0, FS_CardinalityType
<1>3. PICK h : Good(h, Cardinality(S))
  BY <1>1, <1>2
<1> QED BY <1>2, <1>3 DEF Sums

(* Two solutions agree where both are defined. *)
LEMMA SumsAgree ==
  ASSUME NEW f, NEW S, NEW T, IsFiniteSet(S), IsFiniteSet(T), NEW g, NEW h,
         Sums(g, f, S), Sums(h, f, T)
  PROVE  \A s : s \subseteq S /\ s \subseteq T => g[s] = h[s]
<1> DEFINE Bad == {s \in SUBSET S : s \subseteq T /\ g[s] # h[s]}
           B == {Cardinality(s) : s \in Bad}
<1>0. \A s \in SUBSET S : IsFiniteSet(s) /\ Cardinality(s) \in Nat
  BY FS_Subset, FS_CardinalityType
<1>1. SUFFICES ASSUME Bad # {} PROVE FALSE
  OBVIOUS
<1>2. PICK n \in B : \A m \in B : n <= m
  <2>1. B \subseteq Nat /\ B # {}
    BY <1>0, <1>1
  <2> HIDE DEF B
  <2> QED BY <2>1, LeastNat
<1>3. PICK s \in Bad : Cardinality(s) = n
  BY <1>2
<1>4. s \in SUBSET S /\ s \in SUBSET T /\ g[s] # h[s]
  OBVIOUS
<1>5. s # {}
  BY <1>4 DEF Sums
<1> DEFINE r == s \ {Pick(s)}
<1>6. /\ g[s] = f[Pick(s)] + g[r]
      /\ h[s] = f[Pick(s)] + h[r]
  BY <1>4, <1>5 DEF Sums
<1>7. r \in Bad
  BY <1>4, <1>6
<1>8. Cardinality(r) = n - 1 /\ n \in Nat
  BY <1>0, <1>3, <1>4, <1>5, PickIn, CountLess
<1>9. n <= n - 1
  BY <1>2, <1>7, <1>8
<1> QED BY <1>8, <1>9

(* The sum unfolds along the element that is picked. *)
LEMMA SumUnfolds ==
  ASSUME NEW f, NEW S, IsFiniteSet(S)
  PROVE  SumFunctionOnSet(f, S) =
           IF S = {} THEN 0 ELSE f[Pick(S)] + SumFunctionOnSet(f, S \ {Pick(S)})
<1> DEFINE F(T) == CHOOSE h : Sums(h, f, T)
<1>1. \A T : SumFunctionOnSet(f, T) = F(T)[T]
  BY DEF SumFunctionOnSet, FoldFunctionOnSet, MapThenFoldSet, Sums, Pick
<1>2. \A T \in SUBSET S : Sums(F(T), f, T) /\ IsFiniteSet(T)
  BY FS_Subset, SumsExists
<1> HIDE DEF F
<1>3. CASE S = {}
  BY <1>1, <1>2, <1>3 DEF Sums
<1>4. CASE S # {}
  <2> DEFINE T == S \ {Pick(S)}
  <2>1. F(S)[S] = f[Pick(S)] + F(S)[T]
    BY <1>2, <1>4 DEF Sums
  <2>2. F(S)[T] = F(T)[T]
    BY <1>2, SumsAgree
  <2> QED BY <1>1, <1>4, <2>1, <2>2
<1> QED BY <1>3, <1>4

(* The values summed are numbers. *)
LEMMA SumIsInt ==
  ASSUME NEW I, NEW f \in [I -> Int], NEW S \in SUBSET I, IsFiniteSet(S)
  PROVE  SumFunctionOnSet(f, S) \in Int
<1> DEFINE Sum(s) == SumFunctionOnSet(f, s)
           Bad == {s \in SUBSET S : Sum(s) \notin Int}
           B == {Cardinality(s) : s \in Bad}
<1>0. \A s \in SUBSET S : IsFiniteSet(s) /\ Cardinality(s) \in Nat
  BY FS_Subset, FS_CardinalityType
<1>1. SUFFICES ASSUME Bad # {} PROVE FALSE
  OBVIOUS
<1>2. PICK n \in B : \A m \in B : n <= m
  <2>1. B \subseteq Nat /\ B # {}
    BY <1>0, <1>1
  <2> HIDE DEF B
  <2> QED BY <2>1, LeastNat
<1>3. PICK s \in Bad : Cardinality(s) = n
  BY <1>2
<1> HIDE DEF Sum
<1>4. s \in SUBSET S /\ Sum(s) \notin Int /\ IsFiniteSet(s)
  BY <1>0
<1>5. s # {} /\ Sum(s) = f[Pick(s)] + Sum(s \ {Pick(s)})
  BY <1>4, SumUnfolds DEF Sum
<1>6. f[Pick(s)] \in Int
  BY <1>4, <1>5, PickIn
<1>7. s \ {Pick(s)} \in Bad
  BY <1>4, <1>5, <1>6
<1>8. Cardinality(s \ {Pick(s)}) = n - 1 /\ n \in Nat
  BY <1>0, <1>3, <1>4, <1>5, PickIn, CountLess
<1>9. n <= n - 1
  BY <1>2, <1>7, <1>8
<1> QED BY <1>8, <1>9

(* The order of summation does not matter: any element can be taken out. *)
THEOREM SumTakesOut ==
  ASSUME NEW I, NEW f \in [I -> Int], NEW S \in SUBSET I, IsFiniteSet(S), NEW x \in S
  PROVE  SumFunctionOnSet(f, S) = f[x] + SumFunctionOnSet(f, S \ {x})
<1> DEFINE Sum(s) == SumFunctionOnSet(f, s)
           Bad == {s \in SUBSET S : \E y \in s : Sum(s) # f[y] + Sum(s \ {y})}
           B == {Cardinality(s) : s \in Bad}
<1>0. \A s \in SUBSET S : /\ IsFiniteSet(s) /\ Cardinality(s) \in Nat
                          /\ Sum(s) \in Int
  BY FS_Subset, FS_CardinalityType, SumIsInt
<1>1. SUFFICES ASSUME Bad # {} PROVE FALSE
  OBVIOUS
<1>2. PICK n \in B : \A m \in B : n <= m
  <2>1. B \subseteq Nat /\ B # {}
    BY <1>0, <1>1
  <2> HIDE DEF B
  <2> QED BY <2>1, LeastNat
<1>3. PICK s \in Bad : Cardinality(s) = n
  BY <1>2
<1>4. PICK y \in s : Sum(s) # f[y] + Sum(s \ {y})
  OBVIOUS
<1> DEFINE p == Pick(s)
<1>5. s \in SUBSET S /\ IsFiniteSet(s) /\ p \in s
  BY <1>0, PickIn
<1> HIDE DEF Sum
<1>6. Sum(s) = f[p] + Sum(s \ {p})
  BY <1>5, SumUnfolds DEF Sum
<1>7. p # y
  BY <1>4, <1>6
<1>8. s \ {p} \notin Bad /\ s \ {y} \notin Bad
  <2>1. /\ Cardinality(s \ {p}) = n - 1 /\ Cardinality(s \ {y}) = n - 1
        /\ n \in Nat
    BY <1>3, <1>5, CountLess
  <2>2. n - 1 \notin B
    BY <1>2, <2>1
  <2> QED BY <2>1, <2>2
<1>9. /\ Sum(s \ {p}) = f[y] + Sum((s \ {p}) \ {y})
      /\ Sum(s \ {y}) = f[p] + Sum((s \ {y}) \ {p})
  BY <1>5, <1>7, <1>8
<1>10. (s \ {p}) \ {y} = (s \ {y}) \ {p}
  OBVIOUS
<1>11. /\ f[p] \in Int /\ f[y] \in Int
       /\ Sum((s \ {y}) \ {p}) \in Int
  BY <1>0, <1>5
<1> DEFINE rest == Sum((s \ {y}) \ {p})
           a == f[p]
           b == f[y]
<1>12. /\ Sum(s \ {p}) = b + rest /\ Sum(s \ {y}) = a + rest /\ Sum(s) = a + Sum(s \ {p})
       /\ Sum(s) # b + Sum(s \ {y})
       /\ a \in Int /\ b \in Int /\ rest \in Int
  BY <1>4, <1>6, <1>9, <1>10, <1>11
<1> HIDE DEF rest, a, b, p
<1> QED BY <1>12

(* Only the values over the set matter. *)
THEOREM SumOfSame ==
  ASSUME NEW I, NEW J, NEW f \in [I -> Int], NEW g \in [J -> Int], NEW S \in SUBSET I, S \subseteq J,
         IsFiniteSet(S), \A x \in S : f[x] = g[x]
  PROVE  SumFunctionOnSet(f, S) = SumFunctionOnSet(g, S)
<1> DEFINE Bad == {s \in SUBSET S : SumFunctionOnSet(f, s) # SumFunctionOnSet(g, s)}
           B == {Cardinality(s) : s \in Bad}
<1>0. \A s \in SUBSET S : IsFiniteSet(s) /\ Cardinality(s) \in Nat
  BY FS_Subset, FS_CardinalityType
<1>1. SUFFICES ASSUME Bad # {} PROVE FALSE
  OBVIOUS
<1>2. PICK n \in B : \A m \in B : n <= m
  <2>1. B \subseteq Nat /\ B # {}
    BY <1>0, <1>1
  <2> HIDE DEF B
  <2> QED BY <2>1, LeastNat
<1>3. PICK s \in Bad : Cardinality(s) = n
  BY <1>2
<1>4. s \in SUBSET S /\ IsFiniteSet(s) /\ s # {} /\ Pick(s) \in s
  BY <1>0, SumUnfolds, PickIn
<1>5. /\ SumFunctionOnSet(f, s) = f[Pick(s)] + SumFunctionOnSet(f, s \ {Pick(s)})
      /\ SumFunctionOnSet(g, s) = g[Pick(s)] + SumFunctionOnSet(g, s \ {Pick(s)})
  BY <1>4, SumUnfolds
<1>6. s \ {Pick(s)} \in Bad
  BY <1>4, <1>5
<1>7. Cardinality(s \ {Pick(s)}) = n - 1 /\ n \in Nat
  BY <1>0, <1>3, <1>4, CountLess
<1>8. n <= n - 1
  BY <1>2, <1>6, <1>7
<1> QED BY <1>7, <1>8

(* A sum of naturals is one, and none of its terms exceeds it. *)
THEOREM SumOfNats ==
  ASSUME NEW I, NEW f \in [I -> Nat], NEW S \in SUBSET I, IsFiniteSet(S)
  PROVE  /\ SumFunctionOnSet(f, S) \in Nat
         /\ \A x \in S : f[x] <= SumFunctionOnSet(f, S)
<1> DEFINE Sum(s) == SumFunctionOnSet(f, s)
           Bad == {s \in SUBSET S : Sum(s) \notin Nat}
           B == {Cardinality(s) : s \in Bad}
<1>i. f \in [I -> Int]
  OBVIOUS
<1>0. \A s \in SUBSET S : IsFiniteSet(s) /\ Cardinality(s) \in Nat
  BY FS_Subset, FS_CardinalityType
<1>a. ASSUME Bad # {} PROVE FALSE
  <2>2. PICK n \in B : \A m \in B : n <= m
    <3>1. B \subseteq Nat /\ B # {}
      BY <1>0, <1>a
    <3> HIDE DEF B
    <3> QED BY <3>1, LeastNat
  <2>3. PICK s \in Bad : Cardinality(s) = n
    BY <2>2
  <2>u. Sum(s) = IF s = {} THEN 0 ELSE f[Pick(s)] + Sum(s \ {Pick(s)})
    BY <1>0, SumUnfolds
  <2> HIDE DEF Sum
  <2>4. s \in SUBSET S /\ Sum(s) \notin Nat /\ IsFiniteSet(s)
    BY <1>0
  <2>5. s # {} /\ Sum(s) = f[Pick(s)] + Sum(s \ {Pick(s)})
    BY <2>4, <2>u
  <2>6. f[Pick(s)] \in Nat
    BY <2>4, <2>5, PickIn
  <2>7. s \ {Pick(s)} \in Bad
    BY <2>4, <2>5, <2>6
  <2>8. Cardinality(s \ {Pick(s)}) = n - 1 /\ n \in Nat
    BY <1>0, <2>3, <2>4, <2>5, PickIn, CountLess
  <2>9. n <= n - 1
    BY <2>2, <2>7, <2>8
  <2> QED BY <2>8, <2>9
<1>b. \A s \in SUBSET S : Sum(s) \in Nat
  BY <1>a
<1>c. ASSUME NEW x \in S PROVE f[x] <= Sum(S)
  <2>1. Sum(S) = f[x] + Sum(S \ {x})
    BY <1>i, SumTakesOut
  <2>2. Sum(S \ {x}) \in Nat /\ f[x] \in Nat
    BY <1>b
  <2> HIDE DEF Sum
  <2> QED BY <2>1, <2>2
<1> QED BY <1>b, <1>c

(* A sum of zeros. *)
THEOREM SumOfZeros ==
  ASSUME NEW I, NEW f \in [I -> Int], NEW S \in SUBSET I, IsFiniteSet(S), \A x \in S : f[x] = 0
  PROVE  SumFunctionOnSet(f, S) = 0
<1> DEFINE Bad == {s \in SUBSET S : SumFunctionOnSet(f, s) # 0}
           B == {Cardinality(s) : s \in Bad}
<1>0. \A s \in SUBSET S : IsFiniteSet(s) /\ Cardinality(s) \in Nat
  BY FS_Subset, FS_CardinalityType
<1>1. SUFFICES ASSUME Bad # {} PROVE FALSE
  OBVIOUS
<1>2. PICK n \in B : \A m \in B : n <= m
  <2>1. B \subseteq Nat /\ B # {}
    BY <1>0, <1>1
  <2> HIDE DEF B
  <2> QED BY <2>1, LeastNat
<1>3. PICK s \in Bad : Cardinality(s) = n
  BY <1>2
<1>4. s \in SUBSET S /\ IsFiniteSet(s) /\ s # {} /\ Pick(s) \in s
  BY <1>0, SumUnfolds, PickIn
<1>5. SumFunctionOnSet(f, s) = f[Pick(s)] + SumFunctionOnSet(f, s \ {Pick(s)})
  BY <1>4, SumUnfolds
<1>6. s \ {Pick(s)} \in Bad
  BY <1>4, <1>5
<1>7. Cardinality(s \ {Pick(s)}) = n - 1 /\ n \in Nat
  BY <1>0, <1>3, <1>4, CountLess
<1>8. n <= n - 1
  BY <1>2, <1>6, <1>7
<1> QED BY <1>7, <1>8

(* Nothing but one term. *)
THEOREM SumOfOne ==
  ASSUME NEW I, NEW f \in [I -> Int], NEW S \in SUBSET I, IsFiniteSet(S), NEW x \in S,
         \A y \in S \ {x} : f[y] = 0
  PROVE  SumFunctionOnSet(f, S) = f[x]
<1>1. SumFunctionOnSet(f, S) = f[x] + SumFunctionOnSet(f, S \ {x})
  BY SumTakesOut
<1>2. IsFiniteSet(S \ {x})
  BY FS_RemoveElement
<1>3. SumFunctionOnSet(f, S \ {x}) = 0
  BY <1>2, SumOfZeros
<1> QED BY <1>1, <1>3

(* A sum of naturals over more elements and larger values is no smaller. *)
THEOREM SumGrows ==
  ASSUME NEW I, NEW f \in [I -> Nat], NEW g \in [I -> Nat], NEW S \in SUBSET I, IsFiniteSet(S),
         NEW T \in SUBSET S, \A x \in T : f[x] <= g[x]
  PROVE  SumFunctionOnSet(f, T) <= SumFunctionOnSet(g, S)
<1> DEFINE F(s) == SumFunctionOnSet(f, s \cap T)
           G(s) == SumFunctionOnSet(g, s)
           Bad == {s \in SUBSET S : ~(F(s) <= G(s))}
           B == {Cardinality(s) : s \in Bad}
<1>0. \A s \in SUBSET S : /\ IsFiniteSet(s) /\ IsFiniteSet(s \cap T) /\ Cardinality(s) \in Nat
                         /\ F(s) \in Nat /\ G(s) \in Nat
  <2> SUFFICES ASSUME NEW s \in SUBSET S
               PROVE  /\ IsFiniteSet(s) /\ IsFiniteSet(s \cap T) /\ Cardinality(s) \in Nat
                      /\ F(s) \in Nat /\ G(s) \in Nat
    OBVIOUS
  <2>1. IsFiniteSet(s) /\ IsFiniteSet(s \cap T) /\ Cardinality(s) \in Nat
    BY FS_Subset, FS_CardinalityType
  <2>2. s \in SUBSET I /\ s \cap T \in SUBSET I
    OBVIOUS
  <2> QED BY <2>1, <2>2, SumOfNats
<1>1. ASSUME Bad # {} PROVE FALSE
  <2>1. PICK n \in B : \A m \in B : n <= m
    <3>1. B \subseteq Nat /\ B # {}
      BY <1>0, <1>1
    <3> HIDE DEF B
    <3> QED BY <3>1, LeastNat
  <2>2. PICK s \in Bad : Cardinality(s) = n
    BY <2>1
  <2>3. s \in SUBSET S /\ ~(F(s) <= G(s)) /\ IsFiniteSet(s) /\ IsFiniteSet(s \cap T)
    BY <1>0
  <2>4. s # {}
    <3> SUFFICES ASSUME s = {} PROVE FALSE
      OBVIOUS
    <3>1. s \cap T = s
      OBVIOUS
    <3>2. F(s) = 0 /\ G(s) = 0
      BY <2>3, <3>1, SumUnfolds
    <3> HIDE DEF F, G
    <3> QED BY <2>3, <3>2
  <2>5. PICK x : x \in s
    BY <2>4
  <2>6. f \in [I -> Int] /\ g \in [I -> Int] /\ s \in SUBSET I /\ s \cap T \in SUBSET I
        /\ f[x] \in Nat /\ g[x] \in Nat
    BY <2>3, <2>5
  <2>7. G(s) = g[x] + G(s \ {x})
    BY <2>3, <2>5, <2>6, SumTakesOut
  <2>8. F(s) <= g[x] + F(s \ {x})
    <3>1. CASE x \in T
      <4>1. F(s) = f[x] + SumFunctionOnSet(f, (s \cap T) \ {x})
        BY <2>3, <2>5, <2>6, <3>1, SumTakesOut
      <4>2. (s \cap T) \ {x} = (s \ {x}) \cap T
        OBVIOUS
      <4>3. F(s) = f[x] + F(s \ {x}) /\ F(s \ {x}) \in Nat
        BY <1>0, <2>3, <4>1, <4>2
      <4> HIDE DEF F
      <4> QED BY <2>6, <3>1, <4>3
    <3>2. CASE x \notin T
      <4>1. s \cap T = (s \ {x}) \cap T
        BY <3>2
      <4>2. F(s) = F(s \ {x}) /\ F(s \ {x}) \in Nat
        BY <1>0, <2>3, <4>1
      <4> HIDE DEF F
      <4> QED BY <2>6, <4>2
    <3> QED BY <3>1, <3>2
  <2>9. s \ {x} \in SUBSET S /\ F(s \ {x}) \in Nat /\ G(s \ {x}) \in Nat
        /\ F(s) \in Nat /\ G(s) \in Nat
    BY <1>0, <2>3
  <2>10. ~(F(s \ {x}) <= G(s \ {x}))
    <3> HIDE DEF F, G
    <3> QED BY <2>3, <2>6, <2>7, <2>8, <2>9
  <2>11. s \ {x} \in Bad
    BY <2>9, <2>10
  <2>12. Cardinality(s \ {x}) = n - 1 /\ n \in Nat
    BY <1>0, <2>2, <2>3, <2>5, CountLess
  <2>13. n <= n - 1
    BY <2>1, <2>11, <2>12
  <2> QED BY <2>12, <2>13
<1>2. F(S) <= G(S)
  BY <1>1
<1>3. S \cap T = T
  OBVIOUS
<1> QED BY <1>2, <1>3
=============================================================================
