-------------------------------- MODULE Sums ---------------------------------
(***************************************************************************)
(* Facts about sums over a finite set and about rounding up, for the       *)
(* theorems about the results and about the sizer's report.  The library   *)
(* folds a set by a recursive function that takes away one member after    *)
(* the other; the facts below hold in whatever order.                      *)
(***************************************************************************)
EXTENDS TokenTiers, Functions, FiniteSetTheorems, WellFoundedInduction, TLAPS

(* An image of a finite set is finite. *)
LEMMA FiniteImage ==
  ASSUME NEW S, IsFiniteSet(S), NEW h, DOMAIN h = S, NEW T, T = {h[x] : x \in S}
  PROVE  IsFiniteSet(T)
<1> DEFINE f == [x \in S |-> h[x]]
<1>1. f \in Surjection(S, T)
  BY DEF Surjection
<1> HIDE DEF f
<1> QED
  BY <1>1, FS_Surjection

(* A set of numbers that has a member has a least one. *)
LEMMA LeastNumber ==
  ASSUME NEW T \in SUBSET Nat, T # {}
  PROVE  \E n \in T : \A m \in T : n <= m
<1> DEFINE R == {ss \in Nat \X Nat : ss[1] < ss[2]}
<1>1. IsWellFoundedOn(R, Nat)
  BY NatLessThanWellFounded DEF OpToRel
<1>2. \A x, y \in Nat : <<y, x>> \in R <=> y < x
  OBVIOUS
<1>3. \E x \in T : \A y \in T : ~(<<y, x>> \in R)
  <2> HIDE DEF R
  <2> QED
    BY <1>1, WFMin
<1> HIDE DEF R
<1>4. PICK x \in T : \A y \in T : ~(<<y, x>> \in R)
  BY <1>3
<1>5. x \in Nat /\ \A y \in T : y \in Nat /\ ~(y < x)
  BY <1>2, <1>4
<1> QED
  BY <1>5

(* Induction over the subsets of a finite set: the smallest one that would *)
(* not be good has good ones below it.                                     *)
LEMMA SubsetInduction ==
  ASSUME NEW D, IsFiniteSet(D), NEW Good \in SUBSET SUBSET D, {} \in Good,
         \A s \in SUBSET D : (s # {} /\ \A x \in s : s \ {x} \in Good) => s \in Good
  PROVE  \A s \in SUBSET D : s \in Good
<1> DEFINE Sizes == {Cardinality(s) : s \in (SUBSET D) \ Good}
<1> SUFFICES ASSUME Sizes # {} PROVE FALSE
  OBVIOUS
<1>1. \A s \in SUBSET D : IsFiniteSet(s) /\ Cardinality(s) \in Nat
  BY FS_Subset, FS_CardinalityType
<1>2. Sizes \subseteq Nat
  BY <1>1
<1>5. PICK n \in Sizes : \A m \in Sizes : n <= m
  <2> Sizes # {}
    OBVIOUS
  <2> HIDE DEF Sizes
  <2> QED
    BY <1>2, LeastNumber
<1>6. PICK s \in (SUBSET D) \ Good : Cardinality(s) = n
  OBVIOUS
<1>7. ASSUME NEW x \in s PROVE s \ {x} \in Good
  <2>1. IsFiniteSet(s) /\ Cardinality(s) \in Nat
    BY <1>1
  <2>2. Cardinality(s \ {x}) = Cardinality(s) - 1
    BY <2>1, FS_RemoveElement
  <2>3. Cardinality(s \ {x}) \notin Sizes
    BY <1>2, <1>5, <1>6, <2>1, <2>2
  <2> QED
    BY <2>3
<1> QED
  BY <1>6, <1>7

Pick(s) == CHOOSE x \in s : TRUE
SumStep(it, f, s) == IF s = {} THEN 0 ELSE f[Pick(s)] + it[s \ {Pick(s)}]
Summing(f) == CHOOSE it : it = [s \in SUBSET DOMAIN f |-> SumStep(it, f, s)]

(* The sum of the library is this recursive function, at its whole domain. *)
LEMMA SumUnfolds == ASSUME NEW f PROVE SumFunction(f) = Summing(f)[DOMAIN f]
  BY DEF SumFunction, SumFunctionOnSet, FoldFunctionOnSet, MapThenFoldSet, Summing, SumStep, Pick

LEMMA PickInSet == \A s : s # {} => Pick(s) \in s
  BY DEF Pick

(* There is such a function: by the least size at which there is none. *)
LEMMA SummingExists ==
  ASSUME NEW D, IsFiniteSet(D), NEW f \in [D -> Int]
  PROVE  \E it : it = [s \in SUBSET D |-> SumStep(it, f, s)]
<1> DEFINE UpTo(n) == {s \in SUBSET D : Cardinality(s) <= n}
           Sums(it, n) == it = [s \in UpTo(n) |-> SumStep(it, f, s)]
<1>1. \A s \in SUBSET D : IsFiniteSet(s) /\ Cardinality(s) \in Nat
  BY FS_Subset, FS_CardinalityType
<1>2. \E it : Sums(it, 0)
  <2> DEFINE it == [s \in UpTo(0) |-> 0]
  <2>1. \A s \in UpTo(0) : s = {}
    BY <1>1, FS_EmptySet
  <2>2. Sums(it, 0)
    BY <2>1 DEF SumStep
  <2> QED
    BY <2>2
<1>3. ASSUME NEW n \in Nat, NEW it, Sums(it, n) PROVE \E more : Sums(more, n + 1)
  <2> DEFINE more == [s \in UpTo(n + 1) |-> SumStep(it, f, s)]
  <2>1. ASSUME NEW s \in UpTo(n + 1), s # {} PROVE s \ {Pick(s)} \in UpTo(n) \cap UpTo(n + 1)
    <3>1. IsFiniteSet(s) /\ Cardinality(s) \in Nat
      BY <1>1
    <3>2. Cardinality(s \ {Pick(s)}) = Cardinality(s) - 1
      BY <2>1, <3>1, FS_RemoveElement, PickInSet
    <3> QED
      BY <3>1, <3>2
  <2>2. \A s \in UpTo(n) : s \in UpTo(n + 1) /\ it[s] = SumStep(it, f, s)
    BY <1>1, <1>3
  <2>3. \A s \in UpTo(n) \cap UpTo(n + 1) : more[s] = it[s]
    BY <2>2
  <2>4. ASSUME NEW s \in UpTo(n + 1) PROVE SumStep(more, f, s) = SumStep(it, f, s)
    BY <2>1, <2>3 DEF SumStep
  <2>5. Sums(more, n + 1)
    BY <2>4
  <2> QED
    BY <2>5
<1>4. \A n \in Nat : \E it : Sums(it, n)
  <2> DEFINE Missing == {n \in Nat : ~ \E it : Sums(it, n)}
  <2> SUFFICES ASSUME Missing # {} PROVE FALSE
    OBVIOUS
  <2>2. PICK n \in Missing : \A m \in Missing : n <= m
    <3> Missing \subseteq Nat
      OBVIOUS
    <3> HIDE DEF Missing
    <3> QED
      BY LeastNumber
  <2>3. n \in Nat /\ (\A m \in Missing : n <= m) /\ ~ \E it : Sums(it, n)
    BY <2>2
  <2> HIDE DEF Sums
  <2>4. n # 0
    BY <1>2, <2>3
  <2>5. n - 1 \in Nat /\ n - 1 \notin Missing
    BY <2>3, <2>4
  <2>6. \E it : Sums(it, n - 1)
    BY <2>5
  <2>7. \E more : Sums(more, (n - 1) + 1)
    BY <1>3, <2>5, <2>6
  <2>8. (n - 1) + 1 = n
    BY <2>3
  <2> QED
    BY <2>3, <2>7, <2>8
<1>5. Cardinality(D) \in Nat /\ UpTo(Cardinality(D)) = SUBSET D
  BY <1>1, FS_Subset
<1> HIDE DEF UpTo
<1>6. PICK it : Sums(it, Cardinality(D))
  BY <1>4, <1>5
<1> QED
  BY <1>5, <1>6

(* So the sum is defined by its recursion. *)
LEMMA SummingIs ==
  ASSUME NEW D, IsFiniteSet(D), NEW f \in [D -> Int]
  PROVE  /\ Summing(f) \in [SUBSET D -> Int]
         /\ \A s \in SUBSET D : Summing(f)[s] = SumStep(Summing(f), f, s)
<1> DEFINE sum == Summing(f)
<1>1. DOMAIN f = D
  OBVIOUS
<1>2. sum = [s \in SUBSET D |-> SumStep(sum, f, s)]
  BY <1>1, SummingExists DEF Summing
<1> HIDE DEF sum
<1>3. \A s \in SUBSET D : sum[s] = SumStep(sum, f, s)
  BY <1>2
<1> DEFINE Good == {s \in SUBSET D : sum[s] \in Int}
<1>b. Good \in SUBSET SUBSET D
  OBVIOUS
<1>4. {} \in Good
  <2>1. sum[{}] = 0
    BY <1>3 DEF SumStep
  <2> QED
    BY <2>1
<1>5. ASSUME NEW s \in SUBSET D, s # {}, \A x \in s : s \ {x} \in Good PROVE s \in Good
  <2>1. Pick(s) \in s /\ sum[s \ {Pick(s)}] \in Int /\ f[Pick(s)] \in Int
    BY <1>5, PickInSet
  <2> QED
    BY <1>3, <1>5, <2>1 DEF SumStep
<1>6. \A s \in SUBSET D : s \in Good
  <2> HIDE DEF Good
  <2> QED
    BY <1>4, <1>5, <1>b, SubsetInduction
<1>7. sum \in [SUBSET D -> Int]
  BY <1>2, <1>6
<1> QED
  BY <1>3, <1>7 DEF sum

(* Any member may be taken away first.                                     *)
LEMMA SummingAny ==
  ASSUME NEW D, IsFiniteSet(D), NEW f \in [D -> Int], NEW s \in SUBSET D, NEW x \in s
  PROVE  Summing(f)[s] = f[x] + Summing(f)[s \ {x}]
<1> DEFINE sum == Summing(f)
           Good == {t \in SUBSET D : \A y \in t : sum[t] = f[y] + sum[t \ {y}]}
<1>1. sum \in [SUBSET D -> Int] /\ \A t \in SUBSET D : sum[t] = SumStep(sum, f, t)
  BY SummingIs
<1> HIDE DEF sum
<1>2. ASSUME NEW t \in SUBSET D, t # {}, \A y \in t : t \ {y} \in Good, NEW y \in t
      PROVE  sum[t] = f[y] + sum[t \ {y}]
  <2> DEFINE z == Pick(t)
  <2>1. z \in t /\ sum[t] = f[z] + sum[t \ {z}]
    BY <1>1, <1>2, PickInSet DEF SumStep
  <2> HIDE DEF z
  <2>2. CASE y # z
    <3>1. t \ {z} \in Good /\ t \ {y} \in Good /\ y \in t \ {z} /\ z \in t \ {y}
      BY <1>2, <2>1, <2>2
    <3>2. (t \ {z}) \ {y} = (t \ {y}) \ {z}
      OBVIOUS
    <3>3. sum[t \ {z}] = f[y] + sum[(t \ {z}) \ {y}]
      BY <3>1
    <3>4. sum[t \ {y}] = f[z] + sum[(t \ {z}) \ {y}]
      BY <3>1, <3>2
    <3>5. f[y] \in Int /\ f[z] \in Int /\ sum[(t \ {z}) \ {y}] \in Int
      BY <1>1, <2>1
    <3> QED
      BY <2>1, <3>3, <3>4, <3>5
  <2> QED
    BY <2>1, <2>2
<1>3. {} \in Good /\ Good \in SUBSET SUBSET D
  OBVIOUS
<1>4. \A t \in SUBSET D : (t # {} /\ \A y \in t : t \ {y} \in Good) => t \in Good
  BY <1>2
<1>5. \A t \in SUBSET D : t \in Good
  <2> HIDE DEF Good
  <2> QED
    BY <1>3, <1>4, SubsetInduction
<1> QED
  BY <1>5 DEF sum

(* More values that are no less have no smaller sum.                       *)
LEMMA SumGrows ==
  ASSUME NEW D, NEW E, IsFiniteSet(E), D \subseteq E,
         NEW f \in [D -> Nat], NEW g \in [E -> Nat], \A x \in D : f[x] <= g[x]
  PROVE  SumFunction(f) <= SumFunction(g)
<1>1. IsFiniteSet(D) /\ f \in [D -> Int] /\ g \in [E -> Int]
  BY FS_Subset
<1> DEFINE less == Summing(f)
           more == Summing(g)
           Good == {s \in SUBSET E : less[s \cap D] <= more[s]}
<1>2. /\ less \in [SUBSET D -> Int] /\ \A s \in SUBSET D : less[s] = SumStep(less, f, s)
      /\ \A s \in SUBSET D : \A x \in s : less[s] = f[x] + less[s \ {x}]
  <2>1. less \in [SUBSET D -> Int] /\ \A s \in SUBSET D : less[s] = SumStep(less, f, s)
    BY <1>1, SummingIs
  <2>2. ASSUME NEW s \in SUBSET D, NEW x \in s PROVE less[s] = f[x] + less[s \ {x}]
    BY <1>1, SummingAny
  <2> QED
    BY <2>1, <2>2
<1>3. /\ more \in [SUBSET E -> Int] /\ \A s \in SUBSET E : more[s] = SumStep(more, g, s)
      /\ \A s \in SUBSET E : \A x \in s : more[s] = g[x] + more[s \ {x}]
  <2>1. more \in [SUBSET E -> Int] /\ \A s \in SUBSET E : more[s] = SumStep(more, g, s)
    BY <1>1, SummingIs
  <2>2. ASSUME NEW s \in SUBSET E, NEW x \in s PROVE more[s] = g[x] + more[s \ {x}]
    BY <1>1, SummingAny
  <2> QED
    BY <2>1, <2>2
<1> HIDE DEF less, more
<1>4. {} \in Good /\ Good \in SUBSET SUBSET E
  <2>1. less[{}] = 0 /\ more[{}] = 0 /\ {} \cap D = {}
    BY <1>2, <1>3 DEF SumStep
  <2> QED
    BY <2>1
<1>5. ASSUME NEW s \in SUBSET E, s # {}, \A x \in s : s \ {x} \in Good PROVE s \in Good
  <2>1. PICK x \in s : TRUE
    BY <1>5
  <2>2. less[(s \ {x}) \cap D] <= more[s \ {x}]
    BY <1>5
  <2>3. more[s] = g[x] + more[s \ {x}] /\ g[x] \in Nat /\ more[s \ {x}] \in Int
    BY <1>3
  <2>4. CASE x \in D
    <3>1. (s \cap D) \ {x} = (s \ {x}) \cap D /\ x \in s \cap D
      BY <2>4
    <3>2. less[s \cap D] = f[x] + less[(s \ {x}) \cap D]
      BY <1>2, <3>1
    <3>3. f[x] \in Nat /\ f[x] <= g[x] /\ less[(s \ {x}) \cap D] \in Int
      BY <1>2, <2>4
    <3> QED
      BY <2>2, <2>3, <3>2, <3>3
  <2>5. CASE x \notin D
    <3>1. s \cap D = (s \ {x}) \cap D /\ less[s \cap D] \in Int
      BY <1>2, <2>5
    <3> QED
      BY <2>2, <2>3, <3>1
  <2> QED
    BY <2>4, <2>5
<1>6. E \in Good
  <2> HIDE DEF Good
  <2> QED
    BY <1>4, <1>5, SubsetInduction
<1>7. E \cap D = D /\ DOMAIN f = D /\ DOMAIN g = E
  OBVIOUS
<1> QED
  BY <1>6, <1>7, SumUnfolds DEF less, more

(* The sum of a function on a finite set, and that of nothing. *)
LEMMA SummingOf ==
  ASSUME NEW D, IsFiniteSet(D), NEW f \in [D -> Int]
  PROVE  SumFunction(f) \in Int /\ SumFunction(f) = Summing(f)[D] /\ Summing(f)[{}] = 0
<1>1. SumFunction(f) = Summing(f)[D]
  BY SumUnfolds
<1>2. Summing(f) \in [SUBSET D -> Int] /\ Summing(f)[{}] = SumStep(Summing(f), f, {})
  BY SummingIs
<1> QED
  BY <1>1, <1>2 DEF SumStep

LEMMA SumEmpty == \A f : DOMAIN f = {} => SumFunction(f) = 0
<1> SUFFICES ASSUME NEW f, DOMAIN f = {} PROVE SumFunction(f) = 0
  OBVIOUS
<1>1. IsFiniteSet({})
  BY FS_EmptySet
<1> DEFINE it == [s \in SUBSET {} |-> 0]
<1>2. it = [s \in SUBSET {} |-> SumStep(it, f, s)]
  BY DEF SumStep
<1>3. Summing(f) = [s \in SUBSET {} |-> SumStep(Summing(f), f, s)]
  <2> HIDE DEF it
  <2> QED
    BY <1>2 DEF Summing
<1>4. Summing(f)[{}] = 0
  BY <1>3 DEF SumStep
<1> QED
  BY <1>4, SumUnfolds

(* The sum over a part is that of the function with the part as domain.    *)
LEMMA SumPart ==
  ASSUME NEW D, IsFiniteSet(D), NEW f \in [D -> Int], NEW A \in SUBSET D,
         NEW g \in [A -> Int], \A x \in A : g[x] = f[x]
  PROVE  SumFunction(g) = Summing(f)[A]
<1> DEFINE whole == Summing(f)
           part  == Summing(g)
           Good  == {s \in SUBSET A : part[s] = whole[s]}
<1>1. IsFiniteSet(A)
  BY FS_Subset
<1>2. \A s \in SUBSET D : whole[s] = SumStep(whole, f, s)
  BY SummingIs
<1>3. \A s \in SUBSET A : part[s] = SumStep(part, g, s)
  BY <1>1, SummingIs
<1> HIDE DEF whole, part
<1>4. {} \in Good /\ Good \in SUBSET SUBSET A
  <2>1. part[{}] = 0 /\ whole[{}] = 0
    BY <1>2, <1>3 DEF SumStep
  <2> QED
    BY <2>1
<1>5. ASSUME NEW s \in SUBSET A, s # {}, \A x \in s : s \ {x} \in Good PROVE s \in Good
  <2>1. Pick(s) \in s /\ part[s \ {Pick(s)}] = whole[s \ {Pick(s)}] /\ g[Pick(s)] = f[Pick(s)]
    BY <1>5, PickInSet
  <2>2. part[s] = g[Pick(s)] + part[s \ {Pick(s)}]
    BY <1>3, <1>5 DEF SumStep
  <2>3. whole[s] = f[Pick(s)] + whole[s \ {Pick(s)}]
    BY <1>2, <1>5 DEF SumStep
  <2> QED
    BY <2>1, <2>2, <2>3
<1>6. \A s \in SUBSET A : s \in Good
  <2> HIDE DEF Good
  <2> QED
    BY <1>1, <1>4, <1>5, SubsetInduction
<1>7. SumFunction(g) = part[A]
  BY SumUnfolds DEF part
<1> QED
  BY <1>6, <1>7 DEF whole

(* Two parts with nothing in common. *)
LEMMA SumOfParts ==
  ASSUME NEW D, IsFiniteSet(D), NEW f \in [D -> Int],
         NEW A \in SUBSET D, NEW B \in SUBSET D, A \cap B = {}
  PROVE  Summing(f)[A \cup B] = Summing(f)[A] + Summing(f)[B]
<1> DEFINE sum  == Summing(f)
           Good == {s \in SUBSET A : sum[s \cup B] = sum[s] + sum[B]}
<1>1. IsFiniteSet(A)
  BY FS_Subset
<1>2. sum \in [SUBSET D -> Int] /\ sum[{}] = 0
  BY SummingIs, SummingOf
<1>3. ASSUME NEW s \in SUBSET D, NEW x \in s PROVE sum[s] = f[x] + sum[s \ {x}]
  BY SummingAny
<1> HIDE DEF sum
<1>4. {} \in Good /\ Good \in SUBSET SUBSET A
  <2>1. {} \cup B = B /\ sum[B] \in Int
    BY <1>2
  <2> QED
    BY <1>2, <2>1
<1>5. ASSUME NEW s \in SUBSET A, s # {}, \A x \in s : s \ {x} \in Good PROVE s \in Good
  <2>1. PICK x \in s : TRUE
    BY <1>5
  <2>2. x \notin B /\ (s \cup B) \ {x} = (s \ {x}) \cup B /\ s \in SUBSET D /\ s \cup B \in SUBSET D
    OBVIOUS
  <2>3. sum[s] = f[x] + sum[s \ {x}] /\ sum[s \cup B] = f[x] + sum[(s \ {x}) \cup B]
    BY <1>3, <2>2
  <2>4. sum[(s \ {x}) \cup B] = sum[s \ {x}] + sum[B]
    BY <1>5
  <2>5. f[x] \in Int /\ sum[s \ {x}] \in Int /\ sum[B] \in Int
    BY <1>2, <2>2
  <2> QED
    BY <2>3, <2>4, <2>5
<1>6. \A s \in SUBSET A : s \in Good
  <2> HIDE DEF Good
  <2> QED
    BY <1>1, <1>4, <1>5, SubsetInduction
<1> QED
  BY <1>6 DEF sum

(* A sum by groups: k says the group of each member. *)
LEMMA SumByGroup ==
  ASSUME NEW D, IsFiniteSet(D), NEW S, IsFiniteSet(S), NEW f \in [D -> Int], NEW k \in [D -> S],
         NEW g \in [S -> Int],
         \A s \in S : g[s] = SumFunction([x \in {y \in D : k[y] = s} |-> f[x]])
  PROVE  SumFunction(g) = SumFunction(f)
<1> DEFINE sum   == Summing(f)
           total == Summing(g)
           In(T) == {x \in D : k[x] \in T}
           Good  == {T \in SUBSET S : total[T] = sum[In(T)]}
<1>1. sum \in [SUBSET D -> Int] /\ sum[{}] = 0 /\ SumFunction(f) = sum[D]
  BY SummingIs, SummingOf
<1>2. total \in [SUBSET S -> Int] /\ total[{}] = 0 /\ SumFunction(g) = total[S]
  BY SummingIs, SummingOf
<1>3. ASSUME NEW T \in SUBSET S, NEW s \in T PROVE total[T] = g[s] + total[T \ {s}]
  BY SummingAny
<1>4. \A A, B \in SUBSET D : A \cap B = {} => sum[A \cup B] = sum[A] + sum[B]
  BY SumOfParts
<1>5. ASSUME NEW s \in S PROVE g[s] = sum[In({s})]
  <2> DEFINE A == {y \in D : k[y] = s}
             h == [x \in A |-> f[x]]
  <2>1. A \in SUBSET D /\ h \in [A -> Int] /\ \A x \in A : h[x] = f[x]
    OBVIOUS
  <2>2. A = In({s}) /\ g[s] = SumFunction(h)
    OBVIOUS
  <2> HIDE DEF A, h
  <2>3. SumFunction(h) = Summing(f)[A]
    BY <2>1, SumPart
  <2> QED
    BY <2>2, <2>3
<1> HIDE DEF sum, total
<1>6. {} \in Good /\ Good \in SUBSET SUBSET S
  <2>1. In({}) = {}
    OBVIOUS
  <2> QED
    BY <1>1, <1>2, <2>1
<1>7. ASSUME NEW T \in SUBSET S, T # {}, \A s \in T : T \ {s} \in Good PROVE T \in Good
  <2>1. PICK s \in T : TRUE
    BY <1>7
  <2>2. In(T) = In({s}) \cup In(T \ {s}) /\ In({s}) \cap In(T \ {s}) = {}
    OBVIOUS
  <2>3. In({s}) \in SUBSET D /\ In(T \ {s}) \in SUBSET D
    OBVIOUS
  <2>4. total[T \ {s}] = sum[In(T \ {s})]
    BY <1>7
  <2> HIDE DEF In
  <2>5. sum[In(T)] = sum[In({s})] + sum[In(T \ {s})]
    BY <1>4, <2>2, <2>3
  <2> QED
    BY <1>3, <1>5, <2>4, <2>5
<1>8. S \in Good
  <2> HIDE DEF Good
  <2> QED
    BY <1>6, <1>7, SubsetInduction
<1>9. In(S) = D
  OBVIOUS
<1> QED
  BY <1>1, <1>2, <1>8, <1>9

LEMMA SumOne ==
  ASSUME NEW x, NEW f \in [{x} -> Int]
  PROVE  SumFunction(f) = f[x]
<1>1. IsFiniteSet({x})
  BY FS_Singleton
<1>2. Summing(f)[{x}] = f[x] + Summing(f)[{x} \ {x}]
  <2> DEFINE D == {x}
  <2>1. D \in SUBSET D /\ x \in D /\ IsFiniteSet(D) /\ f \in [D -> Int]
    BY <1>1
  <2> HIDE DEF D
  <2>2. Summing(f)[D] = f[x] + Summing(f)[D \ {x}]
    BY <2>1, SummingAny
  <2> QED
    BY <2>2 DEF D
<1>3. Summing(f)[{}] = 0 /\ SumFunction(f) = Summing(f)[{x}] /\ {x} \ {x} = {}
  BY <1>1, SummingOf
<1>4. f[x] \in Int
  OBVIOUS
<1> QED
  BY <1>2, <1>3, <1>4

LEMMA SumTwo ==
  ASSUME NEW x, NEW y, x # y, NEW f \in [{x, y} -> Int]
  PROVE  SumFunction(f) = f[x] + f[y]
<1>1. IsFiniteSet({x, y})
  <2>1. IsFiniteSet({x} \cup {y})
    BY FS_Singleton, FS_AddElement
  <2>2. {x} \cup {y} = {x, y}
    OBVIOUS
  <2> QED
    BY <2>1, <2>2
<1>2. /\ Summing(f)[{x, y}] = f[x] + Summing(f)[{y}]
      /\ Summing(f)[{y}] = f[y] + Summing(f)[{}]
  <2> DEFINE D == {x, y}
             E == {y}
  <2>1. /\ D \in SUBSET D /\ E \in SUBSET D /\ IsFiniteSet(D) /\ f \in [D -> Int]
        /\ x \in D /\ y \in E /\ D \ {x} = E /\ E \ {y} = {}
    BY <1>1
  <2> HIDE DEF D, E
  <2>2. Summing(f)[D] = f[x] + Summing(f)[D \ {x}]
    BY <2>1, SummingAny
  <2>3. Summing(f)[E] = f[y] + Summing(f)[E \ {y}]
    BY <2>1, SummingAny
  <2> QED
    BY <2>1, <2>2, <2>3 DEF D, E
<1>4. f[x] \in Int /\ f[y] \in Int
  OBVIOUS
<1> QED
  BY <1>1, <1>2, <1>4, SummingOf

(* The same values under other names. *)
LEMMA SumRenamed ==
  ASSUME NEW D, IsFiniteSet(D), NEW S, IsFiniteSet(S), NEW f \in [D -> Int], NEW g \in [S -> Int],
         NEW k \in [D -> S], \A x, y \in D : k[x] = k[y] => x = y,
         \A s \in S : \E x \in D : k[x] = s, \A x \in D : g[k[x]] = f[x]
  PROVE  SumFunction(g) = SumFunction(f)
<1>1. ASSUME NEW s \in S PROVE g[s] = SumFunction([x \in {y \in D : k[y] = s} |-> f[x]])
  <2>1. PICK z \in D : k[z] = s
    OBVIOUS
  <2>2. {y \in D : k[y] = s} = {z}
    BY <2>1
  <2> DEFINE h == [x \in {z} |-> f[x]]
  <2>3. h \in [{z} -> Int] /\ h[z] = f[z]
    OBVIOUS
  <2>4. SumFunction(h) = f[z]
    <3> HIDE DEF h
    <3> QED
      BY <2>3, SumOne
  <2> QED
    BY <2>1, <2>2, <2>4
<1> QED
  BY <1>1, SumByGroup

(* A sum of numbers is a number. *)
LEMMA SumNat ==
  ASSUME NEW D, IsFiniteSet(D), NEW f \in [D -> Nat]
  PROVE  SumFunction(f) \in Nat
<1> DEFINE g == [x \in {} |-> 0]
<1>1. SumFunction(g) = 0
  BY SumEmpty
<1>2. {} \subseteq D /\ g \in [{} -> Nat] /\ \A x \in {} : g[x] <= f[x]
  OBVIOUS
<1> HIDE DEF g
<1>3. SumFunction(g) <= SumFunction(f)
  BY <1>2, SumGrows
<1>4. f \in [D -> Int]
  OBVIOUS
<1>5. SumFunction(f) \in Int
  BY <1>4, SummingOf
<1> QED
  BY <1>1, <1>3, <1>5

(* What rounding up yields. *)
LEMMA CeilIs ==
  ASSUME NEW a \in Nat, NEW r \in Nat \ {0}
  PROVE  /\ CeilDiv(a, r) \in Nat
         /\ a <= CeilDiv(a, r) * r /\ CeilDiv(a, r) * r < a + r
  BY DEF CeilDiv

(* Rounding up two parts is no less than rounding up their sum. *)
LEMMA CeilOfSum ==
  ASSUME NEW a \in Nat, NEW b \in Nat, NEW r \in Nat \ {0}
  PROVE  CeilDiv(a + b, r) <= CeilDiv(a, r) + CeilDiv(b, r)
<1> DEFINE x == CeilDiv(a, r)
           y == CeilDiv(b, r)
           z == CeilDiv(a + b, r)
<1>1. x \in Nat /\ a <= x * r
  BY CeilIs
<1>2. y \in Nat /\ b <= y * r
  BY CeilIs
<1>3. z \in Nat /\ z * r < a + b + r
  <2>1. a + b \in Nat
    OBVIOUS
  <2> QED
    BY <2>1, CeilIs
<1> HIDE DEF x, y, z
<1>4. x * r + y * r + r = (x + y + 1) * r /\ x * r \in Nat /\ y * r \in Nat /\ z * r \in Nat
  BY <1>1, <1>2, <1>3
<1>5. z * r < (x + y + 1) * r
  BY <1>1, <1>2, <1>3, <1>4
<1>6. z < x + y + 1
  BY <1>1, <1>2, <1>3, <1>5
<1> QED
  BY <1>1, <1>2, <1>3, <1>6 DEF x, y, z

LEMMA CeilOfNone == ASSUME NEW r \in Nat \ {0} PROVE CeilDiv(0, r) = 0
  BY DEF CeilDiv

(* Rounding up each part is no less than rounding up their sum. *)
LEMMA CeilOfParts ==
  ASSUME NEW D, IsFiniteSet(D), NEW f \in [D -> Nat], NEW r \in Nat \ {0},
         NEW up \in [D -> Nat], \A x \in D : up[x] = CeilDiv(f[x], r)
  PROVE  CeilDiv(SumFunction(f), r) <= SumFunction(up)
<1> DEFINE sum  == Summing(f)
           ups  == Summing(up)
           Good == {s \in SUBSET D : sum[s] \in Nat /\ CeilDiv(sum[s], r) <= ups[s]}
<1>1. f \in [D -> Int] /\ up \in [D -> Int]
  OBVIOUS
<1>2. /\ SumFunction(f) = sum[D] /\ SumFunction(up) = ups[D] /\ sum[{}] = 0 /\ ups[{}] = 0
      /\ ups \in [SUBSET D -> Int]
  BY <1>1, SummingOf, SummingIs
<1>3. ASSUME NEW s \in SUBSET D, s # {}, \A x \in s : s \ {x} \in Good
      PROVE  s \in Good
  <2>1. PICK x \in s : s \ {x} \in Good
    BY <1>3
  <2>2. sum[s] = f[x] + sum[s \ {x}] /\ ups[s] = up[x] + ups[s \ {x}]
    <3>1. sum[s] = f[x] + sum[s \ {x}]
      BY <1>1, SummingAny
    <3>2. ups[s] = up[x] + ups[s \ {x}]
      BY <1>1, SummingAny
    <3> QED
      BY <3>1, <3>2
  <2>3. sum[s \ {x}] \in Nat /\ CeilDiv(sum[s \ {x}], r) <= ups[s \ {x}] /\ ups[s \ {x}] \in Int
    BY <1>2, <2>1
  <2>4. f[x] \in Nat /\ up[x] = CeilDiv(f[x], r) /\ up[x] \in Nat /\ ups[s] \in Int
    BY <1>2
  <2> HIDE DEF sum, ups
  <2>5. CeilDiv(f[x] + sum[s \ {x}], r) <= CeilDiv(f[x], r) + CeilDiv(sum[s \ {x}], r)
    BY <2>3, <2>4, CeilOfSum
  <2>6. CeilDiv(sum[s \ {x}], r) \in Nat /\ CeilDiv(sum[s], r) \in Nat /\ sum[s] \in Nat
    <3>1. sum[s] \in Nat
      BY <2>2, <2>3, <2>4
    <3>2. CeilDiv(sum[s], r) \in Nat
      BY <3>1, CeilIs
    <3>3. CeilDiv(sum[s \ {x}], r) \in Nat
      BY <2>3, CeilIs
    <3> QED
      BY <3>1, <3>2, <3>3
  <2>7. CeilDiv(sum[s], r) <= ups[s]
    <3> HIDE DEF Good
    <3> QED
      BY <2>2, <2>3, <2>4, <2>5, <2>6
  <2> QED
    BY <2>6, <2>7
<1>4. {} \in Good
  BY <1>2, CeilOfNone
<1>5. Good \in SUBSET SUBSET D
  OBVIOUS
<1>6. D \in Good
  <2> HIDE DEF Good
  <2> QED
    BY <1>3, <1>4, <1>5, SubsetInduction
<1> QED
  BY <1>2, <1>6

(* sum says what the members of each part of D amount to. *)
SumsUp(sum, f, D) ==
  /\ sum \in [SUBSET D -> Int]
  /\ sum[{}] = 0 /\ SumFunction(f) = sum[D]
  /\ \A s \in SUBSET D : \A x \in s : sum[s] = f[x] + sum[s \ {x}]

LEMMA SummingSteps ==
  ASSUME NEW D, IsFiniteSet(D), NEW f \in [D -> Int]
  PROVE  SumsUp(Summing(f), f, D)
<1>1. ASSUME NEW s \in SUBSET D, NEW x \in s PROVE Summing(f)[s] = f[x] + Summing(f)[s \ {x}]
  BY SummingAny
<1> QED
  BY <1>1, SummingIs, SummingOf DEF SumsUp

(* A sum times a factor, and the sum of two sums. *)
LEMMA SumScaled ==
  ASSUME NEW D, IsFiniteSet(D), NEW f \in [D -> Int], NEW c \in Int,
         NEW g \in [D -> Int], \A x \in D : g[x] = f[x] * c
  PROVE  SumFunction(g) = SumFunction(f) * c
<1> DEFINE sum  == Summing(f)
           more == Summing(g)
           Good == {s \in SUBSET D : more[s] = sum[s] * c}
<1>1. SumsUp(sum, f, D)
  BY SummingSteps
<1>2. SumsUp(more, g, D)
  BY SummingSteps
<1> HIDE DEF sum, more
<1> USE DEF SumsUp
<1>3. {} \in Good /\ Good \in SUBSET SUBSET D
  BY <1>1, <1>2
<1>4. ASSUME NEW s \in SUBSET D, s # {}, \A x \in s : s \ {x} \in Good PROVE s \in Good
  <2>1. PICK x \in s : TRUE
    BY <1>4
  <2>2. more[s \ {x}] = sum[s \ {x}] * c /\ sum[s \ {x}] \in Int /\ f[x] \in Int
    BY <1>1, <1>4
  <2>3. more[s] = f[x] * c + sum[s \ {x}] * c /\ sum[s] = f[x] + sum[s \ {x}]
    BY <1>1, <1>2, <2>2
  <2>4. \A a, b \in Int : a * c + b * c = (a + b) * c
    OBVIOUS
  <2> QED
    BY <2>2, <2>3, <2>4
<1>5. D \in Good
  <2> HIDE DEF Good
  <2> QED
    BY <1>3, <1>4, SubsetInduction
<1> QED
  BY <1>1, <1>2, <1>5

LEMMA SumPlus ==
  ASSUME NEW D, IsFiniteSet(D), NEW f \in [D -> Int], NEW g \in [D -> Int],
         NEW h \in [D -> Int], \A x \in D : h[x] = f[x] + g[x]
  PROVE  SumFunction(h) = SumFunction(f) + SumFunction(g)
<1> DEFINE one  == Summing(f)
           two  == Summing(g)
           both == Summing(h)
           Good == {s \in SUBSET D : both[s] = one[s] + two[s]}
<1>1. SumsUp(one, f, D)
  BY SummingSteps
<1>2. SumsUp(two, g, D)
  BY SummingSteps
<1>3. SumsUp(both, h, D)
  BY SummingSteps
<1> HIDE DEF one, two, both
<1> USE DEF SumsUp
<1>4. {} \in Good /\ Good \in SUBSET SUBSET D
  BY <1>1, <1>2, <1>3
<1>5. ASSUME NEW s \in SUBSET D, s # {}, \A x \in s : s \ {x} \in Good PROVE s \in Good
  <2>1. PICK x \in s : TRUE
    BY <1>5
  <2>2. /\ both[s \ {x}] = one[s \ {x}] + two[s \ {x}]
        /\ one[s \ {x}] \in Int /\ two[s \ {x}] \in Int /\ f[x] \in Int /\ g[x] \in Int
    BY <1>1, <1>2, <1>5
  <2>3. both[s] = (f[x] + g[x]) + (one[s \ {x}] + two[s \ {x}])
    <3>1. both[s] = h[x] + both[s \ {x}] /\ h[x] = f[x] + g[x]
      BY <1>3
    <3> QED
      BY <2>2, <3>1
  <2>4. one[s] = f[x] + one[s \ {x}] /\ two[s] = g[x] + two[s \ {x}]
    BY <1>1, <1>2
  <2> QED
    BY <2>2, <2>3, <2>4
<1>6. D \in Good
  <2> HIDE DEF Good
  <2> QED
    BY <1>4, <1>5, SubsetInduction
<1> QED
  BY <1>1, <1>2, <1>3, <1>6

(* The sum of a constant, and of nothing but zeros. *)
LEMMA SumConstant ==
  ASSUME NEW D, IsFiniteSet(D), NEW c \in Int, NEW f \in [D -> Int], \A x \in D : f[x] = c
  PROVE  SumFunction(f) = Cardinality(D) * c
<1> DEFINE sum  == Summing(f)
           Good == {s \in SUBSET D : sum[s] = Cardinality(s) * c}
<1>1. SumsUp(sum, f, D)
  BY SummingSteps
<1> HIDE DEF sum
<1> USE DEF SumsUp
<1>2. {} \in Good /\ Good \in SUBSET SUBSET D
  <2>1. Cardinality({}) = 0
    BY FS_EmptySet
  <2> QED
    BY <1>1, <2>1
<1>3. ASSUME NEW s \in SUBSET D, s # {}, \A x \in s : s \ {x} \in Good PROVE s \in Good
  <2>1. PICK x \in s : TRUE
    BY <1>3
  <2>2. IsFiniteSet(s) /\ IsFiniteSet(s \ {x})
    BY FS_Subset
  <2>3. Cardinality(s \ {x}) \in Nat /\ Cardinality(s) = Cardinality(s \ {x}) + 1
    <3>1. Cardinality(s) \in Nat /\ Cardinality(s \ {x}) = Cardinality(s) - 1
      BY <2>2, FS_RemoveElement, FS_CardinalityType
    <3>2. Cardinality(s \ {x}) \in Nat
      BY <2>2, FS_CardinalityType
    <3> QED
      BY <3>1, <3>2
  <2>4. sum[s \ {x}] = Cardinality(s \ {x}) * c /\ sum[s] = c + sum[s \ {x}]
    BY <1>1, <1>3
  <2>5. \A a \in Int : c + a * c = (a + 1) * c
    OBVIOUS
  <2> QED
    BY <2>3, <2>4, <2>5
<1>4. D \in Good
  <2> HIDE DEF Good
  <2> QED
    BY <1>2, <1>3, SubsetInduction
<1> QED
  BY <1>1, <1>4

LEMMA SumSplits ==
  ASSUME NEW D, IsFiniteSet(D), NEW f \in [D -> Int]
  PROVE  \A A \in SUBSET D : Summing(f)[D] = Summing(f)[A] + Summing(f)[D \ A]
<1>1. \A X, Y \in SUBSET D : X \cap Y = {} => Summing(f)[X \cup Y] = Summing(f)[X] + Summing(f)[Y]
  BY SumOfParts
<1> SUFFICES ASSUME NEW A \in SUBSET D
             PROVE  Summing(f)[D] = Summing(f)[A] + Summing(f)[D \ A]
  OBVIOUS
<1>2. A \cap (D \ A) = {} /\ A \cup (D \ A) = D /\ D \ A \in SUBSET D
  OBVIOUS
<1> QED
  BY <1>1, <1>2

(* Members that add nothing may be left out. *)
LEMMA SumOfNonzero ==
  ASSUME NEW D, IsFiniteSet(D), NEW f \in [D -> Int], NEW A \in SUBSET D,
         \A x \in D \ A : f[x] = 0, NEW g \in [A -> Int], \A x \in A : g[x] = f[x]
  PROVE  SumFunction(g) = SumFunction(f)
<1> DEFINE B == D \ A
           h == [x \in B |-> f[x]]
<1>1. IsFiniteSet(A) /\ IsFiniteSet(B) /\ A \cap B = {} /\ A \cup B = D /\ B \in SUBSET D
  BY FS_Subset
<1>2. h \in [B -> Int] /\ (\A x \in B : h[x] = f[x]) /\ (\A x \in B : h[x] = 0)
  OBVIOUS
<1> HIDE DEF B, h
<1>3. SumFunction(h) = 0
  <2>1. Cardinality(B) \in Int
    BY <1>1, FS_CardinalityType
  <2>2. SumFunction(h) = Cardinality(B) * 0
    BY <1>1, <1>2, SumConstant
  <2> QED
    BY <2>1, <2>2
<1>4. SumFunction(h) = Summing(f)[B]
  BY <1>1, <1>2, SumPart
<1>5. SumFunction(g) = Summing(f)[A]
  BY SumPart
<1>6. Summing(f)[D] = Summing(f)[A] + Summing(f)[B]
  BY SumSplits DEF B
<1>7. SumFunction(f) = Summing(f)[D]
  BY SummingSteps DEF SumsUp
<1>8. SumFunction(g) \in Int
  BY <1>1, SummingOf
<1> QED
  BY <1>3, <1>4, <1>5, <1>6, <1>7, <1>8

(* Rows first or columns first. *)
LEMMA SumSwap ==
  ASSUME NEW D, IsFiniteSet(D), NEW S, IsFiniteSet(S), NEW a \in [D -> [S -> Int]],
         NEW rows \in [D -> Int], \A x \in D : rows[x] = SumFunction(a[x]),
         NEW cols \in [S -> Int], \A y \in S : cols[y] = SumFunction([x \in D |-> a[x][y]])
  PROVE  SumFunction(rows) = SumFunction(cols)
<1> DEFINE col(y)  == [x \in D |-> a[x][y]]
           sum     == Summing(rows)
           part(T) == [y \in S |-> Summing(col(y))[T]]
           Good    == {T \in SUBSET D : sum[T] = SumFunction(part(T))}
<1>1. SumsUp(sum, rows, D)
  BY SummingSteps
<1>2. ASSUME NEW y \in S
      PROVE  /\ Summing(col(y)) \in [SUBSET D -> Int]
             /\ Summing(col(y))[{}] = 0 /\ cols[y] = Summing(col(y))[D]
             /\ \A T \in SUBSET D : \A x \in T :
                  Summing(col(y))[T] = a[x][y] + Summing(col(y))[T \ {x}]
  <2>1. col(y) \in [D -> Int] /\ (\A x \in D : col(y)[x] = a[x][y]) /\ cols[y] = SumFunction(col(y))
    OBVIOUS
  <2> HIDE DEF col
  <2>2. SumsUp(Summing(col(y)), col(y), D)
    BY <2>1, SummingSteps
  <2> QED
    BY <2>1, <2>2 DEF SumsUp
<1> HIDE DEF sum, col
<1> USE DEF SumsUp
<1>3. \A T \in SUBSET D : part(T) \in [S -> Int]
  BY <1>2
<1>4. {} \in Good /\ Good \in SUBSET SUBSET D
  <2>1. \A y \in S : part({})[y] = 0
    BY <1>2
  <2>2. part({}) \in [S -> Int] /\ Cardinality(S) \in Int
    BY <1>3, FS_CardinalityType
  <2>3. SumFunction(part({})) = Cardinality(S) * 0
    <3> HIDE DEF part
    <3> QED
      BY <2>1, <2>2, SumConstant
  <2> QED
    BY <1>1, <2>2, <2>3
<1>5. ASSUME NEW T \in SUBSET D, T # {}, \A x \in T : T \ {x} \in Good PROVE T \in Good
  <2>1. PICK x \in T : TRUE
    BY <1>5
  <2>2. sum[T \ {x}] = SumFunction(part(T \ {x})) /\ T \ {x} \in SUBSET D
    BY <1>5
  <2>3. /\ part(T) \in [S -> Int] /\ part(T \ {x}) \in [S -> Int] /\ a[x] \in [S -> Int]
        /\ \A y \in S : part(T)[y] = a[x][y] + part(T \ {x})[y]
    BY <1>2, <1>3, <2>2
  <2>4. SumFunction(part(T)) = SumFunction(a[x]) + SumFunction(part(T \ {x}))
    <3> DEFINE p == part(T)
               q == part(T \ {x})
               r == a[x]
    <3>1. /\ p \in [S -> Int] /\ q \in [S -> Int] /\ r \in [S -> Int]
          /\ \A y \in S : p[y] = r[y] + q[y]
      BY <2>3
    <3> HIDE DEF p, q, r
    <3>2. SumFunction(p) = SumFunction(r) + SumFunction(q)
      BY <3>1, SumPlus
    <3> QED
      BY <3>2 DEF p, q, r
  <2> QED
    BY <1>1, <2>2, <2>4
<1>6. D \in Good
  <2> HIDE DEF Good
  <2> QED
    BY <1>4, <1>5, SubsetInduction
<1>7. part(D) = cols
  BY <1>2
<1> QED
  BY <1>1, <1>6, <1>7

LEMMA TimesGrows ==
  ASSUME NEW a \in Nat, NEW b \in Nat, NEW c \in Nat, a <= b
  PROVE  a * c <= b * c
<1>1. b = a + (b - a) /\ b - a \in Nat
  OBVIOUS
<1>2. b * c = a * c + (b - a) * c /\ (b - a) * c \in Nat /\ a * c \in Nat
  BY <1>1
<1> QED
  BY <1>2

LEMMA CeilGrows ==
  ASSUME NEW a \in Nat, NEW b \in Nat, NEW r \in Nat \ {0}, a <= b
  PROVE  CeilDiv(a, r) <= CeilDiv(b, r)
<1>1. CeilDiv(a + (b - a), r) = CeilDiv(b, r)
  <2>1. a + (b - a) = b
    OBVIOUS
  <2> QED
    BY <2>1
<1> DEFINE x == CeilDiv(a, r)
           y == CeilDiv(b, r)
<1>2. x \in Nat /\ x * r < a + r
  BY CeilIs
<1>3. y \in Nat /\ b <= y * r
  BY CeilIs
<1> HIDE DEF x, y
<1>4. x * r < (y + 1) * r
  <2>1. (y + 1) * r = y * r + r /\ y * r \in Nat /\ x * r \in Nat
    BY <1>2, <1>3
  <2> QED
    BY <1>2, <1>3, <2>1
<1>5. ~ (y + 1 <= x)
  <2>1. ASSUME y + 1 <= x PROVE FALSE
    <3>1. (y + 1) * r <= x * r
      BY <1>2, <1>3, <2>1, TimesGrows
    <3>2. (y + 1) * r \in Nat /\ x * r \in Nat
      BY <1>2, <1>3
    <3> QED
      BY <1>4, <3>1, <3>2
  <2> QED
    BY <2>1
<1> QED
  BY <1>2, <1>3, <1>5 DEF x, y

(* What covers a whole covers it after a factor and rounding up. *)
LEMMA ScaledParts ==
  ASSUME NEW D, IsFiniteSet(D), NEW parts \in [D -> Nat], NEW whole \in Nat,
         whole <= SumFunction(parts), NEW c \in Nat, NEW r \in Nat \ {0},
         NEW got \in [D -> Nat], \A x \in D : CeilDiv(parts[x] * c, r) <= got[x]
  PROVE  CeilDiv(whole * c, r) <= SumFunction(got)
<1> DEFINE scaled == [x \in D |-> parts[x] * c]
           up     == [x \in D |-> CeilDiv(scaled[x], r)]
<1>1. scaled \in [D -> Nat] /\ \A x \in D : scaled[x] = parts[x] * c
  OBVIOUS
<1>2. up \in [D -> Nat] /\ \A x \in D : up[x] = CeilDiv(scaled[x], r)
  <2> HIDE DEF scaled
  <2>1. \A x \in D : CeilDiv(scaled[x], r) \in Nat
    BY <1>1, CeilIs
  <2> QED
    BY <2>1
<1>3. \A x \in D : up[x] <= got[x]
  BY <1>1, <1>2
<1> HIDE DEF scaled, up
<1>4. SumFunction(parts) \in Nat /\ SumFunction(scaled) = SumFunction(parts) * c
  <2>1. parts \in [D -> Int] /\ scaled \in [D -> Int]
    BY <1>1
  <2>2. SumFunction(scaled) = SumFunction(parts) * c
    BY <1>1, <2>1, SumScaled
  <2> QED
    BY <2>2, SumNat
<1>5. whole * c <= SumFunction(scaled) /\ whole * c \in Nat /\ SumFunction(scaled) \in Nat
  BY <1>4, TimesGrows
<1>6. CeilDiv(whole * c, r) <= CeilDiv(SumFunction(scaled), r)
  BY <1>5, CeilGrows
<1>7. CeilDiv(SumFunction(scaled), r) <= SumFunction(up)
  BY <1>1, <1>2, CeilOfParts
<1>8. SumFunction(up) <= SumFunction(got)
  BY <1>2, <1>3, SumGrows
<1>9. /\ CeilDiv(whole * c, r) \in Nat /\ CeilDiv(SumFunction(scaled), r) \in Nat
      /\ SumFunction(up) \in Nat /\ SumFunction(got) \in Nat
  <2>1. CeilDiv(whole * c, r) \in Nat
    BY <1>5, CeilIs
  <2>2. CeilDiv(SumFunction(scaled), r) \in Nat
    BY <1>5, CeilIs
  <2>3. SumFunction(up) \in Nat
    BY <1>2, SumNat
  <2>4. SumFunction(got) \in Nat
    BY SumNat
  <2> QED
    BY <2>1, <2>2, <2>3, <2>4
<1> QED
  BY <1>6, <1>7, <1>8, <1>9

(* Rounding up a whole, and its parts by groups. *)
LEMMA CeilByGroup ==
  ASSUME NEW D, IsFiniteSet(D), NEW f \in [D -> Nat], NEW S, IsFiniteSet(S), NEW k \in [D -> S],
         NEW r \in Nat \ {0}, NEW up \in [S -> Nat],
         \A s \in S : CeilDiv(SumFunction([x \in {y \in D : k[y] = s} |-> f[x]]), r) <= up[s]
  PROVE  CeilDiv(SumFunction(f), r) <= SumFunction(up)
<1> DEFINE g == [s \in S |-> SumFunction([x \in {y \in D : k[y] = s} |-> f[x]])]
<1>1. g \in [S -> Nat]
  <2>1. ASSUME NEW s \in S PROVE SumFunction([x \in {y \in D : k[y] = s} |-> f[x]]) \in Nat
    <3> DEFINE A == {y \in D : k[y] = s}
               h == [x \in A |-> f[x]]
    <3>1. IsFiniteSet(A) /\ h \in [A -> Nat]
      BY FS_Subset
    <3> HIDE DEF A, h
    <3>2. SumFunction(h) \in Nat
      BY <3>1, SumNat
    <3> QED
      BY <3>2 DEF A, h
  <2> QED
    BY <2>1
<1>2. \A s \in S : g[s] = SumFunction([x \in {y \in D : k[y] = s} |-> f[x]])
  OBVIOUS
<1>3. \A s \in S : CeilDiv(g[s] * 1, r) <= up[s]
  <2>1. \A s \in S : g[s] * 1 = g[s]
    <3> HIDE DEF g
    <3> QED
      BY <1>1
  <2> QED
    BY <2>1
<1> HIDE DEF g
<1>4. f \in [D -> Int] /\ g \in [S -> Int]
  BY <1>1
<1>5. SumFunction(g) = SumFunction(f)
  BY <1>2, <1>4, SumByGroup
<1>6. SumFunction(f) \in Nat
  BY SumNat
<1>7. CeilDiv(SumFunction(f) * 1, r) <= SumFunction(up)
  <2>1. SumFunction(f) <= SumFunction(g) /\ 1 \in Nat
    BY <1>5, <1>6
  <2> QED
    BY <1>1, <1>3, <1>6, <2>1, ScaledParts
<1> QED
  BY <1>6, <1>7
=============================================================================
