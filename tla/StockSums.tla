------------------------------ MODULE StockSums ------------------------------
(***************************************************************************)
(* Facts about the sums that Stock computes: of a function over a finite    *)
(* set (SumOver), of the quantities of some moves (Total), and of a         *)
(* sequence.  All three are folds, functions defined by recursion on a set  *)
(* that choose an element at each step; what such a function computes       *)
(* needs an induction.  The induction theorems of the library take a        *)
(* predicate as their parameter; here each induction is the choice of a     *)
(* least counterexample instead, a fact about sets.                         *)
(***************************************************************************)
EXTENDS Stock, FiniteSetTheorems, WellFoundedInduction, TLAPS

\* A nonempty set of natural numbers has a least element.
LEMMA LeastNatural ==
  ASSUME NEW T, T \subseteq Nat, T # {}
  PROVE  \E n \in T : \A m \in T : n <= m
<1> DEFINE R == OpToRel(<, Nat)
<1>1. IsWellFoundedOn(R, Nat)
  BY NatLessThanWellFounded
<1>2. \A x, y \in Nat : y < x => <<y, x>> \in R
  BY DEF OpToRel
<1> HIDE DEF R
<1>3. PICK x \in T : \A y \in T : ~(<<y, x>> \in R)
  BY <1>1, WFMin
<1>4. ASSUME NEW y \in T PROVE x <= y
  <2>1. x \in Nat /\ y \in Nat
    OBVIOUS
  <2>2. ~(y < x)
    BY <1>2, <1>3, <2>1
  <2> QED
    BY <2>1, <2>2
<1> QED
  BY <1>4

\* A nonempty family of subsets of a finite set has a minimal member.
LEMMA MinimalSet ==
  ASSUME NEW S, IsFiniteSet(S), NEW F, F \subseteq SUBSET S, F # {}
  PROVE  \E T \in F : \A U \in SUBSET T : U # T => U \notin F
<1> DEFINE R == StrictSubsetOrdering(S)
<1>1. IsWellFoundedOn(R, SUBSET S)
  BY FS_StrictSubsetOrderingWellFounded, FS_FiniteSubsetsOfFinite
<1>2. \A T, U \in SUBSET S : U \subseteq T /\ U # T => <<U, T>> \in R
  BY DEF StrictSubsetOrdering
<1> HIDE DEF R
<1>3. PICK T \in F : \A U \in F : ~(<<U, T>> \in R)
  BY <1>1, WFMin
<1>4. \A U \in SUBSET T : U # T => U \notin F
  BY <1>2, <1>3
<1> QED
  BY <1>4

-----------------------------------------------------------------------------
(* The recursion of the fold. *)

Choice(s) == CHOOSE x \in s : TRUE

\* g is defined, on the members of D, by the recursion that sums f.
SumsOn(g, f, D) ==
    g = [s \in D |-> IF s = {} THEN 0 ELSE f[Choice(s)] + g[s \ {Choice(s)}]]

\* g sums f over every subset of S.
SumsUpTo(g, f, S) == SumsOn(g, f, SUBSET S)

LEMMA ChoiceIsMember ==
  ASSUME NEW s, s # {}
  PROVE  Choice(s) \in s
BY DEF Choice

\* There is such a function on the subsets of a finite set: it is extended from
\* the sets of at most n members to those of one more.
LEMMA SumExists ==
  ASSUME NEW S, IsFiniteSet(S), NEW f, \A x \in S : f[x] \in Int
  PROVE  \E g : SumsUpTo(g, f, S)
<1> DEFINE Layer(n) == {s \in SUBSET S : Cardinality(s) <= n}
<1> DEFINE Bad == {n \in Nat : ~ \E g : SumsOn(g, f, Layer(n))}
<1>1. Bad = {}
  <2> SUFFICES ASSUME Bad # {} PROVE FALSE
    OBVIOUS
  <2>1. PICK n \in Bad : \A m \in Bad : n <= m
    BY LeastNatural
  <2>2. CASE n = 0
    <3> DEFINE g == [s \in Layer(0) |-> 0]
    <3>1. \A s \in Layer(0) : s = {}
      BY FS_Subset, FS_EmptySet, FS_CardinalityType
    <3>2. SumsOn(g, f, Layer(0))
      BY <3>1 DEF SumsOn
    <3> QED
      BY <2>1, <2>2, <3>2
  <2>3. CASE n # 0
    <3>1. n - 1 \in Nat /\ n - 1 \notin Bad
      <4>1. n \in Nat
        OBVIOUS
      <4> HIDE DEF Bad
      <4> QED
        BY <2>1, <2>3, <4>1
    <3>2. PICK g : SumsOn(g, f, Layer(n - 1))
      BY <3>1
    <3> DEFINE h == [s \in Layer(n) |->
                       IF s = {} THEN 0 ELSE f[Choice(s)] + g[s \ {Choice(s)}]]
    <3>3. \A s \in Layer(n) : s # {} => s \ {Choice(s)} \in Layer(n - 1)
      BY <2>1, ChoiceIsMember, FS_Subset, FS_RemoveElement, FS_CardinalityType
    <3>4. \A s \in Layer(n - 1) : s \in Layer(n) /\ h[s] = g[s]
      <4> SUFFICES ASSUME NEW s \in Layer(n - 1) PROVE s \in Layer(n) /\ h[s] = g[s]
        OBVIOUS
      <4>1. s \in Layer(n)
        BY <2>1, FS_Subset, FS_CardinalityType
      <4>2. g[s] = IF s = {} THEN 0 ELSE f[Choice(s)] + g[s \ {Choice(s)}]
        BY <3>2 DEF SumsOn
      <4> QED
        BY <4>1, <4>2
    <3>5. SumsOn(h, f, Layer(n))
      BY <3>3, <3>4 DEF SumsOn
    <3> QED
      BY <2>1, <3>5
  <2> QED
    BY <2>2, <2>3
<1>2. Cardinality(S) \in Nat
  BY FS_CardinalityType
<1>3. Layer(Cardinality(S)) = SUBSET S
  BY FS_Subset
<1> QED
  BY <1>1, <1>2, <1>3 DEF SumsUpTo

\* And it is the same function, whichever larger set it is defined on.
LEMMA SumUnique ==
  ASSUME NEW S, IsFiniteSet(S), NEW T \in SUBSET S, NEW f,
         NEW g, SumsUpTo(g, f, S), NEW h, SumsUpTo(h, f, T)
  PROVE  g[T] = h[T]
<1> DEFINE F == {s \in SUBSET T : g[s] # h[s]}
<1> SUFFICES ASSUME F # {} PROVE FALSE
  OBVIOUS
<1>1. PICK s \in F : \A u \in SUBSET s : u # s => u \notin F
  <2>1. IsFiniteSet(T) /\ F \subseteq SUBSET T
    BY FS_Subset
  <2> HIDE DEF F
  <2> QED
    BY <2>1, MinimalSet
<1>2. s \in SUBSET S /\ s \in SUBSET T
  OBVIOUS
<1>3. g[s] = IF s = {} THEN 0 ELSE f[Choice(s)] + g[s \ {Choice(s)}]
  BY <1>2 DEF SumsUpTo, SumsOn
<1>4. h[s] = IF s = {} THEN 0 ELSE f[Choice(s)] + h[s \ {Choice(s)}]
  BY <1>2 DEF SumsUpTo, SumsOn
<1>5. s # {} => s \ {Choice(s)} \in SUBSET T /\ s \ {Choice(s)} \notin F
  BY <1>1, <1>2, ChoiceIsMember
<1> QED
  BY <1>3, <1>4, <1>5


\* The recursion a sum over S is computed by.
Recursion(f, S) == CHOOSE g : SumsUpTo(g, f, S)

LEMMA SumOverIsRecursion ==
  ASSUME NEW f, NEW S
  PROVE  SumOver(f, S) = Recursion(f, S)[S]
BY DEF SumOver, MapThenSumSet, MapThenFoldSet, Recursion, SumsUpTo, SumsOn, Choice

LEMMA RecursionSums ==
  ASSUME NEW S, IsFiniteSet(S), NEW f, \A x \in S : f[x] \in Int
  PROVE  SumsUpTo(Recursion(f, S), f, S)
BY SumExists DEF Recursion

-----------------------------------------------------------------------------
(* The laws of sums. *)

LEMMA SumEmpty ==
  ASSUME NEW f
  PROVE  SumOver(f, {}) = 0
<1>1. SumsUpTo(Recursion(f, {}), f, {})
  BY RecursionSums, FS_EmptySet
<1> QED
  BY <1>1, SumOverIsRecursion DEF SumsUpTo, SumsOn

LEMMA SumChoice ==
  ASSUME NEW S, IsFiniteSet(S), S # {}, NEW f, \A x \in S : f[x] \in Int
  PROVE  SumOver(f, S) = f[Choice(S)] + SumOver(f, S \ {Choice(S)})
<1> DEFINE c == Choice(S)
           g == Recursion(f, S)
           h == Recursion(f, S \ {c})
<1>1. IsFiniteSet(S \ {c})
  BY FS_RemoveElement
<1>2. SumsUpTo(g, f, S) /\ SumsUpTo(h, f, S \ {c})
  BY <1>1, RecursionSums
<1>3. g[S] = f[c] + g[S \ {c}]
  BY <1>2 DEF SumsUpTo, SumsOn
<1>4. g[S \ {c}] = h[S \ {c}]
  <2> DEFINE T == S \ {c}
  <2>1. T \in SUBSET S
    OBVIOUS
  <2>2. SumsUpTo(g, f, S) /\ SumsUpTo(h, f, T)
    BY <1>2
  <2> HIDE DEF g, h, T
  <2>3. g[T] = h[T]
    BY <2>1, <2>2, SumUnique
  <2> QED
    BY <2>3 DEF T
<1> QED
  BY <1>3, <1>4, SumOverIsRecursion

LEMMA SumInt ==
  ASSUME NEW S, IsFiniteSet(S), NEW f, \A x \in S : f[x] \in Int
  PROVE  SumOver(f, S) \in Int
<1> DEFINE F == {s \in SUBSET S : SumOver(f, s) \notin Int}
<1> SUFFICES ASSUME F # {} PROVE FALSE
  OBVIOUS
<1>1. PICK s \in F : \A u \in SUBSET s : u # s => u \notin F
  <2> HIDE DEF F
  <2>1. F \subseteq SUBSET S
    BY DEF F
  <2> QED
    BY <2>1, MinimalSet
<1>2. s \in SUBSET S /\ SumOver(f, s) \notin Int
  OBVIOUS
<1>3. s # {}
  BY <1>2, SumEmpty
<1> DEFINE c == Choice(s)
<1>4. c \in s
  BY <1>3, ChoiceIsMember
<1>5. SumOver(f, s) = f[c] + SumOver(f, s \ {c})
  BY <1>2, <1>3, SumChoice, FS_Subset
<1>6. SumOver(f, s \ {c}) \in Int
  <2> s \ {c} \in SUBSET s /\ s \ {c} # s /\ s \ {c} \in SUBSET S
    BY <1>2, <1>4
  <2> QED
    BY <1>1
<1> QED
  BY <1>2, <1>4, <1>5, <1>6

\* Any member may be taken apart.
LEMMA SumMember ==
  ASSUME NEW S, IsFiniteSet(S), NEW f, \A x \in S : f[x] \in Int,
         NEW y \in S
  PROVE  SumOver(f, S) = f[y] + SumOver(f, S \ {y})
<1> DEFINE Fails(s, x) == SumOver(f, s) # f[x] + SumOver(f, s \ {x})
           F == {s \in SUBSET S : \E x \in s : Fails(s, x)}
<1> SUFFICES ASSUME F # {} PROVE FALSE
  OBVIOUS
<1>1. PICK s \in F : \A u \in SUBSET s : u # s => u \notin F
  <2>1. F \subseteq SUBSET S
    OBVIOUS
  <2> HIDE DEF F
  <2> QED
    BY <2>1, MinimalSet
<1>2. s \in SUBSET S
  OBVIOUS
<1>3. PICK x \in s : Fails(s, x)
  OBVIOUS
<1> DEFINE c == Choice(s)
<1>4. c \in s
  BY <1>3, ChoiceIsMember
<1>5. SumOver(f, s) = f[c] + SumOver(f, s \ {c})
  BY <1>2, <1>3, SumChoice, FS_Subset
<1>6. c # x
  BY <1>3, <1>5
<1>7. \A z \in s : \A w \in s \ {z} : ~Fails(s \ {z}, w)
  <2> TAKE z \in s
  <2> TAKE w \in s \ {z}
  <2> s \ {z} \in SUBSET s /\ s \ {z} # s /\ s \ {z} \in SUBSET S
    BY <1>2
  <2>1. s \ {z} \notin F
    BY <1>1
  <2> HIDE DEF Fails
  <2> QED
    BY <2>1
<1>8. SumOver(f, s \ {c}) = f[x] + SumOver(f, (s \ {c}) \ {x})
  BY <1>4, <1>6, <1>7
<1>9. SumOver(f, s \ {x}) = f[c] + SumOver(f, (s \ {x}) \ {c})
  BY <1>4, <1>6, <1>7
<1>10. (s \ {x}) \ {c} = (s \ {c}) \ {x}
  OBVIOUS
<1>11. SumOver(f, (s \ {c}) \ {x}) \in Int /\ f[c] \in Int /\ f[x] \in Int
  <2> (s \ {c}) \ {x} \in SUBSET S
    BY <1>2
  <2> QED
    BY <1>2, <1>4, SumInt, FS_Subset
<1>12. SumOver(f, s) = f[x] + SumOver(f, s \ {x})
  <2> DEFINE rest == SumOver(f, (s \ {c}) \ {x})
  <2>1. SumOver(f, s) = f[c] + (f[x] + rest) /\ SumOver(f, s \ {x}) = f[c] + rest
    BY <1>5, <1>8, <1>9, <1>10
  <2>2. rest \in Int
    BY <1>11
  <2> HIDE DEF rest
  <2> QED
    BY <1>11, <2>1, <2>2
<1> QED
  BY <1>3, <1>12


LEMMA SumAdd ==
  ASSUME NEW S, IsFiniteSet(S), NEW y, y \notin S,
         NEW f, \A x \in S \cup {y} : f[x] \in Int
  PROVE  SumOver(f, S \cup {y}) = SumOver(f, S) + f[y]
<1>1. IsFiniteSet(S \cup {y})
  BY FS_AddElement
<1>2. SumOver(f, S \cup {y}) = f[y] + SumOver(f, (S \cup {y}) \ {y})
  BY <1>1, SumMember
<1>3. (S \cup {y}) \ {y} = S
  OBVIOUS
<1>4. SumOver(f, S) \in Int /\ f[y] \in Int
  BY SumInt
<1>5. SumOver(f, (S \cup {y}) \ {y}) = SumOver(f, S)
  BY <1>3
<1> QED
  BY <1>2, <1>4, <1>5

\* Only the values on the set count.
LEMMA SumCongruent ==
  ASSUME NEW S, IsFiniteSet(S), NEW f, NEW g,
         \A x \in S : f[x] \in Int /\ f[x] = g[x]
  PROVE  SumOver(f, S) = SumOver(g, S)
<1> DEFINE F == {s \in SUBSET S : SumOver(f, s) # SumOver(g, s)}
<1> SUFFICES ASSUME F # {} PROVE FALSE
  OBVIOUS
<1>1. PICK s \in F : \A u \in SUBSET s : u # s => u \notin F
  <2>1. F \subseteq SUBSET S
    OBVIOUS
  <2> HIDE DEF F
  <2> QED
    BY <2>1, MinimalSet
<1>2. s \in SUBSET S /\ SumOver(f, s) # SumOver(g, s)
  OBVIOUS
<1>3. IsFiniteSet(s)
  BY <1>2, FS_Subset
<1>4. PICK y \in s : TRUE
  BY <1>2, SumEmpty
<1>5. SumOver(f, s) = f[y] + SumOver(f, s \ {y})
  BY <1>2, <1>3, SumMember
<1>6. SumOver(g, s) = g[y] + SumOver(g, s \ {y})
  BY <1>2, <1>3, SumMember
<1>7. SumOver(f, s \ {y}) = SumOver(g, s \ {y})
  <2> s \ {y} \in SUBSET s /\ s \ {y} # s /\ s \ {y} \in SUBSET S
    BY <1>2
  <2> QED
    BY <1>1
<1> QED
  BY <1>2, <1>5, <1>6, <1>7

LEMMA SumUnion ==
  ASSUME NEW S, IsFiniteSet(S), NEW T, IsFiniteSet(T), S \cap T = {},
         NEW f, \A x \in S \cup T : f[x] \in Int
  PROVE  SumOver(f, S \cup T) = SumOver(f, S) + SumOver(f, T)
<1> DEFINE Fails(s) == SumOver(f, S \cup s) # SumOver(f, S) + SumOver(f, s)
           F == {s \in SUBSET T : Fails(s)}
<1> SUFFICES ASSUME F # {} PROVE FALSE
  OBVIOUS
<1>1. PICK s \in F : \A u \in SUBSET s : u # s => u \notin F
  <2>1. F \subseteq SUBSET T
    OBVIOUS
  <2> HIDE DEF F
  <2> QED
    BY <2>1, MinimalSet
<1>2. s \in SUBSET T /\ Fails(s)
  OBVIOUS
<1>3. IsFiniteSet(s) /\ SumOver(f, S) \in Int
  BY <1>2, FS_Subset, SumInt
<1>4. s # {}
  <2>1. S \cup {} = S
    OBVIOUS
  <2> QED
    BY <1>2, <1>3, <2>1, SumEmpty
<1>5. PICK y \in s : TRUE
  BY <1>4
<1> DEFINE t == s \ {y}
<1>6. /\ t \in SUBSET s /\ t # s /\ t \in SUBSET T /\ y \notin S \cup t
      /\ s = t \cup {y} /\ S \cup s = (S \cup t) \cup {y}
      /\ y \in T
  BY <1>2, <1>5
<1>7. IsFiniteSet(t) /\ IsFiniteSet(S \cup t)
  BY <1>3, FS_RemoveElement, FS_Union
<1>8. ~Fails(t)
  <2>1. t \notin F
    BY <1>1, <1>6
  <2> HIDE DEF Fails, t
  <2> QED
    BY <1>6, <2>1
<1> HIDE DEF t, F
<1>9. SumOver(f, (S \cup t) \cup {y}) = SumOver(f, S \cup t) + f[y]
  BY <1>6, <1>7, SumAdd
<1>10. SumOver(f, t \cup {y}) = SumOver(f, t) + f[y]
  <2> y \notin t /\ \A x \in t \cup {y} : f[x] \in Int
    BY <1>6
  <2> QED
    BY <1>7, SumAdd
<1>11. SumOver(f, t) \in Int /\ SumOver(f, S \cup t) \in Int /\ f[y] \in Int
  BY <1>6, <1>7, SumInt
<1>12. SumOver(f, S \cup s) = SumOver(f, S \cup t) + f[y]
  BY <1>6, <1>9
<1>13. SumOver(f, s) = SumOver(f, t) + f[y]
  BY <1>6, <1>10
<1> QED
  BY <1>2, <1>3, <1>8, <1>11, <1>12, <1>13

LEMMA SumZero ==
  ASSUME NEW S, IsFiniteSet(S), NEW f, \A x \in S : f[x] = 0
  PROVE  SumOver(f, S) = 0
<1> DEFINE F == {s \in SUBSET S : SumOver(f, s) # 0}
<1> SUFFICES ASSUME F # {} PROVE FALSE
  OBVIOUS
<1>1. PICK s \in F : \A u \in SUBSET s : u # s => u \notin F
  <2>1. F \subseteq SUBSET S
    OBVIOUS
  <2> HIDE DEF F
  <2> QED
    BY <2>1, MinimalSet
<1>2. s \in SUBSET S /\ SumOver(f, s) # 0
  OBVIOUS
<1>3. IsFiniteSet(s)
  BY <1>2, FS_Subset
<1>4. PICK y \in s : TRUE
  BY <1>2, SumEmpty
<1>5. SumOver(f, s) = f[y] + SumOver(f, s \ {y})
  BY <1>2, <1>3, SumMember
<1>6. SumOver(f, s \ {y}) = 0
  <2> s \ {y} \in SUBSET s /\ s \ {y} # s /\ s \ {y} \in SUBSET S
    BY <1>2
  <2> QED
    BY <1>1
<1> QED
  BY <1>2, <1>5, <1>6

\* If all but one are zero, that one is the sum.
LEMMA SumAlone ==
  ASSUME NEW S, IsFiniteSet(S), NEW y \in S, NEW f, f[y] \in Int,
         \A x \in S \ {y} : f[x] = 0
  PROVE  SumOver(f, S) = f[y]
<1>1. SumOver(f, S) = f[y] + SumOver(f, S \ {y})
  BY SumMember
<1>2. SumOver(f, S \ {y}) = 0
  BY SumZero, FS_RemoveElement
<1> QED
  BY <1>1, <1>2

\* A change of one value changes the sum by as much.
LEMMA SumChange ==
  ASSUME NEW S, IsFiniteSet(S), NEW y \in S, NEW f, NEW g,
         \A x \in S : f[x] \in Int, \A x \in S \ {y} : g[x] = f[x],
         g[y] \in Int
  PROVE  SumOver(g, S) = SumOver(f, S) + (g[y] - f[y])
<1>1. \A x \in S : g[x] \in Int
  OBVIOUS
<1>2. SumOver(g, S) = g[y] + SumOver(g, S \ {y})
  BY <1>1, SumMember
<1>3. SumOver(f, S) = f[y] + SumOver(f, S \ {y})
  BY SumMember
<1>4. SumOver(g, S \ {y}) = SumOver(f, S \ {y})
  BY SumCongruent, FS_RemoveElement
<1>5. SumOver(f, S \ {y}) \in Int
  BY SumInt, FS_RemoveElement
<1> QED
  BY <1>2, <1>3, <1>4, <1>5

\* A renumbering keeps the sum.
LEMMA SumRenamed ==
  ASSUME NEW S, IsFiniteSet(S), NEW b,
         \A x, y \in S : b[x] = b[y] => x = y,
         NEW f, \A x \in S : f[x] \in Int,
         NEW g, \A x \in S : g[b[x]] = f[x]
  PROVE  SumOver(g, {b[x] : x \in S}) = SumOver(f, S)
<1> DEFINE Image(s) == {b[x] : x \in s}
           Fails(s) == SumOver(g, Image(s)) # SumOver(f, s)
           F == {s \in SUBSET S : Fails(s)}
<1> SUFFICES ASSUME F # {} PROVE FALSE
  OBVIOUS
<1>1. PICK s \in F : \A u \in SUBSET s : u # s => u \notin F
  <2>1. F \subseteq SUBSET S
    OBVIOUS
  <2> HIDE DEF F
  <2> QED
    BY <2>1, MinimalSet
<1>2. s \in SUBSET S /\ Fails(s)
  OBVIOUS
<1>3. PICK y \in s : TRUE
  <2>1. Image({}) = {}
    OBVIOUS
  <2> HIDE DEF Image
  <2> QED
    BY <1>2, <2>1, SumEmpty
<1> DEFINE t == s \ {y}
<1>4. /\ t \in SUBSET s /\ t # s /\ t \in SUBSET S /\ y \notin t
      /\ s = t \cup {y} /\ y \in S
  BY <1>2, <1>3
<1>5. Image(s) = Image(t) \cup {b[y]} /\ b[y] \notin Image(t)
  BY <1>4
<1>6. IsFiniteSet(t) /\ IsFiniteSet(Image(t))
  <2>1. IsFiniteSet(t)
    BY <1>4, FS_Subset
  <2> DEFINE c == [x \in t |-> b[x]]
  <2>2. c \in Surjection(t, Image(t))
    BY DEF Surjection
  <2> HIDE DEF c, t, Image
  <2> QED
    BY <2>1, <2>2, FS_Surjection
<1>7. ~Fails(t)
  <2>1. t \notin F
    BY <1>1, <1>4
  <2> HIDE DEF Fails, t
  <2> QED
    BY <1>4, <2>1
<1>8. \A z \in Image(t) \cup {b[y]} : g[z] \in Int
  BY <1>4
<1> HIDE DEF t, F, Image
<1>9. SumOver(g, Image(t) \cup {b[y]}) = SumOver(g, Image(t)) + g[b[y]]
  <2> DEFINE z == b[y]
  <2> HIDE DEF z
  <2>1. z \notin Image(t) /\ \A x \in Image(t) \cup {z} : g[x] \in Int
    BY <1>5, <1>8 DEF z
  <2>2. SumOver(g, Image(t) \cup {z}) = SumOver(g, Image(t)) + g[z]
    BY <1>6, <2>1, SumAdd
  <2> QED
    BY <2>2 DEF z
<1>10. SumOver(f, t \cup {y}) = SumOver(f, t) + f[y]
  BY <1>4, <1>6, SumAdd
<1> QED
  BY <1>2, <1>4, <1>5, <1>7, <1>9, <1>10
=============================================================================
