------------------------------- MODULE Facts -------------------------------
(***************************************************************************)
(* Facts about numbers, finite sets and sequences that the proofs of       *)
(* several components rest on.                                             *)
(***************************************************************************)
EXTENDS Integers, Sequences, FiniteSets, FiniteSetsExt, SequencesExt, FiniteSetTheorems,
        SequenceTheorems, TLAPS

\* Indices that wrap around at the end or at the start of a ring.
LEMMA ModUp ==
  ASSUME NEW n \in Nat \ {0}, NEW a \in 0..(2 * n - 1)
  PROVE  a % n = (IF a < n THEN a ELSE a - n) /\ a % n \in 0..n - 1
OBVIOUS

LEMMA ModDown ==
  ASSUME NEW n \in Nat \ {0}, NEW a \in (-n)..(n - 1)
  PROVE  a % n = (IF a < 0 THEN a + n ELSE a) /\ a % n \in 0..n - 1
OBVIOUS

-----------------------------------------------------------------------------
(* Rings of n cells, with what is between two of them.                      *)

\* How far it is from r to w, and the cell after i.
Dist(n, r, w) == IF w < r THEN (n - r) + w ELSE w - r
Succ(n, i) == IF i + 1 = n THEN 0 ELSE i + 1

LEMMA SuccFacts ==
  ASSUME NEW n \in Nat \ {0}, NEW i \in 0..n - 1
  PROVE  (i + 1) % n = Succ(n, i) /\ Succ(n, i) \in 0..n - 1
<1>1. PICK a : a = i + 1
  OBVIOUS
<1>2. a \in 0..(2 * n - 1)
  BY <1>1
<1>3. a % n = IF a < n THEN a ELSE a - n
  BY <1>2, ModUp
<1> QED BY <1>1, <1>3 DEF Succ

LEMMA DistType ==
  ASSUME NEW n \in Nat \ {0}, NEW r \in 0..n - 1, NEW w \in 0..n - 1
  PROVE  Dist(n, r, w) \in 0..n - 1
BY DEF Dist

LEMMA DistWrite ==
  ASSUME NEW n \in Nat \ {0}, NEW r \in 0..n - 1, NEW w \in 0..n - 1
  PROVE  Dist(n, r, Succ(n, w)) = IF Dist(n, r, w) + 1 = n THEN 0 ELSE Dist(n, r, w) + 1
BY DEF Dist, Succ

LEMMA DistRead ==
  ASSUME NEW n \in Nat \ {0}, NEW r \in 0..n - 1, NEW w \in 0..n - 1
  PROVE  Dist(n, Succ(n, r), w) = IF Dist(n, r, w) = 0 THEN n - 1 ELSE Dist(n, r, w) - 1
BY DEF Dist, Succ

\* The k-th cell from r on.
LEMMA CellFacts ==
  ASSUME NEW n \in Nat \ {0}, NEW r \in 0..n - 1, NEW w \in 0..n - 1, NEW k \in 1..n
  PROVE  /\ (r + k - 1) % n \in 0..n - 1
         /\ (r + k - 1) % n = w <=> k = Dist(n, r, w) + 1
         /\ k # n => (Succ(n, r) + k - 1) % n = (r + (k + 1) - 1) % n
<1>1. PICK a : a = r + k - 1
  OBVIOUS
<1>2. a \in 0..(2 * n - 1)
  BY <1>1
<1>3. a % n = (IF a < n THEN a ELSE a - n) /\ a % n \in 0..n - 1
  BY <1>2, ModUp
<1>4. a % n = w <=> k = Dist(n, r, w) + 1
  BY <1>1, <1>2, <1>3 DEF Dist
<1>5. ASSUME k # n PROVE (Succ(n, r) + k - 1) % n = (r + (k + 1) - 1) % n
  <2>1. PICK d, e : d = r + (k + 1) - 1 /\ e = Succ(n, r) + k - 1
    OBVIOUS
  <2>2. d \in 0..(2 * n - 1) /\ e \in 0..(2 * n - 1) /\ (e = d \/ e = d - n)
    BY <1>5, <2>1 DEF Succ
  <2>3. d % n = IF d < n THEN d ELSE d - n
    BY <2>2, ModUp
  <2>4. e % n = IF e < n THEN e ELSE e - n
    BY <2>2, ModUp
  <2> QED BY <2>1, <2>2, <2>3, <2>4
<1> QED BY <1>1, <1>3, <1>4, <1>5

\* What is in the cells, and in those from r up to w.
Cells(n, S) == [0..n - 1 -> S]
Put(f, i, c) == [f EXCEPT ![i] = c]
Ring(n, f, r, w) == [k \in 1..Dist(n, r, w) |-> f[(r + k - 1) % n]]

\* q lists them.
Lists(q, n, S, f, r, w) ==
  /\ q \in Seq(S) /\ Len(q) = Dist(n, r, w)
  /\ q = << >> <=> Dist(n, r, w) = 0
  /\ \A k \in 1..Dist(n, r, w) : q[k] = f[(r + k - 1) % n]
  /\ Dist(n, r, w) # 0 => Head(q) = f[r]

LEMMA RingFacts ==
  ASSUME NEW n \in Nat \ {0}, NEW S, NEW f \in Cells(n, S),
         NEW r \in 0..n - 1, NEW w \in 0..n - 1
  PROVE  Lists(Ring(n, f, r, w), n, S, f, r, w)
<1>1. PICK m : m = Dist(n, r, w)
  OBVIOUS
<1>2. m \in Nat /\ m < n
  BY <1>1, DistType
<1>3. ASSUME NEW k \in 1..m PROVE f[(r + k - 1) % n] \in S
  <2>1. k \in 1..n
    BY <1>2
  <2>2. (r + k - 1) % n \in 0..n - 1
    BY <2>1, CellFacts
  <2> QED BY <2>2 DEF Cells
<1>4. PICK h : h = [k \in 1..m |-> f[(r + k - 1) % n]]
  OBVIOUS
<1>5. h = Ring(n, f, r, w)
  BY <1>1, <1>4 DEF Ring
<1>6. h \in Seq(S) /\ Len(h) = m
  BY <1>2, <1>3, <1>4
<1>7. h = << >> <=> m = 0
  BY <1>2, <1>6
<1>8. m # 0 => Head(h) = f[r]
  <2>1. PICK a : a = r + 1 - 1
    OBVIOUS
  <2>2. a % n = r
    <3>1. a \in 0..(2 * n - 1) /\ a < n /\ a = r
      BY <2>1
    <3>2. a % n = IF a < n THEN a ELSE a - n
      BY <3>1, ModUp
    <3> QED BY <3>1, <3>2
  <2>3. m # 0 => 1 \in 1..m
    BY <1>2
  <2>4. m # 0 => h[1] = f[a % n]
    BY <1>4, <2>1, <2>3
  <2> QED BY <1>6, <1>7, <2>2, <2>4
<1> QED BY <1>1, <1>4, <1>5, <1>6, <1>7, <1>8 DEF Lists

\* Writing to cell w and advancing it.
LEMMA RingWrite ==
  ASSUME NEW n \in Nat \ {0}, NEW S, NEW f \in Cells(n, S), NEW c \in S,
         NEW r \in 0..n - 1, NEW w \in 0..n - 1, Dist(n, r, w) + 1 # n
  PROVE  Ring(n, Put(f, w, c), r, Succ(n, w)) = Append(Ring(n, f, r, w), c)
<1>1. PICK g : g = [f EXCEPT ![w] = c]
  OBVIOUS
<1>2. PICK m, e : m = Dist(n, r, w) /\ e = Succ(n, w)
  OBVIOUS
<1>3. g \in Cells(n, S) /\ e \in 0..n - 1
  <2>1. g \in Cells(n, S)
    BY <1>1 DEF Cells
  <2> QED BY <1>2, <2>1, SuccFacts
<1>4. m \in Nat /\ m < n /\ Dist(n, r, e) = m + 1
  <2>1. m \in 0..n - 1
    BY <1>2, DistType
  <2>2. Dist(n, r, e) = IF m + 1 = n THEN 0 ELSE m + 1
    BY <1>2, DistWrite
  <2> QED BY <1>2, <2>1, <2>2
<1>5. PICK p, q : p = Ring(n, f, r, w) /\ q = Ring(n, g, r, e)
  OBVIOUS
<1>6. /\ p \in Seq(S) /\ Len(p) = m
      /\ \A k \in 1..m : p[k] = f[(r + k - 1) % n]
  <2>1. Lists(p, n, S, f, r, w)
    BY <1>5, RingFacts
  <2> QED BY <1>2, <2>1 DEF Lists
<1>7. /\ q \in Seq(S) /\ Len(q) = m + 1
      /\ \A k \in 1..(m + 1) : q[k] = g[(r + k - 1) % n]
  <2>1. Lists(q, n, S, g, r, e)
    BY <1>3, <1>5, RingFacts
  <2> QED BY <1>4, <2>1 DEF Lists
<1>8. ASSUME NEW k \in 1..(m + 1) PROVE q[k] = IF k = m + 1 THEN c ELSE p[k]
  <2>1. k \in 1..n
    BY <1>4
  <2>2. PICK a : a = (r + k - 1) % n
    OBVIOUS
  <2>3. a \in 0..n - 1 /\ (a = w <=> k = m + 1)
    BY <1>2, <2>1, <2>2, CellFacts
  <2>4. q[k] = IF a = w THEN c ELSE f[a]
    BY <1>1, <1>7, <2>2, <2>3 DEF Cells
  <2>5. k # m + 1 => k \in 1..m
    BY <1>4
  <2>6. k # m + 1 => p[k] = f[a]
    BY <1>6, <2>2, <2>5
  <2> QED BY <2>3, <2>4, <2>6
<1>9. q = Append(p, c)
  BY <1>4, <1>6, <1>7, <1>8
<1> QED BY <1>1, <1>2, <1>5, <1>9 DEF Put

\* Advancing r.
LEMMA RingAdvance ==
  ASSUME NEW n \in Nat \ {0}, NEW S, NEW f \in Cells(n, S),
         NEW r \in 0..n - 1, NEW w \in 0..n - 1, Dist(n, r, w) # 0
  PROVE  Ring(n, f, Succ(n, r), w) = Tail(Ring(n, f, r, w))
<1>1. PICK m, e : m = Dist(n, r, w) /\ e = Succ(n, r)
  OBVIOUS
<1>2. e \in 0..n - 1 /\ m \in Nat /\ m < n /\ m # 0 /\ Dist(n, e, w) = m - 1
  <2>1. e \in 0..n - 1
    BY <1>1, SuccFacts
  <2>2. m \in 0..n - 1
    BY <1>1, DistType
  <2>3. Dist(n, e, w) = IF m = 0 THEN n - 1 ELSE m - 1
    BY <1>1, DistRead
  <2> QED BY <1>1, <2>1, <2>2, <2>3
<1>3. PICK p, q : p = Ring(n, f, r, w) /\ q = Ring(n, f, e, w)
  OBVIOUS
<1>4. /\ p \in Seq(S) /\ Len(p) = m
      /\ \A k \in 1..m : p[k] = f[(r + k - 1) % n]
  <2>1. Lists(p, n, S, f, r, w)
    BY <1>3, RingFacts
  <2> QED BY <1>1, <2>1 DEF Lists
<1>5. /\ q \in Seq(S) /\ Len(q) = m - 1
      /\ \A k \in 1..(m - 1) : q[k] = f[(e + k - 1) % n]
  <2>1. Lists(q, n, S, f, e, w)
    BY <1>2, <1>3, RingFacts
  <2> QED BY <1>2, <2>1 DEF Lists
<1>6. ASSUME NEW k \in 1..(m - 1) PROVE q[k] = p[k + 1]
  <2>1. k \in 1..n /\ k # n /\ k + 1 \in 1..m
    BY <1>2
  <2>2. (e + k - 1) % n = (r + (k + 1) - 1) % n
    BY <1>1, <2>1, CellFacts
  <2> QED BY <1>4, <1>5, <2>1, <2>2
<1>7. q = Tail(p)
  <2>1. m \in Nat \ {0} /\ p \in Seq(S) /\ q \in Seq(S) /\ Len(p) = m /\ Len(q) = m - 1
    BY <1>2, <1>4, <1>5
  <2>2. p # << >>
    BY <2>1
  <2>3. Tail(p) \in Seq(S) /\ Len(Tail(p)) = m - 1
    BY <2>1, <2>2
  <2>4. \A k \in 1..(m - 1) : Tail(p)[k] = p[k + 1]
    BY <2>1, <2>2
  <2> QED BY <1>6, <2>1, <2>3, <2>4
<1> QED BY <1>1, <1>3, <1>7

\* Writing to a cell outside.
LEMMA RingOutside ==
  ASSUME NEW n \in Nat \ {0}, NEW S, NEW f \in Cells(n, S), NEW c \in S,
         NEW r \in 0..n - 1, NEW w \in 0..n - 1,
         NEW i \in 0..n - 1, Dist(n, r, i) >= Dist(n, r, w)
  PROVE  Ring(n, Put(f, i, c), r, w) = Ring(n, f, r, w)
<1>1. PICK g, m : g = [f EXCEPT ![i] = c] /\ m = Dist(n, r, w)
  OBVIOUS
<1>2. m \in Nat /\ m < n /\ Dist(n, r, i) \in Nat /\ m <= Dist(n, r, i)
  <2>1. m \in 0..n - 1 /\ Dist(n, r, i) \in 0..n - 1
    BY <1>1, DistType
  <2> QED BY <1>1, <2>1
<1>3. ASSUME NEW k \in 1..m PROVE g[(r + k - 1) % n] = f[(r + k - 1) % n]
  <2>1. k \in 1..n /\ k # Dist(n, r, i) + 1
    BY <1>2
  <2>2. (r + k - 1) % n \in 0..n - 1 /\ (r + k - 1) % n # i
    BY <2>1, CellFacts
  <2> QED BY <1>1, <2>2 DEF Cells
<1>4. Ring(n, g, r, w) = Ring(n, f, r, w)
  BY <1>1, <1>3 DEF Ring
<1> QED BY <1>1, <1>4 DEF Put

-----------------------------------------------------------------------------
(* A queue that goes on in another.                                         *)

LEMMA ConcatTail ==
  ASSUME NEW S, NEW a \in Seq(S), NEW b \in Seq(S), a # << >>
  PROVE  Tail(a \o b) = Tail(a) \o b
<1>1. /\ Tail(a) \in Seq(S) /\ Len(Tail(a)) = Len(a) - 1
      /\ \A i \in 1..Len(a) - 1 : Tail(a)[i] = a[i + 1]
  OBVIOUS
<1>2. /\ a \o b \in Seq(S) /\ Len(a \o b) = Len(a) + Len(b) /\ a \o b # << >>
      /\ \A i \in 1..(Len(a) + Len(b)) :
           (a \o b)[i] = IF i <= Len(a) THEN a[i] ELSE b[i - Len(a)]
  OBVIOUS
<1>3. PICK p, q : p = Tail(a \o b) /\ q = Tail(a) \o b
  OBVIOUS
<1>4. /\ p \in Seq(S) /\ Len(p) = Len(a) + Len(b) - 1
      /\ \A i \in 1..Len(p) : p[i] = (a \o b)[i + 1]
  BY <1>2, <1>3
<1>5. /\ q \in Seq(S) /\ Len(q) = Len(a) + Len(b) - 1
      /\ \A i \in 1..Len(q) :
           q[i] = IF i <= Len(a) - 1 THEN Tail(a)[i] ELSE b[i - (Len(a) - 1)]
  BY <1>1, <1>3
<1> QED BY <1>1, <1>2, <1>3, <1>4, <1>5

-----------------------------------------------------------------------------
(* Extremes and counts.                                                     *)

\* The lowest number of a set is one of it.
LEMMA MinFacts ==
  ASSUME NEW S \in SUBSET Nat, S # {}
  PROVE  Min(S) \in S /\ \A y \in S : Min(S) <= y
<1> DEFINE R == {ss \in Nat \X Nat : ss[1] < ss[2]}
<1>1. IsWellFoundedOn(R, Nat)
  BY NatLessThanWellFounded DEF OpToRel
<1>2. PICK x \in S : \A y \in S : ~(<<y, x>> \in R)
  <2> HIDE DEF R
  <2> QED BY <1>1, WFMin
<1>3. ASSUME NEW y \in S PROVE x <= y
  <2>1. <<y, x>> \in Nat \X Nat /\ <<y, x>>[1] = y /\ <<y, x>>[2] = x
    OBVIOUS
  <2>2. ~(y < x)
    BY <1>2, <2>1, Zenon
  <2> QED BY <2>2
<1>4. \E z \in S : \A y \in S : z <= y
  BY <1>3
<1> QED BY <1>4 DEF Min

\* The highest number of a bounded set is one of it.
LEMMA MaxFacts ==
  ASSUME NEW n \in Nat, NEW S \in SUBSET (0..n), S # {}
  PROVE  Max(S) \in S /\ \A y \in S : y <= Max(S)
<1> DEFINE T == {k \in Nat : n - k \in S}
<1>1. T # {} /\ T \in SUBSET Nat
  <2>1. PICK y \in S : TRUE
    OBVIOUS
  <2>2. n - y \in Nat /\ n - (n - y) \in S
    BY <2>1
  <2> QED BY <2>2
<1> HIDE DEF T
<1>2. Min(T) \in T /\ \A y \in T : Min(T) <= y
  BY <1>1, MinFacts
<1>3. n - Min(T) \in S
  BY <1>2 DEF T
<1>4. ASSUME NEW y \in S PROVE y <= n - Min(T)
  <2>1. n - y \in Nat /\ n - (n - y) \in S
    OBVIOUS
  <2>2. n - y \in T
    BY <2>1 DEF T
  <2>3. Min(T) <= n - y /\ Min(T) \in Nat
    BY <1>1, <1>2, <2>2
  <2> QED BY <2>3
<1>5. \E z \in S : \A y \in S : z >= y
  <2>1. Min(T) \in Nat
    BY <1>1, <1>2
  <2> QED BY <1>3, <1>4, <2>1
<1>6. Max(S) \in S /\ \A y \in S : Max(S) >= y
  BY <1>5 DEF Max
<1> QED BY <1>6

\* Counts that grow and shrink with a finite set still cover it.
LEMMA CountFacts ==
  ASSUME NEW A, IsFiniteSet(A), NEW B, NEW x, NEW n \in Nat, Cardinality(A) <= n
  PROVE  /\ Cardinality(A) \in Nat
         /\ B \subseteq A => IsFiniteSet(B) /\ Cardinality(B) <= n
         /\ B \subseteq A \cup {x} => IsFiniteSet(B) /\ Cardinality(B) <= n + 1
         /\ x \in A /\ B \subseteq A \ {x} =>
              IsFiniteSet(B) /\ n > 0 /\ Cardinality(B) <= n - 1
<1>1. Cardinality(A) \in Nat
  BY FS_CardinalityType
<1>2. B \subseteq A => IsFiniteSet(B) /\ Cardinality(B) <= n
  <2> SUFFICES ASSUME B \subseteq A PROVE IsFiniteSet(B) /\ Cardinality(B) <= n
    OBVIOUS
  <2>1. IsFiniteSet(B) /\ Cardinality(B) <= Cardinality(A)
    BY FS_Subset
  <2>2. Cardinality(B) \in Nat
    BY <2>1, FS_CardinalityType
  <2> QED BY <1>1, <2>1, <2>2
<1>3. B \subseteq A \cup {x} => IsFiniteSet(B) /\ Cardinality(B) <= n + 1
  <2> SUFFICES ASSUME B \subseteq A \cup {x} PROVE IsFiniteSet(B) /\ Cardinality(B) <= n + 1
    OBVIOUS
  <2>1. IsFiniteSet(A \cup {x}) /\ Cardinality(A \cup {x}) <= Cardinality(A) + 1
    BY <1>1, FS_AddElement
  <2>2. IsFiniteSet(B) /\ Cardinality(B) <= Cardinality(A \cup {x})
    BY <2>1, FS_Subset
  <2>3. Cardinality(B) \in Nat /\ Cardinality(A \cup {x}) \in Nat
    BY <2>1, <2>2, FS_CardinalityType
  <2> QED BY <1>1, <2>1, <2>2, <2>3
<1>4. x \in A /\ B \subseteq A \ {x} => IsFiniteSet(B) /\ n > 0 /\ Cardinality(B) <= n - 1
  <2> SUFFICES ASSUME x \in A, B \subseteq A \ {x}
               PROVE  IsFiniteSet(B) /\ n > 0 /\ Cardinality(B) <= n - 1
    OBVIOUS
  <2>1. IsFiniteSet(A \ {x}) /\ Cardinality(A \ {x}) = Cardinality(A) - 1
    BY FS_RemoveElement
  <2>2. IsFiniteSet(B) /\ Cardinality(B) <= Cardinality(A \ {x})
    BY <2>1, FS_Subset
  <2>3. Cardinality(B) \in Nat /\ Cardinality(A \ {x}) \in Nat
    BY <2>1, <2>2, FS_CardinalityType
  <2> QED BY <1>1, <2>1, <2>2, <2>3
<1> QED BY <1>1, <1>2, <1>3, <1>4

\* Adding or taking away disjoint parts of a counted set.
LEMMA SplitCount ==
  ASSUME NEW A, NEW B, NEW P, IsFiniteSet(A), IsFiniteSet(P)
  PROVE  /\ B = A \cup P => IsFiniteSet(B) /\ Cardinality(B) <= Cardinality(A) + Cardinality(P)
         /\ P \subseteq A /\ B \subseteq A \ P =>
              IsFiniteSet(B) /\ Cardinality(B) + Cardinality(P) <= Cardinality(A)
<1>1. B = A \cup P => IsFiniteSet(B) /\ Cardinality(B) <= Cardinality(A) + Cardinality(P)
  <2>1. /\ IsFiniteSet(A \cup P) /\ IsFiniteSet(A \cap P)
        /\ Cardinality(A \cup P) = Cardinality(A) + Cardinality(P) - Cardinality(A \cap P)
    BY FS_Union, FS_Intersection
  <2>2. Cardinality(A) \in Nat /\ Cardinality(P) \in Nat /\ Cardinality(A \cap P) \in Nat
    BY <2>1, FS_CardinalityType
  <2> QED BY <2>1, <2>2
<1>2. ASSUME P \subseteq A, B \subseteq A \ P
      PROVE  IsFiniteSet(B) /\ Cardinality(B) + Cardinality(P) <= Cardinality(A)
  <2>1. IsFiniteSet(B)
    BY <1>2, FS_Subset
  <2>2. PICK E : E = B \cap P
    OBVIOUS
  <2>3. E = {}
    BY <1>2, <2>2
  <2>4. IsFiniteSet(B \cup P) /\ Cardinality(B \cup P) = Cardinality(B) + Cardinality(P) - 0
    BY <2>1, <2>2, <2>3, FS_Union, FS_EmptySet
  <2>5. PICK C : C = B \cup P
    OBVIOUS
  <2>6. C \in SUBSET A
    BY <1>2, <2>5
  <2>7. Cardinality(C) <= Cardinality(A)
    BY <2>6, FS_Subset
  <2>8. Cardinality(B) \in Nat /\ Cardinality(P) \in Nat
    BY <2>1, FS_CardinalityType
  <2> QED BY <2>1, <2>4, <2>5, <2>7, <2>8
<1> QED BY <1>1, <1>2

-----------------------------------------------------------------------------
(* Searches that go up from a to m, by steps or by jumps.                   *)

\* Induction from the end of the search.
Backwards(a, m, G) == \A i \in a..m : (\A j \in (i + 1)..m : j \in G) => i \in G

LEMMA SearchInduction ==
  ASSUME NEW a \in Int, NEW m \in Int, NEW G, Backwards(a, m, G)
  PROVE  \A i \in a..m : i \in G
<1> SUFFICES ASSUME NEW i \in a..m, i \notin G PROVE FALSE
  OBVIOUS
<1> USE DEF Backwards
<1> DEFINE T == {k \in Nat : m - k \in a..m /\ m - k \notin G}
<1>1. T \in SUBSET Nat /\ T # {}
  <2>1. m - i \in Nat /\ m - (m - i) = i
    OBVIOUS
  <2>2. m - i \in T
    BY <2>1
  <2> QED BY <2>2
<1>2. PICK k : k \in T /\ \A y \in T : k <= y
  <2> HIDE DEF T
  <2> QED BY <1>1, MinFacts
<1>3. k \in Nat /\ m - k \in a..m /\ m - k \notin G
  BY <1>2
<1>4. ASSUME NEW j \in (m - k + 1)..m PROVE j \in G
  <2>1. m - j \in Nat /\ m - j < k /\ m - (m - j) = j /\ j \in a..m
    BY <1>3
  <2>2. m - j \notin T
    BY <1>2, <1>3, <2>1
  <2> QED BY <2>1, <2>2
<1> QED BY <1>3, <1>4

\* Where the search does not stop it goes on from a later place: it is defined.
GoesUp(a, m, stop, nxt) == \A i \in a..m : i \notin stop => nxt[i] \in (i + 1)..m
Searches(f, a, m, stop, val, nxt) ==
  f = [i \in a..m |-> IF i \in stop THEN val[i] ELSE f[nxt[i]]]

LEMMA SearchDefined ==
  ASSUME NEW a \in Int, NEW m \in Int, NEW stop, NEW val, NEW nxt,
         GoesUp(a, m, stop, nxt)
  PROVE  \E f : Searches(f, a, m, stop, val, nxt)
<1> USE DEF GoesUp
<1> DEFINE Defined(f, b) ==
             f = [i \in b..m |-> IF i \in stop THEN val[i] ELSE f[nxt[i]]]
           G == {b \in a..m : \E f : Defined(f, b)}
<1>1. ASSUME NEW b \in a..m, \A j \in (b + 1)..m : j \in G
      PROVE  b \in G
  <2>1. PICK g : b # m => Defined(g, b + 1)
    <3>1. b # m => b + 1 \in (b + 1)..m
      OBVIOUS
    <3> QED BY <1>1, <3>1
  <2>2. PICK f : f = [i \in b..m |-> IF i = b THEN (IF i \in stop THEN val[i] ELSE g[nxt[i]])
                                     ELSE g[i]]
    OBVIOUS
  <2>3. ASSUME NEW i \in b..m
        PROVE  f[i] = IF i \in stop THEN val[i] ELSE f[nxt[i]]
    <3>1. i \notin stop => nxt[i] \in (i + 1)..m
      OBVIOUS
    <3>2. i \notin stop => f[nxt[i]] = g[nxt[i]]
      BY <2>2, <3>1
    <3>3. CASE i = b
      BY <2>2, <3>2, <3>3
    <3>4. CASE i # b
      <4>1. i \in (b + 1)..m /\ b # m
        BY <3>4
      <4>2. g[i] = IF i \in stop THEN val[i] ELSE g[nxt[i]]
        BY <2>1, <4>1
      <4> QED BY <2>2, <3>2, <3>4, <4>2
    <3> QED BY <3>3, <3>4
  <2>4. Defined(f, b)
    <3>1. f = [i \in b..m |-> f[i]]
      BY <2>2
    <3> QED BY <2>3, <3>1
  <2> QED BY <2>4
<1>2. \A b \in a..m : b \in G
  <2> HIDE DEF G
  <2>1. Backwards(a, m, G)
    BY <1>1 DEF Backwards
  <2> QED BY <2>1, SearchInduction
<1>3. CASE a \in a..m
  BY <1>2, <1>3 DEF Searches
<1>4. CASE a \notin a..m
  <2>1. a..m = {}
    BY <1>4
  <2> DEFINE h == [i \in a..m |-> val[i]]
  <2>2. h = [i \in a..m |-> IF i \in stop THEN val[i] ELSE h[nxt[i]]]
    BY <2>1
  <2> QED BY <2>2 DEF Searches
<1> QED BY <1>3, <1>4

\* Induction from the start.
Forwards(m, G) == \A i \in 0..m : (i # 0 => i - 1 \in G) => i \in G

LEMMA StepInduction ==
  ASSUME NEW m \in Int, NEW G, Forwards(m, G)
  PROVE  \A i \in 0..m : i \in G
<1> SUFFICES ASSUME NEW i \in 0..m, i \notin G PROVE FALSE
  OBVIOUS
<1> DEFINE T == {k \in 0..m : k \notin G}
<1>1. T \in SUBSET Nat /\ T # {}
  <2>1. i \in T
    OBVIOUS
  <2> QED BY <2>1
<1>2. PICK k : k \in T /\ \A y \in T : k <= y
  <2> HIDE DEF T
  <2> QED BY <1>1, MinFacts
<1>3. k \in 0..m /\ k \notin G
  BY <1>2
<1>4. k # 0 => k - 1 \in G
  <2> SUFFICES ASSUME k # 0, k - 1 \notin G PROVE FALSE
    OBVIOUS
  <2>1. k - 1 \in 0..m /\ ~(k <= k - 1)
    BY <1>3
  <2> QED BY <1>2, <2>1
<1> QED BY <1>3, <1>4 DEF Forwards

-----------------------------------------------------------------------------
(* Words of w numbers.                                                      *)

LEMMA WordFacts ==
  ASSUME NEW w \in Nat \ {0}, NEW b \in Nat
  PROVE  /\ b \div w \in Nat
         /\ (b \div w) * w <= b /\ b < (b \div w + 1) * w
OBVIOUS

\* The word of a number below q words ends there too.
LEMMA WordEnds ==
  ASSUME NEW w \in Nat \ {0}, NEW q \in Nat, NEW b \in Nat, b < q * w
  PROVE  (b \div w + 1) * w <= q * w
<1>1. PICK d : d = b \div w
  OBVIOUS
<1>2. d \in Nat /\ d * w <= b
  BY <1>1, WordFacts
<1>3. d < q
  <2> SUFFICES ASSUME d >= q PROVE FALSE
    BY <1>2
  <2>1. q * w <= d * w
    BY <1>2
  <2>2. q * w \in Nat /\ d * w \in Nat
    BY <1>2
  <2> QED BY <1>2, <2>1, <2>2
<1>4. d + 1 <= q
  BY <1>2, <1>3
<1>5. (d + 1) * w <= q * w
  BY <1>2, <1>4
<1> QED BY <1>1, <1>5

-----------------------------------------------------------------------------
(* Sequences with one element more or less.                                 *)

\* t is s with e at place i.
Inserted(t, s, i, e) ==
  /\ Len(t) = Len(s) + 1
  /\ \A k \in 1..Len(t) : t[k] = IF k < i THEN s[k] ELSE IF k = i THEN e ELSE s[k - 1]

LEMMA RemoveAtFacts ==
  ASSUME NEW S, NEW s \in Seq(S), NEW i \in 1..Len(s)
  PROVE  RemoveAt(s, i) \in Seq(S) /\ Inserted(s, RemoveAt(s, i), i, s[i])
<1>1. PICK n : n = Len(s) /\ n \in Nat /\ \A k \in 1..n : s[k] \in S
  OBVIOUS
<1>2. PICK a, b : a = SubSeq(s, 1, i - 1) /\ b = SubSeq(s, i + 1, n)
  OBVIOUS
<1>3. /\ a \in Seq(S) /\ Len(a) = i - 1
      /\ \A k \in 1..(i - 1) : a[k] = s[k]
  <2>1. i - 1 \in Int /\ \A k \in 1..(i - 1) : s[k] \in S
    BY <1>1
  <2>2. /\ SubSeq(s, 1, i - 1) \in Seq(S)
        /\ Len(SubSeq(s, 1, i - 1)) = IF 1 <= i - 1 THEN i - 1 - 1 + 1 ELSE 0
        /\ \A k \in 1..(i - 1 - 1 + 1) : SubSeq(s, 1, i - 1)[k] = s[1 + k - 1]
    BY <2>1, SubSeqProperties
  <2> QED BY <1>1, <1>2, <2>2
<1>4. /\ b \in Seq(S) /\ Len(b) = n - i
      /\ \A k \in 1..(n - i) : b[k] = s[i + k]
  <2>1. i + 1 \in Int /\ n \in Int /\ \A k \in (i + 1)..n : s[k] \in S
    BY <1>1
  <2>2. /\ SubSeq(s, i + 1, n) \in Seq(S)
        /\ Len(SubSeq(s, i + 1, n)) = IF i + 1 <= n THEN n - (i + 1) + 1 ELSE 0
        /\ \A k \in 1..(n - (i + 1) + 1) : SubSeq(s, i + 1, n)[k] = s[(i + 1) + k - 1]
    BY <2>1, SubSeqProperties
  <2> QED BY <1>1, <1>2, <2>2
<1>5. PICK t : /\ t = a \o b /\ t \in Seq(S) /\ Len(t) = n - 1
               /\ \A k \in 1..(n - 1) : t[k] = IF k <= i - 1 THEN a[k] ELSE b[k - (i - 1)]
  <2>1. /\ a \o b \in Seq(S) /\ Len(a \o b) = Len(a) + Len(b)
        /\ \A k \in 1..(Len(a) + Len(b)) :
             (a \o b)[k] = IF k <= Len(a) THEN a[k] ELSE b[k - Len(a)]
    BY <1>3, <1>4, ConcatProperties
  <2>2. Len(a) + Len(b) = n - 1 /\ Len(a) = i - 1
    BY <1>1, <1>3, <1>4
  <2> QED BY <2>1, <2>2
<1>6. t = RemoveAt(s, i)
  BY <1>1, <1>2, <1>5 DEF RemoveAt
<1>7. ASSUME NEW k \in 1..n
      PROVE  s[k] = IF k < i THEN t[k] ELSE IF k = i THEN s[i] ELSE t[k - 1]
  <2>1. CASE k < i
    <3>1. k \in 1..(n - 1) /\ k \in 1..(i - 1) /\ k <= i - 1
      BY <1>1, <2>1
    <3> QED BY <1>3, <1>5, <2>1, <3>1
  <2>2. CASE k = i
    BY <2>2
  <2>3. CASE k > i
    <3>1. k - 1 \in 1..(n - 1) /\ ~(k - 1 <= i - 1) /\ (k - 1) - (i - 1) \in 1..(n - i)
            /\ i + ((k - 1) - (i - 1)) = k /\ ~(k < i) /\ k # i
      BY <1>1, <2>3
    <3> QED BY <1>4, <1>5, <3>1
  <2> QED BY <2>1, <2>2, <2>3
<1>8. Len(s) = Len(t) + 1
  BY <1>1, <1>5
<1> QED BY <1>1, <1>5, <1>6, <1>7, <1>8 DEF Inserted
=============================================================================
