---------------------------- MODULE MemoryProofs ----------------------------
(***************************************************************************)
(* Pages and blocks, for address spaces and memories of every size: what   *)
(* the searches of vmm.c and pmm.c find, and that what they give out stays *)
(* with one holder.  Then the kernel heap, for headers, pages, alignments  *)
(* and requests of every size: its lists and counters agree, and it is an  *)
(* allocator.                                                              *)
(***************************************************************************)
EXTENDS Memory, Heap, Facts, SequenceTheorems, TLAPS

-----------------------------------------------------------------------------
(* find_vspace().                                                           *)

\* The inner loop counts r pages from page i on.
RunIs(r, pg, i, n) ==
  /\ r \in 1..n
  /\ r # n => pg[(i + r) % Pages] # "FREE"
  /\ \A k \in 1..(r - 1) : pg[(i + k) % Pages] = "FREE"

LEMMA RunFacts ==
  ASSUME NEW pg, NEW i \in Nat, NEW n \in Nat \ {0}
  PROVE  RunIs(RunLength(pg, i, n), pg, i, n)
<1> DEFINE S == {k \in 1..n : k = n \/ pg[(i + k) % Pages] # "FREE"}
<1>1. S \in SUBSET Nat /\ S # {}
  <2>1. n \in S
    OBVIOUS
  <2> QED BY <2>1
<1>2. PICK r : r = Min(S)
  OBVIOUS
<1>3. r \in S /\ \A y \in S : r <= y
  <2> HIDE DEF S
  <2> QED BY <1>1, <1>2, MinFacts
<1>4. RunLength(pg, i, n) = r
  BY <1>2 DEF RunLength
<1>5. r \in 1..n /\ (r # n => pg[(i + r) % Pages] # "FREE")
  BY <1>3
<1>6. ASSUME NEW k \in 1..(r - 1) PROVE pg[(i + k) % Pages] = "FREE"
  <2>1. k \in 1..n /\ ~(r <= k)
    BY <1>5
  <2> QED BY <1>3, <2>1
<1> QED BY <1>4, <1>5, <1>6 DEF RunIs

\* The outer loop, from page i on.
Scans(f, pg, n) ==
  \A i \in 1..(Pages + MaxBlocks) :
    f[i] = IF i >= Pages THEN -1
           ELSE IF pg[i] # "FREE" THEN f[i + 1]
           ELSE IF RunLength(pg, i, n) = n THEN i
           ELSE f[i + RunLength(pg, i, n) + 1]

LEMMA FindStartScans ==
  ASSUME VspaceAssumption, NEW pg, NEW n \in 1..MaxBlocks
  PROVE  \E f : FindStart(pg, n) = f[1] /\ Scans(f, pg, n)
<1> DEFINE S == CHOOSE f : f = [i \in 1..(Pages + MaxBlocks) |->
                  IF i >= Pages THEN -1
                  ELSE IF pg[i] # "FREE" THEN f[i + 1]
                  ELSE IF RunLength(pg, i, n) = n THEN i
                  ELSE f[i + RunLength(pg, i, n) + 1]]
<1>1. FindStart(pg, n) = S[1]
  BY Zenon DEF FindStart
<1>2. Pages \in Nat /\ MaxBlocks \in Nat /\ n \in Nat \ {0} /\ n <= MaxBlocks
  BY DEF VspaceAssumption
<1>3. \E f : f = [i \in 1..(Pages + MaxBlocks) |->
                  IF i >= Pages THEN -1
                  ELSE IF pg[i] # "FREE" THEN f[i + 1]
                  ELSE IF RunLength(pg, i, n) = n THEN i
                  ELSE f[i + RunLength(pg, i, n) + 1]]
  <2>0. PICK m : m = Pages + MaxBlocks
    OBVIOUS
  <2>1. PICK stop, val, nxt :
          /\ stop = {i \in 1..m : i >= Pages \/ (pg[i] = "FREE" /\ RunLength(pg, i, n) = n)}
          /\ val = [i \in 1..m |-> IF i >= Pages THEN -1 ELSE i]
          /\ nxt = [i \in 1..m |-> IF pg[i] # "FREE" THEN i + 1
                                   ELSE i + RunLength(pg, i, n) + 1]
    OBVIOUS
  <2>2. GoesUp(1, m, stop, nxt)
    <3>1. ASSUME NEW i \in 1..m, i \notin stop PROVE nxt[i] \in (i + 1)..m
      <4>1. PICK r : r = RunLength(pg, i, n)
        OBVIOUS
      <4>2. i \in Nat
        BY <1>2, <2>0
      <4>3. RunIs(r, pg, i, n)
        BY <1>2, <4>1, <4>2, RunFacts
      <4>4. r \in 1..n
        BY <4>3 DEF RunIs
      <4>5. nxt[i] = IF pg[i] # "FREE" THEN i + 1 ELSE i + r + 1
        BY <2>1, <4>1
      <4>6. i < Pages
        BY <1>2, <2>1, <3>1, <4>2
      <4> QED BY <1>2, <2>0, <4>2, <4>4, <4>5, <4>6
    <3> QED BY <3>1 DEF GoesUp
  <2>3. m \in Int /\ 1 \in Int
    BY <1>2, <2>0
  <2>4. PICK f : Searches(f, 1, m, stop, val, nxt)
    BY <2>2, <2>3, SearchDefined, Zenon
  <2>5. f = [i \in 1..m |-> IF i \in stop THEN val[i] ELSE f[nxt[i]]]
    BY <2>4 DEF Searches
  <2>6. ASSUME NEW i \in 1..m
        PROVE  f[i] = IF i >= Pages THEN -1
                      ELSE IF pg[i] # "FREE" THEN f[i + 1]
                      ELSE IF RunLength(pg, i, n) = n THEN i
                      ELSE f[i + RunLength(pg, i, n) + 1]
    <3>1. f[i] = IF i \in stop THEN val[i] ELSE f[nxt[i]]
      BY <2>5
    <3> QED BY <2>1, <3>1
  <2>7. f = [i \in 1..m |-> f[i]]
    BY <2>5
  <2>8. f = [i \in 1..m |-> IF i >= Pages THEN -1
                  ELSE IF pg[i] # "FREE" THEN f[i + 1]
                  ELSE IF RunLength(pg, i, n) = n THEN i
                  ELSE f[i + RunLength(pg, i, n) + 1]]
    BY <2>6, <2>7
  <2> QED BY <2>0, <2>8
<1>4. S = [i \in 1..(Pages + MaxBlocks) |->
                  IF i >= Pages THEN -1
                  ELSE IF pg[i] # "FREE" THEN S[i + 1]
                  ELSE IF RunLength(pg, i, n) = n THEN i
                  ELSE S[i + RunLength(pg, i, n) + 1]]
  BY <1>3, Zenon
<1> HIDE DEF S
<1>5. Scans(S, pg, n)
  BY <1>4 DEF Scans
<1> QED BY <1>1, <1>5

\* s is the lowest of the numbers in C from i on, or no when there is none.
Lowest(s, C, i, no) ==
  \/ s = no /\ \A c \in C : c < i
  \/ s \in C /\ i <= s /\ \A c \in C : c < i \/ s <= c

\* The search is for the lowest candidate: what it skips cannot hold one.
LEMMA FindsLowest ==
  ASSUME VspaceAssumption, NEW pg, NEW n \in 1..MaxBlocks
  PROVE  Lowest(FindStart(pg, n), Candidates(pg, n), 1, -1)
<1>1. /\ Pages \in Nat \ {0} /\ MaxBlocks \in Nat /\ n \in Nat \ {0} /\ n <= MaxBlocks
      /\ MaxBlocks < Pages
  BY DEF VspaceAssumption
<1>2. PICK f : FindStart(pg, n) = f[1] /\ Scans(f, pg, n)
  BY FindStartScans
<1>3. PICK m : m = Pages + MaxBlocks
  OBVIOUS
<1>4. PICK C : C = Candidates(pg, n)
  OBVIOUS
<1>5. \A c : c \in C <=> c \in 1..(Pages - 1) /\ (\A k \in 0..(n - 1) : pg[(c + k) % Pages] = "FREE")
  BY <1>4 DEF Candidates, Region
<1>6. PICK G : G = {i \in 1..m : Lowest(f[i], C, i, -1)}
  OBVIOUS
<1>7. ASSUME NEW i \in 1..m, \A j \in (i + 1)..m : j \in G
      PROVE  Lowest(f[i], C, i, -1)
  <2>1. i \in Nat \ {0} /\ i \in 1..(Pages + MaxBlocks)
    BY <1>1, <1>3
  <2>2. PICK r : r = RunLength(pg, i, n)
    OBVIOUS
  <2>3. f[i] = IF i >= Pages THEN -1
               ELSE IF pg[i] # "FREE" THEN f[i + 1]
               ELSE IF r = n THEN i
               ELSE f[i + r + 1]
    BY <1>2, <2>1, <2>2 DEF Scans
  <2>4. RunIs(r, pg, i, n)
    BY <1>1, <2>1, <2>2, RunFacts
  <2>5. r \in 1..n
    BY <2>4 DEF RunIs
  <2>6. CASE i >= Pages
    <3>1. f[i] = -1
      BY <2>3, <2>6
    <3>2. \A c \in C : c < i
      BY <1>1, <1>5, <2>1, <2>6
    <3> QED BY <3>1, <3>2 DEF Lowest
  <2>7. CASE i < Pages
    <3>1. i % Pages = i /\ i + 0 = i
      <4>1. i \in 0..(2 * Pages - 1) /\ i + 0 = i
        BY <1>1, <2>1, <2>7
      <4>2. i % Pages = IF i < Pages THEN i ELSE i - Pages
        BY <1>1, <4>1, ModUp
      <4> QED BY <2>7, <4>1, <4>2
    <3>2. CASE pg[i] # "FREE"
      <4>1. i + 1 \in (i + 1)..m
        BY <1>1, <1>3, <2>1, <2>7
      <4>2. f[i] = f[i + 1]
        BY <1>1, <2>1, <2>3, <2>7, <3>2
      <4>3. Lowest(f[i], C, i + 1, -1)
        BY <1>6, <1>7, <4>1, <4>2
      <4>4. i \notin C
        <5>1. 0 \in 0..(n - 1)
          BY <1>1
        <5> QED BY <1>5, <3>1, <3>2, <5>1
      <4>5. \A c \in C : c \in Nat /\ (c < i + 1 => c < i)
        BY <1>1, <1>5, <2>1, <4>4
      <4> QED BY <2>1, <4>3, <4>5 DEF Lowest
    <3>3. CASE pg[i] = "FREE" /\ r = n
      <4>1. f[i] = i
        BY <1>1, <2>1, <2>3, <2>7, <3>3
      <4>2. ASSUME NEW k \in 0..(n - 1) PROVE pg[(i + k) % Pages] = "FREE"
        <5>1. CASE k = 0
          BY <3>1, <3>3, <5>1
        <5>2. CASE k # 0
          <6>1. k \in 1..(r - 1)
            BY <1>1, <3>3, <5>2
          <6> QED BY <2>4, <6>1 DEF RunIs
        <5> QED BY <5>1, <5>2
      <4>3. i \in 1..(Pages - 1)
        BY <1>1, <2>1, <2>7
      <4>4. i \in C
        BY <1>5, <4>2, <4>3
      <4>5. \A c \in C : c < i \/ i <= c
        BY <1>1, <1>5, <2>1
      <4> QED BY <2>1, <4>1, <4>4, <4>5 DEF Lowest
    <3>4. CASE pg[i] = "FREE" /\ r # n
      <4>1. i + r + 1 \in (i + 1)..m
        BY <1>1, <1>3, <2>1, <2>5, <2>7
      <4>2. f[i] = f[i + r + 1]
        BY <1>1, <2>1, <2>3, <2>7, <3>4
      <4>3. Lowest(f[i], C, i + r + 1, -1)
        BY <1>6, <1>7, <4>1, <4>2
      <4>4. pg[(i + r) % Pages] # "FREE"
        BY <2>4, <3>4 DEF RunIs
      <4>5. ASSUME NEW c \in C PROVE c \in Nat /\ (c < i + r + 1 => c < i)
        <5>1. c \in Nat /\ (\A k \in 0..(n - 1) : pg[(c + k) % Pages] = "FREE")
          BY <1>1, <1>5
        <5>2. PICK k : k = i + r - c
          OBVIOUS
        <5>3. c + k = i + r
          BY <2>1, <2>5, <5>1, <5>2
        <5>4. k \notin 0..(n - 1)
          BY <4>4, <5>1, <5>3
        <5> QED BY <1>1, <2>1, <2>5, <3>4, <5>1, <5>2, <5>4
      <4> QED BY <2>1, <2>5, <4>3, <4>5 DEF Lowest
    <3> QED BY <3>2, <3>3, <3>4
  <2> QED BY <1>1, <2>1, <2>6, <2>7
<1>8. Backwards(1, m, G)
  BY <1>6, <1>7 DEF Backwards
<1>9. m \in Int /\ 1 \in 1..m
  BY <1>1, <1>3
<1>10. 1 \in G
  BY <1>8, <1>9, SearchInduction
<1> QED BY <1>2, <1>4, <1>6, <1>10

\* What is found is free, wherever it wraps.
LEMMA FindsFree ==
  ASSUME VspaceAssumption, NEW pg, NEW n \in 1..MaxBlocks, NEW s,
         s = FindStart(pg, n), s # -1
  PROVE  s \in 1..(Pages - 1) /\ \A p \in Region(s, n) : pg[p] = "FREE"
<1>1. Lowest(s, Candidates(pg, n), 1, -1)
  BY FindsLowest
<1>2. s \in Candidates(pg, n)
  BY <1>1 DEF Lowest
<1> QED BY <1>2 DEF Candidates

\* What the lowest is.
LEMMA LowestIsMin ==
  ASSUME NEW C \in SUBSET Nat, NEW s, NEW i \in Nat, NEW no,
         Lowest(s, C, i, no), \A c \in C : i <= c
  PROVE  s = IF C = {} THEN no ELSE Min(C)
<1>1. CASE C = {}
  BY <1>1 DEF Lowest
<1>2. CASE C # {}
  <2>0. \A c \in C : c \in Nat /\ ~(c < i)
    OBVIOUS
  <2>1. s \in C /\ \A c \in C : s <= c
    BY <1>2, <2>0, Zenon DEF Lowest
  <2>2. PICK q : q = Min(C)
    OBVIOUS
  <2>3. q \in C /\ \A c \in C : q <= c
    BY <1>2, <2>2, MinFacts
  <2>4. s = q
    BY <2>1, <2>3
  <2> QED BY <1>2, <2>2, <2>4
<1> QED BY <1>1, <1>2

-----------------------------------------------------------------------------
(* The searches of pmm.c.                                                   *)

\* The blocks that are looked at.
Seen == Words * Word

LEMMA SeenFacts ==
  ASSUME VspaceAssumption, MemoryAssumption
  PROVE  /\ Pages \in Nat \ {0} /\ MaxBlocks \in Nat /\ MaxBlocks < Pages
         /\ Blocks \in Nat \ {0} /\ Blocks <= Pages
         /\ MaxDma \in Nat /\ Word \in Nat \ {0} /\ Words \in Nat
         /\ Seen \in Nat /\ Seen <= Blocks
<1>1. /\ Pages \in Nat \ {0} /\ MaxBlocks \in Nat /\ MaxBlocks < Pages
      /\ Blocks \in Nat \ {0} /\ Blocks <= Pages /\ Word \in Nat \ {0}
      /\ MaxDma \in Nat
  BY DEF VspaceAssumption, MemoryAssumption
<1>2. PICK w, b : w = Word /\ b = Blocks
  OBVIOUS
<1>3. b \div w \in Nat /\ (b \div w) * w <= b
  BY <1>1, <1>2, WordFacts
<1>4. PICK d : d = b \div w
  OBVIOUS
<1>5. d * w \in Nat
  BY <1>1, <1>2, <1>3, <1>4
<1> QED BY <1>1, <1>2, <1>3, <1>4, <1>5 DEF Words, Seen

\* Where the search goes on after a run of r blocks from b on.
After(b, r) == IF b + r + 1 < (b \div Word + 1) * Word THEN b + r + 1
               ELSE (b \div Word + 1) * Word

LEMMA AfterFacts ==
  ASSUME VspaceAssumption, MemoryAssumption, NEW b \in 0..(Seen - 1), NEW r \in Nat
  PROVE  /\ After(b, r) \in (b + 1)..Seen
         /\ After(b, r) <= b + r + 1
<1>1. b \in Nat /\ Word \in Nat \ {0} /\ Words \in Nat /\ Seen \in Nat /\ b < Seen
  BY SeenFacts
<1>2. PICK w, q, e : w = Word /\ q = Words /\ e = (b \div w + 1) * w
  OBVIOUS
<1>3. b < e /\ e \in Nat
  <2>1. b \div w \in Nat /\ b < (b \div w + 1) * w
    BY <1>1, <1>2, WordFacts
  <2>2. PICK d : d = b \div w + 1
    OBVIOUS
  <2>3. d * w \in Nat
    BY <1>1, <1>2, <2>1, <2>2
  <2> QED BY <1>2, <2>1, <2>2, <2>3
<1>4. e <= Seen
  <2>1. w \in Nat \ {0} /\ q \in Nat /\ b \in Nat /\ b < q * w
    BY <1>1, <1>2 DEF Seen
  <2>2. (b \div w + 1) * w <= q * w
    BY <2>1, WordEnds
  <2> QED BY <1>2, <2>2 DEF Seen
<1>5. After(b, r) = IF b + r + 1 < e THEN b + r + 1 ELSE e
  BY <1>2 DEF After
<1> QED BY <1>1, <1>3, <1>4, <1>5

\* r good blocks from block b on.
GoodIs(r, good, b, n) ==
  \/ r = n /\ b + n <= Blocks /\ \A p \in b..(b + n - 1) : p \in good
  \/ r \in 0..(n - 1) /\ b + r < Blocks /\ b + r \notin good
  \/ r = -1 /\ b + n > Blocks /\ \A p \in b..(Blocks - 1) : p \in good

LEMMA GoodRunFacts ==
  ASSUME Blocks \in Nat, NEW good, NEW b \in Nat, b < Blocks, NEW n \in Nat \ {0}
  PROVE  GoodIs(GoodRun(good, b, n), good, b, n)
<1>1. PICK bad : bad = {k \in 0..(n - 1) : b + k < Blocks => b + k \notin good}
  OBVIOUS
<1>2. PICK r : r = GoodRun(good, b, n)
  OBVIOUS
<1>3. r = IF bad = {} THEN n ELSE IF b + Min(bad) < Blocks THEN Min(bad) ELSE -1
  BY <1>1, <1>2 DEF GoodRun
<1>4. CASE bad = {}
  <2>1. \A k \in 0..(n - 1) : b + k < Blocks /\ b + k \in good
    BY <1>1, <1>4
  <2>2. n - 1 \in 0..(n - 1)
    OBVIOUS
  <2>3. b + n <= Blocks
    BY <2>1, <2>2
  <2>4. ASSUME NEW p \in b..(b + n - 1) PROVE p \in good
    <3>1. p - b \in 0..(n - 1) /\ b + (p - b) = p
      OBVIOUS
    <3> QED BY <2>1, <3>1
  <2> QED BY <1>2, <1>3, <1>4, <2>3, <2>4 DEF GoodIs
<1>5. CASE bad # {}
  <2>1. PICK k : k = Min(bad)
    OBVIOUS
  <2>2. bad \in SUBSET Nat
    BY <1>1
  <2>3. k \in bad /\ \A y \in bad : k <= y
    BY <1>5, <2>1, <2>2, MinFacts
  <2>4. k \in 0..(n - 1) /\ (b + k < Blocks => b + k \notin good)
    BY <1>1, <2>3
  <2>5. CASE b + k < Blocks
    BY <1>2, <1>3, <1>5, <2>1, <2>4, <2>5 DEF GoodIs
  <2>6. CASE ~(b + k < Blocks)
    <3>1. r = -1
      BY <1>3, <1>5, <2>1, <2>6
    <3>2. b + n > Blocks
      BY <2>4, <2>6
    <3>3. ASSUME NEW p \in b..(Blocks - 1) PROVE p \in good
      <4>1. PICK j : j = p - b
        OBVIOUS
      <4>2. j \in 0..(n - 1) /\ b + j = p /\ p < Blocks /\ ~(k <= j)
        BY <2>4, <2>6, <4>1
      <4>3. j \notin bad
        BY <2>3, <4>2
      <4> QED BY <1>1, <4>2, <4>3
    <3> QED BY <1>2, <3>1, <3>2, <3>3 DEF GoodIs
  <2> QED BY <2>5, <2>6
<1> QED BY <1>4, <1>5

\* The loops, from block b on.
Looks(f, good, n) ==
  \A b \in 0..Seen :
    f[b] = IF b = Seen THEN 0
           ELSE IF GoodRun(good, b, n) = n THEN b
           ELSE IF GoodRun(good, b, n) = -1 THEN -1
           ELSE f[After(b, GoodRun(good, b, n))]

LEMMA SearchBlocksLooks ==
  ASSUME VspaceAssumption, MemoryAssumption, NEW good, NEW n \in 1..MaxDma
  PROVE  \E f : SearchBlocks(good, n) = f[0] /\ Looks(f, good, n)
<1> DEFINE S == CHOOSE f : f = [b \in 0..Seen |->
                  IF b = Seen THEN 0
                  ELSE IF GoodRun(good, b, n) = n THEN b
                  ELSE IF GoodRun(good, b, n) = -1 THEN -1
                  ELSE f[After(b, GoodRun(good, b, n))]]
<1>1. SearchBlocks(good, n) = S[0]
  BY Zenon DEF SearchBlocks, Seen, After
<1>2. /\ Blocks \in Nat /\ Seen \in Nat /\ Seen <= Blocks /\ MaxDma \in Nat
      /\ n \in Nat \ {0}
  BY SeenFacts
<1>3. \E f : f = [b \in 0..Seen |->
                  IF b = Seen THEN 0
                  ELSE IF GoodRun(good, b, n) = n THEN b
                  ELSE IF GoodRun(good, b, n) = -1 THEN -1
                  ELSE f[After(b, GoodRun(good, b, n))]]
  <2>0. PICK m : m = Seen
    OBVIOUS
  <2>1. PICK stop, val, nxt :
          /\ stop = {b \in 0..m : b = m \/ GoodRun(good, b, n) \in {n, -1}}
          /\ val = [b \in 0..m |-> IF b = m THEN 0
                                   ELSE IF GoodRun(good, b, n) = n THEN b ELSE -1]
          /\ nxt = [b \in 0..m |-> After(b, GoodRun(good, b, n))]
    OBVIOUS
  <2>2. GoesUp(0, m, stop, nxt)
    <3>1. ASSUME NEW b \in 0..m, b \notin stop PROVE nxt[b] \in (b + 1)..m
      <4>1. PICK r : r = GoodRun(good, b, n)
        OBVIOUS
      <4>2. b \in Nat /\ b # m /\ r # n /\ r # -1 /\ b < Blocks /\ b \in 0..(Seen - 1)
        BY <1>2, <2>0, <2>1, <3>1, <4>1
      <4>3. GoodIs(r, good, b, n)
        BY <1>2, <4>1, <4>2, GoodRunFacts
      <4>4. r \in Nat
        BY <1>2, <4>2, <4>3 DEF GoodIs
      <4>5. After(b, r) \in (b + 1)..Seen
        BY <4>2, <4>4, AfterFacts
      <4> QED BY <2>0, <2>1, <4>1, <4>5
    <3> QED BY <3>1 DEF GoesUp
  <2>3. m \in Int /\ 0 \in Int
    BY <1>2, <2>0
  <2>4. PICK f : Searches(f, 0, m, stop, val, nxt)
    BY <2>2, <2>3, SearchDefined, Zenon
  <2>5. f = [b \in 0..m |-> IF b \in stop THEN val[b] ELSE f[nxt[b]]]
    BY <2>4 DEF Searches
  <2>6. ASSUME NEW b \in 0..m
        PROVE  f[b] = IF b = m THEN 0
                      ELSE IF GoodRun(good, b, n) = n THEN b
                      ELSE IF GoodRun(good, b, n) = -1 THEN -1
                      ELSE f[After(b, GoodRun(good, b, n))]
    <3>1. f[b] = IF b \in stop THEN val[b] ELSE f[nxt[b]]
      BY <2>5
    <3>2. b \in stop <=> (b = m \/ GoodRun(good, b, n) \in {n, -1})
      BY <2>1
    <3>3. /\ val[b] = IF b = m THEN 0 ELSE IF GoodRun(good, b, n) = n THEN b ELSE -1
          /\ nxt[b] = After(b, GoodRun(good, b, n))
      BY <2>1
    <3> QED BY <3>1, <3>2, <3>3
  <2>7. f = [b \in 0..m |-> f[b]]
    BY <2>5
  <2>8. f = [b \in 0..m |-> IF b = m THEN 0
                  ELSE IF GoodRun(good, b, n) = n THEN b
                  ELSE IF GoodRun(good, b, n) = -1 THEN -1
                  ELSE f[After(b, GoodRun(good, b, n))]]
    BY <2>6, <2>7
  <2> QED BY <2>0, <2>8
<1>4. S = [b \in 0..Seen |->
                  IF b = Seen THEN 0
                  ELSE IF GoodRun(good, b, n) = n THEN b
                  ELSE IF GoodRun(good, b, n) = -1 THEN -1
                  ELSE S[After(b, GoodRun(good, b, n))]]
  BY <1>3, Zenon
<1> HIDE DEF S
<1>5. Looks(S, good, n)
  BY <1>4 DEF Looks
<1> QED BY <1>1, <1>5

\* The starts of runs of n good blocks, and whether the blocks from e on are good.
RunFits(good, n) ==
  {b \in 0..(Seen - 1) : b + n <= Blocks /\ b..(b + n - 1) \subseteq good}
GoodEnd(good, e) == e..(Blocks - 1) \subseteq good

\* What a search that has reached block b finds.
LooksFrom(v, good, n, b) ==
  \/ v \in RunFits(good, n) /\ \A c \in RunFits(good, n) : c < b \/ v <= c
  \/ v = -1 /\ (\A c \in RunFits(good, n) : c < b) /\ \E e \in 0..(Seen - 1) : GoodEnd(good, e)
  \/ v = 0 /\ (\A c \in RunFits(good, n) : c < b) /\ \A e \in b..(Seen - 1) : ~GoodEnd(good, e)

LEMMA LooksExact ==
  ASSUME VspaceAssumption, MemoryAssumption, NEW good, NEW n \in 1..MaxDma
  PROVE  LooksFrom(SearchBlocks(good, n), good, n, 0)
<1>1. /\ Blocks \in Nat /\ Seen \in Nat /\ Seen <= Blocks /\ MaxDma \in Nat
      /\ n \in Nat \ {0}
  BY SeenFacts
<1>2. PICK f : SearchBlocks(good, n) = f[0] /\ Looks(f, good, n)
  BY SearchBlocksLooks
<1>3. PICK F : F = RunFits(good, n)
  OBVIOUS
<1>4. \A c : c \in F <=> c \in 0..(Seen - 1) /\ c + n <= Blocks
                         /\ (\A p \in c..(c + n - 1) : p \in good)
  BY <1>3 DEF RunFits
<1>5. \A e : GoodEnd(good, e) <=> \A p \in e..(Blocks - 1) : p \in good
  BY DEF GoodEnd
<1>6. PICK G : G = {b \in 0..Seen : LooksFrom(f[b], good, n, b)}
  OBVIOUS
<1>7. ASSUME NEW b \in 0..Seen, \A j \in (b + 1)..Seen : j \in G
      PROVE  LooksFrom(f[b], good, n, b)
  <2>1. b \in Nat /\ b <= Seen
    BY <1>1
  <2>2. PICK r : r = GoodRun(good, b, n)
    OBVIOUS
  <2>3. f[b] = IF b = Seen THEN 0
               ELSE IF r = n THEN b
               ELSE IF r = -1 THEN -1
               ELSE f[After(b, r)]
    BY <1>2, <2>2 DEF Looks
  <2>4. CASE b = Seen
    <3>1. f[b] = 0
      BY <2>3, <2>4
    <3>2. \A c \in F : c < b
      BY <1>1, <1>4, <2>4
    <3>3. \A e \in b..(Seen - 1) : ~GoodEnd(good, e)
      BY <1>1, <2>4
    <3> QED BY <1>3, <3>1, <3>2, <3>3 DEF LooksFrom
  <2>5. CASE b # Seen
    <3>1. b < Blocks /\ b \in 0..(Seen - 1)
      BY <1>1, <2>1, <2>5
    <3>2. GoodIs(r, good, b, n)
      BY <1>1, <2>1, <2>2, <3>1, GoodRunFacts
    <3>3. CASE r = n
      <4>1. b + n <= Blocks /\ \A p \in b..(b + n - 1) : p \in good
        BY <1>1, <3>2, <3>3 DEF GoodIs
      <4>2. b \in F
        BY <1>4, <3>1, <4>1
      <4>3. f[b] = b
        BY <2>3, <2>5, <3>3
      <4>4. \A c \in F : c < b \/ b <= c
        BY <1>1, <1>4, <2>1
      <4> QED BY <1>3, <4>2, <4>3, <4>4 DEF LooksFrom
    <3>4. CASE r = -1
      <4>1. b + n > Blocks /\ \A p \in b..(Blocks - 1) : p \in good
        BY <1>1, <3>2, <3>4 DEF GoodIs
      <4>2. \A c \in F : c < b
        BY <1>1, <1>4, <2>1, <4>1
      <4>3. f[b] = -1
        BY <1>1, <2>3, <2>5, <3>4
      <4>4. \E e \in 0..(Seen - 1) : GoodEnd(good, e)
        BY <1>5, <3>1, <4>1
      <4> QED BY <1>3, <4>2, <4>3, <4>4 DEF LooksFrom
    <3>5. CASE r # n /\ r # -1
      <4>1. r \in 0..(n - 1) /\ b + r < Blocks /\ b + r \notin good
        BY <3>2, <3>5 DEF GoodIs
      <4>2. r \in Nat
        BY <1>1, <4>1
      <4>3. PICK j : j = After(b, r)
        OBVIOUS
      <4>4. j \in (b + 1)..Seen /\ j <= b + r + 1
        BY <3>1, <4>2, <4>3, AfterFacts
      <4>5. f[b] = f[j]
        BY <2>3, <2>5, <3>5, <4>3
      <4>6. j \in G
        BY <1>7, <4>4
      <4>7. LooksFrom(f[b], good, n, j)
        BY <1>6, <4>5, <4>6
      <4>8. ASSUME NEW c \in F PROVE c < j => c < b
        <5>1. c \in Nat /\ (\A p \in c..(c + n - 1) : p \in good)
          BY <1>1, <1>4
        <5>2. b + r \notin c..(c + n - 1)
          BY <4>1, <5>1
        <5> QED BY <1>1, <2>1, <4>1, <4>4, <5>1, <5>2
      <4>9. ASSUME NEW e \in b..(Seen - 1), e < j PROVE ~GoodEnd(good, e)
        <5>1. b + r \in e..(Blocks - 1)
          BY <1>1, <2>1, <4>1, <4>4, <4>9
        <5> QED BY <1>5, <4>1, <5>1
      <4>10. CASE f[b] \in F /\ \A c \in F : c < j \/ f[b] <= c
        BY <1>3, <4>8, <4>10 DEF LooksFrom
      <4>11. CASE f[b] = -1 /\ (\A c \in F : c < j) /\ \E e \in 0..(Seen - 1) : GoodEnd(good, e)
        BY <1>3, <4>8, <4>11 DEF LooksFrom
      <4>12. CASE f[b] = 0 /\ (\A c \in F : c < j) /\ \A e \in j..(Seen - 1) : ~GoodEnd(good, e)
        <5>1. ASSUME NEW e \in b..(Seen - 1) PROVE ~GoodEnd(good, e)
          <6>1. CASE e < j
            BY <4>9, <6>1
          <6>2. CASE ~(e < j)
            <7>1. e \in j..(Seen - 1)
              BY <1>1, <2>1, <4>4, <6>2
            <7> QED BY <4>12, <7>1
          <6> QED BY <6>1, <6>2
        <5> QED BY <1>3, <4>8, <4>12, <5>1 DEF LooksFrom
      <4> QED BY <1>3, <4>7, <4>10, <4>11, <4>12 DEF LooksFrom
    <3> QED BY <3>3, <3>4, <3>5
  <2> QED BY <2>4, <2>5
<1>8. PICK m : m = Seen
  OBVIOUS
<1>9. Backwards(0, m, G)
  BY <1>6, <1>7, <1>8 DEF Backwards
<1>10. m \in Int /\ 0 \in 0..m
  BY <1>1, <1>8
<1>11. 0 \in G
  BY <1>9, <1>10, SearchInduction
<1> QED BY <1>2, <1>6, <1>11

\* The search of the code and what it is meant to find.
LEMMA SearchBlocksExact ==
  ASSUME VspaceAssumption, MemoryAssumption, NEW good, NEW n \in 1..MaxDma
  PROVE  BlockSearchIs(SearchBlocks(good, n), good, n)
<1>1. PICK v, F : v = SearchBlocks(good, n) /\ F = RunFits(good, n)
  OBVIOUS
<1>2. LooksFrom(v, good, n, 0)
  BY <1>1, LooksExact
<1>3. F \in SUBSET Nat /\ Seen \in Nat
  <2>1. Seen \in Nat
    BY SeenFacts
  <2> QED BY <1>1, <2>1 DEF RunFits
<1>4. \A c \in F : ~(c < 0)
  BY <1>3
<1>5. v = IF F # {} THEN Min(F)
          ELSE IF \E e \in 0..(Seen - 1) : GoodEnd(good, e) THEN -1 ELSE 0
  <2>1. CASE F = {}
    BY <1>1, <1>2, <1>4, <2>1 DEF LooksFrom
  <2>2. CASE F # {}
    <3>1. v \in F /\ \A c \in F : v <= c
      BY <1>1, <1>2, <1>4, <2>2, Zenon DEF LooksFrom
    <3>2. PICK q : q = Min(F)
      OBVIOUS
    <3>3. q \in F /\ \A c \in F : q <= c
      BY <1>3, <2>2, <3>2, MinFacts
    <3>4. v = q
      BY <1>3, <3>1, <3>3
    <3> QED BY <2>2, <3>2, <3>4
  <2> QED BY <2>1, <2>2
<1> QED BY <1>1, <1>5 DEF BlockSearchIs, RunFits, GoodEnd, Seen

\* What is found is good.
LEMMA SearchBlocksGood ==
  ASSUME VspaceAssumption, MemoryAssumption, NEW good, NEW n \in 1..MaxDma, NEW v,
         v = SearchBlocks(good, n), v > 0
  PROVE  v \in Nat /\ v + n <= Blocks /\ v..(v + n - 1) \subseteq good
<1>1. LooksFrom(v, good, n, 0)
  BY LooksExact
<1>2. v \in RunFits(good, n)
  BY <1>1 DEF LooksFrom
<1>3. Seen \in Nat
  BY SeenFacts
<1> QED BY <1>2, <1>3 DEF RunFits

\* One block: free and not block 0, unless there is none.
LEMMA FirstFreeFacts ==
  ASSUME VspaceAssumption, MemoryAssumption, NEW u
  PROVE  pmm_find_region(u, 1) = 0 \/ pmm_find_region(u, 1) \in (1..(Blocks - 1)) \ u
<1>1. Blocks \in Nat /\ Seen \in Nat /\ Seen <= Blocks
  BY SeenFacts
<1>2. PICK free, v : free = (0..(Seen - 1)) \ u /\ v = pmm_find_region(u, 1)
  OBVIOUS
<1>3. v = IF free = {} THEN 0 ELSE Min(free)
  BY <1>2 DEF pmm_find_region, pmm_find_first_free, Seen
<1>4. CASE free = {}
  BY <1>2, <1>3, <1>4
<1>5. CASE free # {}
  <2>1. free \in SUBSET Nat
    BY <1>1, <1>2
  <2>2. v \in free
    BY <1>3, <1>5, <2>1, MinFacts
  <2> QED BY <1>1, <1>2, <2>2
<1> QED BY <1>4, <1>5

\* What the calls up to the k-th have taken.
TakenIs(T, u, n) ==
  \A k \in 0..n :
    T[k] = IF k = 0 THEN {} ELSE T[k - 1] \cup {pmm_find_region(u \cup T[k - 1], 1)}

TakenFunction(T, u, n) ==
  T = [k \in 0..n |->
         IF k = 0 THEN {} ELSE T[k - 1] \cup {pmm_find_region(u \cup T[k - 1], 1)}]

LEMMA TakenDefined ==
  ASSUME NEW u, NEW n \in Nat
  PROVE  \E T : TakenFunction(T, u, n)
<1>1. PICK G : G = {k \in 0..n : \E T : TakenFunction(T, u, k)}
  OBVIOUS
<1>2. ASSUME NEW k \in 0..n, k # 0 => k - 1 \in G
      PROVE  \E T : TakenFunction(T, u, k)
  <2>1. PICK g : k # 0 => TakenFunction(g, u, k - 1)
    BY <1>1, <1>2
  <2>2. PICK w : w = IF k = 0 THEN {} ELSE g[k - 1] \cup {pmm_find_region(u \cup g[k - 1], 1)}
    OBVIOUS
  <2>3. PICK T : T = [j \in 0..k |-> IF j = k THEN w ELSE g[j]]
    OBVIOUS
  <2>4. ASSUME NEW j \in 0..k
        PROVE  T[j] = IF j = 0 THEN {} ELSE T[j - 1] \cup {pmm_find_region(u \cup T[j - 1], 1)}
    <3>1. j # 0 => j - 1 \in 0..k /\ j - 1 # k
      OBVIOUS
    <3>2. j # 0 => T[j - 1] = g[j - 1]
      BY <2>3, <3>1
    <3>3. CASE j = k
      <4>1. T[j] = w
        BY <2>3, <3>3
      <4> QED BY <2>2, <3>2, <3>3, <4>1
    <3>4. CASE j # k
      <4>1. k # 0 /\ j \in 0..(k - 1)
        BY <3>4
      <4>2. g[j] = IF j = 0 THEN {} ELSE g[j - 1] \cup {pmm_find_region(u \cup g[j - 1], 1)}
        BY <2>1, <4>1 DEF TakenFunction
      <4>3. T[j] = g[j]
        BY <2>3, <3>4
      <4> QED BY <3>2, <4>2, <4>3
    <3> QED BY <3>3, <3>4
  <2>5. T = [j \in 0..k |-> T[j]]
    BY <2>3
  <2>6. TakenFunction(T, u, k)
    BY <2>4, <2>5 DEF TakenFunction
  <2> QED BY <2>6
<1>3. Forwards(n, G)
  BY <1>1, <1>2 DEF Forwards
<1>4. n \in Int /\ n \in 0..n
  OBVIOUS
<1>5. n \in G
  BY <1>3, <1>4, StepInduction
<1> QED BY <1>1, <1>5

\* Blocks that are taken one by one were free.
LEMMA AllocEachFacts ==
  ASSUME VspaceAssumption, MemoryAssumption, NEW u, NEW n \in Nat,
         0 \notin pmm_alloc_each(u, n)
  PROVE  pmm_alloc_each(u, n) \subseteq (1..(Blocks - 1)) \ u
<1> DEFINE S == CHOOSE T : T = [k \in 0..n |->
         IF k = 0 THEN {} ELSE T[k - 1] \cup {pmm_find_region(u \cup T[k - 1], 1)}]
<1>1. pmm_alloc_each(u, n) = S[n]
  BY Zenon DEF pmm_alloc_each
<1>2. \E T : T = [k \in 0..n |->
         IF k = 0 THEN {} ELSE T[k - 1] \cup {pmm_find_region(u \cup T[k - 1], 1)}]
  <2>1. PICK T : TakenFunction(T, u, n)
    BY TakenDefined
  <2> QED BY <2>1 DEF TakenFunction
<1>3. S = [k \in 0..n |->
         IF k = 0 THEN {} ELSE S[k - 1] \cup {pmm_find_region(u \cup S[k - 1], 1)}]
  BY <1>2, Zenon
<1> HIDE DEF S
<1>4. TakenIs(S, u, n)
  BY <1>3 DEF TakenIs
<1>5. PICK G : G = {k \in 0..n : 0 \in S[k] \/ S[k] \subseteq (1..(Blocks - 1)) \ u}
  OBVIOUS
<1>6. ASSUME NEW k \in 0..n, k # 0 => k - 1 \in G
      PROVE  0 \in S[k] \/ S[k] \subseteq (1..(Blocks - 1)) \ u
  <2>1. CASE k = 0
    BY <1>4, <2>1 DEF TakenIs
  <2>2. CASE k # 0
    <3>1. PICK B, v : B = S[k - 1] /\ v = pmm_find_region(u \cup B, 1)
      OBVIOUS
    <3>2. S[k] = B \cup {v}
      BY <1>4, <2>2, <3>1 DEF TakenIs
    <3>3. 0 \in B \/ B \subseteq (1..(Blocks - 1)) \ u
      BY <1>5, <1>6, <2>2, <3>1
    <3>4. v = 0 \/ v \in (1..(Blocks - 1)) \ (u \cup B)
      BY <3>1, FirstFreeFacts
    <3> QED BY <3>2, <3>3, <3>4
  <2> QED BY <2>1, <2>2
<1>7. Forwards(n, G)
  BY <1>5, <1>6 DEF Forwards
<1>8. n \in Int /\ n \in 0..n
  OBVIOUS
<1>9. n \in G
  BY <1>7, <1>8, StepInduction
<1> QED BY <1>1, <1>5, <1>9

-----------------------------------------------------------------------------
(* The inductive invariant.                                                 *)

JobPages == [t \in Task |-> RegionOf(t)]
GrantPages == [c \in Client |-> PagesOf(c)]
GrantBlocks == [c \in Client |-> grant[c].blocks]

\* The blocks u are in use: since boot or by the holders, each by one.
BlocksHeld(u, H) ==
  /\ u = BootBlocks \cup UNION {H[c] : c \in Client}
  /\ \A c \in Client : H[c] \cap BootBlocks = {}
  /\ \A c \in Client, d \in Client : c # d => H[c] \cap H[d] = {}

\* The pages R of tasks and Q of clients are in use, each by one.
Owned(pg, R, Q) ==
  /\ \A t \in Task, u \in Task : t # u => R[t] \cap R[u] = {}
  /\ \A c \in Client, d \in Client : c # d => Q[c] \cap Q[d] = {}
  /\ \A c \in Client, t \in Task : Q[c] \cap R[t] = {}
  /\ \A c \in Client : Q[c] \cap Boot = {}
  /\ \A t \in Task : \A p \in R[t] : pg[p] = "PRESENT"
  /\ \A c \in Client : \A p \in Q[c] : pg[p] \in {"PRESENT", "GUARD"}

\* What a delayed cleanup leaves: it works on pages that were never the
\* kernel's own.
BootKept ==
  /\ \A p \in Boot : page[p] = "PRESENT"
  /\ \A t \in Task : JobPages[t] \cap Boot = {}

Stages ==
  \A t \in Task :
    /\ job[t].stage = "none" => JobPages[t] = {}
    /\ job[t].stage = "failing" => delayed

MemInv ==
  /\ MemoryTypeOK
  /\ BlocksHeld(used, GrantBlocks)
  /\ BootKept
  /\ Stages
  /\ ~delayed => Owned(page, JobPages, GrantPages)

-----------------------------------------------------------------------------
(* Taking and giving back.                                                  *)

LEMMA BlocksTaken ==
  ASSUME NEW u, NEW H, DOMAIN H = Client, BlocksHeld(u, H),
         NEW c \in Client, H[c] = {}, NEW B, B \cap u = {}
  PROVE  BlocksHeld(u \cup B, [H EXCEPT ![c] = B])
<1>1. PICK K : K = [H EXCEPT ![c] = B]
  OBVIOUS
<1>2. \A d \in Client : K[d] = IF d = c THEN B ELSE H[d]
  BY <1>1
<1>3. B \cap BootBlocks = {} /\ \A d \in Client : B \cap H[d] = {}
  BY DEF BlocksHeld
<1>4. u \cup B = BootBlocks \cup UNION {K[d] : d \in Client}
  <2>1. ASSUME NEW x \in u \cup B PROVE x \in BootBlocks \cup UNION {K[d] : d \in Client}
    <3>1. CASE x \in B
      BY <1>2, <3>1
    <3>2. CASE x \in BootBlocks
      BY <3>2
    <3>3. CASE x \in u \ BootBlocks
      <4>1. PICK d \in Client : x \in H[d]
        BY <3>3 DEF BlocksHeld
      <4>2. K[d] = H[d]
        BY <1>2, <4>1
      <4> QED BY <4>1, <4>2
    <3> QED BY <3>1, <3>2, <3>3
  <2>2. ASSUME NEW x \in BootBlocks \cup UNION {K[d] : d \in Client} PROVE x \in u \cup B
    <3>1. CASE x \in BootBlocks
      BY <3>1 DEF BlocksHeld
    <3>2. CASE x \notin BootBlocks
      <4>1. PICK d \in Client : x \in K[d]
        BY <3>2
      <4> QED BY <1>2, <4>1 DEF BlocksHeld
    <3> QED BY <3>1, <3>2
  <2> QED BY <2>1, <2>2
<1>5. \A d \in Client : K[d] \cap BootBlocks = {}
  BY <1>2, <1>3 DEF BlocksHeld
<1>6. \A d \in Client, e \in Client : d # e => K[d] \cap K[e] = {}
  <2>1. ASSUME NEW d \in Client, NEW e \in Client, d # e PROVE K[d] \cap K[e] = {}
    <3>1. CASE d = c
      BY <1>2, <1>3, <2>1, <3>1
    <3>2. CASE e = c
      BY <1>2, <1>3, <2>1, <3>2
    <3>3. CASE d # c /\ e # c
      BY <1>2, <2>1, <3>3 DEF BlocksHeld
    <3> QED BY <3>1, <3>2, <3>3
  <2> QED BY <2>1
<1> QED BY <1>1, <1>4, <1>5, <1>6 DEF BlocksHeld

LEMMA BlocksReturned ==
  ASSUME NEW u, NEW H, DOMAIN H = Client, BlocksHeld(u, H), NEW c \in Client
  PROVE  BlocksHeld(u \ H[c], [H EXCEPT ![c] = {}])
<1>1. PICK K : K = [H EXCEPT ![c] = {}]
  OBVIOUS
<1>2. \A d \in Client : K[d] = IF d = c THEN {} ELSE H[d]
  BY <1>1
<1>3. u \ H[c] = BootBlocks \cup UNION {K[d] : d \in Client}
  <2>1. ASSUME NEW x \in u \ H[c] PROVE x \in BootBlocks \cup UNION {K[d] : d \in Client}
    <3>1. CASE x \in BootBlocks
      BY <3>1
    <3>2. CASE x \notin BootBlocks
      <4>1. PICK d \in Client : x \in H[d]
        BY <2>1, <3>2 DEF BlocksHeld
      <4>2. K[d] = H[d]
        BY <1>2, <2>1, <4>1
      <4> QED BY <4>1, <4>2
    <3> QED BY <3>1, <3>2
  <2>2. ASSUME NEW x \in BootBlocks \cup UNION {K[d] : d \in Client} PROVE x \in u \ H[c]
    <3>1. CASE x \in BootBlocks
      BY <3>1 DEF BlocksHeld
    <3>2. CASE x \notin BootBlocks
      <4>1. PICK d \in Client : x \in K[d]
        BY <3>2
      <4>2. d # c /\ x \in H[d]
        BY <1>2, <4>1
      <4> QED BY <4>2 DEF BlocksHeld
    <3> QED BY <3>1, <3>2
  <2> QED BY <2>1, <2>2
<1>4. \A d \in Client : K[d] \cap BootBlocks = {}
  BY <1>2 DEF BlocksHeld
<1>5. \A d \in Client, e \in Client : d # e => K[d] \cap K[e] = {}
  BY <1>2 DEF BlocksHeld
<1> QED BY <1>1, <1>3, <1>4, <1>5 DEF BlocksHeld

\* h differs from g at most on the pages N.
Outside(h, g, N) == \A p \in Page : p \notin N => h[p] = g[p]

\* Pages that were free change: nobody's.
LEMMA FreePagesChange ==
  ASSUME NEW g, NEW h, NEW R \in [Task -> SUBSET Page], NEW Q \in [Client -> SUBSET Page],
         Owned(g, R, Q), NEW N, \A p \in N : g[p] = "FREE", Outside(h, g, N)
  PROVE  /\ Owned(h, R, Q)
         /\ \A t \in Task : R[t] \cap N = {}
         /\ \A c \in Client : Q[c] \cap N = {}
<1>1. ASSUME NEW t \in Task, NEW p \in R[t] PROVE p \notin N /\ h[p] = "PRESENT"
  <2>1. p \in Page /\ g[p] = "PRESENT"
    BY DEF Owned
  <2>2. p \notin N
    BY <2>1
  <2> QED BY <2>1, <2>2 DEF Outside
<1>2. ASSUME NEW c \in Client, NEW p \in Q[c]
      PROVE  p \notin N /\ h[p] \in {"PRESENT", "GUARD"}
  <2>1. p \in Page /\ g[p] \in {"PRESENT", "GUARD"}
    BY DEF Owned
  <2>2. p \notin N
    BY <2>1
  <2> QED BY <2>1, <2>2 DEF Outside
<1> QED BY <1>1, <1>2 DEF Owned

\* A task takes free pages, or gives its own back.
LEMMA TaskPages ==
  ASSUME NEW g, NEW h, NEW R \in [Task -> SUBSET Page], NEW Q \in [Client -> SUBSET Page],
         Owned(g, R, Q), NEW t \in Task, NEW N \in SUBSET Page
  PROVE  /\ ( /\ \A p \in N : g[p] = "FREE"
              /\ Outside(h, g, N)
              /\ \A p \in N : h[p] = "PRESENT" )
            => Owned(h, [R EXCEPT ![t] = N], Q)
         /\ Outside(h, g, R[t]) => Owned(h, [R EXCEPT ![t] = {}], Q)
<1>1. ASSUME \A p \in N : g[p] = "FREE", Outside(h, g, N), \A p \in N : h[p] = "PRESENT"
      PROVE  Owned(h, [R EXCEPT ![t] = N], Q)
  <2>1. PICK K : K = [R EXCEPT ![t] = N]
    OBVIOUS
  <2>2. \A u \in Task : K[u] = IF u = t THEN N ELSE R[u]
    BY <2>1
  <2>3. Owned(h, R, Q)
    BY <1>1, FreePagesChange
  <2>4. \A u \in Task : R[u] \cap N = {}
    BY <1>1, FreePagesChange
  <2>5. \A c \in Client : Q[c] \cap N = {}
    BY <1>1, FreePagesChange
  <2>6. \A u \in Task, v \in Task : u # v => K[u] \cap K[v] = {}
    <3>1. ASSUME NEW u \in Task, NEW v \in Task, u # v PROVE K[u] \cap K[v] = {}
      <4>1. CASE u = t
        BY <2>2, <2>4, <3>1, <4>1
      <4>2. CASE v = t
        BY <2>2, <2>4, <3>1, <4>2
      <4>3. CASE u # t /\ v # t
        BY <2>2, <2>3, <3>1, <4>3 DEF Owned
      <4> QED BY <4>1, <4>2, <4>3
    <3> QED BY <3>1
  <2>7. \A c \in Client, u \in Task : Q[c] \cap K[u] = {}
    BY <2>2, <2>3, <2>5 DEF Owned
  <2>8. \A u \in Task : \A p \in K[u] : h[p] = "PRESENT"
    BY <1>1, <2>2, <2>3 DEF Owned
  <2> QED BY <2>1, <2>3, <2>6, <2>7, <2>8 DEF Owned
<1>2. ASSUME Outside(h, g, R[t]) PROVE Owned(h, [R EXCEPT ![t] = {}], Q)
  <2>1. PICK K : K = [R EXCEPT ![t] = {}]
    OBVIOUS
  <2>2. \A u \in Task : K[u] = IF u = t THEN {} ELSE R[u]
    BY <2>1
  <2>3. ASSUME NEW u \in Task, NEW p \in K[u] PROVE h[p] = "PRESENT"
    <3>1. u # t /\ p \in R[u]
      BY <2>2, <2>3
    <3>2. p \in Page /\ p \notin R[t] /\ g[p] = "PRESENT"
      BY <3>1 DEF Owned
    <3> QED BY <1>2, <3>2 DEF Outside
  <2>4. ASSUME NEW c \in Client, NEW p \in Q[c] PROVE h[p] \in {"PRESENT", "GUARD"}
    <3>1. p \in Page /\ p \notin R[t] /\ g[p] \in {"PRESENT", "GUARD"}
      BY DEF Owned
    <3> QED BY <1>2, <3>1 DEF Outside
  <2>5. \A u \in Task, v \in Task : u # v => K[u] \cap K[v] = {}
    BY <2>2 DEF Owned
  <2>6. \A c \in Client, u \in Task : Q[c] \cap K[u] = {}
    BY <2>2 DEF Owned
  <2> QED BY <2>1, <2>3, <2>4, <2>5, <2>6 DEF Owned
<1> QED BY <1>1, <1>2

\* A client does.
LEMMA ClientPages ==
  ASSUME NEW g, NEW h, NEW R \in [Task -> SUBSET Page], NEW Q \in [Client -> SUBSET Page],
         Owned(g, R, Q), NEW c \in Client, NEW N \in SUBSET Page
  PROVE  /\ ( /\ \A p \in N : g[p] = "FREE"
              /\ N \cap Boot = {}
              /\ Outside(h, g, N)
              /\ \A p \in N : h[p] \in {"PRESENT", "GUARD"} )
            => Owned(h, R, [Q EXCEPT ![c] = N])
         /\ Outside(h, g, Q[c]) => Owned(h, R, [Q EXCEPT ![c] = {}])
<1>1. ASSUME \A p \in N : g[p] = "FREE", N \cap Boot = {}, Outside(h, g, N),
             \A p \in N : h[p] \in {"PRESENT", "GUARD"}
      PROVE  Owned(h, R, [Q EXCEPT ![c] = N])
  <2>1. PICK K : K = [Q EXCEPT ![c] = N]
    OBVIOUS
  <2>2. \A d \in Client : K[d] = IF d = c THEN N ELSE Q[d]
    BY <2>1
  <2>3. Owned(h, R, Q)
    BY <1>1, FreePagesChange
  <2>4. \A u \in Task : R[u] \cap N = {}
    BY <1>1, FreePagesChange
  <2>5. \A d \in Client : Q[d] \cap N = {}
    BY <1>1, FreePagesChange
  <2>6. \A d \in Client, e \in Client : d # e => K[d] \cap K[e] = {}
    <3>1. ASSUME NEW d \in Client, NEW e \in Client, d # e PROVE K[d] \cap K[e] = {}
      <4>1. CASE d = c
        BY <2>2, <2>5, <3>1, <4>1
      <4>2. CASE e = c
        BY <2>2, <2>5, <3>1, <4>2
      <4>3. CASE d # c /\ e # c
        BY <2>2, <2>3, <3>1, <4>3 DEF Owned
      <4> QED BY <4>1, <4>2, <4>3
    <3> QED BY <3>1
  <2>7. \A d \in Client, u \in Task : K[d] \cap R[u] = {}
    BY <2>2, <2>3, <2>4 DEF Owned
  <2>8. \A d \in Client : K[d] \cap Boot = {}
    BY <1>1, <2>2, <2>3 DEF Owned
  <2>9. \A d \in Client : \A p \in K[d] : h[p] \in {"PRESENT", "GUARD"}
    BY <1>1, <2>2, <2>3 DEF Owned
  <2> QED BY <2>1, <2>3, <2>6, <2>7, <2>8, <2>9 DEF Owned
<1>2. ASSUME Outside(h, g, Q[c]) PROVE Owned(h, R, [Q EXCEPT ![c] = {}])
  <2>1. PICK K : K = [Q EXCEPT ![c] = {}]
    OBVIOUS
  <2>2. \A d \in Client : K[d] = IF d = c THEN {} ELSE Q[d]
    BY <2>1
  <2>3. ASSUME NEW d \in Client, NEW p \in K[d] PROVE h[p] \in {"PRESENT", "GUARD"}
    <3>1. d # c /\ p \in Q[d]
      BY <2>2, <2>3
    <3>2. p \in Page /\ p \notin Q[c] /\ g[p] \in {"PRESENT", "GUARD"}
      BY <3>1 DEF Owned
    <3> QED BY <1>2, <3>2 DEF Outside
  <2>4. ASSUME NEW u \in Task, NEW p \in R[u] PROVE h[p] = "PRESENT"
    <3>1. p \in Page /\ p \notin Q[c] /\ g[p] = "PRESENT"
      BY DEF Owned
    <3> QED BY <1>2, <3>1 DEF Outside
  <2>5. \A d \in Client, e \in Client : d # e => K[d] \cap K[e] = {}
    BY <2>2 DEF Owned
  <2>6. \A d \in Client, u \in Task : K[d] \cap R[u] = {}
    BY <2>2 DEF Owned
  <2>7. \A d \in Client : K[d] \cap Boot = {}
    BY <2>2 DEF Owned
  <2> QED BY <2>1, <2>3, <2>4, <2>5, <2>6, <2>7 DEF Owned
<1> QED BY <1>1, <1>2

-----------------------------------------------------------------------------
(* What the steps do to the pages.                                          *)

Kinds == {"FREE", "RESERVED", "GUARD", "PRESENT"}

LEMMA RegionFacts ==
  ASSUME VspaceAssumption, NEW s \in Nat, NEW n \in Nat
  PROVE  /\ Region(s, n) \in SUBSET Page
         /\ \A k \in 0..(n - 1) : (s + k) % Pages \in Region(s, n)
         /\ \A i \in 0..n : Region(s, i) \subseteq Region(s, n)
         /\ Region(s, 0) = {}
<1>1. Pages \in Nat \ {0}
  BY DEF VspaceAssumption
<1>2. ASSUME NEW k \in 0..(n - 1) PROVE (s + k) % Pages \in Page
  <2>1. PICK a : a = s + k
    OBVIOUS
  <2>2. a \in Nat
    BY <2>1
  <2>3. a % Pages \in 0..(Pages - 1)
    BY <1>1, <2>2
  <2> QED BY <2>1, <2>3 DEF Page
<1>3. Region(s, n) \in SUBSET Page
  BY <1>2 DEF Region
<1>4. \A k \in 0..(n - 1) : (s + k) % Pages \in Region(s, n)
  BY DEF Region
<1>5. ASSUME NEW i \in 0..n, NEW p \in Region(s, i) PROVE p \in Region(s, n)
  <2>1. PICK k \in 0..(i - 1) : p = (s + k) % Pages
    BY DEF Region
  <2>2. k \in 0..(n - 1)
    OBVIOUS
  <2> QED BY <2>1, <2>2 DEF Region
<1>6. Region(s, 0) = {}
  BY DEF Region
<1> QED BY <1>3, <1>4, <1>5, <1>6

\* A region that does not wrap.
LEMMA RegionStraight ==
  ASSUME VspaceAssumption, NEW s \in Nat, NEW n \in Nat, s + n <= Pages
  PROVE  Region(s, n) = s..(s + n - 1)
<1>1. Pages \in Nat \ {0}
  BY DEF VspaceAssumption
<1>2. ASSUME NEW k \in 0..(n - 1) PROVE (s + k) % Pages = s + k
  <2>1. PICK a : a = s + k
    OBVIOUS
  <2>2. a \in 0..(2 * Pages - 1) /\ a < Pages
    BY <1>1, <2>1
  <2>3. a % Pages = a
    BY <1>1, <2>2, ModUp
  <2> QED BY <2>1, <2>3
<1>3. ASSUME NEW p \in Region(s, n) PROVE p \in s..(s + n - 1)
  <2>1. PICK k \in 0..(n - 1) : p = (s + k) % Pages
    BY DEF Region
  <2> QED BY <1>2, <2>1
<1>4. ASSUME NEW p \in s..(s + n - 1) PROVE p \in Region(s, n)
  <2>1. PICK k : k = p - s
    OBVIOUS
  <2>2. k \in 0..(n - 1) /\ s + k = p
    BY <2>1
  <2>3. p = (s + k) % Pages
    BY <1>2, <2>2
  <2> QED BY <2>2, <2>3 DEF Region
<1> QED BY <1>3, <1>4

\* The pages that are marked lie in the region, also where it wraps.
LEMMA ReserveFacts ==
  ASSUME VspaceAssumption, NEW g \in [Page -> Kinds],
         NEW s \in 1..(Pages - 1), NEW n \in 1..MaxBlocks
  PROVE  Reserve(g, s, n) \in [Page -> Kinds] /\ Outside(Reserve(g, s, n), g, Region(s, n))
<1>1. /\ Pages \in Nat \ {0} /\ MaxBlocks \in Nat /\ MaxBlocks < Pages
      /\ s \in Nat /\ n \in Nat \ {0} /\ s < Pages /\ n < Pages
  BY DEF VspaceAssumption
<1>2. PICK h, e : h = Reserve(g, s, n) /\ e = (s + n) % Pages
  OBVIOUS
<1>3. h = [p \in Page |-> IF s <= p /\ p < e THEN "RESERVED" ELSE g[p]]
  BY <1>2 DEF Reserve
<1>4. h \in [Page -> Kinds]
  BY <1>3 DEF Kinds
<1>5. ASSUME NEW p \in Page, s <= p /\ p < e PROVE p \in Region(s, n)
  <2>1. PICK a : a = s + n
    OBVIOUS
  <2>2. a \in 0..(2 * Pages - 1)
    BY <1>1, <2>1
  <2>3. e = IF a < Pages THEN a ELSE a - Pages
    BY <1>1, <1>2, <2>1, <2>2, ModUp
  <2>4. p \in Nat
    BY DEF Page
  <2>5. s + n < Pages /\ e = s + n
    BY <1>1, <1>5, <2>1, <2>3, <2>4
  <2>6. p \in s..(s + n - 1)
    BY <1>1, <1>5, <2>4, <2>5
  <2>7. Region(s, n) = s..(s + n - 1)
    BY <1>1, <2>5, RegionStraight
  <2> QED BY <2>6, <2>7
<1>6. Outside(h, g, Region(s, n))
  BY <1>3, <1>5 DEF Outside
<1> QED BY <1>2, <1>4, <1>6

\* w is h with v on the pages M, and g outside of N.
SetIs(w, h, g, M, N, v) ==
  /\ w \in [Page -> Kinds]
  /\ Outside(w, g, N)
  /\ \A p \in Page : w[p] = IF p \in M THEN v ELSE h[p]

LEMMA SetFacts ==
  ASSUME NEW g \in [Page -> Kinds], NEW h \in [Page -> Kinds], NEW M, NEW N,
         NEW v \in Kinds, Outside(h, g, N), M \subseteq N
  PROVE  SetIs(Set(h, M, v), h, g, M, N, v)
BY DEF Set, SetIs, Outside

\* A region is reserved and mapped.
LEMMA MapsRegion ==
  ASSUME VspaceAssumption, NEW g \in [Page -> Kinds],
         NEW s \in 1..(Pages - 1), NEW n \in 1..MaxBlocks, NEW h,
         h = Set(Reserve(g, s, n), Region(s, n), "PRESENT")
  PROVE  /\ h \in [Page -> Kinds] /\ Outside(h, g, Region(s, n))
         /\ \A p \in Region(s, n) : h[p] = "PRESENT"
<1>1. PICK r, N : r = Reserve(g, s, n) /\ N = Region(s, n)
  OBVIOUS
<1>2. r \in [Page -> Kinds] /\ Outside(r, g, N)
  BY <1>1, ReserveFacts
<1>3. s \in Nat /\ n \in Nat
  BY DEF VspaceAssumption
<1>4. N \in SUBSET Page
  BY <1>1, <1>3, RegionFacts
<1>5. "PRESENT" \in Kinds
  BY DEF Kinds
<1>6. /\ h \in [Page -> Kinds] /\ Outside(h, g, N)
      /\ \A p \in Page : h[p] = IF p \in N THEN "PRESENT" ELSE r[p]
  <2>1. SetIs(h, r, g, N, N, "PRESENT")
    BY <1>1, <1>2, <1>5, SetFacts
  <2> QED BY <2>1 DEF SetIs
<1> QED BY <1>1, <1>4, <1>6

\* A mapping that fails, and its cleanup.
LEMMA CleanUpFacts ==
  ASSUME VspaceAssumption, NEW g \in [Page -> Kinds], NEW h \in [Page -> Kinds],
         NEW s \in Page, NEW n \in 0..MaxBlocks, Outside(h, g, Region(s, n)),
         NEW w, w = CleanUp(h, s, n) \/ w = CopyCleanUp(h, s, n)
  PROVE  w \in [Page -> Kinds] /\ Outside(w, g, Region(s, n))
<1>1. s \in Nat /\ n \in Nat
  BY DEF VspaceAssumption, Page
<1>2. "FREE" \in Kinds
  BY DEF Kinds
<1>0. PICK N : N = Region(s, n)
  OBVIOUS
<1>3. CASE w = CopyCleanUp(h, s, n)
  <2>1. w = Set(h, N, "FREE")
    BY <1>0, <1>3 DEF CopyCleanUp
  <2>2. SetIs(w, h, g, N, N, "FREE")
    BY <1>0, <1>2, <2>1, SetFacts
  <2> QED BY <1>0, <2>2 DEF SetIs
<1>4. CASE w = CleanUp(h, s, n)
  <2>1. PICK free, first :
          /\ free = {k \in 0..(n - 1) : h[(s + k) % Pages] = "FREE"}
          /\ first = IF free = {} THEN n ELSE Min(free)
    OBVIOUS
  <2>2. PICK M : M = Region(s, first) /\ w = Set(h, M, "FREE")
    BY <1>4, <2>1 DEF CleanUp
  <2>3. first \in 0..n
    <3>1. free \in SUBSET Nat
      BY <1>1, <2>1
    <3>2. free # {} => first \in free
      BY <2>1, <3>1, MinFacts
    <3> QED BY <1>1, <2>1, <3>2
  <2>4. M \subseteq N
    BY <1>0, <1>1, <2>2, <2>3, RegionFacts
  <2>5. SetIs(w, h, g, M, N, "FREE")
    BY <1>0, <1>2, <2>2, <2>4, SetFacts
  <2> QED BY <1>0, <2>5 DEF SetIs
<1> QED BY <1>3, <1>4

LEMMA FailFacts ==
  ASSUME VspaceAssumption, page \in [Page -> Kinds],
         NEW s \in 1..(Pages - 1), NEW n \in 1..MaxBlocks, NEW i \in 0..(n - 1)
  PROVE  FailedAt(s, n, i) \in [Page -> Kinds] /\ Outside(FailedAt(s, n, i), page, Region(s, n))
<1>1. PICK g, r, N : g = page /\ r = Reserve(page, s, n) /\ N = Region(s, n)
  OBVIOUS
<1>2. g \in [Page -> Kinds] /\ r \in [Page -> Kinds] /\ Outside(r, g, N)
  BY <1>1, ReserveFacts
<1>3. s \in Nat /\ n \in Nat /\ i \in 0..n
  BY DEF VspaceAssumption
<1>4. PICK A, B : A = Region(s, i) /\ B = {(s + i) % Pages}
  OBVIOUS
<1>5. A \subseteq N /\ B \subseteq N
  <2>1. A \subseteq N
    BY <1>1, <1>3, <1>4, RegionFacts
  <2>2. (s + i) % Pages \in N
    BY <1>1, <1>3, RegionFacts
  <2> QED BY <1>4, <2>1, <2>2
<1>6. "PRESENT" \in Kinds /\ "FREE" \in Kinds
  BY DEF Kinds
<1>7. PICK a, b : a = Set(r, A, "PRESENT") /\ b = Set(a, B, "FREE")
  OBVIOUS
<1>8. a \in [Page -> Kinds] /\ Outside(a, g, N)
  <2>1. SetIs(a, r, g, A, N, "PRESENT")
    BY <1>2, <1>5, <1>6, <1>7, SetFacts
  <2> QED BY <2>1 DEF SetIs
<1>9. b \in [Page -> Kinds] /\ Outside(b, g, N)
  <2>1. SetIs(b, a, g, B, N, "FREE")
    BY <1>2, <1>5, <1>6, <1>7, <1>8, SetFacts
  <2> QED BY <2>1 DEF SetIs
<1> QED BY <1>1, <1>4, <1>7, <1>9 DEF FailedAt

\* A kernel stack between its guards.
LEMMA StackFacts ==
  ASSUME VspaceAssumption, MemoryAssumption, NEW g \in [Page -> Kinds],
         NEW s \in 1..(Pages - 1), NEW h,
         h = Set(Set(Reserve(g, s, KStack), {s, (s + KStack - 1) % Pages}, "GUARD"),
                 Region(s + 1, KStack - 2), "PRESENT")
  PROVE  /\ h \in [Page -> Kinds] /\ Outside(h, g, Region(s, KStack))
         /\ \A p \in Region(s, KStack) : h[p] \in {"PRESENT", "GUARD"}
<1>1. /\ KStack \in 1..MaxBlocks /\ KStack \in Nat /\ KStack >= 3 /\ s \in Nat
      /\ Pages \in Nat \ {0} /\ s < Pages
  BY DEF VspaceAssumption, MemoryAssumption
<1>2. PICK n, r, N : n = KStack /\ r = Reserve(g, s, n) /\ N = Region(s, n)
  OBVIOUS
<1>3. r \in [Page -> Kinds] /\ Outside(r, g, N)
  BY <1>1, <1>2, ReserveFacts
<1>4. PICK A, B : A = {s, (s + n - 1) % Pages} /\ B = Region(s + 1, n - 2)
  OBVIOUS
<1>5. \A k \in 0..(n - 1) : (s + k) % Pages \in N
  BY <1>1, <1>2, RegionFacts
<1>6. (s + 0) % Pages = s
  <2>1. s \in 0..(2 * Pages - 1) /\ s + 0 = s
    BY <1>1
  <2>2. s % Pages = s
    BY <1>1, <2>1, ModUp
  <2> QED BY <2>1, <2>2
<1>7. A \subseteq N
  <2>1. 0 \in 0..(n - 1) /\ n - 1 \in 0..(n - 1) /\ s + (n - 1) = s + n - 1
    BY <1>1, <1>2
  <2> QED BY <1>4, <1>5, <1>6, <2>1
<1>8. ASSUME NEW k \in 1..(n - 2) PROVE (s + k) % Pages \in B
  <2>1. k - 1 \in 0..((n - 2) - 1) /\ (s + 1) + (k - 1) = s + k
    BY <1>1, <1>2
  <2>2. PICK j : j = k - 1
    OBVIOUS
  <2>3. ((s + 1) + j) % Pages \in B
    BY <1>4, <2>1, <2>2 DEF Region
  <2> QED BY <2>1, <2>2, <2>3
<1>9. B \subseteq N
  <2>1. ASSUME NEW p \in B PROVE p \in N
    <3>1. PICK j \in 0..((n - 2) - 1) : p = ((s + 1) + j) % Pages
      BY <1>4, <2>1 DEF Region
    <3>2. PICK k : k = j + 1
      OBVIOUS
    <3>3. k \in 0..(n - 1) /\ (s + 1) + j = s + k
      BY <1>1, <1>2, <3>2
    <3> QED BY <1>5, <3>1, <3>3
  <2> QED BY <2>1
<1>10. "PRESENT" \in Kinds /\ "GUARD" \in Kinds
  BY DEF Kinds
<1>11. PICK a : a = Set(r, A, "GUARD")
  OBVIOUS
<1>12. /\ a \in [Page -> Kinds] /\ Outside(a, g, N)
       /\ \A p \in Page : a[p] = IF p \in A THEN "GUARD" ELSE r[p]
  <2>1. SetIs(a, r, g, A, N, "GUARD")
    BY <1>3, <1>7, <1>10, <1>11, SetFacts
  <2> QED BY <2>1 DEF SetIs
<1>13. h = Set(a, B, "PRESENT")
  BY <1>2, <1>4, <1>11
<1>14. /\ h \in [Page -> Kinds] /\ Outside(h, g, N)
       /\ \A p \in Page : h[p] = IF p \in B THEN "PRESENT" ELSE a[p]
  <2>1. SetIs(h, a, g, B, N, "PRESENT")
    BY <1>9, <1>10, <1>12, <1>13, SetFacts
  <2> QED BY <2>1 DEF SetIs
<1>15. N \in SUBSET Page
  BY <1>1, <1>2, RegionFacts
<1>16. ASSUME NEW p \in N PROVE h[p] \in {"PRESENT", "GUARD"}
  <2>1. PICK k \in 0..(n - 1) : p = (s + k) % Pages
    BY <1>2 DEF Region
  <2>2. p \in A \/ p \in B
    <3>1. CASE k = 0
      BY <1>4, <1>6, <2>1, <3>1
    <3>2. CASE k = n - 1
      <4>1. s + k = s + n - 1
        BY <1>1, <1>2, <3>2
      <4> QED BY <1>4, <2>1, <4>1
    <3>3. CASE k # 0 /\ k # n - 1
      <4>1. k \in 1..(n - 2)
        BY <1>1, <1>2, <3>3
      <4> QED BY <1>8, <2>1, <4>1
    <3> QED BY <3>1, <3>2, <3>3
  <2> QED BY <1>12, <1>14, <1>15, <2>2
<1> QED BY <1>2, <1>14, <1>16

-----------------------------------------------------------------------------
(* The steps.                                                               *)

LEMMA InvInit ==
  ASSUME VspaceAssumption, MemoryAssumption, MemoryInit
  PROVE  MemInv
<1>1. /\ Pages \in Nat \ {0} /\ MaxBlocks \in Nat /\ Blocks \in Nat /\ 0 \in Page
      /\ Boot \subseteq Page /\ BootBlocks \subseteq Block
  BY DEF VspaceAssumption, MemoryAssumption, Page, Block
<1>2. /\ page = [p \in Page |-> IF p \in Boot THEN "PRESENT" ELSE "FREE"]
      /\ job = [t \in Task |-> NoJob] /\ delayed = FALSE
      /\ used = BootBlocks /\ grant = [c \in Client |-> NoGrant]
  BY DEF MemoryInit, Init
<1>3. VspaceTypeOK
  <2>1. page \in [Page -> {"FREE", "RESERVED", "GUARD", "PRESENT"}]
    BY <1>2
  <2>2. NoJob \in [stage: {"none", "mapped", "failing"}, start: Page, blocks: 0..MaxBlocks]
    BY <1>1 DEF NoJob
  <2> QED BY <1>2, <2>1, <2>2 DEF VspaceTypeOK
<1>4. MemoryTypeOK
  <2>1. NoGrant \in [kind: {"none", "heap", "user", "kept"}, start: Page, pages: 0..Pages,
                     blocks: SUBSET (1..(Blocks - 1))]
    BY <1>1 DEF NoGrant
  <2> QED BY <1>1, <1>2, <1>3, <2>1 DEF MemoryTypeOK
<1>5. Region(0, 0) = {}
  BY DEF Region
<1>6. /\ \A t \in Task : JobPages[t] = {} /\ job[t].stage = "none"
      /\ \A c \in Client : GrantPages[c] = {}
      /\ \A c \in Client : GrantBlocks[c] = {}
  BY <1>2, <1>5 DEF JobPages, GrantPages, GrantBlocks, RegionOf, PagesOf, NoJob, NoGrant
<1>7. BlocksHeld(used, GrantBlocks)
  <2>1. UNION {GrantBlocks[c] : c \in Client} = {}
    BY <1>6
  <2> QED BY <1>2, <1>6, <2>1 DEF BlocksHeld
<1>8. BootKept
  BY <1>1, <1>2, <1>6 DEF BootKept
<1>9. Stages
  BY <1>6 DEF Stages
<1>10. Owned(page, JobPages, GrantPages)
  BY <1>6 DEF Owned
<1> QED BY <1>4, <1>7, <1>8, <1>9, <1>10 DEF MemInv

LEMMA PagesTyped ==
  ASSUME VspaceAssumption, MemoryTypeOK
  PROVE  /\ page \in [Page -> Kinds]
         /\ JobPages \in [Task -> SUBSET Page] /\ GrantPages \in [Client -> SUBSET Page]
         /\ DOMAIN GrantBlocks = Client
<1>1. page \in [Page -> Kinds]
  BY DEF MemoryTypeOK, VspaceTypeOK, Kinds
<1>2. Pages \in Nat /\ MaxBlocks \in Nat
  BY DEF VspaceAssumption
<1>3. ASSUME NEW t \in Task PROVE RegionOf(t) \in SUBSET Page
  <2>1. job[t].start \in Nat /\ job[t].blocks \in Nat
    BY <1>2 DEF MemoryTypeOK, VspaceTypeOK, Page
  <2> QED BY <2>1, RegionFacts DEF RegionOf
<1>4. ASSUME NEW c \in Client PROVE PagesOf(c) \in SUBSET Page
  <2>1. grant[c].start \in Nat /\ grant[c].pages \in Nat
    BY <1>2 DEF MemoryTypeOK, Page
  <2> QED BY <2>1, RegionFacts DEF PagesOf
<1> QED BY <1>1, <1>3, <1>4 DEF JobPages, GrantPages, GrantBlocks

LEMMA JobChange ==
  ASSUME VspaceTypeOK, NEW t \in Task, NEW j, job' = [job EXCEPT ![t] = j]
  PROVE  JobPages' = [JobPages EXCEPT ![t] = Region(j.start, j.blocks)]
<1>1. \A u \in Task : job'[u] = IF u = t THEN j ELSE job[u]
  BY DEF VspaceTypeOK
<1>2. PICK N : N = Region(j.start, j.blocks)
  OBVIOUS
<1>3. JobPages' = [u \in Task |-> IF u = t THEN N ELSE Region(job[u].start, job[u].blocks)]
  BY <1>1, <1>2 DEF JobPages, RegionOf
<1>4. JobPages = [u \in Task |-> Region(job[u].start, job[u].blocks)]
  BY DEF JobPages, RegionOf
<1> QED BY <1>2, <1>3, <1>4

LEMMA GrantChange ==
  ASSUME MemoryTypeOK, NEW c \in Client, NEW g, grant' = [grant EXCEPT ![c] = g]
  PROVE  /\ GrantPages' = [GrantPages EXCEPT ![c] = Region(g.start, g.pages)]
         /\ GrantBlocks' = [GrantBlocks EXCEPT ![c] = g.blocks]
<1>1. \A d \in Client : grant'[d] = IF d = c THEN g ELSE grant[d]
  BY DEF MemoryTypeOK
<1>2. PICK N, B : N = Region(g.start, g.pages) /\ B = g.blocks
  OBVIOUS
<1>3. GrantPages' = [d \in Client |-> IF d = c THEN N ELSE Region(grant[d].start, grant[d].pages)]
  BY <1>1, <1>2 DEF GrantPages, PagesOf
<1>4. GrantPages = [d \in Client |-> Region(grant[d].start, grant[d].pages)]
  BY DEF GrantPages, PagesOf
<1>5. GrantBlocks' = [d \in Client |-> IF d = c THEN B ELSE grant[d].blocks]
  BY <1>1, <1>2 DEF GrantBlocks
<1>6. GrantBlocks = [d \in Client |-> grant[d].blocks]
  BY DEF GrantBlocks
<1>7. GrantPages' = [GrantPages EXCEPT ![c] = N]
  BY <1>3, <1>4
<1>8. GrantBlocks' = [GrantBlocks EXCEPT ![c] = B]
  BY <1>5, <1>6
<1> QED BY <1>2, <1>7, <1>8

\* Boot keeps its pages where the ones that change are not its own.
LEMMA BootUntouched ==
  ASSUME VspaceAssumption, BootKept, NEW N, N \cap Boot = {}, Outside(page', page, N)
  PROVE  \A p \in Boot : page'[p] = "PRESENT"
<1>1. Boot \subseteq Page
  BY DEF VspaceAssumption, Page
<1> QED BY <1>1 DEF BootKept, Outside

LEMMA FreeIsNotBoot ==
  ASSUME BootKept, NEW N, \A p \in N : page[p] = "FREE"
  PROVE  N \cap Boot = {}
BY DEF BootKept

\* A client gets blocks, and pages to reach them.
LEMMA ClientTakes ==
  ASSUME VspaceAssumption, MemInv, ~delayed,
         NEW c \in Client, NEW kind \in {"heap", "user", "kept"},
         NEW s \in Page, NEW n \in 0..Pages, NEW B \in SUBSET (1..(Blocks - 1)),
         Blocks \in Nat, B \cap used = {}, Grant(c, kind, s, n, B),
         page' \in [Page -> Kinds], Outside(page', page, Region(s, n)),
         \A p \in Region(s, n) : page[p] = "FREE",
         \A p \in Region(s, n) : page'[p] \in {"PRESENT", "GUARD"}
  PROVE  MemInv'
<1>1. /\ MemoryTypeOK /\ VspaceTypeOK /\ BlocksHeld(used, GrantBlocks) /\ BootKept /\ Stages
      /\ Owned(page, JobPages, GrantPages)
  BY DEF MemInv, MemoryTypeOK
<1>2. /\ page \in [Page -> Kinds] /\ JobPages \in [Task -> SUBSET Page]
      /\ GrantPages \in [Client -> SUBSET Page] /\ DOMAIN GrantBlocks = Client
  BY <1>1, PagesTyped
<1>3. PICK g : g = [kind |-> kind, start |-> s, pages |-> n, blocks |-> B]
  OBVIOUS
<1>4. /\ grant[c] = NoGrant /\ grant' = [grant EXCEPT ![c] = g]
      /\ used' = used \cup B /\ job' = job /\ delayed' = delayed
  BY <1>3 DEF Grant
<1>5. g \in [kind: {"none", "heap", "user", "kept"}, start: Page, pages: 0..Pages,
             blocks: SUBSET (1..(Blocks - 1))]
      /\ g.start = s /\ g.pages = n /\ g.blocks = B
  BY <1>3
<1>6. PICK N : N = Region(s, n)
  OBVIOUS
<1>7. /\ GrantPages' = [GrantPages EXCEPT ![c] = N]
      /\ GrantBlocks' = [GrantBlocks EXCEPT ![c] = B]
  BY <1>1, <1>4, <1>5, <1>6, GrantChange
<1>8. JobPages' = JobPages
  BY <1>4 DEF JobPages, RegionOf
<1>9. N \in SUBSET Page /\ N \cap Boot = {}
  <2>1. s \in Nat /\ n \in Nat
    BY DEF VspaceAssumption, Page
  <2>2. N \in SUBSET Page
    BY <1>6, <2>1, RegionFacts
  <2>3. N \cap Boot = {}
    BY <1>1, <1>6, FreeIsNotBoot
  <2> QED BY <2>2, <2>3
<1>10. MemoryTypeOK'
  <2>1. VspaceTypeOK'
    BY <1>1, <1>4 DEF VspaceTypeOK, Kinds
  <2>2. used' \in SUBSET Block
    BY <1>1, <1>4 DEF MemoryTypeOK, Block
  <2>3. grant' \in [Client -> [kind: {"none", "heap", "user", "kept"}, start: Page,
                               pages: 0..Pages, blocks: SUBSET (1..(Blocks - 1))]]
    BY <1>1, <1>4, <1>5 DEF MemoryTypeOK
  <2> QED BY <2>1, <2>2, <2>3 DEF MemoryTypeOK
<1>11. BlocksHeld(used', GrantBlocks')
  <2>1. GrantBlocks[c] = {}
    BY <1>4 DEF GrantBlocks, NoGrant
  <2>2. PICK u, H : u = used /\ H = GrantBlocks
    OBVIOUS
  <2>3. BlocksHeld(u \cup B, [H EXCEPT ![c] = B])
    BY <1>1, <1>2, <2>1, <2>2, BlocksTaken
  <2> QED BY <1>4, <1>7, <2>2, <2>3
<1>12. BootKept'
  <2>1. \A p \in Boot : page'[p] = "PRESENT"
    BY <1>1, <1>6, <1>9, BootUntouched
  <2> QED BY <1>1, <1>8, <2>1 DEF BootKept
<1>13. Stages'
  BY <1>1, <1>4, <1>8 DEF Stages
<1>14. Owned(page', JobPages', GrantPages')
  <2>1. PICK a, h, R, Q : a = page /\ h = page' /\ R = JobPages /\ Q = GrantPages
    OBVIOUS
  <2>2. Owned(h, R, [Q EXCEPT ![c] = N])
    <3>1. R \in [Task -> SUBSET Page] /\ Q \in [Client -> SUBSET Page] /\ Owned(a, R, Q)
      BY <1>1, <1>2, <2>1
    <3>2. /\ \A p \in N : a[p] = "FREE"
          /\ Outside(h, a, N)
          /\ \A p \in N : h[p] \in {"PRESENT", "GUARD"}
      BY <1>6, <2>1
    <3> QED BY <1>9, <3>1, <3>2, ClientPages
  <2> QED BY <1>7, <1>8, <2>1, <2>2
<1> QED BY <1>10, <1>11, <1>12, <1>13, <1>14 DEF MemInv

\* A client gives back what it holds.
LEMMA ClientReturns ==
  ASSUME VspaceAssumption, MemoryAssumption, MemInv, ~delayed, NEW c \in Client,
         page' \in [Page -> Kinds], Outside(page', page, PagesOf(c)),
         used' = used \ grant[c].blocks, grant' = [grant EXCEPT ![c] = NoGrant],
         job' = job, delayed' = delayed
  PROVE  MemInv'
<1>1. /\ MemoryTypeOK /\ VspaceTypeOK /\ BlocksHeld(used, GrantBlocks) /\ BootKept /\ Stages
      /\ Owned(page, JobPages, GrantPages)
  BY DEF MemInv, MemoryTypeOK
<1>2. /\ page \in [Page -> Kinds] /\ JobPages \in [Task -> SUBSET Page]
      /\ GrantPages \in [Client -> SUBSET Page] /\ DOMAIN GrantBlocks = Client
  BY <1>1, PagesTyped
<1>3. NoGrant \in [kind: {"none", "heap", "user", "kept"}, start: Page, pages: 0..Pages,
                   blocks: SUBSET (1..(Blocks - 1))]
      /\ NoGrant.blocks = {} /\ Region(NoGrant.start, NoGrant.pages) = {}
  <2>1. 0 \in Page /\ 0 \in 0..Pages
    BY DEF VspaceAssumption, Page
  <2>2. Region(0, 0) = {}
    BY DEF Region
  <2> QED BY <2>1, <2>2 DEF NoGrant
<1>4. GrantPages' = [GrantPages EXCEPT ![c] = {}] /\ GrantBlocks' = [GrantBlocks EXCEPT ![c] = {}]
  BY <1>1, <1>3, GrantChange
<1>5. JobPages' = JobPages
  BY DEF JobPages, RegionOf
<1>6. GrantPages[c] = PagesOf(c) /\ GrantBlocks[c] = grant[c].blocks
  BY DEF GrantPages, GrantBlocks
<1>7. MemoryTypeOK'
  <2>1. VspaceTypeOK'
    BY <1>1 DEF VspaceTypeOK, Kinds
  <2>2. used' \in SUBSET Block
    BY <1>1 DEF MemoryTypeOK
  <2>3. grant' \in [Client -> [kind: {"none", "heap", "user", "kept"}, start: Page,
                               pages: 0..Pages, blocks: SUBSET (1..(Blocks - 1))]]
    BY <1>1, <1>3 DEF MemoryTypeOK
  <2> QED BY <2>1, <2>2, <2>3 DEF MemoryTypeOK
<1>8. BlocksHeld(used', GrantBlocks')
  <2>1. PICK u, H : u = used /\ H = GrantBlocks
    OBVIOUS
  <2>2. BlocksHeld(u \ H[c], [H EXCEPT ![c] = {}])
    BY <1>1, <1>2, <2>1, BlocksReturned
  <2> QED BY <1>4, <1>6, <2>1, <2>2
<1>9. BootKept'
  <2>1. PagesOf(c) \cap Boot = {}
    BY <1>1, <1>6 DEF Owned
  <2>2. \A p \in Boot : page'[p] = "PRESENT"
    BY <1>1, <2>1, BootUntouched
  <2> QED BY <1>1, <1>5, <2>2 DEF BootKept
<1>10. Stages'
  BY <1>1, <1>5 DEF Stages
<1>11. Owned(page', JobPages', GrantPages')
  <2>1. PICK a, h, R, Q : a = page /\ h = page' /\ R = JobPages /\ Q = GrantPages
    OBVIOUS
  <2>2. Owned(h, R, [Q EXCEPT ![c] = {}])
    <3>1. R \in [Task -> SUBSET Page] /\ Q \in [Client -> SUBSET Page] /\ Owned(a, R, Q)
      BY <1>1, <1>2, <2>1
    <3>2. Outside(h, a, Q[c])
      BY <1>6, <2>1
    <3>3. {} \in SUBSET Page
      OBVIOUS
    <3> QED BY <3>1, <3>2, <3>3, ClientPages
  <2> QED BY <1>4, <1>5, <2>1, <2>2
<1> QED BY <1>7, <1>8, <1>9, <1>10, <1>11 DEF MemInv

\* What a step of a task leaves of the inductive invariant, as long as it only
\* touches pages N that are not the kernel's own.
LEMMA TaskStep ==
  ASSUME VspaceAssumption, MemInv, NEW t \in Task,
         NEW j \in [stage: {"none", "mapped", "failing"}, start: Page, blocks: 0..MaxBlocks],
         NEW N, N \cap Boot = {}, page' \in [Page -> Kinds], Outside(page', page, N),
         job' = [job EXCEPT ![t] = j], Region(j.start, j.blocks) \subseteq N,
         j.stage = "none" => Region(j.start, j.blocks) = {},
         j.stage = "failing" => delayed', delayed => delayed', delayed' \in BOOLEAN,
         UNCHANGED memoryVars,
         ~delayed' => Owned(page', JobPages', GrantPages)
  PROVE  MemInv'
<1>1. /\ MemoryTypeOK /\ VspaceTypeOK /\ BlocksHeld(used, GrantBlocks) /\ BootKept /\ Stages
  BY DEF MemInv, MemoryTypeOK
<1>2. PICK K : K = Region(j.start, j.blocks)
  OBVIOUS
<1>3. JobPages' = [JobPages EXCEPT ![t] = K]
  BY <1>1, <1>2, JobChange
<1>4. used' = used /\ grant' = grant
  BY DEF memoryVars
<1>5. GrantPages' = GrantPages /\ GrantBlocks' = GrantBlocks
  BY <1>4 DEF GrantPages, GrantBlocks, PagesOf
<1>6. \A u \in Task : JobPages'[u] = IF u = t THEN K ELSE JobPages[u]
  BY <1>3 DEF JobPages
<1>7. \A u \in Task : job'[u] = IF u = t THEN j ELSE job[u]
  BY <1>1 DEF VspaceTypeOK
<1>8. MemoryTypeOK'
  <2>1. VspaceTypeOK'
    BY <1>1 DEF VspaceTypeOK, Kinds
  <2> QED BY <1>1, <1>4, <2>1 DEF MemoryTypeOK
<1>9. BlocksHeld(used', GrantBlocks')
  BY <1>1, <1>4, <1>5
<1>10. BootKept'
  <2>1. \A p \in Boot : page'[p] = "PRESENT"
    BY <1>1, BootUntouched
  <2>2. \A u \in Task : JobPages'[u] \cap Boot = {}
    BY <1>1, <1>2, <1>6 DEF BootKept
  <2> QED BY <2>1, <2>2 DEF BootKept
<1>11. Stages'
  <2>1. ASSUME NEW u \in Task
        PROVE  /\ job'[u].stage = "none" => JobPages'[u] = {}
               /\ job'[u].stage = "failing" => delayed'
    <3>1. CASE u = t
      BY <1>2, <1>6, <1>7, <3>1
    <3>2. CASE u # t
      BY <1>1, <1>6, <1>7, <3>2 DEF Stages
    <3> QED BY <3>1, <3>2
  <2> QED BY <2>1 DEF Stages
<1> QED BY <1>5, <1>8, <1>9, <1>10, <1>11 DEF MemInv

\* What find_vspace() returns in a state of the system.
LEMMA Finds ==
  ASSUME VspaceAssumption, MemInv, NEW n \in 1..MaxBlocks, NEW s,
         s = FindStart(page, n), s # -1
  PROVE  /\ s \in 1..(Pages - 1) /\ s \in Page
         /\ n \in Nat /\ n \in 0..Pages /\ n \in 0..MaxBlocks
         /\ Region(s, n) \in SUBSET Page /\ Region(s, n) \cap Boot = {}
         /\ \A p \in Region(s, n) : page[p] = "FREE"
<1>1. Pages \in Nat \ {0} /\ MaxBlocks \in Nat /\ MaxBlocks < Pages
  BY DEF VspaceAssumption
<1>2. PICK g : g = page
  OBVIOUS
<1>3. s \in 1..(Pages - 1) /\ \A p \in Region(s, n) : page[p] = "FREE"
  BY <1>2, FindsFree
<1>4. s \in Nat /\ n \in Nat /\ s \in Page /\ n \in 0..Pages /\ n \in 0..MaxBlocks
  BY <1>1, <1>3 DEF Page
<1>5. Region(s, n) \in SUBSET Page
  BY <1>4, RegionFacts
<1>6. Region(s, n) \cap Boot = {}
  BY <1>3, FreeIsNotBoot DEF MemInv
<1> QED BY <1>3, <1>4, <1>5, <1>6

LEMMA MapRegionKeeps ==
  ASSUME VspaceAssumption, MemInv, NEW t \in Task, NEW n \in 1..MaxBlocks,
         MapRegion(t, n), UNCHANGED memoryVars
  PROVE  MemInv'
<1>1. PICK s, N : s = FindStart(page, n) /\ N = Region(s, n)
  OBVIOUS
<1>2. PICK j : j = [stage |-> "mapped", start |-> s, blocks |-> n]
  OBVIOUS
<1>3. /\ s # -1 /\ page' = Set(Reserve(page, s, n), Region(s, n), "PRESENT")
      /\ job' = [job EXCEPT ![t] = j] /\ delayed' = delayed
  BY <1>1, <1>2 DEF MapRegion
<1>4. /\ s \in 1..(Pages - 1) /\ s \in Page /\ n \in 0..MaxBlocks
      /\ N \in SUBSET Page /\ N \cap Boot = {} /\ \A p \in N : page[p] = "FREE"
  BY <1>1, <1>3, Finds
<1>5. MemoryTypeOK /\ VspaceTypeOK
  BY DEF MemInv, MemoryTypeOK
<1>6. /\ page \in [Page -> Kinds] /\ JobPages \in [Task -> SUBSET Page]
      /\ GrantPages \in [Client -> SUBSET Page]
  BY <1>5, PagesTyped
<1>7. /\ page' \in [Page -> Kinds] /\ Outside(page', page, N)
      /\ \A p \in N : page'[p] = "PRESENT"
  <2>1. PICK g, h : g = page /\ h = page'
    OBVIOUS
  <2>2. g \in [Page -> Kinds] /\ h = Set(Reserve(g, s, n), Region(s, n), "PRESENT")
    BY <1>3, <1>6, <2>1
  <2>3. /\ h \in [Page -> Kinds] /\ Outside(h, g, Region(s, n))
        /\ \A p \in Region(s, n) : h[p] = "PRESENT"
    BY <1>4, <2>2, MapsRegion
  <2> QED BY <1>1, <2>1, <2>3
<1>8. j \in [stage: {"none", "mapped", "failing"}, start: Page, blocks: 0..MaxBlocks]
      /\ Region(j.start, j.blocks) = N /\ j.stage = "mapped"
  BY <1>1, <1>2, <1>4
<1>9. JobPages' = [JobPages EXCEPT ![t] = N]
  BY <1>3, <1>5, <1>8, JobChange
<1>10. ~delayed => Owned(page', JobPages', GrantPages)
  <2> SUFFICES ASSUME ~delayed PROVE Owned(page', JobPages', GrantPages)
    OBVIOUS
  <2>1. PICK a, h, R, Q : a = page /\ h = page' /\ R = JobPages /\ Q = GrantPages
    OBVIOUS
  <2>2. R \in [Task -> SUBSET Page] /\ Q \in [Client -> SUBSET Page] /\ Owned(a, R, Q)
    BY <1>6, <2>1 DEF MemInv
  <2>3. /\ \A p \in N : a[p] = "FREE"
        /\ Outside(h, a, N)
        /\ \A p \in N : h[p] = "PRESENT"
    BY <1>4, <1>7, <2>1
  <2>4. Owned(h, [R EXCEPT ![t] = N], Q)
    BY <1>4, <2>2, <2>3, TaskPages
  <2> QED BY <1>9, <2>1, <2>4
<1>11. delayed' \in BOOLEAN
  BY <1>3, <1>5 DEF VspaceTypeOK
<1> QED BY <1>3, <1>4, <1>7, <1>8, <1>10, <1>11, TaskStep

LEMMA UnmapKeeps ==
  ASSUME VspaceAssumption, MemInv, NEW t \in Task, UNCHANGED memoryVars,
         unmap_from_kernel(t) \/ CleanUpLate(t)
  PROVE  MemInv'
<1>1. MemoryTypeOK /\ VspaceTypeOK /\ BootKept /\ Stages
  BY DEF MemInv, MemoryTypeOK
<1>2. /\ page \in [Page -> Kinds] /\ JobPages \in [Task -> SUBSET Page]
      /\ GrantPages \in [Client -> SUBSET Page]
  BY <1>1, PagesTyped
<1>3. PICK N, s, n : s = job[t].start /\ n = job[t].blocks /\ N = Region(s, n)
  OBVIOUS
<1>4. s \in Page /\ n \in 0..MaxBlocks /\ JobPages[t] = N
  BY <1>1, <1>3 DEF VspaceTypeOK, JobPages, RegionOf
<1>5. N \cap Boot = {}
  BY <1>1, <1>4 DEF BootKept
<1>6. job' = [job EXCEPT ![t] = NoJob] /\ delayed' = delayed
  BY DEF unmap_from_kernel, CleanUpLate
<1>7. page' \in [Page -> Kinds] /\ Outside(page', page, N)
  <2>1. page' = CleanUp(page, s, n) \/ page' = CopyCleanUp(page, s, n)
    BY <1>3 DEF unmap_from_kernel, CleanUpLate, CopyCleanUp
  <2>2. PICK g, h : g = page /\ h = page'
    OBVIOUS
  <2>3. Outside(g, g, Region(s, n))
    BY DEF Outside
  <2>4. g \in [Page -> Kinds] /\ (h = CleanUp(g, s, n) \/ h = CopyCleanUp(g, s, n))
    BY <1>2, <2>1, <2>2
  <2>5. h \in [Page -> Kinds] /\ Outside(h, g, Region(s, n))
    BY <1>4, <2>3, <2>4, CleanUpFacts
  <2> QED BY <1>3, <2>2, <2>5
<1>8. NoJob \in [stage: {"none", "mapped", "failing"}, start: Page, blocks: 0..MaxBlocks]
      /\ Region(NoJob.start, NoJob.blocks) = {} /\ NoJob.stage = "none"
  <2>1. 0 \in Page /\ 0 \in 0..MaxBlocks
    BY DEF VspaceAssumption, Page
  <2>2. Region(0, 0) = {}
    BY DEF Region
  <2> QED BY <2>1, <2>2 DEF NoJob
<1>9. JobPages' = [JobPages EXCEPT ![t] = {}]
  BY <1>1, <1>6, <1>8, JobChange
<1>10. ~delayed => Owned(page', JobPages', GrantPages)
  <2> SUFFICES ASSUME ~delayed PROVE Owned(page', JobPages', GrantPages)
    OBVIOUS
  <2>1. PICK a, h, R, Q : a = page /\ h = page' /\ R = JobPages /\ Q = GrantPages
    OBVIOUS
  <2>2. R \in [Task -> SUBSET Page] /\ Q \in [Client -> SUBSET Page] /\ Owned(a, R, Q)
    BY <1>2, <2>1 DEF MemInv
  <2>3. Outside(h, a, R[t]) /\ {} \in SUBSET Page
    BY <1>4, <1>7, <2>1
  <2>4. Owned(h, [R EXCEPT ![t] = {}], Q)
    BY <2>2, <2>3, TaskPages
  <2> QED BY <1>9, <2>1, <2>4
<1>11. delayed' \in BOOLEAN
  BY <1>1, <1>6 DEF VspaceTypeOK
<1>12. PICK j : j = NoJob
  OBVIOUS
<1>13. /\ j \in [stage: {"none", "mapped", "failing"}, start: Page, blocks: 0..MaxBlocks]
       /\ Region(j.start, j.blocks) = {} /\ j.stage = "none" /\ job' = [job EXCEPT ![t] = j]
  BY <1>6, <1>8, <1>12
<1> QED BY <1>5, <1>6, <1>7, <1>10, <1>11, <1>13, TaskStep

LEMMA MapFailsKeeps ==
  ASSUME VspaceAssumption, MemInv, NEW t \in Task, NEW n \in 1..MaxBlocks,
         NEW i \in 0..(n - 1), MapFails(t, n, i), UNCHANGED memoryVars
  PROVE  MemInv'
<1>1. PICK s, N : s = FindStart(page, n) /\ N = Region(s, n)
  OBVIOUS
<1>2. PICK w : w = FailedAt(s, n, i)
  OBVIOUS
<1>3. /\ s # -1 /\ job' = job /\ delayed' = delayed
      /\ (page' = CleanUp(w, s, n) \/ page' = CopyCleanUp(w, s, n))
  BY <1>1, <1>2 DEF MapFails
<1>4. /\ s \in 1..(Pages - 1) /\ s \in Page /\ n \in 0..MaxBlocks
      /\ N \in SUBSET Page /\ N \cap Boot = {} /\ \A p \in N : page[p] = "FREE"
  BY <1>1, <1>3, Finds
<1>5. MemoryTypeOK /\ VspaceTypeOK /\ BlocksHeld(used, GrantBlocks) /\ BootKept /\ Stages
  BY DEF MemInv, MemoryTypeOK
<1>6. /\ page \in [Page -> Kinds] /\ JobPages \in [Task -> SUBSET Page]
      /\ GrantPages \in [Client -> SUBSET Page]
  BY <1>5, PagesTyped
<1>7. page' \in [Page -> Kinds] /\ Outside(page', page, N)
  <2>1. w \in [Page -> Kinds] /\ Outside(w, page, Region(s, n))
    BY <1>2, <1>4, <1>6, FailFacts
  <2>2. PICK g, h : g = page /\ h = page'
    OBVIOUS
  <2>3. /\ g \in [Page -> Kinds] /\ Outside(w, g, Region(s, n))
        /\ (h = CleanUp(w, s, n) \/ h = CopyCleanUp(w, s, n))
    BY <1>3, <1>6, <2>1, <2>2
  <2>4. h \in [Page -> Kinds] /\ Outside(h, g, Region(s, n))
    BY <1>4, <2>1, <2>3, CleanUpFacts
  <2> QED BY <1>1, <2>2, <2>4
<1>8. used' = used /\ grant' = grant
  BY DEF memoryVars
<1>9. JobPages' = JobPages /\ GrantPages' = GrantPages /\ GrantBlocks' = GrantBlocks
  BY <1>3, <1>8 DEF JobPages, GrantPages, GrantBlocks, RegionOf, PagesOf
<1>10. MemoryTypeOK'
  <2>1. VspaceTypeOK'
    BY <1>3, <1>5, <1>7 DEF VspaceTypeOK, Kinds
  <2> QED BY <1>5, <1>8, <2>1 DEF MemoryTypeOK
<1>11. BlocksHeld(used', GrantBlocks')
  BY <1>5, <1>8, <1>9
<1>12. BootKept'
  <2>1. \A p \in Boot : page'[p] = "PRESENT"
    BY <1>4, <1>5, <1>7, BootUntouched
  <2> QED BY <1>5, <1>9, <2>1 DEF BootKept
<1>13. Stages'
  BY <1>3, <1>5, <1>9 DEF Stages
<1>14. ~delayed => Owned(page', JobPages, GrantPages)
  <2> SUFFICES ASSUME ~delayed PROVE Owned(page', JobPages, GrantPages)
    OBVIOUS
  <2>1. PICK a, h, R, Q : a = page /\ h = page' /\ R = JobPages /\ Q = GrantPages
    OBVIOUS
  <2>2. R \in [Task -> SUBSET Page] /\ Q \in [Client -> SUBSET Page] /\ Owned(a, R, Q)
    BY <1>6, <2>1 DEF MemInv
  <2>3. (\A p \in N : a[p] = "FREE") /\ Outside(h, a, N)
    BY <1>4, <1>7, <2>1
  <2>4. Owned(h, R, Q)
    BY <2>2, <2>3, FreePagesChange
  <2> QED BY <2>1, <2>4
<1> QED BY <1>3, <1>9, <1>10, <1>11, <1>12, <1>13, <1>14 DEF MemInv

LEMMA MapFailsPrintingKeeps ==
  ASSUME VspaceAssumption, MemInv, NEW t \in Task, NEW n \in 1..MaxBlocks,
         NEW i \in 0..(n - 1), MapFailsPrinting(t, n, i), UNCHANGED memoryVars
  PROVE  MemInv'
<1>1. PICK s, N : s = FindStart(page, n) /\ N = Region(s, n)
  OBVIOUS
<1>2. PICK j : j = [stage |-> "failing", start |-> s, blocks |-> n]
  OBVIOUS
<1>3. /\ s # -1 /\ page' = FailedAt(s, n, i)
      /\ job' = [job EXCEPT ![t] = j] /\ delayed' = TRUE
  BY <1>1, <1>2 DEF MapFailsPrinting
<1>4. /\ s \in 1..(Pages - 1) /\ s \in Page /\ n \in 0..MaxBlocks
      /\ N \in SUBSET Page /\ N \cap Boot = {}
  BY <1>1, <1>3, Finds
<1>5. page \in [Page -> Kinds]
  BY PagesTyped DEF MemInv
<1>6. page' \in [Page -> Kinds] /\ Outside(page', page, N)
  <2>1. PICK w : w = FailedAt(s, n, i)
    OBVIOUS
  <2>2. w \in [Page -> Kinds] /\ Outside(w, page, Region(s, n))
    BY <1>4, <1>5, <2>1, FailFacts
  <2> QED BY <1>1, <1>3, <2>1, <2>2
<1>7. j \in [stage: {"none", "mapped", "failing"}, start: Page, blocks: 0..MaxBlocks]
      /\ Region(j.start, j.blocks) = N /\ j.stage = "failing"
  BY <1>1, <1>2, <1>4
<1> QED BY <1>3, <1>4, <1>6, <1>7, TaskStep

\* Blocks taken one by one fit a client.
LEMMA EachFits ==
  ASSUME VspaceAssumption, MemoryAssumption, NEW n \in Nat, NEW B,
         B = pmm_alloc_each(used, n), 0 \notin B
  PROVE  B \in SUBSET (1..(Blocks - 1)) /\ B \cap used = {} /\ Blocks \in Nat
<1>1. PICK u : u = used
  OBVIOUS
<1>2. B \subseteq (1..(Blocks - 1)) \ u
  BY <1>1, AllocEachFacts
<1>3. Blocks \in Nat
  BY SeenFacts
<1> QED BY <1>1, <1>2, <1>3

LEMMA HeapKeeps ==
  ASSUME VspaceAssumption, MemoryAssumption, MemInv, NEW c \in Client,
         NEW n \in 1..MaxBlocks, liballoc_alloc(c, n)
  PROVE  MemInv'
<1>1. PICK s, B : s = FindStart(page, n) /\ B = pmm_alloc_each(used, n)
  OBVIOUS
<1>2. /\ ~delayed /\ s # -1 /\ 0 \notin B
      /\ page' = Set(Reserve(page, s, n), Region(s, n), "PRESENT")
      /\ Grant(c, "heap", s, n, B)
  BY <1>1 DEF liballoc_alloc
<1>3. /\ s \in 1..(Pages - 1) /\ s \in Page /\ n \in Nat /\ n \in 0..Pages
      /\ \A p \in Region(s, n) : page[p] = "FREE"
  BY <1>1, <1>2, Finds
<1>4. B \in SUBSET (1..(Blocks - 1)) /\ B \cap used = {} /\ Blocks \in Nat
  BY <1>1, <1>2, <1>3, EachFits
<1>5. page \in [Page -> Kinds]
  BY PagesTyped DEF MemInv
<1>6. /\ page' \in [Page -> Kinds] /\ Outside(page', page, Region(s, n))
      /\ \A p \in Region(s, n) : page'[p] \in {"PRESENT", "GUARD"}
  <2>1. PICK g, h : g = page /\ h = page'
    OBVIOUS
  <2>2. g \in [Page -> Kinds] /\ h = Set(Reserve(g, s, n), Region(s, n), "PRESENT")
    BY <1>2, <1>5, <2>1
  <2>3. /\ h \in [Page -> Kinds] /\ Outside(h, g, Region(s, n))
        /\ \A p \in Region(s, n) : h[p] = "PRESENT"
    BY <1>3, <2>2, MapsRegion
  <2> QED BY <2>1, <2>3
<1>7. "heap" \in {"heap", "user", "kept"}
  OBVIOUS
<1> QED BY <1>2, <1>3, <1>4, <1>6, <1>7, ClientTakes

LEMMA StackKeeps ==
  ASSUME VspaceAssumption, MemoryAssumption, MemInv, NEW c \in Client, task_kstack_alloc(c)
  PROVE  MemInv'
<1>1. PICK s, n, B : n = KStack /\ s = FindStart(page, n) /\ B = pmm_alloc_each(used, n - 2)
  OBVIOUS
<1>2. /\ ~delayed /\ s # -1 /\ 0 \notin B
      /\ page' = Set(Set(Reserve(page, s, n), {s, (s + n - 1) % Pages}, "GUARD"),
                     Region(s + 1, n - 2), "PRESENT")
      /\ Grant(c, "kept", s, n, B)
  BY <1>1 DEF task_kstack_alloc
<1>3. n \in 1..MaxBlocks /\ n - 2 \in Nat
  BY <1>1 DEF VspaceAssumption, MemoryAssumption
<1>4. /\ s \in 1..(Pages - 1) /\ s \in Page /\ n \in 0..Pages
      /\ \A p \in Region(s, n) : page[p] = "FREE"
  BY <1>1, <1>2, <1>3, Finds
<1>5. B \in SUBSET (1..(Blocks - 1)) /\ B \cap used = {} /\ Blocks \in Nat
  BY <1>1, <1>2, <1>3, EachFits
<1>6. page \in [Page -> Kinds]
  BY PagesTyped DEF MemInv
<1>7. /\ page' \in [Page -> Kinds] /\ Outside(page', page, Region(s, n))
      /\ \A p \in Region(s, n) : page'[p] \in {"PRESENT", "GUARD"}
  <2>1. PICK g, h : g = page /\ h = page'
    OBVIOUS
  <2>2. /\ g \in [Page -> Kinds]
        /\ h = Set(Set(Reserve(g, s, KStack), {s, (s + KStack - 1) % Pages}, "GUARD"),
                   Region(s + 1, KStack - 2), "PRESENT")
    BY <1>1, <1>2, <1>6, <2>1
  <2>3. /\ h \in [Page -> Kinds] /\ Outside(h, g, Region(s, KStack))
        /\ \A p \in Region(s, KStack) : h[p] \in {"PRESENT", "GUARD"}
    BY <1>4, <2>2, StackFacts
  <2> QED BY <1>1, <2>1, <2>3
<1>8. "kept" \in {"heap", "user", "kept"}
  OBVIOUS
<1> QED BY <1>2, <1>4, <1>5, <1>7, <1>8, ClientTakes

LEMMA DirectoryKeeps ==
  ASSUME VspaceAssumption, MemoryAssumption, MemInv, NEW c \in Client, page_directory_new(c)
  PROVE  MemInv'
<1>1. PICK s, B : s = FindStart(page, 1) /\ B = pmm_alloc_each(used, 1)
  OBVIOUS
<1>2. /\ ~delayed /\ s # -1 /\ 0 \notin B
      /\ page' = Set(Reserve(page, s, 1), {s}, "PRESENT")
      /\ Grant(c, "kept", s, 1, B)
  BY <1>1 DEF page_directory_new
<1>3. 1 \in 1..MaxBlocks
  BY DEF VspaceAssumption
<1>4. /\ s \in 1..(Pages - 1) /\ s \in Page /\ 1 \in Nat /\ 1 \in 0..Pages
      /\ \A p \in Region(s, 1) : page[p] = "FREE"
  BY <1>1, <1>2, <1>3, Finds
<1>5. B \in SUBSET (1..(Blocks - 1)) /\ B \cap used = {} /\ Blocks \in Nat
  BY <1>1, <1>2, <1>4, EachFits
<1>6. page \in [Page -> Kinds]
  BY PagesTyped DEF MemInv
<1>7. Region(s, 1) = {s}
  <2>1. s \in Nat /\ s + 1 <= Pages /\ Pages \in Nat
    BY <1>4 DEF VspaceAssumption
  <2>2. Region(s, 1) = s..(s + 1 - 1)
    BY <2>1, RegionStraight
  <2> QED BY <2>1, <2>2
<1>8. /\ page' \in [Page -> Kinds] /\ Outside(page', page, Region(s, 1))
      /\ \A p \in Region(s, 1) : page'[p] \in {"PRESENT", "GUARD"}
  <2>1. PICK g, h : g = page /\ h = page'
    OBVIOUS
  <2>2. g \in [Page -> Kinds] /\ h = Set(Reserve(g, s, 1), Region(s, 1), "PRESENT")
    BY <1>2, <1>6, <1>7, <2>1
  <2>3. /\ h \in [Page -> Kinds] /\ Outside(h, g, Region(s, 1))
        /\ \A p \in Region(s, 1) : h[p] = "PRESENT"
    BY <1>3, <1>4, <2>2, MapsRegion
  <2> QED BY <2>1, <2>3
<1>9. "kept" \in {"heap", "user", "kept"}
  OBVIOUS
<1> QED BY <1>2, <1>4, <1>5, <1>8, <1>9, ClientTakes

LEMMA DeviceKeeps ==
  ASSUME VspaceAssumption, MemoryAssumption, MemInv, NEW c \in Client,
         NEW n \in 1..MaxDma, dma_malloc(c, n)
  PROVE  MemInv'
<1>1. PICK v, good : /\ good = {b \in Block \ used : page[b] = "FREE"}
                     /\ v = SearchBlocks(good, n)
  OBVIOUS
<1>2. /\ ~delayed /\ v > 0
      /\ page' = Set(page, Region(v, n), "PRESENT")
      /\ Grant(c, "kept", v, n, v..(v + n - 1))
  BY <1>1 DEF dma_malloc, vmm_find_dma_region
<1>3. /\ Pages \in Nat \ {0} /\ MaxBlocks \in Nat /\ MaxBlocks < Pages
      /\ Blocks \in Nat \ {0} /\ Blocks <= Pages /\ MaxDma \in Nat
  BY SeenFacts
<1>4. v \in Nat /\ v + n <= Blocks /\ v..(v + n - 1) \subseteq good
  BY <1>1, <1>2, SearchBlocksGood
<1>5. PICK B : B = v..(v + n - 1)
  OBVIOUS
<1>6. v \in Nat /\ n \in Nat \ {0} /\ v + n <= Pages /\ v \in Page /\ n \in 0..Pages
  BY <1>2, <1>3, <1>4 DEF Page
<1>7. Region(v, n) = B
  BY <1>5, <1>6, RegionStraight
<1>8. B \in SUBSET (1..(Blocks - 1)) /\ B \cap used = {} /\ \A p \in B : page[p] = "FREE"
  <2>1. B \in SUBSET (1..(Blocks - 1))
    BY <1>2, <1>3, <1>4, <1>5, <1>6
  <2>2. \A p \in B : p \in good
    BY <1>4, <1>5
  <2> QED BY <1>1, <2>1, <2>2
<1>9. page \in [Page -> Kinds]
  BY PagesTyped DEF MemInv
<1>10. /\ page' \in [Page -> Kinds] /\ Outside(page', page, Region(v, n))
       /\ \A p \in Region(v, n) : page'[p] \in {"PRESENT", "GUARD"}
  <2>1. PICK g, h : g = page /\ h = page'
    OBVIOUS
  <2>2. h = Set(g, B, "PRESENT") /\ g \in [Page -> Kinds]
    BY <1>2, <1>7, <1>9, <2>1
  <2>3. Outside(g, g, B) /\ "PRESENT" \in Kinds
    BY DEF Outside, Kinds
  <2>4. SetIs(h, g, g, B, B, "PRESENT")
    BY <2>2, <2>3, SetFacts
  <2>5. B \in SUBSET Page
    BY <1>6, <1>7, RegionFacts
  <2> QED BY <1>7, <2>1, <2>4, <2>5 DEF SetIs
<1>11. "kept" \in {"heap", "user", "kept"} /\ Blocks \in Nat
  BY <1>3
<1>12. Grant(c, "kept", v, n, B)
  BY <1>2, <1>5
<1>13. \A p \in Region(v, n) : page[p] = "FREE"
  BY <1>7, <1>8
<1> QED BY <1>2, <1>6, <1>8, <1>10, <1>11, <1>12, <1>13, ClientTakes

LEMMA UserKeeps ==
  ASSUME VspaceAssumption, MemoryAssumption, MemInv, NEW c \in Client, UserBlock(c)
  PROVE  MemInv'
<1>1. PICK B : B = pmm_alloc_each(used, 1)
  OBVIOUS
<1>2. ~delayed /\ 0 \notin B /\ Grant(c, "user", 0, 0, B) /\ page' = page
  BY <1>1 DEF UserBlock
<1>3. 0 \in Page /\ 0 \in 0..Pages /\ 1 \in Nat
  BY DEF VspaceAssumption, Page
<1>4. B \in SUBSET (1..(Blocks - 1)) /\ B \cap used = {} /\ Blocks \in Nat
  BY <1>1, <1>2, <1>3, EachFits
<1>5. Region(0, 0) = {}
  BY DEF Region
<1>6. page' \in [Page -> Kinds]
  BY <1>2, PagesTyped DEF MemInv
<1>7. Outside(page', page, Region(0, 0))
  BY <1>2 DEF Outside
<1>8. "user" \in {"heap", "user", "kept"}
  OBVIOUS
<1>9. PICK s, n : s = 0 /\ n = 0
  OBVIOUS
<1>10. /\ s \in Page /\ n \in 0..Pages /\ Grant(c, "user", s, n, B)
       /\ Outside(page', page, Region(s, n)) /\ Region(s, n) = {}
  BY <1>2, <1>3, <1>5, <1>7, <1>9
<1> QED BY <1>2, <1>4, <1>6, <1>8, <1>10, ClientTakes

LEMMA ReturnsKeep ==
  ASSUME VspaceAssumption, MemoryAssumption, MemInv, NEW c \in Client,
         liballoc_free(c) \/ UserBlockFreed(c)
  PROVE  MemInv'
<1>1. /\ ~delayed /\ used' = used \ grant[c].blocks /\ grant' = [grant EXCEPT ![c] = NoGrant]
      /\ job' = job /\ delayed' = delayed
  BY DEF liballoc_free, UserBlockFreed, vspaceVars
<1>2. page \in [Page -> Kinds]
  BY PagesTyped DEF MemInv
<1>3. page' \in [Page -> Kinds] /\ Outside(page', page, PagesOf(c))
  <2>1. PICK g, h, N : g = page /\ h = page' /\ N = PagesOf(c)
    OBVIOUS
  <2>2. Outside(g, g, N) /\ "FREE" \in Kinds
    BY DEF Outside, Kinds
  <2>3. CASE liballoc_free(c)
    <3>1. h = Set(g, N, "FREE") /\ g \in [Page -> Kinds]
      BY <1>2, <2>1, <2>3 DEF liballoc_free, PagesOf
    <3>2. SetIs(h, g, g, N, N, "FREE")
      BY <2>2, <3>1, SetFacts
    <3> QED BY <2>1, <3>2 DEF SetIs
  <2>4. CASE UserBlockFreed(c)
    <3>1. page' = page
      BY <2>4 DEF UserBlockFreed, vspaceVars
    <3> QED BY <1>2, <3>1 DEF Outside
  <2> QED BY <2>3, <2>4
<1> QED BY <1>1, <1>3, ClientReturns

-----------------------------------------------------------------------------
(* The theorems.                                                            *)

\* MemInv, which the other theorems rest on, holds of every task's and every
\* client's steps.
THEOREM MemorySafe == MemorySpec => []MemInv
<1>1. VspaceAssumption /\ MemoryAssumption
  BY VspaceAssumption, MemoryAssumption
<1>2. MemoryInit => MemInv
  BY <1>1, InvInit
<1>3. MemInv /\ [MemoryNext]_allVars => MemInv'
  <2> SUFFICES ASSUME MemInv, [MemoryNext]_allVars PROVE MemInv'
    OBVIOUS
  <2>1. CASE UNCHANGED allVars
    <3>1. UNCHANGED <<page, job, delayed, used, grant>>
      BY <2>1 DEF allVars, vspaceVars, memoryVars
    <3> QED BY <3>1 DEF MemInv, MemoryTypeOK, VspaceTypeOK, BootKept, Stages, JobPages,
            GrantPages, GrantBlocks, RegionOf, PagesOf
  <2>2. CASE MemoryStep
    <3>1. PICK c \in Client :
            \/ \E n \in 1..MaxBlocks : liballoc_alloc(c, n)
            \/ \E n \in 1..MaxDma : dma_malloc(c, n)
            \/ liballoc_free(c)
            \/ task_kstack_alloc(c)
            \/ page_directory_new(c)
            \/ UserBlock(c) \/ UserBlockFreed(c)
      BY <2>2 DEF MemoryStep
    <3>2. ASSUME NEW n \in 1..MaxBlocks, liballoc_alloc(c, n) PROVE MemInv'
      BY <1>1, <3>2, HeapKeeps
    <3>3. ASSUME NEW n \in 1..MaxDma, dma_malloc(c, n) PROVE MemInv'
      BY <1>1, <3>3, DeviceKeeps
    <3>4. CASE liballoc_free(c) \/ UserBlockFreed(c)
      BY <1>1, <3>4, ReturnsKeep
    <3>5. CASE task_kstack_alloc(c)
      BY <1>1, <3>5, StackKeeps
    <3>6. CASE page_directory_new(c)
      BY <1>1, <3>6, DirectoryKeeps
    <3>7. CASE UserBlock(c)
      BY <1>1, <3>7, UserKeeps
    <3> QED BY <3>1, <3>2, <3>3, <3>4, <3>5, <3>6, <3>7
  <2>3. CASE Next /\ UNCHANGED memoryVars
    <3>1. PICK t \in Task :
            \/ \E n \in 1..MaxBlocks :
                 \/ MapRegion(t, n)
                 \/ \E i \in 0..(n - 1) : MapFails(t, n, i) \/ MapFailsPrinting(t, n, i)
            \/ unmap_from_kernel(t)
            \/ CleanUpLate(t)
      BY <2>3 DEF Next
    <3>2. ASSUME NEW n \in 1..MaxBlocks, MapRegion(t, n) PROVE MemInv'
      BY <1>1, <2>3, <3>2, MapRegionKeeps
    <3>3. ASSUME NEW n \in 1..MaxBlocks, NEW i \in 0..(n - 1), MapFails(t, n, i)
          PROVE  MemInv'
      BY <1>1, <2>3, <3>3, MapFailsKeeps
    <3>4. ASSUME NEW n \in 1..MaxBlocks, NEW i \in 0..(n - 1), MapFailsPrinting(t, n, i)
          PROVE  MemInv'
      BY <1>1, <2>3, <3>4, MapFailsPrintingKeeps
    <3>5. CASE unmap_from_kernel(t) \/ CleanUpLate(t)
      BY <1>1, <2>3, <3>5, UnmapKeeps
    <3> QED BY <3>1, <3>2, <3>3, <3>4, <3>5
  <2> QED BY <2>1, <2>2, <2>3 DEF MemoryNext
<1> QED BY <1>2, <1>3, PTL DEF MemorySpec

\* Every block is used by one holder or since boot, and block_map says so
\* (pmm.c, dma_malloc()).
THEOREM BlocksHaveOneHolder == MemorySpec => []BlocksAccounted
<1>1. MemInv => BlocksAccounted
  <2> SUFFICES ASSUME MemInv PROVE BlocksAccounted
    OBVIOUS
  <2>1. MemoryTypeOK /\ BlocksHeld(used, GrantBlocks)
    BY DEF MemInv
  <2>2. \A c \in Client : GrantBlocks[c] = grant[c].blocks
    BY DEF GrantBlocks
  <2>3. UNION {GrantBlocks[c] : c \in Client} = UNION {grant[c].blocks : c \in Client}
    BY <2>2
  <2>4. BlocksOnce
    BY <2>1, <2>2, <2>3 DEF BlocksOnce, BlocksHeld
  <2> QED BY <2>1, <2>4 DEF BlocksAccounted
<1> QED BY <1>1, MemorySafe, PTL

\* No allocation and no cleanup touches pages that somebody else holds
\* (find_vspace(), map_userspace_to_kernel(), dma_malloc()).
THEOREM PagesStayHeld == MemorySpec => []PagesHeld
<1>1. MemInv => PagesHeld
  <2> SUFFICES ASSUME MemInv PROVE PagesHeld
    OBVIOUS
  <2>1. \A t \in Task : JobPages[t] = RegionOf(t)
    BY DEF JobPages
  <2>2. \A c \in Client : GrantPages[c] = PagesOf(c)
    BY DEF GrantPages
  <2>3. Mapped \subseteq Task
    BY DEF Mapped
  <2>4. ~delayed => Owned(page, JobPages, GrantPages)
    BY DEF MemInv
  <2>5. RegionsDisjoint
    BY <2>1, <2>3, <2>4 DEF RegionsDisjoint, Owned
  <2>6. MappingsStay
    BY <2>1, <2>3, <2>4 DEF MappingsStay, Owned, MemInv, BootKept
  <2>7. GrantsKeepPages
    BY <2>1, <2>2, <2>3, <2>4 DEF GrantsKeepPages, Owned
  <2> QED BY <2>5, <2>6, <2>7 DEF PagesHeld
<1> QED BY <1>1, MemorySafe, PTL

\* The searches of vmm.c and pmm.c, with everything they skip, find the lowest
\* fit in every page map and block map; find_vspace() does also where the
\* addresses wrap.
THEOREM SearchesFindLowest == MemorySpec => []SearchesExact
<1>1. VspaceAssumption /\ MemoryAssumption
  BY VspaceAssumption, MemoryAssumption
<1>2. SearchesExact
  <2>1. PICK g, u : g = page /\ u = used
    OBVIOUS
  <2>2. FindsFirstFit
    <3>1. ASSUME NEW n \in 1..MaxBlocks
          PROVE  FindStart(g, n) = IF Candidates(g, n) = {} THEN -1 ELSE Min(Candidates(g, n))
      <4>1. PICK s, C : s = FindStart(g, n) /\ C = Candidates(g, n)
        OBVIOUS
      <4>2. Lowest(s, C, 1, -1)
        BY <1>1, <4>1, FindsLowest
      <4>3. C \in SUBSET Nat /\ \A c \in C : 1 <= c
        BY <1>1, <4>1 DEF Candidates, VspaceAssumption
      <4>4. PICK i, no : i = 1 /\ no = -1
        OBVIOUS
      <4>5. s = IF C = {} THEN no ELSE Min(C)
        BY <4>2, <4>3, <4>4, LowestIsMin
      <4> QED BY <4>1, <4>4, <4>5
    <3> QED BY <2>1, <3>1 DEF FindsFirstFit
  <2>3. BlockSearchesExact
    <3>1. ASSUME NEW n \in 1..MaxDma
          PROVE  /\ n > 1 => BlockSearchIs(pmm_find_region(u, n), Block \ u, n)
                 /\ BlockSearchIs(vmm_find_dma_region(u, g, n),
                                  {b \in Block \ u : g[b] = "FREE"}, n)
      <4>1. PICK A, B : A = Block \ u /\ B = {b \in Block \ u : g[b] = "FREE"}
        OBVIOUS
      <4>2. BlockSearchIs(SearchBlocks(A, n), A, n)
        BY <1>1, SearchBlocksExact
      <4>3. BlockSearchIs(SearchBlocks(B, n), B, n)
        BY <1>1, SearchBlocksExact
      <4>4. n > 1 => pmm_find_region(u, n) = SearchBlocks(A, n)
        BY <4>1 DEF pmm_find_region
      <4>5. vmm_find_dma_region(u, g, n) = SearchBlocks(B, n)
        BY <4>1 DEF vmm_find_dma_region
      <4> QED BY <4>1, <4>2, <4>3, <4>4, <4>5
    <3> QED BY <2>1, <3>1 DEF BlockSearchesExact
  <2> QED BY <2>2, <2>3 DEF SearchesExact
<1> QED BY <1>2, PTL

-----------------------------------------------------------------------------
(* The heap: lists of numbers and their sums.                               *)

LEMMA InsertAtFacts ==
  ASSUME NEW S, NEW s \in Seq(S), NEW i \in 1..(Len(s) + 1), NEW e \in S
  PROVE  InsertAt(s, i, e) \in Seq(S) /\ Inserted(InsertAt(s, i, e), s, i, e)
<1>1. PICK n : n = Len(s) /\ n \in Nat /\ \A k \in 1..n : s[k] \in S
  OBVIOUS
<1>2. PICK a, b : a = SubSeq(s, 1, i - 1) /\ b = SubSeq(s, i, n)
  OBVIOUS
<1>3. /\ a \in Seq(S) /\ Len(a) = i - 1
      /\ \A k \in 1..(i - 1) : a[k] = s[k]
  <2>1. i - 1 \in Int /\ \A k \in 1..(i - 1) : s[k] \in S
    BY <1>1
  <2>2. /\ SubSeq(s, 1, i - 1) \in Seq(S)
        /\ Len(SubSeq(s, 1, i - 1)) = IF 1 <= i - 1 THEN i - 1 - 1 + 1 ELSE 0
        /\ \A k \in 1..(i - 1 - 1 + 1) : SubSeq(s, 1, i - 1)[k] = s[1 + k - 1]
    BY <2>1, SubSeqProperties
  <2> QED BY <1>1, <1>2, <2>2
<1>4. /\ b \in Seq(S) /\ Len(b) = n - i + 1
      /\ \A k \in 1..(n - i + 1) : b[k] = s[i + k - 1]
  <2>1. i \in Int /\ n \in Int /\ \A k \in i..n : s[k] \in S
    BY <1>1
  <2>2. /\ SubSeq(s, i, n) \in Seq(S)
        /\ Len(SubSeq(s, i, n)) = IF i <= n THEN n - i + 1 ELSE 0
        /\ \A k \in 1..(n - i + 1) : SubSeq(s, i, n)[k] = s[i + k - 1]
    BY <2>1, SubSeqProperties
  <2> QED BY <1>1, <1>2, <2>2
<1>5. PICK c : c = <<e>> /\ c \in Seq(S) /\ Len(c) = 1 /\ c[1] = e
  <2>1. <<e>> \in Seq(S) /\ Len(<<e>>) = 1 /\ <<e>>[1] = e
    OBVIOUS
  <2> QED BY <2>1
<1>6. PICK d : /\ d = a \o c /\ d \in Seq(S) /\ Len(d) = i
               /\ \A k \in 1..i : d[k] = IF k <= i - 1 THEN a[k] ELSE c[k - (i - 1)]
  <2>1. /\ a \o c \in Seq(S) /\ Len(a \o c) = Len(a) + Len(c)
        /\ \A k \in 1..(Len(a) + Len(c)) :
             (a \o c)[k] = IF k <= Len(a) THEN a[k] ELSE c[k - Len(a)]
    BY <1>3, <1>5, ConcatProperties
  <2>2. Len(a) + Len(c) = i /\ Len(a) = i - 1
    BY <1>3, <1>5
  <2> QED BY <2>1, <2>2
<1>7. PICK t : /\ t = d \o b /\ t \in Seq(S) /\ Len(t) = n + 1
               /\ \A k \in 1..(n + 1) : t[k] = IF k <= i THEN d[k] ELSE b[k - i]
  <2>1. /\ d \o b \in Seq(S) /\ Len(d \o b) = Len(d) + Len(b)
        /\ \A k \in 1..(Len(d) + Len(b)) :
             (d \o b)[k] = IF k <= Len(d) THEN d[k] ELSE b[k - Len(d)]
    <3>1. d \in Seq(S) /\ b \in Seq(S)
      BY <1>4, <1>6
    <3> QED BY <3>1, ConcatProperties
  <2>2. Len(d) + Len(b) = n + 1 /\ Len(d) = i
    BY <1>1, <1>4, <1>6
  <2> QED BY <2>1, <2>2
<1>8. t = InsertAt(s, i, e)
  BY <1>1, <1>2, <1>5, <1>6, <1>7 DEF InsertAt
<1>9. ASSUME NEW k \in 1..(n + 1)
      PROVE  t[k] = IF k < i THEN s[k] ELSE IF k = i THEN e ELSE s[k - 1]
  <2>1. CASE k < i
    <3>1. k \in 1..i /\ k <= i /\ k \in 1..(i - 1) /\ k <= i - 1
      BY <2>1
    <3> QED BY <1>3, <1>6, <1>7, <2>1, <3>1
  <2>2. CASE k = i
    <3>1. k \in 1..i /\ k <= i /\ ~(k <= i - 1) /\ k - (i - 1) = 1
      BY <2>2
    <3> QED BY <1>5, <1>6, <1>7, <2>2, <3>1
  <2>3. CASE k > i
    <3>1. k - i \in 1..(n - i + 1) /\ i + (k - i) - 1 = k - 1 /\ ~(k <= i) /\ ~(k < i) /\ k # i
      BY <1>1, <2>3
    <3> QED BY <1>4, <1>7, <3>1
  <2> QED BY <2>1, <2>2, <2>3
<1> QED BY <1>1, <1>7, <1>8, <1>9 DEF Inserted

\* p are the sums of the beginnings of f.
Sums(p, f) ==
  /\ p \in [0..Len(f) -> Int] /\ p[0] = 0
  /\ \A k \in 1..Len(f) : p[k] = p[k - 1] + f[k]

LEMMA TotalSums ==
  ASSUME NEW f \in Seq(Int)
  PROVE  \E p : Sums(p, f) /\ Total(f) = p[Len(f)]
<1>1. PICK n : n = Len(f) /\ n \in Nat /\ \A k \in 1..n : f[k] \in Int
  OBVIOUS
<1> DEFINE Def(p, m) == p = [i \in 0..m |-> IF i = 0 THEN 0 ELSE p[i - 1] + f[i]]
           G == {m \in 0..n : \E p : Def(p, m)}
<1>2. ASSUME NEW m \in 0..n, m # 0 => m - 1 \in G PROVE m \in G
  <2>1. CASE m = 0
    <3>1. PICK p : p = [i \in 0..m |-> 0]
      OBVIOUS
    <3>2. \A i \in 0..m : i = 0
      BY <2>1
    <3>3. Def(p, m)
      BY <3>1, <3>2
    <3> QED BY <3>3
  <2>2. CASE m # 0
    <3>1. PICK q : Def(q, m - 1)
      BY <1>2, <2>2
    <3>2. PICK p : p = [i \in 0..m |-> IF i = m THEN q[m - 1] + f[m] ELSE q[i]]
      OBVIOUS
    <3>3. ASSUME NEW i \in 0..m PROVE p[i] = IF i = 0 THEN 0 ELSE p[i - 1] + f[i]
      <4>1. i # 0 => i - 1 \in 0..m /\ i - 1 # m
        BY <1>1
      <4>2. i # m => i \in 0..(m - 1)
        BY <1>1
      <4>3. CASE i = m
        BY <2>2, <3>2, <4>1, <4>3
      <4>4. CASE i # m
        <5>1. q[i] = IF i = 0 THEN 0 ELSE q[i - 1] + f[i]
          BY <3>1, <4>2, <4>4
        <5> QED BY <3>2, <4>1, <4>4, <5>1
      <4> QED BY <4>3, <4>4
    <3>4. Def(p, m)
      <4>1. p = [i \in 0..m |-> p[i]]
        BY <3>2
      <4> QED BY <3>3, <4>1
    <3> QED BY <3>4
  <2> QED BY <2>1, <2>2
<1>3. n \in G
  <2> HIDE DEF G
  <2>1. Forwards(n, G)
    BY <1>2 DEF Forwards
  <2> QED BY <1>1, <2>1, StepInduction
<1>4. PICK s : s = CHOOSE p : Def(p, n)
  OBVIOUS
<1>5. Def(s, n)
  BY <1>3, <1>4
<1>6. Total(f) = s[n]
  BY <1>1, <1>4, Zenon DEF Total
<1>7. s[0] = 0 /\ \A k \in 1..n : s[k] = s[k - 1] + f[k]
  BY <1>1, <1>5
<1>8. \A k \in 0..n : s[k] \in Int
  <2> DEFINE H == {k \in 0..n : s[k] \in Int}
  <2>1. ASSUME NEW k \in 0..n, k # 0 => k - 1 \in H PROVE k \in H
    BY <1>1, <1>7, <2>1
  <2> HIDE DEF H
  <2>2. Forwards(n, H)
    BY <2>1 DEF Forwards
  <2>3. \A k \in 0..n : k \in H
    BY <1>1, <2>2, StepInduction
  <2> QED BY <2>3 DEF H
<1>9. s \in [0..n -> Int]
  BY <1>5, <1>8
<1> QED BY <1>1, <1>6, <1>7, <1>9 DEF Sums


LEMMA TotalInsert ==
  ASSUME NEW s \in Seq(Int), NEW t \in Seq(Int), NEW i \in 1..(Len(s) + 1), NEW e \in Int,
         Inserted(t, s, i, e)
  PROVE  Total(t) = Total(s) + e
<1>1. PICK p : Sums(p, s) /\ Total(s) = p[Len(s)]
  BY TotalSums
<1>2. PICK q : Sums(q, t) /\ Total(t) = q[Len(t)]
  BY TotalSums
<1>3. PICK n : n = Len(s) /\ n \in Nat /\ Len(t) = n + 1
  <2>1. Len(s) \in Nat /\ Len(t) = Len(s) + 1
    BY DEF Inserted
  <2> QED BY <2>1
<1>4. /\ p \in [0..n -> Int] /\ p[0] = 0 /\ q \in [0..(n + 1) -> Int] /\ q[0] = 0
      /\ \A k \in 1..n : p[k] = p[k - 1] + s[k]
      /\ \A k \in 1..(n + 1) : q[k] = q[k - 1] + t[k]
      /\ \A k \in 1..(n + 1) : t[k] = IF k < i THEN s[k] ELSE IF k = i THEN e ELSE s[k - 1]
  BY <1>1, <1>2, <1>3 DEF Sums, Inserted
<1> DEFINE G == {k \in 0..(n + 1) : q[k] = IF k < i THEN p[k] ELSE p[k - 1] + e}
<1>5. ASSUME NEW k \in 0..(n + 1), k # 0 => k - 1 \in G PROVE k \in G
  <2>1. CASE k = 0
    BY <1>3, <1>4, <2>1
  <2>2. CASE k # 0 /\ k < i
    <3>1. k \in 1..n /\ k \in 1..(n + 1) /\ k - 1 < i
      BY <1>3, <2>2
    <3>2. q[k] = q[k - 1] + t[k] /\ p[k] = p[k - 1] + s[k] /\ t[k] = s[k] /\ q[k - 1] = p[k - 1]
      BY <1>4, <1>5, <2>2, <3>1
    <3> QED BY <2>2, <3>2
  <2>3. CASE k = i
    <3>1. k \in 1..(n + 1) /\ k - 1 < i /\ k # 0
      BY <1>3, <2>3
    <3>2. q[k] = q[k - 1] + t[k] /\ t[k] = e /\ q[k - 1] = p[k - 1]
      BY <1>4, <1>5, <2>3, <3>1
    <3> QED BY <2>3, <3>1, <3>2
  <2>4. CASE k > i
    <3>1. k \in 1..(n + 1) /\ ~(k - 1 < i) /\ ~(k < i) /\ k # 0 /\ k - 1 \in 1..n /\ k # i
      BY <1>3, <2>4
    <3>2. q[k] = q[k - 1] + t[k] /\ t[k] = s[k - 1] /\ p[k - 1] = p[k - 1 - 1] + s[k - 1]
      BY <1>4, <3>1
    <3>3. q[k - 1] = p[k - 1 - 1] + e
      BY <1>5, <3>1
    <3>4. p[k - 1 - 1] \in Int /\ s[k - 1] \in Int
      <4>1. k - 1 - 1 \in 0..n
        BY <1>3, <3>1
      <4>2. s[k - 1] \in Int
        BY <1>3, <3>1, ElementOfSeq
      <4> QED BY <1>4, <4>1, <4>2
    <3>5. q[k] = p[k - 1] + e
      BY <3>2, <3>3, <3>4
    <3> QED BY <3>1, <3>5
  <2> QED BY <1>3, <2>1, <2>2, <2>3, <2>4
<1>6. n + 1 \in G
  <2> HIDE DEF G
  <2>1. Forwards(n + 1, G) /\ n + 1 \in Int /\ n + 1 \in 0..(n + 1)
    BY <1>3, <1>5 DEF Forwards
  <2> QED BY <2>1, StepInduction
<1> QED BY <1>1, <1>2, <1>3, <1>6

LEMMA TotalReplace ==
  ASSUME NEW s \in Seq(Int), NEW t \in Seq(Int), NEW i \in 1..Len(s),
         Len(t) = Len(s), \A k \in 1..Len(s) : k # i => t[k] = s[k]
  PROVE  Total(t) = Total(s) + (t[i] - s[i])
<1>1. PICK p : Sums(p, s) /\ Total(s) = p[Len(s)]
  BY TotalSums
<1>2. PICK q : Sums(q, t) /\ Total(t) = q[Len(t)]
  BY TotalSums
<1>3. PICK n : n = Len(s) /\ n \in Nat /\ Len(t) = n
  OBVIOUS
<1>4. /\ p \in [0..n -> Int] /\ p[0] = 0 /\ q \in [0..n -> Int] /\ q[0] = 0
      /\ \A k \in 1..n : p[k] = p[k - 1] + s[k]
      /\ \A k \in 1..n : q[k] = q[k - 1] + t[k]
      /\ s[i] \in Int /\ t[i] \in Int
  BY <1>1, <1>2, <1>3 DEF Sums
<1> DEFINE G == {k \in 0..n : q[k] = IF k < i THEN p[k] ELSE p[k] + (t[i] - s[i])}
<1>5. ASSUME NEW k \in 0..n, k # 0 => k - 1 \in G PROVE k \in G
  <2>1. CASE k = 0
    BY <1>3, <1>4, <2>1
  <2>2. CASE k # 0
    <3>1. k \in 1..n /\ k - 1 \in 0..n
      BY <1>3, <2>2
    <3>2. q[k] = q[k - 1] + t[k] /\ p[k] = p[k - 1] + s[k] /\ (k # i => t[k] = s[k])
      BY <1>3, <1>4, <3>1
    <3>3. q[k - 1] = IF k - 1 < i THEN p[k - 1] ELSE p[k - 1] + (t[i] - s[i])
      BY <1>5, <2>2
    <3>4. p[k - 1] \in Int /\ s[k] \in Int /\ t[k] \in Int
      <4>1. s[k] \in Int
        BY <1>3, <3>1, ElementOfSeq
      <4>2. t[k] \in Int
        BY <1>3, <3>1, ElementOfSeq
      <4>3. p[k - 1] \in Int
        BY <1>4, <3>1
      <4> QED BY <4>1, <4>2, <4>3
    <3>5. CASE k = i
      <4>1. q[k - 1] = p[k - 1]
        BY <3>3, <3>5
      <4>2. q[k] = p[k] + (t[i] - s[i])
        BY <3>2, <3>4, <3>5, <4>1
      <4> QED BY <3>5, <4>2
    <3>6. CASE k # i
      <4>1. k - 1 < i <=> k < i
        BY <3>6
      <4> QED BY <1>4, <3>2, <3>3, <3>4, <3>6, <4>1
    <3> QED BY <3>5, <3>6
  <2> QED BY <2>1, <2>2
<1>6. n \in G
  <2> HIDE DEF G
  <2>1. Forwards(n, G) /\ n \in Int /\ n \in 0..n
    BY <1>3, <1>5 DEF Forwards
  <2> QED BY <2>1, StepInduction
<1> QED BY <1>1, <1>2, <1>3, <1>6

LEMMA TotalNat ==
  ASSUME NEW s \in Seq(Nat)
  PROVE  Total(s) \in Nat /\ (Len(s) = 0 => Total(s) = 0)
<1>1. s \in Seq(Int)
  <2>1. Nat \subseteq Int
    OBVIOUS
  <2> QED BY <2>1, SeqMonotonic
<1>2. PICK p : Sums(p, s) /\ Total(s) = p[Len(s)]
  BY <1>1, TotalSums
<1>3. PICK n : n = Len(s) /\ n \in Nat
  OBVIOUS
<1> DEFINE G == {k \in 0..n : p[k] \in Nat}
<1>4. ASSUME NEW k \in 0..n, k # 0 => k - 1 \in G PROVE k \in G
  <2>1. k = 0 => p[k] = 0
    BY <1>2 DEF Sums
  <2>2. k # 0 => k \in 1..n /\ p[k] = p[k - 1] + s[k] /\ s[k] \in Nat
    BY <1>2, <1>3 DEF Sums
  <2> QED BY <1>4, <2>1, <2>2
<1>5. n \in G
  <2> HIDE DEF G
  <2>1. Forwards(n, G) /\ n \in Int /\ n \in 0..n
    BY <1>3, <1>4 DEF Forwards
  <2> QED BY <2>1, StepInduction
<1>6. n = 0 => p[n] = 0
  BY <1>2 DEF Sums
<1> QED BY <1>2, <1>3, <1>5, <1>6

-----------------------------------------------------------------------------
(* The heap: one major.                                                     *)

LEMMA HeapParams ==
  /\ ALIGNMENT \in Nat /\ ALIGNMENT > 0 /\ ALIGN_INFO \in Nat /\ ALIGN_INFO > 0
  /\ MajorHeader \in Nat /\ MajorHeader > 0 /\ MinorHeader \in Nat /\ MinorHeader > 0
  /\ PageSize \in Nat /\ PageSize > 0 /\ PageCount \in Nat /\ PageCount > 0
  /\ Requests \subseteq Nat
BY HeapAssumption

\* ALIGN makes an address that is aligned, and leaves the room for its
\* information before it.
LEMMA PadFacts ==
  ASSUME NEW addr \in Nat
  PROVE  /\ Pad(addr) \in Nat /\ Pad(addr) >= ALIGN_INFO /\ Pad(addr) < ALIGN_INFO + ALIGNMENT
         /\ (addr + Pad(addr)) % ALIGNMENT = 0
<1>1. PICK A, x, y : A = ALIGNMENT /\ x = addr + ALIGN_INFO /\ y = -x
  OBVIOUS
<1>2. A \in Nat /\ A > 0 /\ x \in Nat /\ y \in Int /\ ALIGN_INFO \in Nat
  BY <1>1, HeapParams
<1>3. PICK r, q : r = y % A /\ q = y \div A
  OBVIOUS
<1>4. r \in 0..(A - 1) /\ q \in Int /\ y = A * q + r
  BY <1>2, <1>3
<1>5. Pad(addr) = ALIGN_INFO + r
  BY <1>1, <1>3 DEF Pad
<1>6. addr + Pad(addr) = A * (-q)
  BY <1>1, <1>2, <1>4, <1>5
<1>7. (A * (-q)) % A = 0
  <2>1. PICK z : z = -q /\ z \in Int
    BY <1>4
  <2>2. (A * z) % A = 0
    BY <1>2, <2>1
  <2> QED BY <2>1, <2>2
<1> QED BY <1>1, <1>2, <1>4, <1>5, <1>6, <1>7

LEMMA MinorFields ==
  ASSUME NEW min \in Minor
  PROVE  min.off \in Nat /\ min.size \in Nat /\ min.req \in Nat
BY DEF Minor

LEMMA MajorFields ==
  ASSUME NEW maj \in Major
  PROVE  /\ maj.base \in Nat /\ maj.pages \in Nat /\ maj.usage \in Nat
         /\ maj.minors \in Seq(Minor) /\ Len(maj.minors) \in Nat
         /\ DOMAIN maj.minors = 1..Len(maj.minors)
         /\ \A j \in 1..Len(maj.minors) :
              /\ maj.minors[j] \in Minor
              /\ maj.minors[j].off \in Nat /\ maj.minors[j].size \in Nat /\ maj.minors[j].req \in Nat
         /\ Size(maj) \in Nat
<1>1. /\ maj.base \in Nat /\ maj.pages \in Nat /\ maj.usage \in Nat
      /\ maj.minors \in Seq(Minor)
  BY DEF Major
<1>2. Len(maj.minors) \in Nat /\ DOMAIN maj.minors = 1..Len(maj.minors)
  BY <1>1
<1>3. ASSUME NEW j \in 1..Len(maj.minors) PROVE maj.minors[j] \in Minor
  BY <1>1, ElementOfSeq
<1>4. Size(maj) \in Nat
  BY <1>1, HeapParams DEF Size
<1> QED BY <1>1, <1>2, <1>3, <1>4, MinorFields

LEMMA SizesFacts ==
  ASSUME NEW ms \in Seq(Minor)
  PROVE  LET f == [j \in DOMAIN ms |-> ms[j].size] IN
         /\ f \in Seq(Nat) /\ f \in Seq(Int) /\ Len(f) = Len(ms)
         /\ \A j \in 1..Len(ms) : f[j] = ms[j].size
<1>1. PICK n : n = Len(ms) /\ n \in Nat /\ DOMAIN ms = 1..n
  OBVIOUS
<1>2. PICK f : f = [j \in 1..n |-> ms[j].size]
  OBVIOUS
<1>3. ASSUME NEW j \in 1..n PROVE ms[j].size \in Nat /\ ms[j].size \in Int
  <2>1. ms[j] \in Minor
    BY <1>1, ElementOfSeq
  <2> QED BY <2>1, MinorFields
<1>4. f \in Seq(Nat) /\ Len(f) = n /\ \A j \in 1..n : f[j] = ms[j].size
  BY <1>1, <1>2, <1>3
<1>5. f \in Seq(Int)
  BY <1>1, <1>2, <1>3
<1> QED BY <1>1, <1>2, <1>4, <1>5

\* The minors of a major are in order, each with the space for its alignment,
\* and its usage counts them.
MajorOK(maj) ==
  /\ maj \in Major /\ maj.pages > 0
  /\ \A j \in 1..Len(maj.minors) :
       maj.minors[j].req \in Requests /\ maj.minors[j].size >= Padded(maj.minors[j].req)
  /\ \A i \in 0..Len(maj.minors) : GapStart(maj, i) <= GapEnd(maj, i)
  /\ maj.usage = MajorHeader + InMinors(maj) + Len(maj.minors) * MinorHeader

LEMMA GapTypes ==
  ASSUME NEW maj \in Major, NEW i \in 0..Len(maj.minors)
  PROVE  GapStart(maj, i) \in Nat /\ GapEnd(maj, i) \in Nat
<1>1. Len(maj.minors) \in Nat
  BY MajorFields
<1>2. i # 0 => i \in 1..Len(maj.minors)
  BY <1>1
<1>3. i # Len(maj.minors) => i + 1 \in 1..Len(maj.minors)
  BY <1>1
<1> QED BY <1>2, <1>3, MajorFields, HeapParams DEF GapStart, GapEnd

LEMMA InMinorsFacts ==
  ASSUME NEW maj \in Major
  PROVE  InMinors(maj) \in Nat /\ (maj.minors = << >> => InMinors(maj) = 0)
<1>1. PICK f : f = [j \in DOMAIN maj.minors |-> maj.minors[j].size]
  OBVIOUS
<1>2. f \in Seq(Nat) /\ Len(f) = Len(maj.minors)
  BY <1>1, SizesFacts, MajorFields
<1>3. Total(f) \in Nat /\ (Len(f) = 0 => Total(f) = 0)
  BY <1>2, TotalNat
<1> QED BY <1>1, <1>2, <1>3 DEF InMinors

\* A minor is inserted into gap i, or taken out again.
Holds(new, maj, i, min) ==
  /\ new \in Major /\ new.base = maj.base /\ new.pages = maj.pages
  /\ min \in Minor
  /\ Inserted(new.minors, maj.minors, i + 1, min)

LEMMA InsertIs ==
  ASSUME NEW maj \in Major, NEW size \in Nat, NEW req \in Nat, Fits(maj, size) # {}
  PROVE  \E i \in Fits(maj, size) :
           /\ i \in 0..Len(maj.minors)
           /\ Insert(maj, size, req).usage = maj.usage + size + MinorHeader
           /\ Holds(Insert(maj, size, req), maj, i,
                    [off |-> GapStart(maj, i), size |-> size, req |-> req])
<1>1. PICK F : F = Fits(maj, size)
  OBVIOUS
<1>2. F \in SUBSET (0..Len(maj.minors))
  BY <1>1, MajorFields DEF Fits
<1>3. PICK i : i = Min(F) /\ i \in F
  <2>1. F \in SUBSET Nat /\ F # {}
    BY <1>1, <1>2, MajorFields
  <2> QED BY <2>1, MinFacts
<1>4. i \in 0..Len(maj.minors) /\ i + 1 \in 1..(Len(maj.minors) + 1)
  BY <1>2, <1>3, MajorFields
<1>5. PICK min : min = [off |-> GapStart(maj, i), size |-> size, req |-> req]
  OBVIOUS
<1>6. min \in Minor /\ min.size = size
  BY <1>4, <1>5, GapTypes DEF Minor
<1>7. PICK ms : ms = InsertAt(maj.minors, i + 1, min)
  OBVIOUS
<1>8. ms \in Seq(Minor) /\ Inserted(ms, maj.minors, i + 1, min)
  BY <1>4, <1>6, <1>7, InsertAtFacts, MajorFields
<1>9. PICK new : new = Insert(maj, size, req)
  OBVIOUS
<1>10. new = [maj EXCEPT !.usage = @ + size + MinorHeader, !.minors = ms]
  BY <1>1, <1>3, <1>5, <1>7, <1>9 DEF Insert
<1>11. PICK u : u = maj.usage + size + MinorHeader /\ u \in Nat
  <2>1. maj.usage \in Nat /\ MinorHeader \in Nat
    BY MajorFields, HeapParams
  <2>2. maj.usage + size + MinorHeader \in Nat
    BY <2>1
  <2> QED BY <2>2
<1>12. /\ new \in Major /\ new.base = maj.base /\ new.pages = maj.pages
       /\ new.usage = u /\ new.minors = ms
  BY <1>8, <1>10, <1>11 DEF Major
<1>13. Holds(new, maj, i, min)
  BY <1>6, <1>8, <1>12 DEF Holds
<1> QED BY <1>1, <1>3, <1>4, <1>5, <1>9, <1>11, <1>12, <1>13

\* What the gaps of the two are to each other.
LEMMA HoldsGaps ==
  ASSUME NEW maj \in Major, NEW new, NEW i \in 0..Len(maj.minors), NEW min,
         Holds(new, maj, i, min)
  PROVE  /\ Len(new.minors) = Len(maj.minors) + 1 /\ Size(new) = Size(maj)
         /\ \A k \in 0..(Len(maj.minors) + 1) :
              /\ GapStart(new, k) = IF k <= i THEN GapStart(maj, k)
                                    ELSE IF k = i + 1 THEN min.off + MinorHeader + min.size
                                    ELSE GapStart(maj, k - 1)
              /\ GapEnd(new, k) = IF k < i THEN GapEnd(maj, k)
                                  ELSE IF k = i THEN min.off
                                  ELSE GapEnd(maj, k - 1)
<1>1. PICK n, ms, ns : n = Len(maj.minors) /\ n \in Nat /\ ms = maj.minors /\ ns = new.minors
  BY MajorFields
<1>2. /\ Len(ns) = n + 1 /\ Size(new) = Size(maj)
      /\ \A k \in 1..(n + 1) :
           ns[k] = IF k < i + 1 THEN ms[k] ELSE IF k = i + 1 THEN min ELSE ms[k - 1]
  BY <1>1 DEF Holds, Inserted, Size
<1>3. ASSUME NEW k \in 0..(n + 1)
      PROVE  /\ GapStart(new, k) = IF k <= i THEN GapStart(maj, k)
                                    ELSE IF k = i + 1 THEN min.off + MinorHeader + min.size
                                    ELSE GapStart(maj, k - 1)
             /\ GapEnd(new, k) = IF k < i THEN GapEnd(maj, k)
                                  ELSE IF k = i THEN min.off
                                  ELSE GapEnd(maj, k - 1)
  <2>1. /\ GapStart(new, k) = IF k = 0 THEN MajorHeader ELSE ns[k].off + MinorHeader + ns[k].size
        /\ GapStart(maj, k) = IF k = 0 THEN MajorHeader ELSE ms[k].off + MinorHeader + ms[k].size
        /\ GapStart(maj, k - 1) = IF k - 1 = 0 THEN MajorHeader
                                  ELSE ms[k - 1].off + MinorHeader + ms[k - 1].size
    BY <1>1 DEF GapStart
  <2>2. /\ GapEnd(new, k) = IF k = n + 1 THEN Size(maj) ELSE ns[k + 1].off
        /\ GapEnd(maj, k) = IF k = n THEN Size(maj) ELSE ms[k + 1].off
        /\ GapEnd(maj, k - 1) = IF k - 1 = n THEN Size(maj) ELSE ms[k - 1 + 1].off
    BY <1>1, <1>2 DEF GapEnd
  <2>3. k # 0 => ns[k] = IF k < i + 1 THEN ms[k] ELSE IF k = i + 1 THEN min ELSE ms[k - 1]
    <3>1. k # 0 => k \in 1..(n + 1)
      BY <1>1
    <3> QED BY <1>2, <3>1
  <2>4. k # n + 1 =>
          ns[k + 1] = IF k + 1 < i + 1 THEN ms[k + 1]
                      ELSE IF k + 1 = i + 1 THEN min ELSE ms[k]
    <3>1. k # n + 1 => k + 1 \in 1..(n + 1) /\ (k + 1) - 1 = k
      BY <1>1
    <3> QED BY <1>2, <3>1
  <2>5. GapStart(new, k) = IF k <= i THEN GapStart(maj, k)
                                    ELSE IF k = i + 1 THEN min.off + MinorHeader + min.size
                                    ELSE GapStart(maj, k - 1)
    <3>1. i \in 0..n
      BY <1>1
    <3>2. CASE k <= i
      <4>1. k # 0 => k < i + 1
        BY <3>1, <3>2
      <4> QED BY <2>1, <2>3, <3>2, <4>1
    <3>3. CASE k = i + 1
      <4>1. k # 0 /\ ~(k < i + 1) /\ ~(k <= i)
        BY <3>1, <3>3
      <4> QED BY <2>1, <2>3, <3>3, <4>1
    <3>4. CASE k > i + 1
      <4>1. k # 0 /\ ~(k < i + 1) /\ ~(k <= i) /\ k # i + 1 /\ k - 1 # 0
        BY <3>1, <3>4
      <4> QED BY <2>1, <2>3, <4>1
    <3> QED BY <1>1, <3>1, <3>2, <3>3, <3>4
  <2>6. GapEnd(new, k) = IF k < i THEN GapEnd(maj, k)
                                  ELSE IF k = i THEN min.off
                                  ELSE GapEnd(maj, k - 1)
    <3>1. i \in 0..n
      BY <1>1
    <3>2. CASE k < i
      <4>1. k # n /\ k # n + 1 /\ k + 1 < i + 1
        BY <1>1, <3>1, <3>2
      <4> QED BY <2>2, <2>4, <3>2, <4>1
    <3>3. CASE k = i
      <4>1. k # n + 1 /\ ~(k + 1 < i + 1) /\ k + 1 = i + 1 /\ ~(k < i)
        BY <1>1, <3>1, <3>3
      <4> QED BY <2>2, <2>4, <3>3, <4>1
    <3>4. CASE k > i
      <4>1. ~(k + 1 < i + 1) /\ k + 1 # i + 1 /\ ~(k < i) /\ k # i /\ k - 1 + 1 = k
              /\ (k - 1 = n <=> k = n + 1)
        BY <1>1, <3>1, <3>4
      <4> QED BY <2>2, <2>4, <4>1
    <3> QED BY <1>1, <3>1, <3>2, <3>3, <3>4
  <2> QED BY <2>5, <2>6
<1> QED BY <1>1, <1>2, <1>3

LEMMA HoldsTotals ==
  ASSUME NEW maj \in Major, NEW new, NEW i \in 0..Len(maj.minors), NEW min,
         Holds(new, maj, i, min)
  PROVE  InMinors(new) = InMinors(maj) + min.size
<1>1. PICK f : f = [j \in DOMAIN maj.minors |-> maj.minors[j].size]
  OBVIOUS
<1>2. PICK g : g = [j \in DOMAIN new.minors |-> new.minors[j].size]
  OBVIOUS
<1>3. maj.minors \in Seq(Minor) /\ new.minors \in Seq(Minor) /\ min.size \in Int
  BY MajorFields, MinorFields DEF Holds
<1>4. /\ f \in Seq(Int) /\ Len(f) = Len(maj.minors)
      /\ \A j \in 1..Len(maj.minors) : f[j] = maj.minors[j].size
  BY <1>1, <1>3, SizesFacts
<1>5. /\ g \in Seq(Int) /\ Len(g) = Len(new.minors)
      /\ \A j \in 1..Len(new.minors) : g[j] = new.minors[j].size
  BY <1>2, <1>3, SizesFacts
<1>6. i + 1 \in 1..(Len(f) + 1) /\ Len(f) \in Nat
  BY <1>3, <1>4
<1>7. Inserted(g, f, i + 1, min.size)
  <2>1. PICK n : n = Len(f) /\ n \in Nat /\ Len(maj.minors) = n /\ Len(g) = n + 1 /\ Len(new.minors) = n + 1
    BY <1>4, <1>5, <1>6 DEF Holds, Inserted
  <2>2. ASSUME NEW k \in 1..(n + 1)
        PROVE  g[k] = IF k < i + 1 THEN f[k] ELSE IF k = i + 1 THEN min.size ELSE f[k - 1]
    <3>1. new.minors[k] = IF k < i + 1 THEN maj.minors[k] ELSE IF k = i + 1 THEN min
                          ELSE maj.minors[k - 1]
      BY <2>1 DEF Holds, Inserted
    <3>2. g[k] = new.minors[k].size
      BY <1>5, <2>1
    <3>3. k < i + 1 => f[k] = maj.minors[k].size
      <4>1. k < i + 1 => k \in 1..n
        BY <1>6, <2>1
      <4> QED BY <1>4, <2>1, <4>1
    <3>4. k > i + 1 => f[k - 1] = maj.minors[k - 1].size
      <4>1. k > i + 1 => k - 1 \in 1..n
        BY <1>6, <2>1
      <4> QED BY <1>4, <2>1, <4>1
    <3>5. k < i + 1 \/ k = i + 1 \/ k > i + 1
      BY <1>6, <2>1
    <3> QED BY <3>1, <3>2, <3>3, <3>4, <3>5
  <2> QED BY <2>1, <2>2 DEF Inserted
<1>8. Total(g) = Total(f) + min.size
  BY <1>3, <1>4, <1>5, <1>6, <1>7, TotalInsert
<1> QED BY <1>1, <1>2, <1>8 DEF InMinors

LEMMA InsertKeeps ==
  ASSUME NEW maj, MajorOK(maj), NEW new, NEW i \in 0..Len(maj.minors), NEW min,
         Holds(new, maj, i, min),
         min.off = GapStart(maj, i),
         GapEnd(maj, i) - GapStart(maj, i) >= min.size + MinorHeader,
         min.req \in Requests, min.size >= Padded(min.req),
         new.usage = maj.usage + min.size + MinorHeader
  PROVE  MajorOK(new)
<1>1. maj \in Major /\ new \in Major /\ min \in Minor /\ new.pages > 0
  BY DEF MajorOK, Holds
<1>2. PICK n : n = Len(maj.minors) /\ n \in Nat /\ Len(new.minors) = n + 1
  <2>1. Len(maj.minors) \in Nat /\ Len(new.minors) = Len(maj.minors) + 1
    BY <1>1, MajorFields, HoldsGaps
  <2> QED BY <2>1
<1>3. ASSUME NEW j \in 1..(n + 1)
      PROVE  new.minors[j].req \in Requests /\ new.minors[j].size >= Padded(new.minors[j].req)
  <2>1. new.minors[j] = IF j < i + 1 THEN maj.minors[j] ELSE IF j = i + 1 THEN min
                        ELSE maj.minors[j - 1]
    BY <1>2 DEF Holds, Inserted
  <2>2. j < i + 1 => j \in 1..n
    BY <1>2
  <2>3. ~(j < i + 1) /\ j # i + 1 => j - 1 \in 1..n
    BY <1>2
  <2> QED BY <1>2, <2>1, <2>2, <2>3 DEF MajorOK
<1>4. ASSUME NEW k \in 0..(n + 1) PROVE GapStart(new, k) <= GapEnd(new, k)
  <2>1. /\ GapStart(new, k) = IF k <= i THEN GapStart(maj, k)
                                    ELSE IF k = i + 1 THEN min.off + MinorHeader + min.size
                                    ELSE GapStart(maj, k - 1)
        /\ GapEnd(new, k) = IF k < i THEN GapEnd(maj, k)
                                  ELSE IF k = i THEN min.off
                                  ELSE GapEnd(maj, k - 1)
    BY <1>1, <1>2, HoldsGaps
  <2>2. \A e \in 0..n : GapStart(maj, e) <= GapEnd(maj, e)
    BY <1>2 DEF MajorOK
  <2>3. GapStart(maj, i) \in Nat /\ GapEnd(maj, i) \in Nat /\ min.size \in Nat /\ MinorHeader \in Nat
    BY <1>1, GapTypes, MinorFields, HeapParams
  <2>4. CASE k < i
    <3>1. k \in 0..n /\ k <= i
      BY <1>2, <2>4
    <3> QED BY <2>1, <2>2, <2>4, <3>1
  <2>5. CASE k = i
    BY <2>1, <2>3, <2>5
  <2>6. CASE k = i + 1
    <3>1. ~(k <= i) /\ ~(k < i) /\ k # i /\ k - 1 = i
      BY <1>2, <2>6
    <3> QED BY <2>1, <2>3, <2>6, <3>1
  <2>7. CASE k > i + 1
    <3>1. ~(k <= i) /\ ~(k < i) /\ k # i /\ k # i + 1 /\ k - 1 \in 0..n
      BY <1>2, <2>7
    <3> QED BY <2>1, <2>2, <3>1
  <2> QED BY <1>2, <2>4, <2>5, <2>6, <2>7
<1>5. new.usage = MajorHeader + InMinors(new) + Len(new.minors) * MinorHeader
  <2>1. maj.usage = MajorHeader + InMinors(maj) + n * MinorHeader
    BY <1>2 DEF MajorOK
  <2>2. InMinors(new) = InMinors(maj) + min.size
    BY <1>1, HoldsTotals
  <2>3. InMinors(maj) \in Nat /\ min.size \in Nat /\ MinorHeader \in Nat /\ MajorHeader \in Nat
    BY <1>1, InMinorsFacts, MinorFields, HeapParams
  <2>4. (n + 1) * MinorHeader = n * MinorHeader + MinorHeader /\ n * MinorHeader \in Nat
    BY <1>2, <2>3
  <2> QED BY <1>2, <2>1, <2>2, <2>3, <2>4
<1> QED BY <1>1, <1>2, <1>3, <1>4, <1>5 DEF MajorOK

LEMMA OneLess ==
  ASSUME NEW n \in Nat, n > 0, NEW c \in Nat
  PROVE  /\ n * c \in Nat /\ (n - 1) * c \in Nat /\ (n - 1) * c = n * c - c
         /\ n * c >= c
OBVIOUS

\* A major without its j-th minor.
Without(maj, j) ==
  [maj EXCEPT !.minors = RemoveAt(@, j),
              !.usage = @ - (maj.minors[j].size + MinorHeader)]

LEMMA RemoveKeeps ==
  ASSUME NEW maj, MajorOK(maj), NEW j \in 1..Len(maj.minors), NEW less,
         less = Without(maj, j)
  PROVE  /\ MajorOK(less) /\ Holds(maj, less, j - 1, maj.minors[j])
         /\ j - 1 \in 0..Len(less.minors)
         /\ InMinors(maj) = InMinors(less) + maj.minors[j].size
<1>1. maj \in Major
  BY DEF MajorOK
<1>2. PICK n : n = Len(maj.minors) /\ n \in Nat /\ j \in 1..n
  BY <1>1, MajorFields
<1>3. PICK min, ms : min = maj.minors[j] /\ ms = RemoveAt(maj.minors, j)
  OBVIOUS
<1>4. min \in Minor /\ min.size \in Nat /\ min.off \in Nat
  BY <1>1, <1>2, <1>3, MajorFields
<1>5. ms \in Seq(Minor) /\ Inserted(maj.minors, ms, j, min)
  BY <1>1, <1>3, RemoveAtFacts, MajorFields
<1>6. Len(ms) = n - 1 /\ j - 1 \in 0..(n - 1)
  BY <1>2, <1>5 DEF Inserted
<1>7. PICK w : w = [maj EXCEPT !.minors = ms]
  OBVIOUS
<1>8. w \in Major /\ w.base = maj.base /\ w.pages = maj.pages /\ w.minors = ms
  BY <1>1, <1>5, <1>7 DEF Major
<1>9. Holds(maj, w, j - 1, min) /\ j - 1 \in 0..Len(w.minors)
  <2>1. j - 1 + 1 = j
    BY <1>2
  <2> QED BY <1>1, <1>4, <1>5, <1>6, <1>8, <2>1 DEF Holds
<1>10. InMinors(maj) = InMinors(w) + min.size /\ InMinors(w) \in Nat
  BY <1>8, <1>9, HoldsTotals, InMinorsFacts
<1>11. PICK u : u = maj.usage - (min.size + MinorHeader)
  OBVIOUS
<1>12. u = MajorHeader + InMinors(w) + (n - 1) * MinorHeader /\ u \in Nat
  <2>1. maj.usage = MajorHeader + InMinors(maj) + n * MinorHeader
    BY <1>2 DEF MajorOK
  <2>2. MinorHeader \in Nat /\ MajorHeader \in Nat
    BY HeapParams
  <2>3. PICK a, b : a = n * MinorHeader /\ b = (n - 1) * MinorHeader
    OBVIOUS
  <2>4. a \in Nat /\ b \in Nat /\ b = a - MinorHeader
    BY <1>2, <2>2, <2>3, OneLess
  <2>5. u = MajorHeader + InMinors(w) + b /\ u \in Nat
    <3>1. maj.usage = MajorHeader + (InMinors(w) + min.size) + a
      BY <1>10, <2>1, <2>3
    <3> QED BY <1>4, <1>10, <1>11, <2>2, <2>4, <3>1
  <2> QED BY <2>3, <2>5
<1>13. /\ less \in Major /\ less.base = maj.base /\ less.pages = maj.pages
       /\ less.usage = u /\ less.minors = ms
  <2>1. less = [maj EXCEPT !.minors = ms, !.usage = u]
    BY <1>3, <1>11 DEF Without
  <2> QED BY <1>1, <1>5, <1>12, <2>1 DEF Major
<1>14. InMinors(less) = InMinors(w)
  BY <1>8, <1>13 DEF InMinors
<1>15. Holds(maj, less, j - 1, min) /\ j - 1 \in 0..Len(less.minors)
  BY <1>8, <1>9, <1>13 DEF Holds
<1>16. MajorOK(less)
  <2>1. less.pages > 0
    BY <1>13 DEF MajorOK
  <2>2. ASSUME NEW k \in 1..(n - 1)
        PROVE  less.minors[k].req \in Requests /\ less.minors[k].size >= Padded(less.minors[k].req)
    <3>1. \E e \in 1..n : less.minors[k] = maj.minors[e]
      <4>1. CASE k < j
        <5>1. k \in 1..n
          BY <1>2
        <5> QED BY <1>2, <1>5, <1>13, <4>1, <5>1 DEF Inserted
      <4>2. CASE k >= j
        <5>1. k + 1 \in 1..n /\ ~(k + 1 < j) /\ k + 1 # j /\ (k + 1) - 1 = k
          BY <1>2, <4>2
        <5> QED BY <1>2, <1>5, <1>13, <5>1 DEF Inserted
      <4> QED BY <1>2, <4>1, <4>2
    <3> QED BY <1>2, <3>1 DEF MajorOK
  <2>3. ASSUME NEW k \in 0..(n - 1) PROVE GapStart(less, k) <= GapEnd(less, k)
    <3>1. \A e \in 0..n :
            /\ GapStart(maj, e) = IF e <= j - 1 THEN GapStart(less, e)
                                  ELSE IF e = j - 1 + 1 THEN min.off + MinorHeader + min.size
                                  ELSE GapStart(less, e - 1)
            /\ GapEnd(maj, e) = IF e < j - 1 THEN GapEnd(less, e)
                                ELSE IF e = j - 1 THEN min.off
                                ELSE GapEnd(less, e - 1)
      <4>1. less \in Major /\ Len(less.minors) + 1 = n
        BY <1>2, <1>6, <1>13
      <4>2. \A e \in 0..(Len(less.minors) + 1) :
              /\ GapStart(maj, e) = IF e <= j - 1 THEN GapStart(less, e)
                                    ELSE IF e = j - 1 + 1 THEN min.off + MinorHeader + min.size
                                    ELSE GapStart(less, e - 1)
              /\ GapEnd(maj, e) = IF e < j - 1 THEN GapEnd(less, e)
                                  ELSE IF e = j - 1 THEN min.off
                                  ELSE GapEnd(less, e - 1)
        BY <1>15, <4>1, HoldsGaps
      <4> QED BY <4>1, <4>2
    <3>2. \A e \in 0..n : GapStart(maj, e) <= GapEnd(maj, e)
      BY <1>2 DEF MajorOK
    <3>3. CASE k < j - 1
      <4>1. k \in 0..n /\ k <= j - 1
        BY <1>2, <3>3
      <4> QED BY <3>1, <3>2, <3>3, <4>1
    <3>4. CASE k = j - 1
      <4>1. k \in 0..n /\ k <= j - 1 /\ k + 1 \in 0..n /\ ~(k + 1 <= j - 1) /\ k + 1 = j - 1 + 1
              /\ ~(k + 1 < j - 1) /\ k + 1 # j - 1 /\ (k + 1) - 1 = k /\ ~(k < j - 1)
        BY <1>2, <3>4
      <4>2. GapStart(less, k) <= min.off
        BY <3>1, <3>2, <3>4, <4>1
      <4>3. min.off + MinorHeader + min.size <= GapEnd(less, k)
        BY <3>1, <3>2, <4>1
      <4>4. GapStart(less, k) \in Nat /\ GapEnd(less, k) \in Nat /\ MinorHeader \in Nat
        <5>1. k \in 0..Len(less.minors)
          BY <1>6, <1>13
        <5> QED BY <1>13, <5>1, GapTypes, HeapParams
      <4> QED BY <1>4, <4>2, <4>3, <4>4
    <3>5. CASE k > j - 1
      <4>1. k + 1 \in 0..n /\ ~(k + 1 <= j - 1) /\ k + 1 # j - 1 + 1
              /\ ~(k + 1 < j - 1) /\ k + 1 # j - 1 /\ (k + 1) - 1 = k
        BY <1>2, <3>5
      <4> QED BY <3>1, <3>2, <4>1
    <3> QED BY <1>2, <3>3, <3>4, <3>5
  <2>4. less.usage = MajorHeader + InMinors(less) + Len(less.minors) * MinorHeader
    BY <1>6, <1>12, <1>13, <1>14
  <2> QED BY <1>6, <1>13, <2>1, <2>2, <2>3, <2>4 DEF MajorOK
<1> QED BY <1>3, <1>10, <1>14, <1>15, <1>16

-----------------------------------------------------------------------------
(* The heap: the list of majors.                                            *)

PagesApart(m, n) == m.base + m.pages <= n.base \/ n.base + n.pages <= m.base

InUseOf(majors) == Total([i \in DOMAIN majors |-> InMinors(majors[i])])
AllocatedOf(majors) == Total([i \in DOMAIN majors |-> Size(majors[i])])

OnList(majors, base) == base # NULL => \E i \in 1..Len(majors) : majors[i].base = base

HeapRecord == [majors : Seq(Major), bestBet : Nat \cup {NULL}, allocated : Nat, inuse : Nat]

\* The majors are as they should be and lie in pages of their own, and the
\* counters and the best bet are right.
HeapCore(h) ==
  /\ h \in HeapRecord
  /\ \A i \in 1..Len(h.majors) : MajorOK(h.majors[i])
  /\ \A i, j \in 1..Len(h.majors) : i # j => PagesApart(h.majors[i], h.majors[j])
  /\ h.inuse = InUseOf(h.majors) /\ h.allocated = AllocatedOf(h.majors)
  /\ OnList(h.majors, h.bestBet)

HeapOK(h) ==
  /\ HeapCore(h)
  /\ \A i \in 1..Len(h.majors) : h.majors[i].minors = << >> => i = 1

LEMMA RecordFields ==
  ASSUME NEW h \in HeapRecord
  PROVE  /\ h.majors \in Seq(Major) /\ Len(h.majors) \in Nat
         /\ DOMAIN h.majors = 1..Len(h.majors)
         /\ \A i \in 1..Len(h.majors) : h.majors[i] \in Major
         /\ h.bestBet \in Nat \cup {NULL} /\ h.allocated \in Nat /\ h.inuse \in Nat
<1>1. /\ h.majors \in Seq(Major)
      /\ h.bestBet \in Nat \cup {NULL} /\ h.allocated \in Nat /\ h.inuse \in Nat
  BY DEF HeapRecord
<1>2. Len(h.majors) \in Nat /\ DOMAIN h.majors = 1..Len(h.majors)
  BY <1>1
<1>3. ASSUME NEW i \in 1..Len(h.majors) PROVE h.majors[i] \in Major
  BY <1>1, ElementOfSeq
<1> QED BY <1>1, <1>2, <1>3

\* The columns of the list that the counters sum.
LEMMA InUseColumn ==
  ASSUME NEW majors \in Seq(Major)
  PROVE  LET f == [i \in DOMAIN majors |-> InMinors(majors[i])] IN
         /\ f \in Seq(Nat) /\ f \in Seq(Int) /\ Len(f) = Len(majors)
         /\ \A i \in 1..Len(majors) : f[i] = InMinors(majors[i])
<1>1. PICK n : n = Len(majors) /\ n \in Nat /\ DOMAIN majors = 1..n
  OBVIOUS
<1>2. PICK f : f = [i \in 1..n |-> InMinors(majors[i])]
  OBVIOUS
<1>3. ASSUME NEW i \in 1..n PROVE InMinors(majors[i]) \in Nat /\ InMinors(majors[i]) \in Int
  <2>1. majors[i] \in Major
    BY <1>1, ElementOfSeq
  <2> QED BY <2>1, InMinorsFacts
<1>4. f \in Seq(Nat) /\ Len(f) = n /\ \A i \in 1..n : f[i] = InMinors(majors[i])
  BY <1>1, <1>2, <1>3
<1>5. f \in Seq(Int)
  BY <1>1, <1>2, <1>3
<1> QED BY <1>1, <1>2, <1>4, <1>5

LEMMA AllocatedColumn ==
  ASSUME NEW majors \in Seq(Major)
  PROVE  LET f == [i \in DOMAIN majors |-> Size(majors[i])] IN
         /\ f \in Seq(Nat) /\ f \in Seq(Int) /\ Len(f) = Len(majors)
         /\ \A i \in 1..Len(majors) : f[i] = Size(majors[i])
<1>1. PICK n : n = Len(majors) /\ n \in Nat /\ DOMAIN majors = 1..n
  OBVIOUS
<1>2. PICK f : f = [i \in 1..n |-> Size(majors[i])]
  OBVIOUS
<1>3. ASSUME NEW i \in 1..n PROVE Size(majors[i]) \in Nat /\ Size(majors[i]) \in Int
  <2>1. majors[i] \in Major
    BY <1>1, ElementOfSeq
  <2> QED BY <2>1, MajorFields
<1>4. f \in Seq(Nat) /\ Len(f) = n /\ \A i \in 1..n : f[i] = Size(majors[i])
  BY <1>1, <1>2, <1>3
<1>5. f \in Seq(Int)
  BY <1>1, <1>2, <1>3
<1> QED BY <1>1, <1>2, <1>4, <1>5

LEMMA CountersNat ==
  ASSUME NEW majors \in Seq(Major)
  PROVE  InUseOf(majors) \in Nat /\ AllocatedOf(majors) \in Nat
<1>1. PICK f : f = [i \in DOMAIN majors |-> InMinors(majors[i])]
  OBVIOUS
<1>2. PICK g : g = [i \in DOMAIN majors |-> Size(majors[i])]
  OBVIOUS
<1>3. f \in Seq(Nat) /\ g \in Seq(Nat)
  BY <1>1, <1>2, InUseColumn, AllocatedColumn
<1> QED BY <1>1, <1>2, <1>3, TotalNat DEF InUseOf, AllocatedOf

\* The counters of two lists that differ in one major, and of two of which
\* one has a major more.
LEMMA CountersReplace ==
  ASSUME NEW s \in Seq(Major), NEW t \in Seq(Major), NEW i \in 1..Len(s),
         Len(t) = Len(s), \A k \in 1..Len(s) : k # i => t[k] = s[k]
  PROVE  /\ InUseOf(t) = InUseOf(s) + (InMinors(t[i]) - InMinors(s[i]))
         /\ AllocatedOf(t) = AllocatedOf(s) + (Size(t[i]) - Size(s[i]))
<1>1. PICK f : f = [k \in DOMAIN s |-> InMinors(s[k])]
  OBVIOUS
<1>2. PICK g : g = [k \in DOMAIN t |-> InMinors(t[k])]
  OBVIOUS
<1>3. f \in Seq(Int) /\ Len(f) = Len(s) /\ \A k \in 1..Len(s) : f[k] = InMinors(s[k])
  BY <1>1, InUseColumn
<1>4. g \in Seq(Int) /\ Len(g) = Len(s) /\ \A k \in 1..Len(s) : g[k] = InMinors(t[k])
  BY <1>2, InUseColumn
<1>5. Total(g) = Total(f) + (g[i] - f[i])
  <2>1. i \in 1..Len(f) /\ Len(g) = Len(f) /\ \A k \in 1..Len(f) : k # i => g[k] = f[k]
    BY <1>3, <1>4
  <2> QED BY <1>3, <1>4, <2>1, TotalReplace
<1>6. PICK p : p = [k \in DOMAIN s |-> Size(s[k])]
  OBVIOUS
<1>7. PICK q : q = [k \in DOMAIN t |-> Size(t[k])]
  OBVIOUS
<1>8. p \in Seq(Int) /\ Len(p) = Len(s) /\ \A k \in 1..Len(s) : p[k] = Size(s[k])
  BY <1>6, AllocatedColumn
<1>9. q \in Seq(Int) /\ Len(q) = Len(s) /\ \A k \in 1..Len(s) : q[k] = Size(t[k])
  BY <1>7, AllocatedColumn
<1>10. Total(q) = Total(p) + (q[i] - p[i])
  <2>1. i \in 1..Len(p) /\ Len(q) = Len(p) /\ \A k \in 1..Len(p) : k # i => q[k] = p[k]
    BY <1>8, <1>9
  <2> QED BY <1>8, <1>9, <2>1, TotalReplace
<1> QED BY <1>1, <1>2, <1>3, <1>4, <1>5, <1>6, <1>7, <1>8, <1>9, <1>10
        DEF InUseOf, AllocatedOf

LEMMA CountersInsert ==
  ASSUME NEW s \in Seq(Major), NEW t \in Seq(Major), NEW i \in 1..(Len(s) + 1), NEW maj \in Major,
         Inserted(t, s, i, maj)
  PROVE  /\ InUseOf(t) = InUseOf(s) + InMinors(maj)
         /\ AllocatedOf(t) = AllocatedOf(s) + Size(maj)
<1>0. PICK n : n = Len(s) /\ n \in Nat /\ Len(t) = n + 1
  <2>1. Len(s) \in Nat /\ Len(t) = Len(s) + 1
    BY DEF Inserted
  <2> QED BY <2>1
<1>1. PICK f : f = [k \in DOMAIN s |-> InMinors(s[k])]
  OBVIOUS
<1>2. PICK g : g = [k \in DOMAIN t |-> InMinors(t[k])]
  OBVIOUS
<1>3. f \in Seq(Int) /\ Len(f) = n /\ \A k \in 1..n : f[k] = InMinors(s[k])
  BY <1>0, <1>1, InUseColumn
<1>4. g \in Seq(Int) /\ Len(g) = n + 1 /\ \A k \in 1..(n + 1) : g[k] = InMinors(t[k])
  BY <1>0, <1>2, InUseColumn
<1>5. \A k \in 1..(n + 1) :
        /\ t[k] = IF k < i THEN s[k] ELSE IF k = i THEN maj ELSE s[k - 1]
        /\ k < i => k \in 1..n
        /\ ~(k < i) /\ k # i => k - 1 \in 1..n
  BY <1>0 DEF Inserted
<1>6. Total(g) = Total(f) + InMinors(maj)
  <2>1. Inserted(g, f, i, InMinors(maj))
    BY <1>3, <1>4, <1>5 DEF Inserted
  <2>2. InMinors(maj) \in Int /\ i \in 1..(Len(f) + 1)
    BY <1>0, <1>3, InMinorsFacts
  <2> QED BY <1>3, <1>4, <2>1, <2>2, TotalInsert
<1>7. PICK p : p = [k \in DOMAIN s |-> Size(s[k])]
  OBVIOUS
<1>8. PICK q : q = [k \in DOMAIN t |-> Size(t[k])]
  OBVIOUS
<1>9. p \in Seq(Int) /\ Len(p) = n /\ \A k \in 1..n : p[k] = Size(s[k])
  BY <1>0, <1>7, AllocatedColumn
<1>10. q \in Seq(Int) /\ Len(q) = n + 1 /\ \A k \in 1..(n + 1) : q[k] = Size(t[k])
  BY <1>0, <1>8, AllocatedColumn
<1>11. Total(q) = Total(p) + Size(maj)
  <2>1. Inserted(q, p, i, Size(maj))
    BY <1>5, <1>9, <1>10 DEF Inserted
  <2>2. Size(maj) \in Int /\ i \in 1..(Len(p) + 1)
    BY <1>0, <1>9, MajorFields
  <2> QED BY <1>9, <1>10, <2>1, <2>2, TotalInsert
<1> QED BY <1>1, <1>2, <1>6, <1>7, <1>8, <1>11 DEF InUseOf, AllocatedOf

LEMMA IndexFacts ==
  ASSUME NEW h, HeapCore(h), NEW i \in 1..Len(h.majors)
  PROVE  /\ IndexOf(h.majors, h.majors[i].base) = i
         /\ \A j \in 1..Len(h.majors) : h.majors[j].base = h.majors[i].base => j = i
<1>1. h \in HeapRecord
  BY DEF HeapCore
<1>2. ASSUME NEW j \in 1..Len(h.majors), h.majors[j].base = h.majors[i].base PROVE j = i
  <2>1. /\ h.majors[i].base \in Nat /\ h.majors[i].pages \in Nat /\ h.majors[i].pages > 0
        /\ h.majors[j].base \in Nat /\ h.majors[j].pages \in Nat /\ h.majors[j].pages > 0
    BY <1>1, RecordFields, MajorFields DEF HeapCore, MajorOK
  <2>2. ~PagesApart(h.majors[i], h.majors[j])
    BY <1>2, <2>1 DEF PagesApart
  <2> QED BY <2>2 DEF HeapCore
<1>3. DOMAIN h.majors = 1..Len(h.majors)
  BY <1>1, RecordFields
<1> QED BY <1>2, <1>3 DEF IndexOf

HeapOf(majors, bet, a, u) == [majors |-> majors, bestBet |-> bet, allocated |-> a, inuse |-> u]

LEMMA HeapOfFields ==
  ASSUME NEW t, NEW b, NEW a, NEW u
  PROVE  /\ HeapOf(t, b, a, u).majors = t /\ HeapOf(t, b, a, u).bestBet = b
         /\ HeapOf(t, b, a, u).allocated = a /\ HeapOf(t, b, a, u).inuse = u
BY DEF HeapOf

LEMMA CoreOf ==
  ASSUME NEW t \in Seq(Major), NEW b, NEW a, NEW u,
         \A i \in 1..Len(t) : MajorOK(t[i]),
         \A i, j \in 1..Len(t) : i # j => PagesApart(t[i], t[j]),
         u = InUseOf(t), a = AllocatedOf(t), OnList(t, b)
  PROVE  HeapCore(HeapOf(t, b, a, u))
<1>1. u \in Nat /\ a \in Nat
  BY CountersNat
<1>2. b \in Nat \cup {NULL}
  <2>1. \A i \in 1..Len(t) : t[i].base \in Nat
    BY ElementOfSeq, MajorFields
  <2> QED BY <2>1 DEF OnList
<1>3. HeapOf(t, b, a, u) \in HeapRecord
  BY <1>1, <1>2 DEF HeapOf, HeapRecord
<1> QED BY <1>3, HeapOfFields DEF HeapCore

\* A major is replaced by one in the same pages.
LEMMA ReplaceKeeps ==
  ASSUME NEW h, HeapCore(h), NEW i \in 1..Len(h.majors), NEW new, MajorOK(new),
         new.base = h.majors[i].base, new.pages = h.majors[i].pages,
         NEW u, u = h.inuse + (InMinors(new) - InMinors(h.majors[i])),
         NEW b, OnList(h.majors, b)
  PROVE  HeapCore(HeapOf([h.majors EXCEPT ![i] = new], b, h.allocated, u))
<1>1. h \in HeapRecord /\ new \in Major
  BY DEF HeapCore, MajorOK
<1>2. PICK s : s = h.majors /\ s \in Seq(Major)
  BY <1>1, RecordFields
<1>3. PICK t : t = [s EXCEPT ![i] = new]
  OBVIOUS
<1>4. /\ t \in Seq(Major) /\ Len(t) = Len(s)
      /\ \A k \in 1..Len(s) : t[k] = IF k = i THEN new ELSE s[k]
  BY <1>1, <1>2, <1>3, ExceptSeq
<1>5. \A k \in 1..Len(s) : t[k].base = s[k].base /\ t[k].pages = s[k].pages
  BY <1>2, <1>4
<1>6. \A k \in 1..Len(t) : MajorOK(t[k])
  BY <1>2, <1>4 DEF HeapCore
<1>7. \A k, l \in 1..Len(t) : k # l => PagesApart(t[k], t[l])
  BY <1>2, <1>4, <1>5 DEF HeapCore, PagesApart
<1>8. /\ InUseOf(t) = InUseOf(s) + (InMinors(t[i]) - InMinors(s[i]))
      /\ AllocatedOf(t) = AllocatedOf(s) + (Size(t[i]) - Size(s[i]))
  BY <1>2, <1>4, CountersReplace
<1>9. t[i] = new /\ Size(t[i]) = Size(s[i]) /\ Size(s[i]) \in Nat
  <2>1. s[i] \in Major
    BY <1>2, ElementOfSeq
  <2> QED BY <1>2, <1>4, <1>5, <2>1, MajorFields DEF Size
<1>10. u = InUseOf(t)
  BY <1>2, <1>8, <1>9 DEF HeapCore
<1>11. h.allocated = AllocatedOf(t)
  <2>1. AllocatedOf(s) \in Nat
    BY <1>2, CountersNat
  <2> QED BY <1>2, <1>8, <1>9, <2>1 DEF HeapCore
<1>12. OnList(t, b)
  BY <1>2, <1>4, <1>5 DEF OnList
<1> QED BY <1>2, <1>3, <1>4, <1>6, <1>7, <1>10, <1>11, <1>12, CoreOf

\* A major is appended.
LEMMA AppendKeeps ==
  ASSUME NEW h, HeapCore(h), NEW new, MajorOK(new),
         \A i \in 1..Len(h.majors) : PagesApart(h.majors[i], new),
         NEW b, OnList(Append(h.majors, new), b)
  PROVE  HeapCore(HeapOf(Append(h.majors, new), b, h.allocated + Size(new),
                         h.inuse + InMinors(new)))
<1>1. h \in HeapRecord /\ new \in Major
  BY DEF HeapCore, MajorOK
<1>2. PICK s : s = h.majors /\ s \in Seq(Major)
  BY <1>1, RecordFields
<1>3. PICK n : n = Len(s) /\ n \in Nat
  BY <1>2
<1>4. PICK t : t = Append(s, new)
  OBVIOUS
<1>5. t \in Seq(Major) /\ Len(t) = n + 1 /\ t[n + 1] = new /\ \A k \in 1..n : t[k] = s[k]
  BY <1>1, <1>2, <1>3, <1>4
<1>6. Inserted(t, s, n + 1, new) /\ n + 1 \in 1..(Len(s) + 1)
  <2>1. \A k \in 1..(n + 1) : (k < n + 1 => k \in 1..n) /\ (~(k < n + 1) => k = n + 1)
    BY <1>3
  <2>2. n + 1 \in 1..(Len(s) + 1)
    BY <1>3
  <2> QED BY <1>3, <1>5, <2>1, <2>2 DEF Inserted
<1>7. InUseOf(t) = InUseOf(s) + InMinors(new) /\ AllocatedOf(t) = AllocatedOf(s) + Size(new)
  BY <1>1, <1>2, <1>5, <1>6, CountersInsert
<1>8. \A k \in 1..(n + 1) : k \in 1..n \/ k = n + 1
  BY <1>3
<1>9. \A k \in 1..Len(t) : MajorOK(t[k])
  BY <1>2, <1>3, <1>5, <1>8 DEF HeapCore
<1>10. \A k, l \in 1..Len(t) : k # l => PagesApart(t[k], t[l])
  <2>1. \A k, l \in 1..n : k # l => PagesApart(t[k], t[l])
    BY <1>2, <1>3, <1>5 DEF HeapCore
  <2>2. \A k \in 1..n : PagesApart(t[k], t[n + 1]) /\ PagesApart(t[n + 1], t[k])
    BY <1>2, <1>3, <1>5 DEF PagesApart
  <2> QED BY <1>5, <1>8, <2>1, <2>2
<1> QED BY <1>2, <1>4, <1>5, <1>7, <1>9, <1>10, CoreOf DEF HeapCore

\* A major without minors is given back.
LEMMA DropKeeps ==
  ASSUME NEW h, HeapCore(h), NEW i \in 1..Len(h.majors), h.majors[i].minors = << >>,
         NEW b, b = IF h.bestBet = h.majors[i].base THEN NULL ELSE h.bestBet
  PROVE  HeapCore(HeapOf(RemoveAt(h.majors, i), b, h.allocated - Size(h.majors[i]), h.inuse))
<1>1. h \in HeapRecord
  BY DEF HeapCore
<1>2. PICK t : t = h.majors /\ t \in Seq(Major)
  BY <1>1, RecordFields
<1>3. PICK s : s = RemoveAt(t, i)
  OBVIOUS
<1>4. s \in Seq(Major) /\ Inserted(t, s, i, t[i])
  BY <1>2, <1>3, RemoveAtFacts
<1>5. PICK n : n = Len(s) /\ n \in Nat /\ Len(t) = n + 1 /\ i \in 1..(n + 1)
  <2>1. Len(s) \in Nat /\ Len(t) = Len(s) + 1
    BY <1>4 DEF Inserted
  <2> QED BY <1>2, <2>1
<1>6. PICK e : e = [k \in 1..n |-> IF k < i THEN k ELSE k + 1]
  OBVIOUS
<1>7. /\ \A k \in 1..n : e[k] \in 1..(n + 1) /\ e[k] # i /\ s[k] = t[e[k]]
      /\ \A k, l \in 1..n : k # l => e[k] # e[l]
      /\ \A l \in 1..(n + 1) : l # i => \E k \in 1..n : e[k] = l
  <2>1. ASSUME NEW k \in 1..n PROVE e[k] \in 1..(n + 1) /\ e[k] # i /\ s[k] = t[e[k]]
    <3>1. CASE k < i
      <4>1. e[k] = k /\ k \in 1..(n + 1)
        BY <1>5, <1>6, <3>1
      <4> QED BY <1>4, <1>5, <3>1, <4>1 DEF Inserted
    <3>2. CASE ~(k < i)
      <4>1. e[k] = k + 1 /\ k + 1 \in 1..(n + 1) /\ ~(k + 1 < i) /\ k + 1 # i /\ (k + 1) - 1 = k
        BY <1>5, <1>6, <3>2
      <4> QED BY <1>4, <1>5, <4>1 DEF Inserted
    <3> QED BY <3>1, <3>2
  <2>2. \A k, l \in 1..n : k # l => e[k] # e[l]
    BY <1>5, <1>6
  <2>3. ASSUME NEW l \in 1..(n + 1), l # i PROVE \E k \in 1..n : e[k] = l
    <3>1. CASE l < i
      <4>1. l \in 1..n /\ e[l] = l
        BY <1>5, <1>6, <3>1
      <4> QED BY <4>1
    <3>2. CASE l > i
      <4>1. l - 1 \in 1..n /\ e[l - 1] = l
        BY <1>5, <1>6, <3>2
      <4> QED BY <4>1
    <3> QED BY <1>5, <2>3, <3>1, <3>2
  <2> QED BY <2>1, <2>2, <2>3
<1>8. ASSUME NEW k \in 1..Len(s) PROVE MajorOK(s[k])
  <2>1. e[k] \in 1..(n + 1) /\ s[k] = t[e[k]]
    BY <1>5, <1>7
  <2>2. \A l \in 1..(n + 1) : MajorOK(t[l])
    BY <1>2, <1>5 DEF HeapCore
  <2> QED BY <2>1, <2>2
<1>9. ASSUME NEW k \in 1..Len(s), NEW l \in 1..Len(s), k # l PROVE PagesApart(s[k], s[l])
  <2>1. /\ e[k] \in 1..(n + 1) /\ s[k] = t[e[k]]
        /\ e[l] \in 1..(n + 1) /\ s[l] = t[e[l]] /\ e[k] # e[l]
    BY <1>5, <1>7, <1>9
  <2>2. \A x, y \in 1..(n + 1) : x # y => PagesApart(t[x], t[y])
    BY <1>2, <1>5 DEF HeapCore
  <2> QED BY <2>1, <2>2
<1>10. OnList(s, b)
  <2> SUFFICES ASSUME b # NULL PROVE \E k \in 1..n : s[k].base = b
    BY <1>5 DEF OnList
  <2>1. b = h.bestBet /\ b # t[i].base
    BY <1>2
  <2>2. PICK l \in 1..(n + 1) : t[l].base = b
    BY <1>2, <1>5, <2>1 DEF HeapCore, OnList
  <2> QED BY <1>7, <2>1, <2>2
<1>11. t[i] \in Major /\ InMinors(t[i]) = 0
  BY <1>2, ElementOfSeq, InMinorsFacts
<1>12. InUseOf(t) = InUseOf(s) + InMinors(t[i]) /\ AllocatedOf(t) = AllocatedOf(s) + Size(t[i])
  BY <1>2, <1>4, <1>5, <1>11, CountersInsert
<1>13. h.inuse = InUseOf(s) /\ h.allocated - Size(t[i]) = AllocatedOf(s)
  <2>1. InUseOf(s) \in Nat /\ AllocatedOf(s) \in Nat /\ Size(t[i]) \in Nat
    BY <1>4, <1>11, CountersNat, MajorFields
  <2> QED BY <1>2, <1>11, <1>12, <2>1 DEF HeapCore
<1> QED BY <1>2, <1>3, <1>4, <1>8, <1>9, <1>10, <1>13, CoreOf

-----------------------------------------------------------------------------
(* The heap: new majors, and room in a major.                               *)

LEMMA FindFacts ==
  ASSUME NEW majors \in Seq(Major), NEW n \in Nat
  PROVE  /\ find_vspace(majors, n) \in Nat
         /\ \A i \in 1..Len(majors) :
              \/ find_vspace(majors, n) + n <= majors[i].base
              \/ majors[i].base + majors[i].pages <= find_vspace(majors, n)
<1>1. PICK m : m = Len(majors) /\ m \in Nat /\ DOMAIN majors = 1..m
  OBVIOUS
<1>2. \A i \in 1..m : majors[i].base \in Nat /\ majors[i].pages \in Nat
  BY <1>1, ElementOfSeq, MajorFields
<1>3. PICK C : C = {0} \cup {x.base + x.pages : x \in SetOf(majors)}
  OBVIOUS
<1>4. \A i \in 1..m : majors[i].base + majors[i].pages \in C
  BY <1>1, <1>3 DEF SetOf
<1>5. C \in SUBSET Nat /\ 0 \in C
  BY <1>1, <1>2, <1>3 DEF SetOf
<1> DEFINE G == {k \in 0..m : \E b \in C : \A i \in 1..k : majors[i].base + majors[i].pages <= b}
<1>6. ASSUME NEW k \in 0..m, k # 0 => k - 1 \in G PROVE k \in G
  <2>1. CASE k = 0
    <3>1. \A i \in 1..k : FALSE
      BY <2>1
    <3> QED BY <1>5, <3>1
  <2>2. CASE k # 0
    <3>1. PICK b \in C : \A i \in 1..(k - 1) : majors[i].base + majors[i].pages <= b
      BY <1>6, <2>2
    <3>2. PICK e : e = majors[k].base + majors[k].pages
      OBVIOUS
    <3>3. k \in 1..m /\ \A i \in 1..k : i \in 1..(k - 1) \/ i = k
      BY <1>1, <2>2
    <3>4. e \in C /\ e \in Nat /\ b \in Nat
      BY <1>4, <1>5, <3>2, <3>3
    <3>5. CASE e <= b
      BY <3>1, <3>2, <3>3, <3>5
    <3>6. CASE b < e
      <4>1. ASSUME NEW i \in 1..k PROVE majors[i].base + majors[i].pages <= e
        <5>1. i \in 1..m
          BY <1>1
        <5>2. majors[i].base + majors[i].pages \in Nat
          BY <1>2, <5>1
        <5> QED BY <3>1, <3>2, <3>3, <3>4, <3>6, <5>2
      <4> QED BY <3>4, <4>1
    <3> QED BY <3>4, <3>5, <3>6
  <2> QED BY <2>1, <2>2
<1>7. m \in G
  <2> HIDE DEF G
  <2>1. Forwards(m, G) /\ m \in Int /\ m \in 0..m
    BY <1>1, <1>6 DEF Forwards
  <2> QED BY <2>1, StepInduction
<1>8. PICK S : S = {b \in C : \A x \in SetOf(majors) : b + n <= x.base \/ x.base + x.pages <= b}
  OBVIOUS
<1>9. S \in SUBSET Nat /\ S # {}
  <2>1. PICK b \in C : \A i \in 1..m : majors[i].base + majors[i].pages <= b
    BY <1>7
  <2>2. b \in S
    BY <1>1, <1>8, <2>1 DEF SetOf
  <2> QED BY <1>5, <1>8, <2>2
<1>10. Min(S) \in S
  BY <1>9, MinFacts
<1>11. find_vspace(majors, n) = Min(S)
  BY <1>3, <1>8 DEF find_vspace
<1>12. \A i \in 1..m : majors[i] \in SetOf(majors)
  BY <1>1 DEF SetOf
<1> QED BY <1>1, <1>8, <1>9, <1>10, <1>11, <1>12

LEMMA PagesForFacts ==
  ASSUME NEW size \in Nat
  PROVE  /\ PagesFor(size) \in Nat /\ PagesFor(size) > 0
         /\ PagesFor(size) * PageSize >= size + MajorHeader + MinorHeader
<1>1. PICK st, P : st = size + MajorHeader + MinorHeader /\ P = PageSize
  OBVIOUS
<1>2. st \in Nat /\ st > 0 /\ P \in Nat /\ P > 0 /\ PageCount \in Nat /\ PageCount > 0
  BY <1>1, HeapParams
<1>3. PICK q, r : q = st \div P /\ r = st % P
  OBVIOUS
<1>4. q \in Nat /\ r \in 0..(P - 1) /\ st = P * q + r
  BY <1>2, <1>3
<1>5. PICK n : n = IF r = 0 THEN q ELSE q + 1
  OBVIOUS
<1>6. n \in Nat /\ n * P >= st
  BY <1>2, <1>4, <1>5
<1>7. PICK k : k = IF n < PageCount THEN PageCount ELSE n
  OBVIOUS
<1>8. PagesFor(size) = k
  BY <1>1, <1>3, <1>5, <1>7 DEF PagesFor
<1>9. k \in Nat /\ k >= n /\ k > 0
  BY <1>2, <1>6, <1>7
<1>10. k * P >= n * P /\ k * P \in Nat /\ n * P \in Nat
  BY <1>2, <1>6, <1>9
<1>11. k * P >= st
  BY <1>2, <1>6, <1>10
<1> QED BY <1>1, <1>8, <1>9, <1>11

\* What allocate_new_page() returns.
LEMMA NewFacts ==
  ASSUME NEW majors \in Seq(Major), NEW size \in Nat,
         NEW new, new = allocate_new_page(majors, size)
  PROVE  /\ MajorOK(new) /\ new.minors = << >>
         /\ ~Insufficient(new, size) /\ Fits(new, size) = {0}
         /\ \A i \in 1..Len(majors) : PagesApart(majors[i], new)
<1>1. PICK n, b : n = PagesFor(size) /\ b = find_vspace(majors, n)
  OBVIOUS
<1>2. /\ n \in Nat /\ n > 0 /\ n * PageSize >= size + MajorHeader + MinorHeader
      /\ n * PageSize \in Nat /\ MajorHeader \in Nat /\ MinorHeader \in Nat
  <2>1. n \in Nat /\ n > 0 /\ n * PageSize >= size + MajorHeader + MinorHeader
    BY <1>1, PagesForFacts
  <2>2. PageSize \in Nat /\ MajorHeader \in Nat /\ MinorHeader \in Nat
    BY HeapParams
  <2>3. n * PageSize \in Nat
    BY <2>1, <2>2
  <2> QED BY <2>1, <2>2, <2>3
<1>3. b \in Nat /\ \A i \in 1..Len(majors) :
                     b + n <= majors[i].base \/ majors[i].base + majors[i].pages <= b
  BY <1>1, <1>2, FindFacts
<1>4. new = [base |-> b, pages |-> n, usage |-> MajorHeader, minors |-> << >>]
  BY <1>1 DEF allocate_new_page
<1>5. new.base = b /\ new.pages = n /\ new.usage = MajorHeader /\ new.minors = << >>
  BY <1>4
<1>6. new \in Major
  <2>1. << >> \in Seq(Minor)
    OBVIOUS
  <2> QED BY <1>2, <1>3, <1>4, <2>1 DEF Major
<1>7. Len(new.minors) = 0 /\ Size(new) = n * PageSize
  BY <1>5 DEF Size
<1>8. InMinors(new) = 0
  BY <1>5, <1>6, InMinorsFacts
<1>9. GapStart(new, 0) = MajorHeader /\ GapEnd(new, 0) = Size(new)
  BY <1>7 DEF GapStart, GapEnd
<1>10. GapStart(new, 0) <= GapEnd(new, 0)
  BY <1>2, <1>7, <1>9
<1>11. MajorOK(new)
  <2>1. \A j \in 1..Len(new.minors) : FALSE
    BY <1>7
  <2>2. \A i \in 0..Len(new.minors) : i = 0
    BY <1>7
  <2>3. new.usage = MajorHeader + InMinors(new) + Len(new.minors) * MinorHeader
    BY <1>2, <1>5, <1>7, <1>8
  <2> QED BY <1>2, <1>5, <1>6, <1>10, <2>1, <2>2, <2>3 DEF MajorOK
<1>12. ~Insufficient(new, size)
  BY <1>2, <1>5, <1>7 DEF Insufficient, FreeBytes
<1>13. Fits(new, size) = {0}
  BY <1>5 DEF Fits
<1>14. \A i \in 1..Len(majors) : PagesApart(majors[i], new)
  BY <1>3, <1>5 DEF PagesApart
<1> QED BY <1>5, <1>11, <1>12, <1>13, <1>14

\* A major that suits takes the request.
LEMMA SuitsTakes ==
  ASSUME NEW maj, MajorOK(maj), NEW size \in Nat, NEW req \in Requests, size >= Padded(req),
         Suits(maj, size), NEW new, new = Insert(maj, size, req)
  PROVE  /\ MajorOK(new) /\ new.base = maj.base /\ new.pages = maj.pages
         /\ InMinors(new) = InMinors(maj) + size
         /\ new.minors # << >>
         /\ \E i \in 0..Len(maj.minors) :
              Holds(new, maj, i, [off |-> GapStart(maj, i), size |-> size, req |-> req])
<1>1. maj \in Major /\ req \in Nat /\ ~Insufficient(maj, size) /\ Fits(maj, size) # {}
  BY HeapParams DEF MajorOK, Suits
<1>2. PICK i \in Fits(maj, size) :
        /\ i \in 0..Len(maj.minors)
        /\ Insert(maj, size, req).usage = maj.usage + size + MinorHeader
        /\ Holds(Insert(maj, size, req), maj, i,
                 [off |-> GapStart(maj, i), size |-> size, req |-> req])
  BY <1>1, InsertIs
<1>3. PICK min : min = [off |-> GapStart(maj, i), size |-> size, req |-> req]
  OBVIOUS
<1>4. min.off = GapStart(maj, i) /\ min.size = size /\ min.req = req
  BY <1>3
<1>5. GapEnd(maj, i) - GapStart(maj, i) >= size + MinorHeader
  <2>1. CASE maj.minors = << >>
    <3>1. i = 0 /\ Len(maj.minors) = 0
      BY <2>1 DEF Fits
    <3>2. GapEnd(maj, i) = Size(maj) /\ GapStart(maj, i) = MajorHeader
      BY <3>1 DEF GapStart, GapEnd
    <3>3. maj.usage = MajorHeader
      <4>1. InMinors(maj) = 0 /\ MajorHeader \in Nat /\ MinorHeader \in Nat
        BY <1>1, <2>1, InMinorsFacts, HeapParams
      <4>2. maj.usage = MajorHeader + 0 + 0 * MinorHeader
        BY <3>1, <4>1 DEF MajorOK
      <4> QED BY <4>1, <4>2
    <3>4. Size(maj) \in Nat /\ MajorHeader \in Nat /\ MinorHeader \in Nat
      BY <1>1, MajorFields, HeapParams
    <3>5. ~(Size(maj) - MajorHeader < size + MinorHeader)
      BY <1>1, <3>3 DEF Insufficient, FreeBytes
    <3> QED BY <3>2, <3>4, <3>5
  <2>2. CASE maj.minors # << >>
    BY <1>2, <2>2 DEF Fits
  <2> QED BY <2>1, <2>2
<1>6. Holds(new, maj, i, min) /\ new.usage = maj.usage + min.size + MinorHeader
  BY <1>2, <1>3, <1>4
<1>7. MajorOK(new)
  BY <1>2, <1>4, <1>5, <1>6, InsertKeeps
<1>8. InMinors(new) = InMinors(maj) + size
  BY <1>1, <1>2, <1>4, <1>6, HoldsTotals
<1>9. new.minors # << >>
  <2>1. Len(new.minors) = Len(maj.minors) + 1 /\ Len(maj.minors) \in Nat
    BY <1>1, <1>2, <1>6, HoldsGaps, MajorFields
  <2> QED BY <2>1
<1> QED BY <1>2, <1>3, <1>6, <1>7, <1>8, <1>9 DEF Holds

-----------------------------------------------------------------------------
(* The heap: the walk of kmalloc().                                         *)

LEMMA UpFromFacts ==
  ASSUME NEW h \in HeapRecord, NEW i \in 1..Len(h.majors)
  PROVE  /\ UpFrom(h, i) \in Seq(Major) /\ Len(UpFrom(h, i)) = Len(h.majors) - i + 1
         /\ \A k \in 1..(Len(h.majors) - i + 1) :
              i + k - 1 \in 1..Len(h.majors) /\ UpFrom(h, i)[k] = h.majors[i + k - 1]
<1>1. PICK n, f : /\ n = Len(h.majors) /\ n \in Nat
                  /\ f = [k \in 1..(n - i + 1) |-> h.majors[i + k - 1]]
  BY RecordFields
<1>2. ASSUME NEW k \in 1..(n - i + 1)
      PROVE  i + k - 1 \in 1..n /\ h.majors[i + k - 1] \in Major
  <2>1. i + k - 1 \in 1..n
    BY <1>1
  <2> QED BY <1>1, <2>1, RecordFields
<1>3. PICK m : m = n - i + 1 /\ m \in Nat
  BY <1>1
<1>4. f \in Seq(Major) /\ Len(f) = n - i + 1 /\ \A k \in 1..(n - i + 1) : f[k] = h.majors[i + k - 1]
  <2>1. f = [k \in 1..m |-> h.majors[i + k - 1]]
    BY <1>1, <1>3
  <2>2. \A k \in 1..m : h.majors[i + k - 1] \in Major
    BY <1>2, <1>3
  <2>3. f \in [1..m -> Major]
    BY <2>1, <2>2
  <2>4. f \in Seq(Major) /\ Len(f) = m
    BY <1>3, <2>3
  <2> QED BY <1>3, <2>1, <2>4
<1> QED BY <1>1, <1>2, <1>4 DEF UpFrom

From(v, majors) == \A k \in 1..Len(v) : \E i \in 1..Len(majors) : v[k] = majors[i]

\* The walk visits majors of the list only, and all of them.
LEMMA VisitsFacts ==
  ASSUME NEW h, HeapCore(h), h.majors # << >>, NEW size
  PROVE  /\ Visits(h, size) \in Seq(Major)
         /\ From(Visits(h, size), h.majors) /\ From(h.majors, Visits(h, size))
<1>0. PICK v : v = Visits(h, size)
  OBVIOUS
<1> SUFFICES v \in Seq(Major) /\ From(v, h.majors) /\ From(h.majors, v)
  BY <1>0
<1> USE DEF From
<1>1. h \in HeapRecord
  BY DEF HeapCore
<1>2. PICK n : n = Len(h.majors) /\ n \in Nat /\ n > 0
  <2>1. Len(h.majors) \in Nat /\ Len(h.majors) > 0
    BY <1>1, RecordFields
  <2> QED BY <2>1
<1>3. PICK w : w = UpFrom(h, 1)
  OBVIOUS
<1>4. w \in Seq(Major) /\ Len(w) = n /\ \A k \in 1..n : w[k] = h.majors[k]
  <2>1. 1 \in 1..n /\ n - 1 + 1 = n /\ \A k \in 1..n : 1 + k - 1 = k
    BY <1>2
  <2>2. /\ UpFrom(h, 1) \in Seq(Major) /\ Len(UpFrom(h, 1)) = n - 1 + 1
        /\ \A k \in 1..(n - 1 + 1) : UpFrom(h, 1)[k] = h.majors[1 + k - 1]
    BY <1>1, <1>2, <2>1, UpFromFacts
  <2> QED BY <1>3, <2>1, <2>2
<1>5. CASE ~StartedBet(h, size)
  <2>1. v = w
    BY <1>0, <1>3, <1>5 DEF Visits
  <2> QED BY <1>2, <1>4, <2>1
<1>6. CASE StartedBet(h, size)
  <2>1. PICK i \in 1..n : IndexOf(h.majors, h.bestBet) = i
    <3>1. PICK i \in 1..n : h.majors[i].base = h.bestBet
      BY <1>2, <1>6 DEF StartedBet, HeapCore, OnList
    <3> QED BY <1>2, <3>1, IndexFacts
  <2>2. PICK u : u = UpFrom(h, i)
    OBVIOUS
  <2>3. /\ u \in Seq(Major) /\ Len(u) = n - i + 1
        /\ \A k \in 1..(n - i + 1) : i + k - 1 \in 1..n /\ u[k] = h.majors[i + k - 1]
    BY <1>1, <1>2, <2>2, UpFromFacts
  <2>4. v = u \o w
    BY <1>0, <1>3, <1>6, <2>1, <2>2 DEF Visits
  <2>5. /\ v \in Seq(Major) /\ Len(v) = Len(u) + Len(w)
        /\ \A k \in 1..(Len(u) + Len(w)) : v[k] = IF k <= Len(u) THEN u[k] ELSE w[k - Len(u)]
    <3>1. u \in Seq(Major) /\ w \in Seq(Major)
      BY <1>4, <2>3
    <3>2. /\ u \o w \in Seq(Major) /\ Len(u \o w) = Len(u) + Len(w)
          /\ \A k \in 1..(Len(u) + Len(w)) :
               (u \o w)[k] = IF k <= Len(u) THEN u[k] ELSE w[k - Len(u)]
      BY <3>1, ConcatProperties
    <3> QED BY <2>4, <3>2
  <2>6. PICK m : m = Len(u) /\ m \in Nat
    BY <2>3
  <2>7. ASSUME NEW k \in 1..Len(v) PROVE \E j \in 1..n : v[k] = h.majors[j]
    <3>1. CASE k <= m
      <4>1. k \in 1..(n - i + 1) /\ v[k] = u[k]
        BY <1>4, <2>3, <2>5, <2>6, <3>1
      <4> QED BY <2>3, <4>1
    <3>2. CASE k > m
      <4>1. k - m \in 1..n /\ v[k] = w[k - m]
        BY <1>2, <1>4, <2>5, <2>6, <3>2
      <4> QED BY <1>4, <4>1
    <3> QED BY <2>6, <3>1, <3>2
  <2>8. ASSUME NEW j \in 1..n PROVE \E k \in 1..Len(v) : v[k] = h.majors[j]
    <3>1. m + j \in 1..Len(v) /\ ~(m + j <= m) /\ (m + j) - m = j
      BY <1>2, <1>4, <2>5, <2>6
    <3>2. v[m + j] = h.majors[j]
      BY <1>4, <2>5, <2>6, <3>1
    <3> QED BY <3>1, <3>2
  <2> QED BY <1>2, <2>5, <2>7, <2>8
<1> QED BY <1>5, <1>6

LEMMA BetFacts ==
  ASSUME NEW h, NEW v \in Seq(Major)
  PROVE  BetAfter(h, v) = h.bestBet \/ \E k \in 1..Len(v) : BetAfter(h, v) = v[k].base
<1>1. PICK better : better = {k \in DOMAIN v :
                      /\ FreeBytes(v[k]) > BetSize(h)
                      /\ \A j \in DOMAIN v : FreeBytes(v[j]) <= FreeBytes(v[k])}
  OBVIOUS
<1>2. BetAfter(h, v) = IF better = {} THEN h.bestBet ELSE v[Min(better)].base
  BY <1>1 DEF BetAfter
<1>3. better \in SUBSET (1..Len(v))
  BY <1>1
<1>4. better # {} => Min(better) \in 1..Len(v)
  <2>1. better \in SUBSET Nat
    BY <1>3
  <2>2. better # {} => Min(better) \in better
    BY <2>1, MinFacts
  <2> QED BY <1>3, <2>2
<1> QED BY <1>2, <1>4

LEMMA PlacedIs ==
  ASSUME NEW h, HeapCore(h), h.majors # << >>, NEW size, NEW req, Hits(h, size) # {}
  PROVE  \E hit, b :
           /\ hit \in 1..Len(h.majors) /\ Suits(h.majors[hit], size) /\ OnList(h.majors, b)
           /\ Placed(h, size, req) =
                HeapOf([h.majors EXCEPT ![hit] = Insert(h.majors[hit], size, req)],
                       b, h.allocated, h.inuse + size)
<1>1. h \in HeapRecord /\ DOMAIN h.majors = 1..Len(h.majors)
  BY RecordFields DEF HeapCore
<1>2. PICK v : v = Visits(h, size)
  OBVIOUS
<1>3. v \in Seq(Major) /\ From(v, h.majors)
  BY <1>2, VisitsFacts
<1>4. PICK H : H = Hits(h, size)
  OBVIOUS
<1>5. H = {k \in 1..Len(v) : Suits(v[k], size)}
  BY <1>2, <1>3, <1>4 DEF Hits
<1>6. PICK k : k = Min(H) /\ k \in H
  <2>1. H \in SUBSET Nat /\ H # {}
    BY <1>4, <1>5
  <2> QED BY <2>1, MinFacts
<1>7. k \in 1..Len(v) /\ Suits(v[k], size)
  BY <1>5, <1>6
<1>8. PICK hit \in 1..Len(h.majors) : v[k] = h.majors[hit]
  BY <1>3, <1>7 DEF From
<1>9. IndexOf(h.majors, v[k].base) = hit
  BY <1>8, IndexFacts
<1>10. PICK w : w = SubSeq(v, 1, k)
  OBVIOUS
<1>11. w \in Seq(Major) /\ From(w, h.majors)
  <2>1. k \in Nat /\ \A j \in 1..k : j \in 1..Len(v) /\ v[j] \in Major
    BY <1>3, <1>7, ElementOfSeq
  <2>2. /\ SubSeq(v, 1, k) \in Seq(Major)
        /\ Len(SubSeq(v, 1, k)) = IF 1 <= k THEN k - 1 + 1 ELSE 0
        /\ \A j \in 1..(k - 1 + 1) : SubSeq(v, 1, k)[j] = v[1 + j - 1]
    BY <2>1, SubSeqProperties
  <2>3. Len(w) = k /\ \A j \in 1..k : w[j] = v[j]
    BY <1>7, <1>10, <2>1, <2>2
  <2>4. From(w, h.majors)
    BY <1>3, <2>1, <2>3 DEF From
  <2> QED BY <1>10, <2>2, <2>4
<1>12. PICK b : b = BetAfter(h, w)
  OBVIOUS
<1>13. OnList(h.majors, b)
  <2>1. b = h.bestBet \/ \E j \in 1..Len(w) : b = w[j].base
    BY <1>11, <1>12, BetFacts
  <2> QED BY <1>11, <2>1 DEF HeapCore, OnList, From
<1>14. Placed(h, size, req) = [h EXCEPT !.majors[hit] = Insert(@, size, req),
                                        !.bestBet = b, !.inuse = @ + size]
  BY <1>2, <1>4, <1>6, <1>9, <1>10, <1>12, Zenon DEF Placed
<1>15. PICK x, y : x = Insert(h.majors[hit], size, req) /\ y = h.inuse + size
  OBVIOUS
<1>16. Placed(h, size, req) = HeapOf([h.majors EXCEPT ![hit] = x], b, h.allocated, y)
  BY <1>1, <1>14, <1>15 DEF HeapRecord, HeapOf
<1> QED BY <1>7, <1>8, <1>13, <1>15, <1>16

LEMMA ExtendedIs ==
  ASSUME NEW h, HeapCore(h), h.majors # << >>, NEW size \in Nat, NEW req \in Requests,
         size >= Padded(req), NEW new, new = allocate_new_page(h.majors, size)
  PROVE  \E b :
           /\ OnList(Append(h.majors, Insert(new, size, req)), b)
           /\ Extended(h, size, req) =
                HeapOf(Append(h.majors, Insert(new, size, req)), b,
                       h.allocated + Size(new), h.inuse + size)
<1>1. h \in HeapRecord /\ h.majors \in Seq(Major)
  BY RecordFields DEF HeapCore
<1>2. PICK v, x : v = Visits(h, size) /\ x = Insert(new, size, req)
  OBVIOUS
<1>3. v \in Seq(Major) /\ From(v, h.majors)
  BY <1>2, VisitsFacts
<1>4. MajorOK(new) /\ new \in Major /\ Suits(new, size)
  <2>1. MajorOK(new) /\ ~Insufficient(new, size) /\ Fits(new, size) = {0}
    BY <1>1, NewFacts
  <2> QED BY <2>1 DEF Suits, MajorOK
<1>5. x \in Major /\ x.base = new.base
  BY <1>2, <1>4, SuitsTakes DEF MajorOK
<1>6. PICK w : w = IF Insufficient(Last(h.majors), size) THEN << >> ELSE <<new>>
  OBVIOUS
<1>7. w \in Seq(Major) /\ \A k \in 1..Len(w) : w[k] = new
  <2>1. CASE w = << >>
    BY <2>1
  <2>2. CASE w = <<new>>
    BY <1>4, <2>2
  <2> QED BY <1>6, <2>1, <2>2
<1>8. PICK z : z = v \o w
  OBVIOUS
<1>9. z \in Seq(Major) /\ \A k \in 1..Len(z) : (\E i \in 1..Len(v) : z[k] = v[i]) \/ z[k] = new
  <2>1. /\ v \o w \in Seq(Major) /\ Len(v \o w) = Len(v) + Len(w)
        /\ \A k \in 1..(Len(v) + Len(w)) :
             (v \o w)[k] = IF k <= Len(v) THEN v[k] ELSE w[k - Len(v)]
    <3>1. v \in Seq(Major) /\ w \in Seq(Major)
      BY <1>3, <1>7
    <3> QED BY <3>1, ConcatProperties
  <2>2. Len(v) \in Nat /\ Len(w) \in Nat
    BY <1>3, <1>7
  <2>3. ASSUME NEW k \in 1..(Len(v) + Len(w))
        PROVE  (\E i \in 1..Len(v) : z[k] = v[i]) \/ z[k] = new
    <3>1. CASE k <= Len(v)
      <4>1. k \in 1..Len(v)
        BY <2>2, <3>1
      <4> QED BY <1>8, <2>1, <3>1, <4>1
    <3>2. CASE ~(k <= Len(v))
      <4>1. k - Len(v) \in 1..Len(w)
        BY <2>2, <3>2
      <4> QED BY <1>7, <1>8, <2>1, <3>2, <4>1
    <3> QED BY <3>1, <3>2
  <2> QED BY <1>8, <2>1, <2>3
<1>10. PICK b : b = BetAfter(h, z)
  OBVIOUS
<1>11. PICK n, t : n = Len(h.majors) /\ n \in Nat /\ t = Append(h.majors, x)
  <2>1. Len(h.majors) \in Nat
    BY <1>1
  <2> QED BY <2>1
<1>12. Len(t) = n + 1 /\ t[n + 1] = x /\ (\A i \in 1..n : t[i] = h.majors[i] /\ i \in 1..(n + 1))
         /\ n + 1 \in 1..(n + 1)
  BY <1>1, <1>5, <1>11
<1>13. OnList(t, b)
  <2>1. b = h.bestBet \/ \E k \in 1..Len(z) : b = z[k].base
    BY <1>9, <1>10, BetFacts
  <2>2. CASE b = h.bestBet
    BY <1>11, <1>12, <2>2 DEF HeapCore, OnList
  <2>3. CASE \E k \in 1..Len(z) : b = z[k].base
    <3>1. PICK k \in 1..Len(z) : b = z[k].base
      BY <2>3
    <3>2. (\E i \in 1..Len(v) : z[k] = v[i]) \/ z[k] = new
      BY <1>9
    <3>3. (\E i \in 1..n : z[k] = h.majors[i]) \/ z[k] = new
      BY <1>3, <1>11, <3>2 DEF From
    <3> QED BY <1>5, <1>12, <3>1, <3>3 DEF OnList
  <2> QED BY <2>1, <2>2, <2>3
<1>14. Extended(h, size, req) = [h EXCEPT !.majors = Append(@, x), !.bestBet = b,
                                          !.allocated = @ + Size(new), !.inuse = @ + size]
  BY <1>2, <1>6, <1>8, <1>10, Zenon DEF Extended
<1>15. PICK a, u : a = h.allocated + Size(new) /\ u = h.inuse + size
  OBVIOUS
<1>16. Extended(h, size, req) = HeapOf(t, b, a, u)
  BY <1>1, <1>11, <1>14, <1>15 DEF HeapRecord, HeapOf
<1> QED BY <1>2, <1>11, <1>13, <1>15, <1>16

LEMMA PaddedType ==
  ASSUME NEW req \in Requests
  PROVE  req \in Nat /\ Padded(req) \in Nat /\ Padded(req) > 0
BY HeapParams DEF Padded

\* What kmalloc() makes of the heap: a minor in a major that suits, or a new
\* major with the minor when none does.
Takes(h, new, req) ==
  LET size == Padded(req) IN
  \E b :
    \/ \E i \in 1..Len(h.majors) :
         /\ Suits(h.majors[i], size) /\ OnList(h.majors, b)
         /\ new = HeapOf([h.majors EXCEPT ![i] = Insert(h.majors[i], size, req)],
                         b, h.allocated, h.inuse + size)
    \/ LET maj == allocate_new_page(h.majors, size) IN
       /\ \A i \in 1..Len(h.majors) : ~Suits(h.majors[i], size)
       /\ OnList(Append(h.majors, Insert(maj, size, req)), b)
       /\ new = HeapOf(Append(h.majors, Insert(maj, size, req)), b,
                       h.allocated + Size(maj), h.inuse + size)

LEMMA AllocatedTakes ==
  ASSUME NEW h, HeapCore(h), h.majors # << >>, NEW req \in Requests
  PROVE  Takes(h, Allocated(h, req), req)
<1>1. PICK size, new : size = Padded(req) /\ new = Allocated(h, req)
  OBVIOUS
<1>2. size \in Nat /\ size >= Padded(req)
  BY <1>1, PaddedType
<1>3. CASE Hits(h, size) # {}
  <2>1. new = Placed(h, size, req)
    BY <1>1, <1>3 DEF Allocated
  <2>2. PICK hit, b :
           /\ hit \in 1..Len(h.majors) /\ Suits(h.majors[hit], size) /\ OnList(h.majors, b)
           /\ Placed(h, size, req) =
                HeapOf([h.majors EXCEPT ![hit] = Insert(h.majors[hit], size, req)],
                       b, h.allocated, h.inuse + size)
    BY <1>3, PlacedIs
  <2> QED BY <1>1, <2>1, <2>2 DEF Takes
<1>4. CASE Hits(h, size) = {}
  <2>1. new = Extended(h, size, req)
    BY <1>1, <1>4 DEF Allocated
  <2>2. PICK maj : maj = allocate_new_page(h.majors, size)
    OBVIOUS
  <2>3. PICK b :
           /\ OnList(Append(h.majors, Insert(maj, size, req)), b)
           /\ Extended(h, size, req) =
                HeapOf(Append(h.majors, Insert(maj, size, req)), b,
                       h.allocated + Size(maj), h.inuse + size)
    BY <1>2, <2>2, ExtendedIs
  <2>4. ASSUME NEW i \in 1..Len(h.majors) PROVE ~Suits(h.majors[i], size)
    <3>1. PICK v : v = Visits(h, size)
      OBVIOUS
    <3>2. v \in Seq(Major) /\ From(h.majors, v)
      BY <3>1, VisitsFacts
    <3>3. PICK k \in 1..Len(v) : v[k] = h.majors[i]
      BY <3>2 DEF From
    <3>4. k \in DOMAIN v
      BY <3>2
    <3>5. ~Suits(v[k], size)
      BY <1>4, <3>1, <3>4 DEF Hits
    <3> QED BY <3>3, <3>5
  <2> QED BY <1>1, <2>1, <2>2, <2>3, <2>4 DEF Takes
<1> QED BY <1>1, <1>3, <1>4

LEMMA TakesKeeps ==
  ASSUME NEW h, HeapOK(h), NEW req \in Requests, NEW new, Takes(h, new, req)
  PROVE  HeapOK(new) /\ new.majors # << >>
<1>1. HeapCore(h) /\ h \in HeapRecord /\ h.majors \in Seq(Major)
  BY RecordFields DEF HeapOK, HeapCore
<1>2. PICK size, n : size = Padded(req) /\ n = Len(h.majors)
  OBVIOUS
<1>3. size \in Nat /\ size >= Padded(req) /\ n \in Nat
  BY <1>1, <1>2, PaddedType
<1>4. \A i \in 1..n : MajorOK(h.majors[i]) /\ (h.majors[i].minors = << >> => i = 1)
  BY <1>1, <1>2 DEF HeapOK, HeapCore
<1>5. PICK b :
    \/ \E i \in 1..n :
         /\ Suits(h.majors[i], size) /\ OnList(h.majors, b)
         /\ new = HeapOf([h.majors EXCEPT ![i] = Insert(h.majors[i], size, req)],
                         b, h.allocated, h.inuse + size)
    \/ /\ OnList(Append(h.majors, Insert(allocate_new_page(h.majors, size), size, req)), b)
       /\ new = HeapOf(Append(h.majors, Insert(allocate_new_page(h.majors, size), size, req)), b,
                       h.allocated + Size(allocate_new_page(h.majors, size)), h.inuse + size)
  BY <1>2 DEF Takes
<1>6. CASE \E i \in 1..n :
         /\ Suits(h.majors[i], size) /\ OnList(h.majors, b)
         /\ new = HeapOf([h.majors EXCEPT ![i] = Insert(h.majors[i], size, req)],
                         b, h.allocated, h.inuse + size)
  <2>1. PICK i \in 1..n :
         /\ Suits(h.majors[i], size) /\ OnList(h.majors, b)
         /\ new = HeapOf([h.majors EXCEPT ![i] = Insert(h.majors[i], size, req)],
                         b, h.allocated, h.inuse + size)
    BY <1>6
  <2>2. PICK x : x = Insert(h.majors[i], size, req)
    OBVIOUS
  <2>3. /\ MajorOK(x) /\ x.base = h.majors[i].base /\ x.pages = h.majors[i].pages
        /\ InMinors(x) = InMinors(h.majors[i]) + size /\ x.minors # << >>
    BY <1>3, <1>4, <2>1, <2>2, SuitsTakes
  <2>4. h.inuse + size = h.inuse + (InMinors(x) - InMinors(h.majors[i]))
    <3>1. InMinors(h.majors[i]) \in Nat /\ h.inuse \in Nat
      BY <1>1, <1>4, InMinorsFacts, RecordFields DEF MajorOK
    <3> QED BY <1>3, <2>3, <3>1
  <2>5. HeapCore(new)
    BY <1>1, <1>2, <2>1, <2>2, <2>3, <2>4, ReplaceKeeps
  <2>6. new.majors = [h.majors EXCEPT ![i] = x]
    BY <2>1, <2>2, HeapOfFields
  <2>7. Len(new.majors) = n /\ \A k \in 1..n : new.majors[k] = IF k = i THEN x ELSE h.majors[k]
    <3>1. x \in Major
      BY <2>3 DEF MajorOK
    <3> QED BY <1>1, <1>2, <2>6, <3>1, ExceptSeq
  <2>8. \A k \in 1..n : new.majors[k].minors = << >> => k = 1
    BY <1>4, <2>3, <2>7
  <2>9. new.majors # << >>
    BY <1>3, <2>7
  <2> QED BY <2>5, <2>7, <2>8, <2>9 DEF HeapOK
<1>7. CASE /\ OnList(Append(h.majors, Insert(allocate_new_page(h.majors, size), size, req)), b)
           /\ new = HeapOf(Append(h.majors, Insert(allocate_new_page(h.majors, size), size, req)), b,
                       h.allocated + Size(allocate_new_page(h.majors, size)), h.inuse + size)
  <2>1. PICK maj : maj = allocate_new_page(h.majors, size)
    OBVIOUS
  <2>2. PICK x : x = Insert(maj, size, req)
    OBVIOUS
  <2>3. /\ MajorOK(maj) /\ maj.minors = << >> /\ Suits(maj, size)
        /\ \A i \in 1..n : PagesApart(h.majors[i], maj)
    <3>1. /\ MajorOK(maj) /\ maj.minors = << >>
          /\ ~Insufficient(maj, size) /\ Fits(maj, size) = {0}
          /\ \A i \in 1..n : PagesApart(h.majors[i], maj)
      BY <1>1, <1>2, <1>3, <2>1, NewFacts
    <3> QED BY <3>1 DEF Suits
  <2>4. /\ MajorOK(x) /\ x.base = maj.base /\ x.pages = maj.pages
        /\ InMinors(x) = InMinors(maj) + size /\ x.minors # << >>
    BY <1>3, <2>2, <2>3, SuitsTakes
  <2>5. InMinors(x) = size /\ Size(x) = Size(maj)
    <3>1. InMinors(maj) = 0
      BY <2>3, InMinorsFacts DEF MajorOK
    <3> QED BY <1>3, <2>4, <3>1 DEF Size
  <2>6. \A i \in 1..n : PagesApart(h.majors[i], x)
    BY <2>3, <2>4 DEF PagesApart
  <2>7. new = HeapOf(Append(h.majors, x), b, h.allocated + Size(x), h.inuse + InMinors(x))
    BY <1>7, <2>1, <2>2, <2>5
  <2>8. OnList(Append(h.majors, x), b)
    BY <1>7, <2>1, <2>2
  <2>9. HeapCore(new)
    BY <1>1, <1>2, <2>4, <2>6, <2>7, <2>8, AppendKeeps
  <2>10. new.majors = Append(h.majors, x)
    BY <2>7 DEF HeapOf
  <2>11. /\ Len(new.majors) = n + 1 /\ new.majors[n + 1] = x
         /\ \A k \in 1..n : new.majors[k] = h.majors[k]
    <3>1. x \in Major
      BY <2>4 DEF MajorOK
    <3> QED BY <1>1, <1>2, <2>10, <3>1
  <2>12. ASSUME NEW k \in 1..(n + 1), new.majors[k].minors = << >> PROVE k = 1
    <3>1. k \in 1..n \/ k = n + 1
      BY <1>3
    <3> QED BY <1>4, <2>4, <2>11, <2>12, <3>1
  <2>13. new.majors # << >>
    BY <1>3, <2>11
  <2> QED BY <2>9, <2>11, <2>12, <2>13 DEF HeapOK
<1> QED BY <1>5, <1>6, <1>7

-----------------------------------------------------------------------------
(* The heap: kfree().                                                       *)

\* There is a j-th minor in the i-th major.
At(h, i, j) == i \in 1..Len(h.majors) /\ j \in 1..Len(h.majors[i].minors)

LEMMA MinorsAt ==
  ASSUME NEW h \in HeapRecord
  PROVE  /\ \A m \in Minors(h) : At(h, m.maj, m.min) /\ m = [maj |-> m.maj, min |-> m.min]
         /\ \A i, j : At(h, i, j) => [maj |-> i, min |-> j] \in Minors(h)
<1>1. DOMAIN h.majors = 1..Len(h.majors)
  BY RecordFields
<1>2. \A i \in 1..Len(h.majors) : DOMAIN h.majors[i].minors = 1..Len(h.majors[i].minors)
  BY RecordFields, MajorFields
<1>3. Minors(h) = UNION {{[maj |-> i, min |-> j] : j \in 1..Len(h.majors[i].minors)}
                         : i \in 1..Len(h.majors)}
  BY <1>1, <1>2 DEF Minors
<1>4. ASSUME NEW m \in Minors(h) PROVE At(h, m.maj, m.min) /\ m = [maj |-> m.maj, min |-> m.min]
  <2>1. PICK i \in 1..Len(h.majors) : \E j \in 1..Len(h.majors[i].minors) : m = [maj |-> i, min |-> j]
    BY <1>3
  <2>2. PICK j \in 1..Len(h.majors[i].minors) : m = [maj |-> i, min |-> j]
    BY <2>1
  <2>3. m.maj = i /\ m.min = j
    BY <2>2
  <2> QED BY <2>2, <2>3 DEF At
<1>5. ASSUME NEW i, NEW j, At(h, i, j) PROVE [maj |-> i, min |-> j] \in Minors(h)
  BY <1>3, <1>5 DEF At
<1> QED BY <1>4, <1>5

\* The pointers of the heap; kfree() finds the minor of one.
LEMMA PointersAt ==
  ASSUME NEW h \in HeapRecord, NEW p, \E m \in Minors(h) : PointerOf(h, m) = p
  PROVE  \E i, j : /\ At(h, i, j) /\ WithPointer(h, p) = [maj |-> i, min |-> j]
                   /\ Pointer(h.majors[i], h.majors[i].minors[j]) = p
<1>1. PICK m : m = WithPointer(h, p)
  OBVIOUS
<1>2. m \in Minors(h) /\ PointerOf(h, m) = p
  BY <1>1 DEF WithPointer
<1>3. At(h, m.maj, m.min) /\ m = [maj |-> m.maj, min |-> m.min]
  BY <1>2, MinorsAt
<1> QED BY <1>1, <1>2, <1>3 DEF PointerOf

\* What kfree() makes of the heap: the major loses the minor, and leaves the
\* list when it was the last one.
Frees(h, new, i, j) ==
  LET less == Without(h.majors[i], j)
      majors == [h.majors EXCEPT ![i] = less]
      inuse == h.inuse - h.majors[i].minors[j].size
  IN \/ /\ less.minors # << >>
        /\ \E b : OnList(h.majors, b) /\ new = HeapOf(majors, b, h.allocated, inuse)
     \/ /\ less.minors = << >>
        /\ new = HeapOf(RemoveAt(majors, i),
                        IF h.bestBet = less.base THEN NULL ELSE h.bestBet,
                        h.allocated - Size(less), inuse)

LEMMA UnlinkedIs ==
  ASSUME NEW h \in HeapRecord, NEW i, NEW j, At(h, i, j)
  PROVE  Unlinked(h, [maj |-> i, min |-> j]) =
           HeapOf([h.majors EXCEPT ![i] = Without(h.majors[i], j)], h.bestBet, h.allocated,
                  h.inuse - h.majors[i].minors[j].size)
<1>1. PICK size, ms, u, s :
        /\ size = h.majors[i].minors[j].size
        /\ ms = RemoveAt(h.majors[i].minors, j)
        /\ u = h.majors[i].usage - (size + MinorHeader)
        /\ s = h.inuse - size
  OBVIOUS
<1>2. h.majors[i] \in Major /\ i \in 1..Len(h.majors) /\ h.majors \in [1..Len(h.majors) -> Major]
  BY RecordFields DEF At
<1>3. Without(h.majors[i], j) = [h.majors[i] EXCEPT !.minors = ms, !.usage = u]
  BY <1>1 DEF Without
<1>4. PICK v, w : v = [h.majors EXCEPT ![i].minors = ms] /\ w = [v EXCEPT ![i].usage = u]
  OBVIOUS
<1>5. w = [h.majors EXCEPT ![i] = [h.majors[i] EXCEPT !.minors = ms, !.usage = u]]
  <2>1. v = [h.majors EXCEPT ![i] = [h.majors[i] EXCEPT !.minors = ms]]
    BY <1>2, <1>4
  <2>2. v[i] = [h.majors[i] EXCEPT !.minors = ms]
    BY <1>2, <2>1
  <2>3. w = [v EXCEPT ![i] = [v[i] EXCEPT !.usage = u]]
    BY <1>4
  <2>4. w = [h.majors EXCEPT ![i] = [v[i] EXCEPT !.usage = u]]
    BY <1>2, <2>1, <2>3
  <2> QED BY <2>2, <2>4
<1>6. v[i].usage = h.majors[i].usage
  BY <1>2, <1>4 DEF Major
<1>7. Unlinked(h, [maj |-> i, min |-> j]) = HeapOf(w, h.bestBet, h.allocated, s)
  <2>1. PICK m : m = [maj |-> i, min |-> j]
    OBVIOUS
  <2>2. m.maj = i /\ m.min = j
    BY <2>1
  <2>3. Unlinked(h, m) = [h EXCEPT !.majors[i].minors = RemoveAt(@, j),
                                   !.majors[i].usage = @ - (size + MinorHeader),
                                   !.inuse = @ - size]
    BY <1>1, <2>2, Zenon DEF Unlinked
  <2>4. Unlinked(h, m) = [h EXCEPT !.majors[i].minors = ms, !.majors[i].usage = u, !.inuse = s]
    BY <1>1, <2>3
  <2>5. PICK f, g : f = [h EXCEPT !.majors = v] /\ g = [f EXCEPT !.majors = w]
    OBVIOUS
  <2>6. h = HeapOf(h.majors, h.bestBet, h.allocated, h.inuse)
    BY DEF HeapRecord, HeapOf
  <2>7. f = HeapOf(v, h.bestBet, h.allocated, h.inuse)
    BY <2>5, <2>6 DEF HeapOf
  <2>8. g = HeapOf(w, h.bestBet, h.allocated, h.inuse)
    BY <2>5, <2>7 DEF HeapOf
  <2>9. [g EXCEPT !.inuse = s] = HeapOf(w, h.bestBet, h.allocated, s)
    BY <2>8 DEF HeapOf
  <2>10. [h EXCEPT !.majors[i].minors = ms] = f
    BY <1>4, <2>5
  <2>11. [f EXCEPT !.majors[i].usage = u] = g
    <3>1. f.majors = v
      BY <2>7 DEF HeapOf
    <3> QED BY <1>4, <2>5, <3>1
  <2>12. [h EXCEPT !.majors[i].minors = ms, !.majors[i].usage = u, !.inuse = s]
           = [g EXCEPT !.inuse = s]
    BY ONLY <2>10, <2>11
  <2> QED BY <2>1, <2>4, <2>9, <2>12
<1> QED BY <1>1, <1>3, <1>5, <1>7

LEMMA FreedFrees ==
  ASSUME NEW h, HeapCore(h), NEW p, NEW i, NEW j, At(h, i, j),
         WithPointer(h, p) = [maj |-> i, min |-> j]
  PROVE  Frees(h, Freed(h, p), i, j)
<1>1. h \in HeapRecord /\ h.majors[i] \in Major /\ i \in 1..Len(h.majors)
  BY RecordFields DEF HeapCore, At
<1>2. PICK less, t, s : /\ less = Without(h.majors[i], j)
                        /\ t = [h.majors EXCEPT ![i] = less]
                        /\ s = h.inuse - h.majors[i].minors[j].size
  OBVIOUS
<1>3. PICK m, u : m = WithPointer(h, p) /\ u = Unlinked(h, m)
  OBVIOUS
<1>4. u = HeapOf(t, h.bestBet, h.allocated, s)
  BY <1>1, <1>2, <1>3, UnlinkedIs
<1>5. u.majors = t /\ u.bestBet = h.bestBet /\ u.allocated = h.allocated /\ u.inuse = s
  BY <1>4 DEF HeapOf
<1>6. t[i] = less /\ less.base = h.majors[i].base
  <2>1. i \in DOMAIN h.majors
    BY <1>1, RecordFields
  <2>2. less.base = h.majors[i].base
    BY <1>1, <1>2 DEF Without, Major
  <2> QED BY <1>2, <2>1, <2>2
<1>7. m.maj = i
  BY <1>3
<1>8. Freed(h, p) = IF less.minors = << >> THEN Released(u, i)
                    ELSE [u EXCEPT !.bestBet = IF @ # NULL /\ FreeBytes(less) > BetSize(u)
                                               THEN less.base ELSE @]
  BY <1>3, <1>5, <1>6, <1>7, Zenon DEF Freed
<1>9. CASE less.minors = << >>
  <2>1. PICK b, a, r : /\ b = IF h.bestBet = less.base THEN NULL ELSE h.bestBet
                       /\ a = h.allocated - Size(less) /\ r = RemoveAt(t, i)
    OBVIOUS
  <2>2. Released(u, i) = [u EXCEPT !.majors = r, !.bestBet = b, !.allocated = a]
    BY <1>5, <1>6, <2>1 DEF Released
  <2>3. PICK f, g : f = [u EXCEPT !.majors = r] /\ g = [f EXCEPT !.bestBet = b]
    OBVIOUS
  <2>4. f = HeapOf(r, h.bestBet, h.allocated, s)
    BY <1>4, <2>3 DEF HeapOf
  <2>5. g = HeapOf(r, b, h.allocated, s)
    <3>1. [HeapOf(r, h.bestBet, h.allocated, s) EXCEPT !.bestBet = b]
            = HeapOf(r, b, h.allocated, s)
      BY ONLY TRUE DEF HeapOf
    <3> QED BY <2>3, <2>4, <3>1
  <2>6. [g EXCEPT !.allocated = a] = HeapOf(r, b, a, s)
    BY <2>5 DEF HeapOf
  <2>7. [u EXCEPT !.majors = r, !.bestBet = b, !.allocated = a] = [g EXCEPT !.allocated = a]
    BY ONLY <2>3
  <2>8. Freed(h, p) = HeapOf(r, b, a, s)
    BY <1>8, <1>9, <2>2, <2>6, <2>7
  <2> QED BY <1>2, <1>9, <2>1, <2>8 DEF Frees
<1>10. CASE less.minors # << >>
  <2>1. PICK b : b = IF h.bestBet # NULL /\ FreeBytes(less) > BetSize(u)
                     THEN less.base ELSE h.bestBet
    OBVIOUS
  <2>2. Freed(h, p) = [u EXCEPT !.bestBet = b]
    BY <1>5, <1>8, <1>10, <2>1
  <2>3. [u EXCEPT !.bestBet = b] = HeapOf(t, b, h.allocated, s)
    BY <1>4 DEF HeapOf
  <2>4. OnList(h.majors, b)
    BY <1>1, <1>6, <2>1 DEF HeapCore, OnList
  <2> QED BY <1>2, <1>10, <2>2, <2>3, <2>4 DEF Frees
<1> QED BY <1>9, <1>10

LEMMA FreesKeeps ==
  ASSUME NEW h, HeapOK(h), NEW i, NEW j, At(h, i, j), NEW new, Frees(h, new, i, j)
  PROVE  HeapOK(new)
<1>1. HeapCore(h) /\ h \in HeapRecord /\ h.majors \in Seq(Major)
  BY RecordFields DEF HeapOK, HeapCore
<1>2. PICK n : n = Len(h.majors) /\ n \in Nat /\ i \in 1..n
  BY <1>1, RecordFields DEF At
<1>3. \A k \in 1..n : MajorOK(h.majors[k]) /\ (h.majors[k].minors = << >> => k = 1)
  BY <1>1, <1>2 DEF HeapOK, HeapCore
<1>4. PICK less, t, s : /\ less = Without(h.majors[i], j)
                        /\ t = [h.majors EXCEPT ![i] = less]
                        /\ s = h.inuse - h.majors[i].minors[j].size
  OBVIOUS
<1>5. /\ MajorOK(less) /\ Holds(h.majors[i], less, j - 1, h.majors[i].minors[j])
      /\ InMinors(h.majors[i]) = InMinors(less) + h.majors[i].minors[j].size
  BY <1>2, <1>3, <1>4, RemoveKeeps DEF At
<1>6. less.base = h.majors[i].base /\ less.pages = h.majors[i].pages /\ less \in Major
  BY <1>5 DEF Holds, MajorOK
<1>7. s = h.inuse + (InMinors(less) - InMinors(h.majors[i]))
  <2>1. InMinors(less) \in Nat /\ h.inuse \in Nat
    BY <1>1, <1>6, InMinorsFacts, RecordFields
  <2>2. h.majors[i].minors[j].size \in Nat
    BY <1>1, <1>2, RecordFields, MajorFields DEF At
  <2> QED BY <1>4, <1>5, <2>1, <2>2
<1>8. t \in Seq(Major) /\ Len(t) = n /\ \A k \in 1..n : t[k] = IF k = i THEN less ELSE h.majors[k]
  BY <1>1, <1>2, <1>4, <1>6, ExceptSeq
<1>9. \A b : OnList(h.majors, b) => HeapCore(HeapOf(t, b, h.allocated, s))
  BY <1>1, <1>2, <1>4, <1>5, <1>6, <1>7, ReplaceKeeps
<1>10. CASE less.minors # << >>
  <2>1. PICK b : OnList(h.majors, b) /\ new = HeapOf(t, b, h.allocated, s)
    BY <1>4, <1>10 DEF Frees
  <2>2. HeapCore(new) /\ new.majors = t
    BY <1>9, <2>1 DEF HeapOf
  <2>3. \A k \in 1..n : t[k].minors = << >> => k = 1
    BY <1>3, <1>8, <1>10
  <2> QED BY <1>8, <2>2, <2>3 DEF HeapOK
<1>11. CASE less.minors = << >>
  <2>1. PICK b, r : b = (IF h.bestBet = less.base THEN NULL ELSE h.bestBet) /\ r = RemoveAt(t, i)
    OBVIOUS
  <2>2. new = HeapOf(r, b, h.allocated - Size(less), s)
    BY <1>4, <1>11, <2>1 DEF Frees
  <2>3. PICK u : u = HeapOf(t, h.bestBet, h.allocated, s)
    OBVIOUS
  <2>4. /\ u.majors = t /\ u.bestBet = h.bestBet /\ u.allocated = h.allocated /\ u.inuse = s
        /\ t[i] = less
    BY <1>2, <1>8, <2>3 DEF HeapOf
  <2>5. HeapCore(u)
    <3>1. OnList(h.majors, h.bestBet)
      BY <1>1 DEF HeapCore
    <3> QED BY <1>9, <2>3, <3>1
  <2>6. HeapCore(HeapOf(RemoveAt(u.majors, i), b, u.allocated - Size(u.majors[i]), u.inuse))
    <3>1. i \in 1..Len(u.majors) /\ u.majors[i].minors = << >>
            /\ b = (IF u.bestBet = u.majors[i].base THEN NULL ELSE u.bestBet)
      BY <1>2, <1>8, <1>11, <2>1, <2>4
    <3> QED BY <2>5, <3>1, DropKeeps
  <2>7. HeapCore(new)
    BY <2>1, <2>2, <2>4, <2>6
  <2>8. new.majors = r
    BY <2>2 DEF HeapOf
  <2>9. r \in Seq(Major) /\ Inserted(t, r, i, t[i])
    BY <1>2, <1>8, <2>1, RemoveAtFacts
  <2>10. PICK l : l = Len(r) /\ l \in Nat /\ n = l + 1
    <3>1. Len(r) \in Nat /\ n = Len(r) + 1
      BY <1>8, <2>9 DEF Inserted
    <3> QED BY <3>1
  <2>11. ASSUME NEW k \in 1..l, r[k].minors = << >> PROVE k = 1
    <3>1. CASE k < i
      <4>1. k \in 1..n /\ t[k] = r[k] /\ k # i
        BY <1>2, <1>8, <2>9, <2>10, <3>1 DEF Inserted
      <4> QED BY <1>3, <1>8, <2>11, <4>1
    <3>2. CASE ~(k < i)
      <4>1. k + 1 \in 1..n /\ ~(k + 1 < i) /\ k + 1 # i /\ (k + 1) - 1 = k /\ k + 1 # 1
        BY <1>2, <2>10, <3>2
      <4>2. t[k + 1] = r[k]
        BY <1>8, <2>9, <4>1 DEF Inserted
      <4> QED BY <1>3, <1>8, <2>11, <4>1, <4>2
    <3> QED BY <3>1, <3>2
  <2> QED BY <2>7, <2>8, <2>10, <2>11 DEF HeapOK
<1> QED BY <1>10, <1>11

-----------------------------------------------------------------------------
(* The heap: the pieces that callers own.                                   *)

In(s, i, j) == i \in 1..Len(s) /\ j \in 1..Len(s[i].minors)

PieceIn(s, i, j) == [start |-> Pointer(s[i], s[i].minors[j]), len |-> s[i].minors[j].req]

\* Every piece of s is one of t, other than that at a and b.
PiecesIn(s, t, a, b) ==
  \A i, j : In(s, i, j) =>
    \E k, l : In(t, k, l) /\ (k # a \/ l # b) /\ PieceIn(t, k, l) = PieceIn(s, i, j)

\* Every piece of t but that at a and b is one of s.
PiecesBut(t, s, a, b) ==
  \A k, l : In(t, k, l) /\ (k # a \/ l # b) =>
    \E i, j : In(s, i, j) /\ PieceIn(s, i, j) = PieceIn(t, k, l)

\* t has the pieces of s and the one at a and b.
Plus(t, s, a, b) == In(t, a, b) /\ PiecesIn(s, t, a, b) /\ PiecesBut(t, s, a, b)

LEMMA ReplacePlus ==
  ASSUME NEW s \in Seq(Major), NEW t \in Seq(Major), Len(t) = Len(s),
         NEW a \in 1..Len(s), \A k \in 1..Len(s) : k # a => t[k] = s[k],
         NEW i \in 0..Len(s[a].minors), NEW min, Holds(t[a], s[a], i, min)
  PROVE  Plus(t, s, a, i + 1)
<1>1. PICK n, x, y : n = Len(s) /\ n \in Nat /\ x = s[a] /\ y = t[a]
  <2>1. Len(s) \in Nat
    OBVIOUS
  <2> QED BY <2>1
<1>2. x \in Major /\ y \in Major
  BY <1>1, ElementOfSeq
<1>3. PICK m : m = Len(x.minors) /\ m \in Nat /\ Len(y.minors) = m + 1 /\ i \in 0..m
  <2>1. Len(x.minors) \in Nat /\ Len(y.minors) = Len(x.minors) + 1
    BY <1>1, <1>2, MajorFields, HoldsGaps
  <2> QED BY <1>1, <2>1
<1>4. \A k \in 1..(m + 1) : y.minors[k] = IF k < i + 1 THEN x.minors[k]
                                          ELSE IF k = i + 1 THEN min ELSE x.minors[k - 1]
  BY <1>1, <1>3 DEF Holds, Inserted
<1>5. y.base = x.base
  BY <1>1 DEF Holds
<1>6. \A k, l, e : y.minors[k] = x.minors[l] => Pointer(y, y.minors[k]) = Pointer(x, x.minors[l])
  BY <1>5 DEF Pointer
<1>7. In(t, a, i + 1)
  <2>1. i + 1 \in 1..(m + 1)
    BY <1>3
  <2> QED BY <1>1, <1>3, <2>1 DEF In
<1>8. ASSUME NEW k, NEW l, In(s, k, l)
      PROVE  \E e, f : In(t, e, f) /\ (e # a \/ f # i + 1) /\ PieceIn(t, e, f) = PieceIn(s, k, l)
  <2>1. CASE k # a
    <3>1. t[k] = s[k]
      BY <1>8, <2>1 DEF In
    <3>2. In(t, k, l) /\ PieceIn(t, k, l) = PieceIn(s, k, l)
      BY <1>8, <3>1 DEF In, PieceIn
    <3> QED BY <2>1, <3>2
  <2>2. CASE k = a
    <3>1. l \in 1..m
      BY <1>1, <1>3, <1>8, <2>2 DEF In
    <3>2. PICK f : f = IF l < i + 1 THEN l ELSE l + 1
      OBVIOUS
    <3>3. f \in 1..(m + 1) /\ f # i + 1 /\ (f < i + 1 <=> l < i + 1) /\ (~(f < i + 1) => f - 1 = l)
            /\ (f < i + 1 => f = l)
      BY <1>3, <3>1, <3>2
    <3>4. y.minors[f] = x.minors[l]
      BY <1>4, <3>3
    <3>5. In(t, a, f)
      BY <1>1, <1>3, <3>3 DEF In
    <3>6. PieceIn(t, a, f) = PieceIn(s, a, l)
      BY <1>1, <1>6, <3>4 DEF PieceIn
    <3> QED BY <2>2, <3>3, <3>5, <3>6
  <2> QED BY <2>1, <2>2
<1>9. ASSUME NEW k, NEW l, In(t, k, l), k # a \/ l # i + 1
      PROVE  \E e, f : In(s, e, f) /\ PieceIn(s, e, f) = PieceIn(t, k, l)
  <2>1. CASE k # a
    <3>1. t[k] = s[k]
      BY <1>9, <2>1 DEF In
    <3>2. In(s, k, l) /\ PieceIn(s, k, l) = PieceIn(t, k, l)
      BY <1>9, <3>1 DEF In, PieceIn
    <3> QED BY <3>2
  <2>2. CASE k = a
    <3>1. l \in 1..(m + 1) /\ l # i + 1
      BY <1>1, <1>3, <1>9, <2>2 DEF In
    <3>2. PICK f : f = IF l < i + 1 THEN l ELSE l - 1
      OBVIOUS
    <3>3. f \in 1..m
      BY <1>3, <3>1, <3>2
    <3>4. y.minors[l] = x.minors[f]
      BY <1>4, <3>1, <3>2
    <3>5. In(s, a, f)
      BY <1>1, <1>3, <3>3 DEF In
    <3>6. PieceIn(s, a, f) = PieceIn(t, a, l)
      BY <1>1, <1>6, <3>4 DEF PieceIn
    <3> QED BY <2>2, <3>5, <3>6
  <2> QED BY <2>1, <2>2
<1> QED BY <1>7, <1>8, <1>9 DEF Plus, PiecesIn, PiecesBut

LEMMA AppendPlus ==
  ASSUME NEW s \in Seq(Major), NEW x \in Major, Len(x.minors) = 1
  PROVE  Plus(Append(s, x), s, Len(s) + 1, 1)
<1>1. PICK n, t : n = Len(s) /\ n \in Nat /\ t = Append(s, x)
  <2>1. Len(s) \in Nat
    OBVIOUS
  <2> QED BY <2>1
<1>2. Len(t) = n + 1 /\ t[n + 1] = x /\ \A k \in 1..n : t[k] = s[k]
  BY <1>1
<1>3. In(t, n + 1, 1)
  <2>1. Len(t[n + 1].minors) = 1 /\ n + 1 \in 1..(n + 1) /\ 1 \in 1..1
    BY <1>1, <1>2
  <2> QED BY <1>2, <2>1 DEF In
<1>4. ASSUME NEW k, NEW l, In(s, k, l)
      PROVE  In(t, k, l) /\ (k # n + 1 \/ l # 1) /\ PieceIn(t, k, l) = PieceIn(s, k, l)
  <2>1. k \in 1..n /\ k \in 1..(n + 1) /\ k # n + 1
    BY <1>1, <1>4 DEF In
  <2>2. t[k] = s[k]
    BY <1>2, <2>1
  <2> QED BY <1>2, <1>4, <2>1, <2>2 DEF In, PieceIn
<1>5. ASSUME NEW k, NEW l, In(t, k, l), k # n + 1 \/ l # 1
      PROVE  In(s, k, l) /\ PieceIn(s, k, l) = PieceIn(t, k, l)
  <2>1. k \in 1..n
    <3>1. k \in 1..(n + 1) /\ l \in 1..Len(t[k].minors)
      BY <1>2, <1>5 DEF In
    <3>2. k = n + 1 => l = 1
      <4>1. Len(t[n + 1].minors) = 1
        BY <1>2
      <4>2. k = n + 1 => l \in 1..1
        BY <3>1, <4>1
      <4> QED BY <4>2
    <3> QED BY <1>1, <1>5, <3>1, <3>2
  <2>2. t[k] = s[k]
    BY <1>2, <2>1
  <2> QED BY <1>1, <1>5, <2>1, <2>2 DEF In, PieceIn
<1> QED BY <1>1, <1>3, <1>4, <1>5 DEF Plus, PiecesIn, PiecesBut

\* A major without minors leaves the list.
LEMMA DropPlus ==
  ASSUME NEW s \in Seq(Major), NEW t \in Seq(Major), NEW a, NEW b, Plus(t, s, a, b),
         NEW i \in 1..Len(s), s[i].minors = << >>
  PROVE  Plus(t, RemoveAt(s, i), a, b)
<1>1. PICK r : r = RemoveAt(s, i)
  OBVIOUS
<1>2. r \in Seq(Major) /\ Inserted(s, r, i, s[i])
  BY <1>1, RemoveAtFacts
<1>3. PICK n : n = Len(r) /\ n \in Nat /\ Len(s) = n + 1 /\ i \in 1..(n + 1)
  <2>1. Len(r) \in Nat /\ Len(s) = Len(r) + 1
    BY <1>2 DEF Inserted
  <2> QED BY <2>1
<1>4. \A k \in 1..(n + 1) : s[k] = IF k < i THEN r[k] ELSE IF k = i THEN s[i] ELSE r[k - 1]
  BY <1>2, <1>3 DEF Inserted
<1>5. ASSUME NEW k, NEW l, In(r, k, l)
      PROVE  \E e : In(s, e, l) /\ PieceIn(s, e, l) = PieceIn(r, k, l)
  <2>1. k \in 1..n
    BY <1>3, <1>5 DEF In
  <2>2. PICK e : e = IF k < i THEN k ELSE k + 1
    OBVIOUS
  <2>3. e \in 1..(n + 1) /\ (e < i <=> k < i) /\ e # i /\ (e < i => e = k) /\ (~(e < i) => e - 1 = k)
    BY <1>3, <2>1, <2>2
  <2>4. s[e] = r[k]
    BY <1>4, <2>3
  <2> QED BY <1>3, <1>5, <2>3, <2>4 DEF In, PieceIn
<1>6. ASSUME NEW k, NEW l, In(s, k, l)
      PROVE  \E e : In(r, e, l) /\ PieceIn(r, e, l) = PieceIn(s, k, l)
  <2>1. k \in 1..(n + 1) /\ k # i
    BY <1>3, <1>6 DEF In
  <2>2. PICK e : e = IF k < i THEN k ELSE k - 1
    OBVIOUS
  <2>3. e \in 1..n
    BY <1>3, <2>1, <2>2
  <2>4. s[k] = r[e]
    BY <1>4, <2>1, <2>2
  <2> QED BY <1>3, <1>6, <2>3, <2>4 DEF In, PieceIn
<1>7. PiecesIn(r, t, a, b)
  <2>1. ASSUME NEW k, NEW l, In(r, k, l)
        PROVE  \E e, f : In(t, e, f) /\ (e # a \/ f # b) /\ PieceIn(t, e, f) = PieceIn(r, k, l)
    <3>1. PICK e : In(s, e, l) /\ PieceIn(s, e, l) = PieceIn(r, k, l)
      BY <1>5, <2>1
    <3>2. \E g, f : In(t, g, f) /\ (g # a \/ f # b) /\ PieceIn(t, g, f) = PieceIn(s, e, l)
      BY <3>1 DEF Plus, PiecesIn
    <3> QED BY <3>1, <3>2
  <2> QED BY <2>1 DEF PiecesIn
<1>8. PiecesBut(t, r, a, b)
  <2>1. ASSUME NEW k, NEW l, In(t, k, l), k # a \/ l # b
        PROVE  \E e, f : In(r, e, f) /\ PieceIn(r, e, f) = PieceIn(t, k, l)
    <3>1. PICK e, f : In(s, e, f) /\ PieceIn(s, e, f) = PieceIn(t, k, l)
      BY <2>1 DEF Plus, PiecesBut
    <3>2. \E g : In(r, g, f) /\ PieceIn(r, g, f) = PieceIn(s, e, f)
      BY <1>6, <3>1
    <3> QED BY <3>1, <3>2
  <2> QED BY <2>1 DEF PiecesBut
<1> QED BY <1>1, <1>7, <1>8 DEF Plus

\* kmalloc() adds a piece of the length that it is asked for.
LEMMA TakesPlus ==
  ASSUME NEW h, HeapCore(h), NEW req \in Requests, NEW new, Takes(h, new, req),
         new.majors \in Seq(Major)
  PROVE  \E a, b : Plus(new.majors, h.majors, a, b) /\ PieceIn(new.majors, a, b).len = req
<1>1. h \in HeapRecord /\ h.majors \in Seq(Major)
  BY RecordFields DEF HeapCore
<1>2. PICK size, n : size = Padded(req) /\ n = Len(h.majors)
  OBVIOUS
<1>3. size \in Nat /\ size >= Padded(req) /\ n \in Nat
  BY <1>1, <1>2, PaddedType
<1>4. \A i \in 1..n : MajorOK(h.majors[i]) /\ h.majors[i] \in Major
  BY <1>1, <1>2 DEF HeapCore, MajorOK
<1>5. PICK b :
    \/ \E i \in 1..n :
         new = HeapOf([h.majors EXCEPT ![i] = Insert(h.majors[i], size, req)],
                         b, h.allocated, h.inuse + size)
         /\ Suits(h.majors[i], size)
    \/ new = HeapOf(Append(h.majors, Insert(allocate_new_page(h.majors, size), size, req)), b,
                       h.allocated + Size(allocate_new_page(h.majors, size)), h.inuse + size)
  BY <1>2 DEF Takes
<1>6. ASSUME NEW i \in 1..n, Suits(h.majors[i], size),
             new.majors = [h.majors EXCEPT ![i] = Insert(h.majors[i], size, req)]
      PROVE  \E c, d : Plus(new.majors, h.majors, c, d) /\ PieceIn(new.majors, c, d).len = req
  <2>1. PICK x, t, maj : x = Insert(h.majors[i], size, req) /\ t = new.majors /\ maj = h.majors[i]
    OBVIOUS
  <2>2. MajorOK(maj) /\ maj \in Major /\ Suits(maj, size)
    BY <1>4, <1>6, <2>1
  <2>3. /\ MajorOK(x)
        /\ \E k \in 0..Len(maj.minors) :
             Holds(x, maj, k, [off |-> GapStart(maj, k), size |-> size, req |-> req])
    BY <1>3, <2>1, <2>2, SuitsTakes
  <2>4. x \in Major
    BY <2>3 DEF MajorOK
  <2>5. PICK k \in 0..Len(maj.minors) :
             Holds(x, maj, k, [off |-> GapStart(maj, k), size |-> size, req |-> req])
    BY <2>3
  <2>6. Len(t) = Len(h.majors) /\ \A e \in 1..n : t[e] = IF e = i THEN x ELSE h.majors[e]
    BY <1>1, <1>2, <1>6, <2>1, <2>4, ExceptSeq
  <2>7. Plus(t, h.majors, i, k + 1)
    <3>1. /\ t[i] = x /\ \A e \in 1..Len(h.majors) : e # i => t[e] = h.majors[e]
          /\ t \in Seq(Major) /\ i \in 1..Len(h.majors)
      BY <1>2, <2>1, <2>6
    <3> QED BY <1>1, <2>1, <2>5, <2>6, <3>1, ReplacePlus
  <2>8. PieceIn(t, i, k + 1).len = req
    <3>1. Len(maj.minors) \in Nat
      BY <2>2, MajorFields
    <3>2. Len(x.minors) = Len(maj.minors) + 1 /\ k + 1 \in 1..(Len(maj.minors) + 1)
      BY <2>5, <3>1 DEF Holds, Inserted
    <3>3. x.minors[k + 1] = [off |-> GapStart(maj, k), size |-> size, req |-> req]
      BY <2>5, <3>2 DEF Holds, Inserted
    <3>4. t[i] = x
      BY <2>6
    <3> QED BY <3>3, <3>4 DEF PieceIn
  <2> QED BY <2>1, <2>7, <2>8
<1>7. ASSUME new.majors = Append(h.majors, Insert(allocate_new_page(h.majors, size), size, req))
      PROVE  \E c, d : Plus(new.majors, h.majors, c, d) /\ PieceIn(new.majors, c, d).len = req
  <2>1. PICK maj, x : maj = allocate_new_page(h.majors, size) /\ x = Insert(maj, size, req)
    OBVIOUS
  <2>2. MajorOK(maj) /\ maj.minors = << >> /\ Suits(maj, size)
    <3>1. /\ MajorOK(maj) /\ maj.minors = << >>
          /\ ~Insufficient(maj, size) /\ Fits(maj, size) # {}
      BY <1>1, <1>2, <1>3, <2>1, NewFacts
    <3> QED BY <3>1 DEF Suits
  <2>3. /\ MajorOK(x)
        /\ \E k \in 0..Len(maj.minors) :
             Holds(x, maj, k, [off |-> GapStart(maj, k), size |-> size, req |-> req])
    BY <1>3, <2>1, <2>2, SuitsTakes
  <2>4. x \in Major
    BY <2>3 DEF MajorOK
  <2>5. Len(maj.minors) = 0
    BY <2>2
  <2>6. PICK k \in 0..0 : Holds(x, maj, k, [off |-> GapStart(maj, k), size |-> size, req |-> req])
    BY <2>3, <2>5
  <2>7. k = 0 /\ k + 1 = 1
    BY <2>6
  <2>8. Len(x.minors) = 1
    BY <2>5, <2>6 DEF Holds, Inserted
  <2>9. x.minors[1] = [off |-> GapStart(maj, k), size |-> size, req |-> req]
    <3>1. 1 \in 1..Len(x.minors)
      BY <2>8
    <3> QED BY <2>6, <2>7, <3>1 DEF Holds, Inserted
  <2>10. Plus(new.majors, h.majors, Len(h.majors) + 1, 1)
    BY <1>1, <1>7, <2>1, <2>4, <2>8, AppendPlus
  <2>11. new.majors[Len(h.majors) + 1] = x
    BY <1>1, <1>7, <2>1, <2>4
  <2> QED BY <2>9, <2>10, <2>11 DEF PieceIn
<1>8. CASE \E i \in 1..n :
         new = HeapOf([h.majors EXCEPT ![i] = Insert(h.majors[i], size, req)],
                         b, h.allocated, h.inuse + size)
         /\ Suits(h.majors[i], size)
  <2>1. PICK i \in 1..n :
         new = HeapOf([h.majors EXCEPT ![i] = Insert(h.majors[i], size, req)],
                         b, h.allocated, h.inuse + size)
         /\ Suits(h.majors[i], size)
    BY <1>8
  <2>2. new.majors = [h.majors EXCEPT ![i] = Insert(h.majors[i], size, req)]
    BY <2>1, HeapOfFields
  <2> QED BY <1>6, <2>1, <2>2
<1>9. CASE new = HeapOf(Append(h.majors, Insert(allocate_new_page(h.majors, size), size, req)), b,
                       h.allocated + Size(allocate_new_page(h.majors, size)), h.inuse + size)
  <2>1. PICK t, c, u :
          /\ t = Append(h.majors, Insert(allocate_new_page(h.majors, size), size, req))
          /\ c = h.allocated + Size(allocate_new_page(h.majors, size)) /\ u = h.inuse + size
    OBVIOUS
  <2>2. new = HeapOf(t, b, c, u)
    BY <1>9, <2>1
  <2>3. new.majors = t
    BY <2>2 DEF HeapOf
  <2> QED BY <1>7, <2>1, <2>3
<1> QED BY <1>5, <1>8, <1>9

\* kfree() takes away the piece of the minor.
LEMMA FreesPlus ==
  ASSUME NEW h, HeapCore(h), NEW i, NEW j, At(h, i, j), NEW new, Frees(h, new, i, j)
  PROVE  Plus(h.majors, new.majors, i, j)
<1>1. h \in HeapRecord /\ h.majors \in Seq(Major)
  BY RecordFields DEF HeapCore
<1>2. PICK n : n = Len(h.majors) /\ n \in Nat /\ i \in 1..n
  BY <1>1, RecordFields DEF At
<1>3. MajorOK(h.majors[i])
  BY <1>2 DEF HeapCore
<1>4. PICK less, t : less = Without(h.majors[i], j) /\ t = [h.majors EXCEPT ![i] = less]
  OBVIOUS
<1>5. /\ MajorOK(less) /\ Holds(h.majors[i], less, j - 1, h.majors[i].minors[j])
      /\ j - 1 \in 0..Len(less.minors)
  BY <1>3, <1>4, RemoveKeeps DEF At
<1>6. less \in Major
  BY <1>5 DEF MajorOK
<1>7. t \in Seq(Major) /\ Len(t) = n /\ \A k \in 1..n : t[k] = IF k = i THEN less ELSE h.majors[k]
  BY <1>1, <1>2, <1>4, <1>6, ExceptSeq
<1>8. Plus(h.majors, t, i, j)
  <2>1. /\ i \in 1..Len(t) /\ t[i] = less /\ Len(h.majors) = Len(t)
        /\ \A k \in 1..Len(t) : k # i => h.majors[k] = t[k]
    BY <1>2, <1>7
  <2>2. j - 1 + 1 = j
    <3>1. j \in Int
      BY <1>1, <1>2, RecordFields, MajorFields DEF At
    <3> QED BY <3>1
  <2>3. Plus(h.majors, t, i, j - 1 + 1)
    BY <1>1, <1>5, <1>7, <2>1, ReplacePlus
  <2> QED BY <2>2, <2>3
<1>9. CASE less.minors # << >>
  <2>1. new.majors = t
    BY <1>4, <1>9, HeapOfFields DEF Frees
  <2> QED BY <1>8, <2>1
<1>10. CASE less.minors = << >>
  <2>1. new.majors = RemoveAt(t, i)
    BY <1>4, <1>10, HeapOfFields DEF Frees
  <2>2. i \in 1..Len(t) /\ t[i].minors = << >>
    BY <1>2, <1>7, <1>10
  <2> QED BY <1>1, <1>7, <1>8, <2>1, <2>2, DropPlus
<1> QED BY <1>9, <1>10

-----------------------------------------------------------------------------
(* The heap: no two pieces overlap.                                         *)

\* The gaps of a major are in order.
LEMMA GapsOrdered ==
  ASSUME NEW maj, MajorOK(maj), NEW i \in 0..Len(maj.minors), NEW k \in 0..Len(maj.minors), i <= k
  PROVE  GapStart(maj, i) <= GapEnd(maj, k)
<1>1. maj \in Major
  BY DEF MajorOK
<1>2. PICK n, s : n = Len(maj.minors) /\ n \in Nat /\ s = GapStart(maj, i)
  BY <1>1, MajorFields
<1>3. s \in Nat /\ \A e \in 0..n : /\ GapStart(maj, e) \in Nat /\ GapEnd(maj, e) \in Nat
                                   /\ GapStart(maj, e) <= GapEnd(maj, e)
  BY <1>1, <1>2, GapTypes DEF MajorOK
<1>4. ASSUME NEW e \in 1..n PROVE GapEnd(maj, e - 1) <= GapStart(maj, e)
  <2>1. e - 1 # n /\ e - 1 + 1 = e /\ e # 0
    BY <1>2
  <2>2. GapEnd(maj, e - 1) = maj.minors[e].off
    BY <1>2, <2>1 DEF GapEnd
  <2>3. GapStart(maj, e) = maj.minors[e].off + MinorHeader + maj.minors[e].size
    BY <2>1 DEF GapStart
  <2>4. maj.minors[e].off \in Nat /\ maj.minors[e].size \in Nat
    BY <1>1, <1>2, MajorFields
  <2> QED BY <2>2, <2>3, <2>4, HeapParams
<1> DEFINE G == {e \in 0..n : e >= i => s <= GapEnd(maj, e)}
<1>5. ASSUME NEW e \in 0..n, e # 0 => e - 1 \in G PROVE e \in G
  <2>1. CASE e = i
    BY <1>2, <1>3, <2>1
  <2>2. CASE e < i
    BY <1>2, <2>2
  <2>3. CASE e > i
    <3>1. e # 0 /\ e \in 1..n /\ e - 1 \in 0..n /\ e - 1 >= i
      BY <1>2, <2>3
    <3>2. s <= GapEnd(maj, e - 1)
      BY <1>5, <3>1
    <3>3. GapEnd(maj, e - 1) <= GapStart(maj, e) /\ GapStart(maj, e) <= GapEnd(maj, e)
      BY <1>3, <1>4, <3>1
    <3>4. /\ GapEnd(maj, e - 1) \in Nat /\ GapStart(maj, e) \in Nat /\ GapEnd(maj, e) \in Nat
          /\ s \in Nat
      BY <1>3, <3>1
    <3>5. s <= GapEnd(maj, e)
      BY <3>2, <3>3, <3>4
    <3> QED BY <3>5
  <2>4. e \in Int /\ i \in Int
    BY <1>2
  <2> QED BY <2>1, <2>2, <2>3, <2>4
<1>6. k \in G
  <2> HIDE DEF G
  <2>1. Forwards(n, G) /\ n \in Int /\ k \in 0..n
    BY <1>2, <1>5 DEF Forwards
  <2> QED BY <2>1, StepInduction
<1> QED BY <1>2, <1>6

\* Minors lie behind the header of the major, one after the other.
LEMMA MinorsOrdered ==
  ASSUME NEW maj, MajorOK(maj), NEW j \in 1..Len(maj.minors)
  PROVE  /\ MajorHeader <= maj.minors[j].off
         /\ maj.minors[j].off + MinorHeader + maj.minors[j].size <= Size(maj)
         /\ \A l \in 1..Len(maj.minors) : j < l =>
              maj.minors[j].off + MinorHeader + maj.minors[j].size <= maj.minors[l].off
<1>1. maj \in Major
  BY DEF MajorOK
<1>2. PICK n : n = Len(maj.minors) /\ n \in Nat /\ j \in 1..n
  BY <1>1, MajorFields
<1>3. \A l \in 1..n : l - 1 \in 0..n /\ GapEnd(maj, l - 1) = maj.minors[l].off
  <2>1. ASSUME NEW l \in 1..n PROVE l - 1 \in 0..n /\ GapEnd(maj, l - 1) = maj.minors[l].off
    <3>1. l - 1 \in 0..n /\ l - 1 # n /\ l - 1 + 1 = l
      BY <1>2
    <3> QED BY <1>2, <3>1 DEF GapEnd
  <2> QED BY <2>1
<1>4. GapStart(maj, j) = maj.minors[j].off + MinorHeader + maj.minors[j].size
  BY <1>2 DEF GapStart
<1>5. GapStart(maj, 0) = MajorHeader /\ GapEnd(maj, n) = Size(maj)
  BY <1>2 DEF GapStart, GapEnd
<1>6. MajorHeader <= maj.minors[j].off
  <2>1. 0 \in 0..n /\ 0 <= j - 1 /\ j - 1 \in 0..n
    BY <1>2
  <2> QED BY <1>2, <1>3, <1>5, <2>1, GapsOrdered
<1>7. maj.minors[j].off + MinorHeader + maj.minors[j].size <= Size(maj)
  <2>1. j \in 0..n /\ n \in 0..n /\ j <= n
    BY <1>2
  <2> QED BY <1>2, <1>4, <1>5, <2>1, GapsOrdered
<1>8. ASSUME NEW l \in 1..n, j < l
      PROVE  maj.minors[j].off + MinorHeader + maj.minors[j].size <= maj.minors[l].off
  <2>1. j \in 0..n /\ l - 1 \in 0..n /\ j <= l - 1
    BY <1>2, <1>8
  <2> QED BY <1>2, <1>3, <1>4, <2>1, GapsOrdered
<1> QED BY <1>2, <1>6, <1>7, <1>8

LEMMA AfterSums ==
  ASSUME NEW b \in Nat, NEW off \in Nat, NEW req \in Nat, NEW p \in Nat,
         NEW q \in Nat, NEW N \in Nat, NEW I \in Nat, N > 0,
         NEW xo \in Nat, NEW xs \in Nat, xo + N + xs <= off,
         p + req <= b + xo + N + xs, p < b + xo + N + xs, b + off + N + I <= q
  PROVE  p + req <= q /\ p < q
OBVIOUS

\* What a caller is given lies in the minor, behind its header and with the
\* room for the information that ALIGN keeps.
LEMMA PieceInMinor ==
  ASSUME NEW maj, MajorOK(maj), NEW j \in 1..Len(maj.minors)
  PROVE  LET min == maj.minors[j]
             p == Pointer(maj, min)
             b == maj.base * PageSize
         IN /\ b \in Nat /\ p \in Nat /\ p % ALIGNMENT = 0
            /\ b + min.off + MinorHeader + ALIGN_INFO <= p
            /\ p + min.req <= b + min.off + MinorHeader + min.size
            /\ b + MajorHeader < p /\ p + min.req <= b + Size(maj)
            /\ p < b + Size(maj) /\ p < b + min.off + MinorHeader + min.size
            /\ min.req \in Requests
<1>1. maj \in Major
  BY DEF MajorOK
<1>2. PICK min, b, a : min = maj.minors[j] /\ b = maj.base * PageSize /\ a = b + min.off + MinorHeader
  OBVIOUS
<1>3. /\ min.off \in Nat /\ min.size \in Nat /\ min.req \in Nat
      /\ min.size >= Padded(min.req) /\ min.req \in Requests
  BY <1>1, <1>2, MajorFields DEF MajorOK
<1>4. b \in Nat
  BY <1>1, <1>2, MajorFields, HeapParams
<1>5. a \in Nat
  BY <1>2, <1>3, <1>4, HeapParams
<1>6. Pointer(maj, min) = a + Pad(a)
  BY <1>2 DEF Pointer
<1>7. /\ Pad(a) \in Nat /\ Pad(a) >= ALIGN_INFO /\ Pad(a) < ALIGN_INFO + ALIGNMENT
      /\ (a + Pad(a)) % ALIGNMENT = 0
  BY <1>5, PadFacts
<1>8. MajorHeader <= min.off /\ min.off + MinorHeader + min.size <= Size(maj)
  BY <1>2, MinorsOrdered
<1>9. Size(maj) \in Nat
  BY <1>1, MajorFields
<1>10. min.size >= min.req + ALIGNMENT + ALIGN_INFO
  BY <1>3 DEF Padded
<1>11. PICK d, p : d = Pad(a) /\ p = a + d
  OBVIOUS
<1>12. /\ b + min.off + MinorHeader + ALIGN_INFO <= p
       /\ p + min.req <= b + min.off + MinorHeader + min.size
       /\ b + MajorHeader < p /\ p + min.req <= b + Size(maj)
       /\ p < b + Size(maj) /\ p < b + min.off + MinorHeader + min.size
       /\ p \in Nat
  <2>1. PICK off, size, req, S, A, I, M, N :
          /\ off = min.off /\ size = min.size /\ req = min.req /\ S = Size(maj)
          /\ A = ALIGNMENT /\ I = ALIGN_INFO /\ M = MajorHeader /\ N = MinorHeader
    OBVIOUS
  <2>2. /\ off \in Nat /\ size \in Nat /\ req \in Nat /\ S \in Nat /\ A \in Nat /\ I \in Nat
        /\ M \in Nat /\ N \in Nat /\ A > 0 /\ I > 0 /\ N > 0
    BY <1>3, <1>9, <2>1, HeapParams
  <2>3. /\ d \in Nat /\ d >= I /\ d < I + A /\ size >= req + A + I
        /\ M <= off /\ off + N + size <= S /\ p = b + off + N + d
    BY <1>2, <1>7, <1>8, <1>10, <1>11, <2>1
  <2>4. /\ b + off + N + I <= p /\ p + req <= b + off + N + size
        /\ b + M < p /\ p + req <= b + S
        /\ p < b + S /\ p < b + off + N + size /\ p \in Nat
    BY <1>4, <2>2, <2>3
  <2> QED BY <2>1, <2>4
<1> QED BY <1>2, <1>3, <1>4, <1>6, <1>7, <1>11, <1>12

\* Bytes(p) and Bytes(q) of Allocator do not meet and begin elsewhere.
Separate(p, q) ==
  /\ p.start \in Nat /\ q.start \in Nat /\ p.len \in Nat /\ q.len \in Nat
  /\ p.start # q.start
  /\ p.start + p.len <= q.start \/ q.start + q.len <= p.start

LEMMA SeparateInMajor ==
  ASSUME NEW s, NEW i, MajorOK(s[i]), NEW j \in 1..Len(s[i].minors), NEW l \in 1..Len(s[i].minors),
         j < l
  PROVE  Separate(PieceIn(s, i, j), PieceIn(s, i, l)) /\ Separate(PieceIn(s, i, l), PieceIn(s, i, j))
<1>1. PICK maj, x, y, b, p, q : /\ maj = s[i] /\ x = maj.minors[j] /\ y = maj.minors[l]
                                /\ b = maj.base * PageSize
                                /\ p = Pointer(maj, x) /\ q = Pointer(maj, y)
  OBVIOUS
<1>2. maj \in Major /\ MajorOK(maj)
  BY <1>1 DEF MajorOK
<1>3. /\ x.off \in Nat /\ x.size \in Nat /\ x.req \in Nat
      /\ y.off \in Nat /\ y.size \in Nat /\ y.req \in Nat
  BY <1>1, <1>2, MajorFields
<1>4. x.off + MinorHeader + x.size <= y.off
  BY <1>1, <1>2, MinorsOrdered
<1>5. /\ b \in Nat /\ p \in Nat /\ p + x.req <= b + x.off + MinorHeader + x.size
      /\ p < b + x.off + MinorHeader + x.size
  BY <1>1, <1>2, PieceInMinor
<1>6. q \in Nat /\ b + y.off + MinorHeader + ALIGN_INFO <= q
  BY <1>1, <1>2, PieceInMinor
<1>7. p + x.req <= q /\ p < q
  BY <1>3, <1>4, <1>5, <1>6, HeapParams, AfterSums
<1>8. /\ PieceIn(s, i, j) = [start |-> p, len |-> x.req]
      /\ PieceIn(s, i, l) = [start |-> q, len |-> y.req]
  BY <1>1 DEF PieceIn
<1> QED BY <1>3, <1>5, <1>6, <1>7, <1>8 DEF Separate

LEMMA SeparateMajors ==
  ASSUME NEW s, NEW i, NEW k, MajorOK(s[i]), MajorOK(s[k]),
         s[i].base + s[i].pages <= s[k].base,
         NEW j \in 1..Len(s[i].minors), NEW l \in 1..Len(s[k].minors)
  PROVE  Separate(PieceIn(s, i, j), PieceIn(s, k, l)) /\ Separate(PieceIn(s, k, l), PieceIn(s, i, j))
<1>1. PICK m, n, x, y, b, c, p, q :
        /\ m = s[i] /\ n = s[k] /\ x = m.minors[j] /\ y = n.minors[l]
        /\ b = m.base * PageSize /\ c = n.base * PageSize
        /\ p = Pointer(m, x) /\ q = Pointer(n, y)
  OBVIOUS
<1>2. m \in Major /\ n \in Major /\ MajorOK(m) /\ MajorOK(n)
  BY <1>1 DEF MajorOK
<1>3. x.req \in Nat /\ y.req \in Nat /\ Size(m) \in Nat
  BY <1>1, <1>2, MajorFields
<1>4. b \in Nat /\ p \in Nat /\ p + x.req <= b + Size(m) /\ p < b + Size(m)
  BY <1>1, <1>2, PieceInMinor
<1>5. c \in Nat /\ q \in Nat /\ c + MajorHeader < q
  BY <1>1, <1>2, PieceInMinor
<1>6. b + Size(m) <= c
  <2>1. /\ m.base \in Nat /\ m.pages \in Nat /\ n.base \in Nat
        /\ m.base + m.pages <= n.base
    BY <1>1, <1>2, MajorFields
  <2>2. PICK d : d = n.base - (m.base + m.pages) /\ d \in Nat
    BY <2>1
  <2>3. n.base = m.base + m.pages + d
    BY <2>1, <2>2
  <2>4. d * PageSize \in Nat /\ m.pages * PageSize \in Nat
    BY <2>1, <2>2, HeapParams
  <2>5. (m.base + m.pages + d) * PageSize = m.base * PageSize + m.pages * PageSize + d * PageSize
    BY <2>1, <2>2, HeapParams
  <2> QED BY <1>1, <1>4, <2>3, <2>4, <2>5 DEF Size
<1>7. p + x.req <= q /\ p < q
  BY <1>3, <1>4, <1>5, <1>6, HeapParams
<1>8. /\ PieceIn(s, i, j) = [start |-> p, len |-> x.req]
      /\ PieceIn(s, k, l) = [start |-> q, len |-> y.req]
  BY <1>1 DEF PieceIn
<1> QED BY <1>3, <1>4, <1>5, <1>7, <1>8 DEF Separate

\* The pieces at different places are separate.
LEMMA PiecesSeparate ==
  ASSUME NEW h, HeapCore(h), NEW i, NEW j, NEW k, NEW l,
         In(h.majors, i, j), In(h.majors, k, l), i # k \/ j # l
  PROVE  Separate(PieceIn(h.majors, i, j), PieceIn(h.majors, k, l))
<1>1. MajorOK(h.majors[i]) /\ MajorOK(h.majors[k])
  BY DEF HeapCore, In
<1>2. CASE i # k
  <2>1. PagesApart(h.majors[i], h.majors[k])
    BY <1>2 DEF HeapCore, In
  <2> QED BY <1>1, <2>1, SeparateMajors DEF PagesApart, In
<1>3. CASE i = k
  <2>1. j \in Int /\ l \in Int /\ j # l
    <3>1. j \in 1..Len(h.majors[i].minors) /\ l \in 1..Len(h.majors[i].minors)
      BY <1>3 DEF In
    <3> QED BY <1>3, <3>1
  <2>2. j < l \/ l < j
    BY <2>1
  <2> QED BY <1>1, <1>3, <2>2, SeparateInMajor DEF In
<1> QED BY <1>2, <1>3

-----------------------------------------------------------------------------
(* The heap: the invariant.                                                 *)

\* A major whose j-th minor has another length.
Resized(maj, j, size) == [maj EXCEPT !.minors[j].req = size]

LEMMA ResizedKeeps ==
  ASSUME NEW maj, MajorOK(maj), NEW j \in 1..Len(maj.minors), NEW size \in Requests,
         size <= maj.minors[j].req, NEW new, new = Resized(maj, j, size)
  PROVE  /\ MajorOK(new) /\ new.base = maj.base /\ new.pages = maj.pages
         /\ InMinors(new) = InMinors(maj)
         /\ Len(new.minors) = Len(maj.minors)
         /\ \A k \in 1..Len(maj.minors) :
              /\ new.minors[k].off = maj.minors[k].off
              /\ k # j => new.minors[k] = maj.minors[k]
         /\ new.minors[j].req = size
<1>1. maj \in Major /\ size \in Nat
  BY HeapParams DEF MajorOK
<1>2. PICK n, ms, x : /\ n = Len(maj.minors) /\ n \in Nat /\ ms = maj.minors
                      /\ x = [ms[j] EXCEPT !.req = size]
  BY <1>1, MajorFields
<1>3. ms \in Seq(Minor) /\ DOMAIN ms = 1..n /\ \A k \in 1..n : ms[k] \in Minor
  BY <1>1, <1>2, MajorFields
<1>4. x \in Minor /\ x.off = ms[j].off /\ x.size = ms[j].size /\ x.req = size
  BY <1>1, <1>2, <1>3 DEF Minor
<1>5. PICK ns : ns = [ms EXCEPT ![j] = x]
  OBVIOUS
<1>6. ns \in Seq(Minor) /\ Len(ns) = n /\ \A k \in 1..n : ns[k] = IF k = j THEN x ELSE ms[k]
  BY <1>2, <1>3, <1>4, <1>5, ExceptSeq
<1>7. new = [maj EXCEPT !.minors = ns]
  <2>1. new = [maj EXCEPT !.minors[j].req = size]
    BY DEF Resized
  <2> QED BY <1>2, <1>5, <2>1
<1>8. /\ new \in Major /\ new.base = maj.base /\ new.pages = maj.pages
      /\ new.usage = maj.usage /\ new.minors = ns
  BY <1>1, <1>6, <1>7 DEF Major
<1>9. \A k \in 1..n : ns[k].off = ms[k].off /\ ns[k].size = ms[k].size
  BY <1>4, <1>6
<1>10. InMinors(new) = InMinors(maj)
  <2>1. DOMAIN ns = 1..n
    BY <1>6
  <2>2. [k \in DOMAIN ns |-> ns[k].size] = [k \in DOMAIN ms |-> ms[k].size]
    BY <1>3, <1>9, <2>1
  <2> QED BY <1>2, <1>8, <2>2 DEF InMinors
<1>11. Size(new) = Size(maj)
  BY <1>8 DEF Size
<1>12. ASSUME NEW k \in 0..n
       PROVE  GapStart(new, k) = GapStart(maj, k) /\ GapEnd(new, k) = GapEnd(maj, k)
  <2>1. k # 0 => k \in 1..n
    BY <1>2
  <2>2. k # n => k + 1 \in 1..n
    BY <1>2
  <2>3. GapStart(new, k) = GapStart(maj, k)
    BY <1>2, <1>8, <1>9, <2>1 DEF GapStart
  <2>4. GapEnd(new, k) = GapEnd(maj, k)
    BY <1>2, <1>6, <1>8, <1>9, <1>11, <2>2 DEF GapEnd
  <2> QED BY <2>3, <2>4
<1>13. ASSUME NEW k \in 1..n
       PROVE  new.minors[k].req \in Requests /\ new.minors[k].size >= Padded(new.minors[k].req)
  <2>1. ms[k].req \in Requests /\ ms[k].size >= Padded(ms[k].req)
    BY <1>2 DEF MajorOK
  <2>2. CASE k # j
    BY <1>6, <1>8, <2>1, <2>2
  <2>3. CASE k = j
    <3>1. ms[k].size \in Nat /\ ms[k].req \in Nat
      BY <1>3, MinorFields
    <3>2. ms[k].size >= Padded(size)
      <4>1. PICK a, b, c : a = ms[k].size /\ b = ms[k].req /\ c = ALIGNMENT + ALIGN_INFO
        OBVIOUS
      <4>2. a \in Nat /\ b \in Nat /\ c \in Nat /\ size <= b
        BY <1>2, <2>3, <3>1, <4>1, HeapParams
      <4>3. Padded(size) = size + c /\ Padded(b) = b + c
        BY <1>1, <4>1, <4>2, HeapParams DEF Padded
      <4>4. a >= b + c
        BY <2>1, <4>1, <4>3
      <4> QED BY <1>1, <4>1, <4>2, <4>3, <4>4
    <3> QED BY <1>4, <1>6, <1>8, <2>3, <3>2
  <2> QED BY <2>2, <2>3
<1>14. MajorOK(new)
  <2>1. new \in Major /\ new.pages > 0
    BY <1>8 DEF MajorOK
  <2>2. \A i \in 0..n : GapStart(new, i) <= GapEnd(new, i)
    BY <1>2, <1>12 DEF MajorOK
  <2>3. new.usage = MajorHeader + InMinors(new) + n * MinorHeader
    BY <1>2, <1>8, <1>10 DEF MajorOK
  <2>4. Len(new.minors) = n
    BY <1>6, <1>8
  <2> QED BY <1>13, <2>1, <2>2, <2>3, <2>4 DEF MajorOK
<1> QED BY <1>2, <1>4, <1>6, <1>8, <1>9, <1>10, <1>14

\* krealloc() in place.
ResizedHeap(h, i, j, size) == [h EXCEPT !.majors[i].minors[j].req = size]

LEMMA ResizeKeeps ==
  ASSUME NEW h, HeapOK(h), NEW i, NEW j, At(h, i, j), NEW size \in Requests,
         size <= h.majors[i].minors[j].req,
         NEW new, new = ResizedHeap(h, i, j, size)
  PROVE  /\ HeapOK(new)
         /\ new.majors = [h.majors EXCEPT ![i] = Resized(h.majors[i], j, size)]
<1>1. HeapCore(h) /\ h \in HeapRecord /\ h.majors \in Seq(Major) /\ OnList(h.majors, h.bestBet)
  BY RecordFields DEF HeapOK, HeapCore
<1>2. PICK n, x, t : /\ n = Len(h.majors) /\ n \in Nat /\ i \in 1..n
                     /\ x = Resized(h.majors[i], j, size)
                     /\ t = [h.majors EXCEPT ![i] = x]
  BY <1>1, RecordFields DEF At
<1>3. MajorOK(h.majors[i]) /\ h.majors[i] \in Major
  BY <1>1, <1>2 DEF HeapCore, MajorOK
<1>4. /\ MajorOK(x) /\ x.base = h.majors[i].base /\ x.pages = h.majors[i].pages
      /\ InMinors(x) = InMinors(h.majors[i]) /\ Len(x.minors) = Len(h.majors[i].minors)
  BY <1>2, <1>3, ResizedKeeps DEF At
<1>5. new = [h EXCEPT !.majors = t]
  BY <1>2 DEF Resized, ResizedHeap
<1>6. h = HeapOf(h.majors, h.bestBet, h.allocated, h.inuse)
  BY <1>1 DEF HeapRecord, HeapOf
<1>7. new = HeapOf(t, h.bestBet, h.allocated, h.inuse)
  BY <1>5, <1>6 DEF HeapOf
<1>8. h.inuse = h.inuse + (InMinors(x) - InMinors(h.majors[i]))
  <2>1. InMinors(h.majors[i]) \in Nat /\ h.inuse \in Nat
    BY <1>1, <1>3, InMinorsFacts, RecordFields
  <2> QED BY <1>4, <2>1
<1>9. HeapCore(new)
  <2>1. PICK u, b : u = h.inuse /\ b = h.bestBet
    OBVIOUS
  <2>2. u = h.inuse + (InMinors(x) - InMinors(h.majors[i])) /\ OnList(h.majors, b)
    BY <1>1, <1>8, <2>1
  <2>3. HeapCore(HeapOf([h.majors EXCEPT ![i] = x], b, h.allocated, u))
    BY <1>1, <1>2, <1>4, <2>2, ReplaceKeeps
  <2> QED BY <1>2, <1>7, <2>1, <2>3
<1>10. new.majors = t
  BY <1>7 DEF HeapOf
<1>11. x \in Major
  BY <1>4 DEF MajorOK
<1>12. Len(t) = n /\ \A k \in 1..n : t[k] = IF k = i THEN x ELSE h.majors[k]
  BY <1>1, <1>2, <1>11, ExceptSeq
<1>13. x.minors # << >>
  <2>1. Len(h.majors[i].minors) # 0
    BY DEF At
  <2> QED BY <1>4, <2>1
<1>14. \A k \in 1..n : t[k].minors = << >> => k = 1
  BY <1>2, <1>12, <1>13 DEF HeapOK
<1> QED BY <1>2, <1>9, <1>10, <1>12, <1>14 DEF HeapOK

\* The invariant: the heap is as it should be after every call, until the
\* machine stops.
HeapInv == HeapOK(heap) /\ halted \in BOOLEAN

LEMMA HeapInitOK ==
  HeapInit => HeapInv
<1> SUFFICES ASSUME HeapInit PROVE HeapInv
  OBVIOUS
<1>1. PICK size, new : size = ALIGNMENT + ALIGN_INFO /\ new = allocate_new_page(<< >>, size)
  OBVIOUS
<1>2. size \in Nat /\ << >> \in Seq(Major)
  BY <1>1, HeapParams
<1>3. MajorOK(new) /\ new.minors = << >>
  BY <1>1, <1>2, NewFacts
<1>4. heap = HeapOf(<<new>>, NULL, Size(new), 0) /\ halted = FALSE
  BY <1>1 DEF HeapInit, HeapOf
<1>5. new \in Major /\ InMinors(new) = 0 /\ Size(new) \in Nat
  BY <1>3, InMinorsFacts, MajorFields DEF MajorOK
<1>6. PICK t : t = <<new>> /\ t \in Seq(Major) /\ Len(t) = 1 /\ t[1] = new
  <2>1. <<new>> \in Seq(Major) /\ Len(<<new>>) = 1 /\ <<new>>[1] = new
    BY <1>5
  <2> QED BY <2>1
<1>7. InUseOf(t) = 0 /\ AllocatedOf(t) = Size(new)
  <2>1. PICK s : s = << >> /\ s \in Seq(Major) /\ Len(s) = 0
    <3>1. Len(<< >>) = 0
      OBVIOUS
    <3> QED BY <1>2, <3>1
  <2>2. InUseOf(s) = 0 /\ AllocatedOf(s) = 0
    <3>1. PICK f, g : f = [i \in DOMAIN s |-> InMinors(s[i])] /\ g = [i \in DOMAIN s |-> Size(s[i])]
      OBVIOUS
    <3>2. f \in Seq(Nat) /\ Len(f) = 0 /\ g \in Seq(Nat) /\ Len(g) = 0
      BY <2>1, <3>1
    <3> QED BY <3>1, <3>2, TotalNat DEF InUseOf, AllocatedOf
  <2>3. Inserted(t, s, 1, new)
    BY <1>6, <2>1 DEF Inserted
  <2>4. /\ InUseOf(t) = InUseOf(s) + InMinors(new)
        /\ AllocatedOf(t) = AllocatedOf(s) + Size(new)
    <3>1. 1 \in 1..(Len(s) + 1)
      BY <2>1
    <3> QED BY <1>5, <1>6, <2>1, <2>3, <3>1, CountersInsert
  <2> QED BY <1>5, <2>2, <2>4
<1>8. OnList(t, NULL)
  BY DEF OnList
<1>9. HeapCore(heap)
  <2>1. \A i \in 1..Len(t) : MajorOK(t[i])
    BY <1>3, <1>6
  <2>2. \A i, j \in 1..Len(t) : i # j => PagesApart(t[i], t[j])
    BY <1>6
  <2> QED BY <1>4, <1>6, <1>7, <1>8, <2>1, <2>2, CoreOf
<1>10. heap.majors = t
  BY <1>4, <1>6 DEF HeapOf
<1>11. \A i \in 1..Len(heap.majors) : i = 1
  BY <1>6, <1>10
<1> QED BY <1>4, <1>9, <1>11 DEF HeapInv, HeapOK

\* What each call makes of the heap.
LEMMA MallocTakes ==
  ASSUME HeapInv, NEW req \in Requests, kmalloc(req)
  PROVE  Takes(heap, heap', req) /\ HeapOK(heap') /\ halted' = halted
<1>1. HeapOK(heap) /\ HeapCore(heap) /\ heap.majors # << >>
  BY DEF HeapInv, HeapOK, kmalloc
<1>2. Takes(heap, heap', req)
  BY <1>1, AllocatedTakes DEF kmalloc
<1> QED BY <1>1, <1>2, TakesKeeps DEF kmalloc

LEMMA FreeFrees ==
  ASSUME HeapInv, NEW p \in Pointers, kfree(p)
  PROVE  /\ HeapOK(heap') /\ halted' = halted
         /\ \E i, j : At(heap, i, j) /\ Frees(heap, heap', i, j)
<1>1. HeapOK(heap) /\ HeapCore(heap) /\ heap \in HeapRecord
  BY DEF HeapInv, HeapOK, HeapCore
<1>2. \E m \in Minors(heap) : PointerOf(heap, m) = p
  BY DEF Pointers
<1>3. PICK i, j : At(heap, i, j) /\ WithPointer(heap, p) = [maj |-> i, min |-> j]
  BY <1>1, <1>2, PointersAt
<1>4. Frees(heap, heap', i, j)
  BY <1>1, <1>3, FreedFrees DEF kfree
<1>5. HeapOK(heap')
  BY <1>1, <1>3, <1>4, FreesKeeps
<1> QED BY <1>3, <1>4, <1>5 DEF kfree

LEMMA ReallocResizes ==
  ASSUME HeapInv, NEW p \in Pointers, NEW size \in Requests, krealloc_in_place(p, size)
  PROVE  /\ HeapOK(heap') /\ halted' = halted
         /\ \E i, j : /\ At(heap, i, j) /\ size <= heap.majors[i].minors[j].req
                      /\ heap'.majors = [heap.majors EXCEPT ![i] = Resized(heap.majors[i], j, size)]
<1>1. HeapOK(heap) /\ HeapCore(heap) /\ heap \in HeapRecord
  BY DEF HeapInv, HeapOK, HeapCore
<1>2. \E m \in Minors(heap) : PointerOf(heap, m) = p
  BY DEF Pointers
<1>3. PICK i, j : At(heap, i, j) /\ WithPointer(heap, p) = [maj |-> i, min |-> j]
  BY <1>1, <1>2, PointersAt
<1>4. /\ size <= heap.majors[i].minors[j].req
      /\ heap' = ResizedHeap(heap, i, j, size)
      /\ halted' = halted
  BY <1>3 DEF krealloc_in_place, ResizedHeap
<1>5. /\ HeapOK(heap')
      /\ heap'.majors = [heap.majors EXCEPT ![i] = Resized(heap.majors[i], j, size)]
  BY <1>1, <1>3, <1>4, ResizeKeeps
<1> QED BY <1>3, <1>4, <1>5

HasPointer(h, p) == \E m \in Minors(h) : PointerOf(h, m) = p

\* A pointer that the caller holds is still the pointer of a minor after
\* kmalloc().
LEMMA PointerStays ==
  ASSUME NEW h \in HeapRecord, NEW g \in HeapRecord, NEW a, NEW b, Plus(g.majors, h.majors, a, b),
         NEW i, NEW j, At(h, i, j)
  PROVE  HasPointer(g, Pointer(h.majors[i], h.majors[i].minors[j]))
<1>1. In(h.majors, i, j)
  BY DEF In, At
<1>2. PICK k, l : In(g.majors, k, l) /\ PieceIn(g.majors, k, l) = PieceIn(h.majors, i, j)
  BY <1>1 DEF Plus, PiecesIn
<1>3. At(g, k, l)
  BY <1>2 DEF In, At
<1>4. PICK m : m = [maj |-> k, min |-> l]
  OBVIOUS
<1>5. m \in Minors(g) /\ m.maj = k /\ m.min = l
  BY <1>3, <1>4, MinorsAt
<1>6. Pointer(g.majors[k], g.majors[k].minors[l]) = Pointer(h.majors[i], h.majors[i].minors[j])
  BY <1>2 DEF PieceIn
<1> QED BY <1>5, <1>6 DEF PointerOf, HasPointer

\* krealloc() that grows: the heap in between is that of kmalloc().
LEMMA ReallocMoves ==
  ASSUME HeapInv, NEW p \in Pointers, NEW size \in Requests, krealloc_moves(p, size)
  PROVE  \/ /\ HeapOK(heap') /\ halted' = halted
            /\ \E i, j, g, k, l :
                 /\ At(heap, i, j) /\ size > heap.majors[i].minors[j].req
                 /\ Pointer(heap.majors[i], heap.majors[i].minors[j]) = p
                 /\ Takes(heap, g, size) /\ HeapOK(g)
                 /\ At(g, k, l) /\ Pointer(g.majors[k], g.majors[k].minors[l]) = p
                 /\ Frees(g, heap', k, l)
         \/ Halt
<1>1. HeapOK(heap) /\ HeapCore(heap) /\ heap \in HeapRecord
  BY DEF HeapInv, HeapOK, HeapCore
<1>2. \E m \in Minors(heap) : PointerOf(heap, m) = p
  BY DEF Pointers
<1>3. PICK i, j : /\ At(heap, i, j) /\ WithPointer(heap, p) = [maj |-> i, min |-> j]
                  /\ Pointer(heap.majors[i], heap.majors[i].minors[j]) = p
  BY <1>1, <1>2, PointersAt
<1>4. size > heap.majors[i].minors[j].req
  BY <1>3 DEF krealloc_moves
<1>5. CASE ~Enough(heap, size)
  BY <1>5 DEF krealloc_moves
<1>6. CASE Enough(heap, size)
  <2>1. PICK g : g = Allocated(heap, size)
    OBVIOUS
  <2>2. heap' = Freed(g, p) /\ halted' = halted
    BY <1>6, <2>1 DEF krealloc_moves
  <2>3. heap.majors # << >>
    <3>1. 0 \notin 1..0 /\ Len(heap.majors) # 0
      BY <1>1, <1>3, RecordFields DEF At
    <3> QED BY <3>1
  <2>4. Takes(heap, g, size)
    BY <1>1, <2>1, <2>3, AllocatedTakes
  <2>5. HeapOK(g)
    BY <1>1, <2>4, TakesKeeps
  <2>6. HeapCore(g) /\ g \in HeapRecord /\ g.majors \in Seq(Major)
    BY <2>5, RecordFields DEF HeapOK, HeapCore
  <2>7. PICK a, b : Plus(g.majors, heap.majors, a, b)
    BY <1>1, <2>4, <2>6, TakesPlus
  <2>8. \E m \in Minors(g) : PointerOf(g, m) = p
    <3>1. HasPointer(g, Pointer(heap.majors[i], heap.majors[i].minors[j]))
      BY <1>1, <1>3, <2>6, <2>7, PointerStays
    <3> QED BY <1>3, <3>1 DEF HasPointer
  <2>9. PICK k, l : /\ At(g, k, l) /\ WithPointer(g, p) = [maj |-> k, min |-> l]
                    /\ Pointer(g.majors[k], g.majors[k].minors[l]) = p
    BY <2>6, <2>8, PointersAt
  <2>10. Frees(g, heap', k, l)
    BY <2>2, <2>6, <2>9, FreedFrees
  <2>11. HeapOK(heap')
    BY <2>5, <2>9, <2>10, FreesKeeps
  <2> QED BY <1>3, <1>4, <2>2, <2>4, <2>5, <2>9, <2>10, <2>11
<1> QED BY <1>5, <1>6

LEMMA HeapStep ==
  HeapInv /\ [HeapNext]_heapVars => HeapInv'
<1> SUFFICES ASSUME HeapInv, [HeapNext]_heapVars PROVE HeapInv'
  OBVIOUS
<1>1. ASSUME HeapOK(heap'), halted' = halted PROVE HeapInv'
  BY <1>1 DEF HeapInv
<1>2. ASSUME NEW req \in Requests, kmalloc(req) PROVE HeapInv'
  BY <1>1, <1>2, MallocTakes
<1>3. ASSUME Halt PROVE HeapInv'
  BY <1>3 DEF Halt, HeapInv
<1>4. ASSUME NEW req \in Requests, kmalloc_fails(req) PROVE HeapInv'
  BY <1>3, <1>4 DEF kmalloc_fails
<1>5. ASSUME NEW p \in Pointers, kfree(p) PROVE HeapInv'
  BY <1>1, <1>5, FreeFrees
<1>6. ASSUME NEW p \in Pointers, NEW size \in Requests, krealloc_in_place(p, size) PROVE HeapInv'
  BY <1>1, <1>6, ReallocResizes
<1>7. ASSUME NEW p \in Pointers, NEW size \in Requests, krealloc_moves(p, size) PROVE HeapInv'
  BY <1>1, <1>3, <1>7, ReallocMoves
<1>8. CASE UNCHANGED heapVars
  BY <1>8 DEF heapVars, HeapInv
<1> QED BY <1>2, <1>4, <1>5, <1>6, <1>7, <1>8 DEF HeapNext

\* The heap stays in order through every sequence of kmalloc(), kfree() and
\* krealloc(): majors in pages of their own, minors in order inside them with
\* the room that their alignment needs, counters that agree with the lists,
\* and a best bet that is on the list.
THEOREM HeapSafe == HeapSpec => []HeapInv
BY HeapInitOK, HeapStep, PTL DEF HeapSpec


LEMMA TopOf ==
  ASSUME NEW a \in Int, NEW b \in Int, a <= b
  PROVE  Max(a..b) = b
<1>1. b \in a..b /\ \A y \in a..b : b >= y
  OBVIOUS
<1>2. PICK x : x = Max(a..b)
  OBVIOUS
<1>3. x \in a..b /\ \A y \in a..b : x >= y
  BY <1>1, <1>2 DEF Max
<1> QED BY <1>1, <1>2, <1>3

LEMMA ListIs ==
  ASSUME HeapInv
  PROVE  /\ DOMAIN heap.majors = 1..Len(heap.majors)
         /\ \A maj \in SetOf(heap.majors) :
              /\ MajorOK(maj) /\ maj \in Major /\ DOMAIN maj.minors = 1..Len(maj.minors)
              /\ \E i \in 1..Len(heap.majors) : heap.majors[i] = maj
         /\ \A i \in 1..Len(heap.majors) : heap.majors[i] \in SetOf(heap.majors)
<1>1. heap \in HeapRecord /\ \A i \in 1..Len(heap.majors) : MajorOK(heap.majors[i])
  BY DEF HeapInv, HeapOK, HeapCore
<1>2. DOMAIN heap.majors = 1..Len(heap.majors)
  BY <1>1, RecordFields
<1>3. ASSUME NEW maj \in SetOf(heap.majors)
      PROVE  /\ MajorOK(maj) /\ maj \in Major /\ DOMAIN maj.minors = 1..Len(maj.minors)
             /\ \E i \in 1..Len(heap.majors) : heap.majors[i] = maj
  <2>1. PICK i \in 1..Len(heap.majors) : heap.majors[i] = maj
    BY <1>2, <1>3 DEF SetOf
  <2>2. MajorOK(maj) /\ maj \in Major
    BY <1>1, <2>1 DEF MajorOK
  <2> QED BY <2>1, <2>2, MajorFields
<1> QED BY <1>2, <1>3 DEF SetOf

LEMMA ApartInMajor ==
  ASSUME NEW maj, MajorOK(maj), NEW j \in 1..Len(maj.minors)
  PROVE  LET min == maj.minors[j] IN
         /\ Extent(min) \subseteq MajorHeader..(Size(maj) - 1)
         /\ Used(maj, min) \subseteq Extent(min) \ min.off..(min.off + MinorHeader - 1)
         /\ Pointer(maj, min) % ALIGNMENT = 0
         /\ Max(Extent(min)) = min.off + MinorHeader + min.size - 1
<1>1. maj \in Major
  BY DEF MajorOK
<1>2. PICK min, b, p, o, s, r, S : /\ min = maj.minors[j] /\ b = maj.base * PageSize
                                   /\ p = Pointer(maj, min) /\ o = min.off /\ s = min.size
                                   /\ r = min.req /\ S = Size(maj)
  OBVIOUS
<1>3. o \in Nat /\ s \in Nat /\ r \in Nat /\ S \in Nat
  BY <1>1, <1>2, MajorFields
<1>4. MajorHeader <= o /\ o + MinorHeader + s <= S
  BY <1>2, MinorsOrdered
<1>5. /\ b \in Nat /\ p \in Nat /\ p % ALIGNMENT = 0
      /\ b + o + MinorHeader + ALIGN_INFO <= p
      /\ p + r <= b + o + MinorHeader + s
      /\ p < b + o + MinorHeader + s
  BY <1>2, PieceInMinor
<1>6. PICK N, I, M : N = MinorHeader /\ I = ALIGN_INFO /\ M = MajorHeader
  OBVIOUS
<1>7. N \in Nat /\ N > 0 /\ I \in Nat /\ I > 0 /\ M \in Nat
  BY <1>6, HeapParams
<1>8. Extent(min) = o..(o + N + s - 1)
  BY <1>2, <1>6 DEF Extent
<1>9. Used(maj, min) = (p - b - I)..(p - b + r - 1)
  BY <1>2, <1>6 DEF Used
<1>10. o..(o + N + s - 1) \subseteq M..(S - 1)
  BY <1>3, <1>4, <1>6, <1>7
<1>11. (p - b - I)..(p - b + r - 1) \subseteq (o..(o + N + s - 1)) \ (o..(o + N - 1))
  <2>1. p - b - I >= o + N /\ p - b + r - 1 <= o + N + s - 1
    BY <1>3, <1>5, <1>6, <1>7
  <2> QED BY <1>3, <1>5, <1>7, <2>1
<1>12. Max(o..(o + N + s - 1)) = o + N + s - 1
  <2>1. o \in Int /\ o + N + s - 1 \in Int /\ o <= o + N + s - 1
    BY <1>3, <1>7
  <2> QED BY <2>1, TopOf
<1>13. /\ Extent(min) \subseteq M..(S - 1)
       /\ Used(maj, min) \subseteq Extent(min) \ o..(o + N - 1)
       /\ Max(Extent(min)) = o + N + s - 1
  BY <1>8, <1>9, <1>10, <1>11, <1>12
<1> QED BY <1>2, <1>5, <1>6, <1>13

\* No sequence of calls makes minors overlap: they lie inside their major,
\* behind its header and in order, and what a caller is given is aligned and
\* lies inside the minor, behind the header.
THEOREM AllocationsApart == HeapSpec => []MinorsApart
<1>1. HeapInv => MinorsApart
  <2> SUFFICES ASSUME HeapInv, NEW maj \in SetOf(heap.majors)
               PROVE  /\ \A j \in DOMAIN maj.minors :
                           LET min == maj.minors[j] IN
                           /\ Extent(min) \subseteq MajorHeader..(Size(maj) - 1)
                           /\ Used(maj, min) \subseteq Extent(min) \ min.off..(min.off + MinorHeader - 1)
                           /\ Pointer(maj, min) % ALIGNMENT = 0
                      /\ \A j \in 1..(Len(maj.minors) - 1) :
                           Max(Extent(maj.minors[j])) < maj.minors[j + 1].off
    BY DEF MinorsApart
  <2>1. MajorOK(maj) /\ maj \in Major /\ DOMAIN maj.minors = 1..Len(maj.minors)
    BY ListIs
  <2>2. PICK n : n = Len(maj.minors) /\ n \in Nat
    BY <2>1, MajorFields
  <2>3. ASSUME NEW j \in 1..n
        PROVE  LET min == maj.minors[j] IN
               /\ Extent(min) \subseteq MajorHeader..(Size(maj) - 1)
               /\ Used(maj, min) \subseteq Extent(min) \ min.off..(min.off + MinorHeader - 1)
               /\ Pointer(maj, min) % ALIGNMENT = 0
    BY <2>1, <2>2, ApartInMajor
  <2>4. ASSUME NEW j \in 1..(n - 1)
        PROVE  Max(Extent(maj.minors[j])) < maj.minors[j + 1].off
    <3>1. j \in 1..n /\ j + 1 \in 1..n /\ j < j + 1
      BY <2>2
    <3>2. PICK o, s, e : o = maj.minors[j].off /\ s = maj.minors[j].size /\ e = maj.minors[j + 1].off
      OBVIOUS
    <3>3. o + MinorHeader + s <= e
      BY <2>1, <2>2, <3>1, <3>2, MinorsOrdered
    <3>4. Max(Extent(maj.minors[j])) = o + MinorHeader + s - 1
      BY <2>1, <2>2, <3>1, <3>2, ApartInMajor
    <3>5. o \in Nat /\ s \in Nat /\ e \in Nat
      BY <2>1, <2>2, <3>1, <3>2, MajorFields
    <3> QED BY <3>2, <3>3, <3>4, <3>5, HeapParams
  <2> QED BY <2>1, <2>2, <2>3, <2>4
<1> QED BY <1>1, HeapSafe, PTL

\* The counters of the heap and of its majors agree with the lists, the best
\* bet is on the list, and a major without minors is the first one: what
\* kmalloc() decides by is right after every call.
THEOREM BooksStayExact == HeapSpec => []BooksExact
<1>1. HeapInv => BooksExact
  <2> SUFFICES ASSUME HeapInv PROVE BooksExact
    OBVIOUS
  <2>1. HeapCore(heap) /\ heap \in HeapRecord
    BY DEF HeapInv, HeapOK, HeapCore
  <2>2. HeapTypeOK
    BY <2>1 DEF HeapTypeOK, HeapInv, HeapRecord
  <2>3. AccountsExact
    <3>1. \A maj \in SetOf(heap.majors) :
            maj.usage = MajorHeader + InMinors(maj) + Len(maj.minors) * MinorHeader
      BY ListIs DEF MajorOK
    <3>2. heap.inuse = InUseOf(heap.majors) /\ heap.allocated = AllocatedOf(heap.majors)
      BY <2>1 DEF HeapCore
    <3> QED BY <3>1, <3>2 DEF AccountsExact, InUseOf, AllocatedOf
  <2>4. BestBetOnList
    <3>1. OnList(heap.majors, heap.bestBet)
      BY <2>1 DEF HeapCore
    <3> QED BY <3>1, ListIs DEF BestBetOnList, OnList
  <2>5. EmptyMajorIsFirst
    BY ListIs DEF EmptyMajorIsFirst, HeapInv, HeapOK
  <2> QED BY <2>2, <2>3, <2>4, <2>5 DEF BooksExact
<1> QED BY <1>1, HeapSafe, PTL

-----------------------------------------------------------------------------
(* The heap implements the allocator.                                       *)

IsPiece(s, e) == \E i, j : In(s, i, j) /\ e = PieceIn(s, i, j)

LEMMA LiveIs ==
  ASSUME NEW h \in HeapRecord, NEW e
  PROVE  e \in LiveIn(h) <=> IsPiece(h.majors, e)
<1>1. ASSUME e \in LiveIn(h) PROVE IsPiece(h.majors, e)
  <2>1. PICK m \in Minors(h) :
          e = [start |-> PointerOf(h, m), len |-> h.majors[m.maj].minors[m.min].req]
    BY <1>1 DEF LiveIn
  <2>2. At(h, m.maj, m.min)
    BY MinorsAt
  <2>3. In(h.majors, m.maj, m.min)
    BY <2>2 DEF In, At
  <2>4. e = PieceIn(h.majors, m.maj, m.min)
    BY <2>1 DEF PieceIn, PointerOf
  <2> QED BY <2>3, <2>4 DEF IsPiece
<1>2. ASSUME IsPiece(h.majors, e) PROVE e \in LiveIn(h)
  <2>1. PICK i, j : In(h.majors, i, j) /\ e = PieceIn(h.majors, i, j)
    BY <1>2 DEF IsPiece
  <2>2. PICK m : m = [maj |-> i, min |-> j]
    OBVIOUS
  <2>3. m \in Minors(h) /\ m.maj = i /\ m.min = j
    BY <2>1, <2>2, MinorsAt DEF At, In
  <2>4. e = [start |-> PointerOf(h, m), len |-> h.majors[m.maj].minors[m.min].req]
    BY <2>1, <2>3 DEF PieceIn, PointerOf
  <2> QED BY <2>3, <2>4 DEF LiveIn
<1> QED BY <1>1, <1>2

LEMMA PieceType ==
  ASSUME NEW h, HeapCore(h), NEW i, NEW j, In(h.majors, i, j)
  PROVE  /\ PieceIn(h.majors, i, j).start \in Nat /\ PieceIn(h.majors, i, j).len \in Requests
         /\ PieceIn(h.majors, i, j).start = Pointer(h.majors[i], h.majors[i].minors[j])
         /\ PieceIn(h.majors, i, j).len = h.majors[i].minors[j].req
         /\ PieceIn(h.majors, i, j) \in [start : Nat, len : Requests]
<1>1. MajorOK(h.majors[i]) /\ j \in 1..Len(h.majors[i].minors)
  BY DEF HeapCore, In
<1>2. /\ Pointer(h.majors[i], h.majors[i].minors[j]) \in Nat
      /\ h.majors[i].minors[j].req \in Requests
  BY <1>1, PieceInMinor
<1> QED BY <1>2 DEF PieceIn

\* Pieces that begin at the same address are the same.
LEMMA OneStart ==
  ASSUME NEW h, HeapCore(h), NEW e \in LiveIn(h), NEW f \in LiveIn(h), e.start = f.start
  PROVE  e = f
<1>1. h \in HeapRecord
  BY DEF HeapCore
<1>2. PICK i, j : In(h.majors, i, j) /\ e = PieceIn(h.majors, i, j)
  BY <1>1, LiveIs DEF IsPiece
<1>3. PICK k, l : In(h.majors, k, l) /\ f = PieceIn(h.majors, k, l)
  BY <1>1, LiveIs DEF IsPiece
<1>4. CASE i = k /\ j = l
  BY <1>2, <1>3, <1>4
<1>5. CASE i # k \/ j # l
  <2>1. Separate(e, f)
    BY <1>2, <1>3, <1>5, PiecesSeparate
  <2> QED BY <2>1 DEF Separate
<1> QED BY <1>4, <1>5

\* The pieces before and after a minor comes or goes.
More(new, old, p) ==
  /\ new = old \cup {p} /\ p \notin old
  /\ p \in [start : Nat, len : Requests]
  /\ \A q \in old : Separate(p, q)

LEMMA PlusLive ==
  ASSUME NEW g, HeapCore(g), NEW h, HeapCore(h), NEW a, NEW b, Plus(g.majors, h.majors, a, b)
  PROVE  More(LiveIn(g), LiveIn(h), PieceIn(g.majors, a, b))
<1>1. g \in HeapRecord /\ h \in HeapRecord
  BY DEF HeapCore
<1>2. PICK p : p = PieceIn(g.majors, a, b)
  OBVIOUS
<1>3. In(g.majors, a, b)
  BY DEF Plus
<1>4. ASSUME NEW q \in LiveIn(h) PROVE q \in LiveIn(g) /\ Separate(p, q)
  <2>1. PICK i, j : In(h.majors, i, j) /\ q = PieceIn(h.majors, i, j)
    BY <1>1, <1>4, LiveIs DEF IsPiece
  <2>2. PICK k, l : /\ In(g.majors, k, l) /\ (k # a \/ l # b)
                    /\ PieceIn(g.majors, k, l) = PieceIn(h.majors, i, j)
    BY <2>1 DEF Plus, PiecesIn
  <2>3. q \in LiveIn(g)
    BY <1>1, <2>1, <2>2, LiveIs DEF IsPiece
  <2>4. Separate(p, q)
    BY <1>2, <1>3, <2>1, <2>2, PiecesSeparate
  <2> QED BY <2>3, <2>4
<1>5. ASSUME NEW q \in LiveIn(g), q # p PROVE q \in LiveIn(h)
  <2>1. PICK k, l : In(g.majors, k, l) /\ q = PieceIn(g.majors, k, l)
    BY <1>1, <1>5, LiveIs DEF IsPiece
  <2>2. k # a \/ l # b
    BY <1>2, <1>5, <2>1
  <2>3. PICK i, j : In(h.majors, i, j) /\ PieceIn(h.majors, i, j) = PieceIn(g.majors, k, l)
    BY <2>1, <2>2 DEF Plus, PiecesBut
  <2> QED BY <1>1, <2>1, <2>3, LiveIs DEF IsPiece
<1>6. p \in LiveIn(g)
  BY <1>1, <1>2, <1>3, LiveIs DEF IsPiece
<1>7. p \notin LiveIn(h)
  BY <1>4 DEF Separate
<1>8. p \in [start : Nat, len : Requests]
  BY <1>2, <1>3, PieceType
<1>9. LiveIn(g) = LiveIn(h) \cup {p}
  BY <1>4, <1>5, <1>6
<1> QED BY <1>2, <1>4, <1>7, <1>8, <1>9 DEF More

LEMMA SeparateApart ==
  ASSUME NEW p, NEW q, Separate(p, q)
  PROVE  Abstract!Apart(p, q)
<1>1. Abstract!Bytes(p) = p.start..(p.start + p.len - 1) /\ Abstract!Bytes(q) = q.start..(q.start + q.len - 1)
  BY DEF Abstract!Bytes
<1>2. PICK a, b, c, d : a = p.start /\ b = p.len /\ c = q.start /\ d = q.len
  OBVIOUS
<1>3. a \in Nat /\ b \in Nat /\ c \in Nat /\ d \in Nat /\ (a + b <= c \/ c + d <= a) /\ a # c
  BY <1>2 DEF Separate
<1>4. (a..(a + b - 1)) \cap (c..(c + d - 1)) = {}
  BY <1>3
<1> QED BY <1>1, <1>2, <1>3, <1>4 DEF Abstract!Apart

\* kmalloc() is Malloc.
LEMMA MallocStep ==
  ASSUME NEW p, More(LiveIn(heap)', LiveIn(heap), p)
  PROVE  Abstract!Malloc
<1>1. p \in LiveIn(heap)' \ LiveIn(heap) /\ LiveIn(heap)' = LiveIn(heap) \cup {p}
  BY DEF More
<1>2. p \in Abstract!Piece
  BY DEF More, Abstract!Piece
<1>3. \A q \in LiveIn(heap) : Abstract!Apart(p, q)
  BY SeparateApart DEF More
<1> QED BY <1>1, <1>2, <1>3 DEF Abstract!Malloc

\* kfree() is Free.
LEMMA FreeStep ==
  ASSUME NEW p, More(LiveIn(heap), LiveIn(heap)', p)
  PROVE  Abstract!Free
<1>1. p \in LiveIn(heap) \ LiveIn(heap)' /\ LiveIn(heap)' = LiveIn(heap) \ {p}
  BY DEF More
<1> QED BY <1>1 DEF Abstract!Free

\* A growing krealloc() is Realloc.
LEMMA MoveStep ==
  ASSUME NEW mid, NEW p, NEW q, More(mid, LiveIn(heap), q), More(mid, LiveIn(heap)', p),
         p \in LiveIn(heap), q.len > p.len
  PROVE  Abstract!Realloc
<1>1. p # q /\ q \notin LiveIn(heap) /\ mid = LiveIn(heap) \cup {q}
  BY DEF More
<1>2. p \notin LiveIn(heap)' /\ mid = LiveIn(heap)' \cup {p}
  BY DEF More
<1>3. LiveIn(heap)' = (LiveIn(heap) \ {p}) \cup {q}
  BY <1>1, <1>2
<1>4. p \in LiveIn(heap) \ LiveIn(heap)' /\ q \in LiveIn(heap)' \ LiveIn(heap)
  BY <1>1, <1>2, <1>3
<1>5. q \in Abstract!Piece
  BY DEF More, Abstract!Piece
<1>6. \A o \in LiveIn(heap) : Abstract!Apart(q, o)
  BY SeparateApart DEF More
<1> QED BY <1>3, <1>4, <1>5, <1>6 DEF Abstract!Realloc

\* The pieces when one becomes shorter.
LEMMA ResizeLive ==
  ASSUME NEW h, HeapCore(h), NEW g, HeapCore(g), NEW i, NEW j, At(h, i, j),
         NEW size \in Requests, size <= h.majors[i].minors[j].req,
         g.majors = [h.majors EXCEPT ![i] = Resized(h.majors[i], j, size)]
  PROVE  \E p, q : /\ p \in LiveIn(h) /\ q \in LiveIn(g)
                   /\ LiveIn(g) = (LiveIn(h) \ {p}) \cup {q}
                   /\ p.start = q.start /\ q.len = size /\ size <= p.len
                   /\ p \in [start : Nat, len : Requests] /\ q \in [start : Nat, len : Requests]
<1>1. h \in HeapRecord /\ g \in HeapRecord /\ h.majors \in Seq(Major)
  BY RecordFields DEF HeapCore
<1>2. PICK n, x, m, s, t : /\ n = Len(h.majors) /\ i \in 1..n /\ s = h.majors /\ t = g.majors
                           /\ m = h.majors[i] /\ x = Resized(h.majors[i], j, size)
  BY DEF At
<1>3. MajorOK(m) /\ j \in 1..Len(m.minors)
  BY <1>2 DEF HeapCore, At
<1>4. /\ MajorOK(x) /\ x.base = m.base /\ Len(x.minors) = Len(m.minors)
      /\ \A k \in 1..Len(m.minors) :
           x.minors[k].off = m.minors[k].off /\ (k # j => x.minors[k] = m.minors[k])
      /\ x.minors[j].req = size
  BY <1>2, <1>3, ResizedKeeps
<1>5. x \in Major
  BY <1>4 DEF MajorOK
<1>6. Len(t) = n /\ \A k \in 1..n : t[k] = IF k = i THEN x ELSE s[k]
  BY <1>1, <1>2, <1>5, ExceptSeq
<1>7. \A k \in 1..Len(m.minors) : Pointer(x, x.minors[k]) = Pointer(m, m.minors[k])
  BY <1>4 DEF Pointer
<1>8. \A k, l : In(t, k, l) <=> In(s, k, l)
  BY <1>2, <1>4, <1>6 DEF In
<1>9. ASSUME NEW k, NEW l, In(s, k, l), k # i \/ l # j PROVE PieceIn(t, k, l) = PieceIn(s, k, l)
  <2>1. CASE k # i
    <3>1. t[k] = s[k]
      BY <1>2, <1>6, <1>9, <2>1 DEF In
    <3> QED BY <3>1 DEF PieceIn
  <2>2. CASE k = i
    <3>1. t[k] = x /\ s[k] = m /\ l \in 1..Len(m.minors) /\ l # j
      BY <1>2, <1>6, <1>9, <2>2 DEF In
    <3>2. x.minors[l] = m.minors[l] /\ Pointer(x, x.minors[l]) = Pointer(m, m.minors[l])
      BY <1>4, <1>7, <3>1
    <3> QED BY <3>1, <3>2 DEF PieceIn
  <2> QED BY <2>1, <2>2
<1>10. PICK p, q : p = PieceIn(s, i, j) /\ q = PieceIn(t, i, j)
  OBVIOUS
<1>11. In(s, i, j) /\ In(t, i, j)
  BY <1>2, <1>8 DEF In, At
<1>12. p.start = q.start /\ q.len = size /\ size <= p.len
  <2>1. t[i] = x /\ s[i] = m
    BY <1>2, <1>6
  <2> QED BY <1>2, <1>3, <1>4, <1>7, <1>10, <2>1 DEF PieceIn
<1>13. p \in LiveIn(h) /\ q \in LiveIn(g)
  BY <1>1, <1>2, <1>10, <1>11, LiveIs DEF IsPiece
<1>14. p \in [start : Nat, len : Requests] /\ q \in [start : Nat, len : Requests]
  BY <1>2, <1>10, <1>11, PieceType
<1>15. ASSUME NEW e \in LiveIn(g), e # q PROVE e \in LiveIn(h) /\ e # p
  <2>1. PICK k, l : In(t, k, l) /\ e = PieceIn(t, k, l)
    BY <1>1, <1>2, <1>15, LiveIs DEF IsPiece
  <2>2. k # i \/ l # j
    BY <1>10, <1>15, <2>1
  <2>3. In(s, k, l) /\ e = PieceIn(s, k, l)
    BY <1>8, <1>9, <2>1, <2>2
  <2>4. e \in LiveIn(h)
    BY <1>1, <1>2, <2>3, LiveIs DEF IsPiece
  <2>5. Separate(e, p)
    BY <1>2, <1>10, <1>11, <2>2, <2>3, PiecesSeparate
  <2> QED BY <2>4, <2>5 DEF Separate
<1>16. ASSUME NEW e \in LiveIn(h), e # p PROVE e \in LiveIn(g)
  <2>1. PICK k, l : In(s, k, l) /\ e = PieceIn(s, k, l)
    BY <1>1, <1>2, <1>16, LiveIs DEF IsPiece
  <2>2. k # i \/ l # j
    BY <1>10, <1>16, <2>1
  <2>3. In(t, k, l) /\ e = PieceIn(t, k, l)
    BY <1>8, <1>9, <2>1, <2>2
  <2> QED BY <1>1, <1>2, <2>3, LiveIs DEF IsPiece
<1>17. LiveIn(g) = (LiveIn(h) \ {p}) \cup {q}
  BY <1>13, <1>15, <1>16
<1> QED BY <1>12, <1>13, <1>14, <1>17

\* krealloc() that does not grow is Realloc, or nothing if the length stays.
LEMMA ShrinkStep ==
  ASSUME HeapCore(heap), HeapCore(heap)', NEW i, NEW j, At(heap, i, j),
         NEW size \in Requests, size <= heap.majors[i].minors[j].req,
         heap'.majors = [heap.majors EXCEPT ![i] = Resized(heap.majors[i], j, size)]
  PROVE  Abstract!Realloc \/ LiveIn(heap)' = LiveIn(heap)
<1>1. PICK h, g, old, new : h = heap /\ g = heap' /\ old = LiveIn(heap) /\ new = LiveIn(heap)'
  OBVIOUS
<1>2. old = LiveIn(h) /\ new = LiveIn(g) /\ HeapCore(h) /\ HeapCore(g)
  BY <1>1
<1>3. PICK p, q : /\ p \in LiveIn(h) /\ q \in LiveIn(g)
                  /\ LiveIn(g) = (LiveIn(h) \ {p}) \cup {q}
                  /\ p.start = q.start /\ q.len = size /\ size <= p.len
                  /\ p \in [start : Nat, len : Requests] /\ q \in [start : Nat, len : Requests]
  BY <1>1, <1>2, ResizeLive
<1>4. CASE p.len = size
  <2>1. p = q
    BY <1>3, <1>4
  <2> QED BY <1>1, <1>2, <1>3, <2>1
<1>5. CASE p.len # size
  <2>1. p # q
    BY <1>3, <1>5
  <2>2. q \notin old /\ p \notin new
    BY <1>2, <1>3, <2>1, OneStart
  <2>3. p \in old \ new /\ q \in new \ old /\ new = (old \ {p}) \cup {q}
    BY <1>2, <1>3, <2>2
  <2>4. q \in Abstract!Piece
    BY <1>3 DEF Abstract!Piece
  <2>5. q.start = p.start /\ q.len <= p.len
    BY <1>3
  <2> QED BY <1>1, <2>3, <2>4, <2>5 DEF Abstract!Realloc
<1> QED BY <1>4, <1>5

\* Every step of the heap is one of the allocator, or leaves its pieces alone.
LEMMA AllocatorStep ==
  ASSUME HeapInv, [HeapNext]_heapVars
  PROVE  [Abstract!Next]_<<LiveIn(heap), halted>>
<1>1. HeapCore(heap) /\ HeapInv'
  BY HeapStep DEF HeapInv, HeapOK
<1>2. HeapCore(heap')
  BY <1>1 DEF HeapInv, HeapOK
<1>3. PICK old, new : old = LiveIn(heap) /\ new = LiveIn(heap)' /\ new = LiveIn(heap')
  OBVIOUS
<1>4. ASSUME ~halted, Abstract!Malloc \/ Abstract!Free \/ Abstract!Realloc, halted' = halted
      PROVE  Abstract!Next
  BY <1>4 DEF Abstract!Next
<1>5. ASSUME ~halted, Halt PROVE Abstract!Next
  <2>1. LiveIn(heap)' = LiveIn(heap) /\ halted'
    BY <1>5 DEF Halt
  <2> QED BY <1>5, <2>1 DEF Abstract!Next
<1>6. ASSUME NEW req \in Requests, kmalloc(req) PROVE Abstract!Malloc /\ halted' = halted
  <2>1. Takes(heap, heap', req) /\ halted' = halted
    BY <1>6, MallocTakes
  <2>2. heap'.majors \in Seq(Major)
    BY <1>2, RecordFields DEF HeapCore
  <2>3. PICK a, b : Plus(heap'.majors, heap.majors, a, b)
    BY <1>1, <2>1, <2>2, TakesPlus
  <2>4. More(LiveIn(heap'), LiveIn(heap), PieceIn(heap'.majors, a, b))
    BY <1>1, <1>2, <2>3, PlusLive
  <2>5. More(new, old, PieceIn(heap'.majors, a, b))
    BY <1>3, <2>4
  <2>6. PICK p : p = PieceIn(heap'.majors, a, b)
    OBVIOUS
  <2>7. More(LiveIn(heap)', LiveIn(heap), p)
    BY <1>3, <2>5, <2>6
  <2> QED BY <2>1, <2>7, MallocStep
<1>7. ASSUME NEW p \in Pointers, kfree(p) PROVE Abstract!Free /\ halted' = halted
  <2>1. halted' = halted /\ \E i, j : At(heap, i, j) /\ Frees(heap, heap', i, j)
    BY <1>7, FreeFrees
  <2>2. PICK i, j : At(heap, i, j) /\ Frees(heap, heap', i, j)
    BY <2>1
  <2>3. Plus(heap.majors, heap'.majors, i, j)
    BY <1>1, <2>2, FreesPlus
  <2>4. More(LiveIn(heap), LiveIn(heap'), PieceIn(heap.majors, i, j))
    BY <1>1, <1>2, <2>3, PlusLive
  <2>5. PICK e : e = PieceIn(heap.majors, i, j)
    OBVIOUS
  <2>6. More(LiveIn(heap), LiveIn(heap)', e)
    BY <1>3, <2>4, <2>5
  <2> QED BY <2>1, <2>6, FreeStep
<1>8. ASSUME NEW p \in Pointers, NEW size \in Requests, krealloc_in_place(p, size)
      PROVE  (Abstract!Realloc \/ LiveIn(heap)' = LiveIn(heap)) /\ halted' = halted
  <2>1. halted' = halted
    BY <1>8, ReallocResizes
  <2>2. PICK i, j : /\ At(heap, i, j) /\ size <= heap.majors[i].minors[j].req
                    /\ heap'.majors = [heap.majors EXCEPT ![i] = Resized(heap.majors[i], j, size)]
    BY <1>8, ReallocResizes
  <2>3. HeapCore(heap)'
    BY <1>2
  <2> QED BY <1>1, <2>1, <2>2, <2>3, ShrinkStep
<1>9. ASSUME NEW p \in Pointers, NEW size \in Requests, krealloc_moves(p, size)
      PROVE  Halt \/ (Abstract!Realloc /\ halted' = halted)
  <2>1. CASE Halt
    BY <2>1
  <2>2. CASE ~Halt
    <3>1. halted' = halted
      BY <1>9, <2>2, ReallocMoves
    <3>2. PICK i, j, g, k, l :
                 /\ At(heap, i, j) /\ size > heap.majors[i].minors[j].req
                 /\ Pointer(heap.majors[i], heap.majors[i].minors[j]) = p
                 /\ Takes(heap, g, size) /\ HeapOK(g)
                 /\ At(g, k, l) /\ Pointer(g.majors[k], g.majors[k].minors[l]) = p
                 /\ Frees(g, heap', k, l)
      BY <1>9, <2>2, ReallocMoves
    <3>3. HeapCore(g) /\ g.majors \in Seq(Major) /\ g \in HeapRecord /\ heap \in HeapRecord
      BY <1>1, <3>2, RecordFields DEF HeapOK, HeapCore
    <3>4. PICK a, b : /\ Plus(g.majors, heap.majors, a, b)
                      /\ PieceIn(g.majors, a, b).len = size
      BY <1>1, <3>2, <3>3, TakesPlus
    <3>5. PICK q, e, f : /\ q = PieceIn(g.majors, a, b) /\ e = PieceIn(heap.majors, i, j)
                         /\ f = PieceIn(g.majors, k, l)
      OBVIOUS
    <3>6. More(LiveIn(g), LiveIn(heap), q)
      BY <1>1, <3>3, <3>4, <3>5, PlusLive
    <3>7. Plus(g.majors, heap'.majors, k, l)
      BY <3>2, <3>3, FreesPlus
    <3>8. More(LiveIn(g), LiveIn(heap'), f)
      BY <1>2, <3>3, <3>5, <3>7, PlusLive
    <3>9. In(heap.majors, i, j) /\ In(g.majors, k, l)
      BY <3>2 DEF At, In
    <3>10. e \in LiveIn(heap) /\ f \in LiveIn(g) /\ e \in LiveIn(g)
      <4>1. e \in LiveIn(heap) /\ f \in LiveIn(g)
        BY <3>3, <3>5, <3>9, LiveIs DEF IsPiece
      <4> QED BY <3>6, <4>1 DEF More
    <3>11. e.start = p /\ f.start = p /\ e.len < size
      <4>1. e.start = p /\ e.len = heap.majors[i].minors[j].req /\ e.len \in Requests
        BY <1>1, <3>2, <3>5, <3>9, PieceType
      <4>2. f.start = p
        BY <3>2, <3>3, <3>5, <3>9, PieceType
      <4> QED BY <3>2, <4>1, <4>2, HeapParams
    <3>12. e = f
      BY <3>3, <3>10, <3>11, OneStart
    <3>13. More(LiveIn(g), LiveIn(heap)', e) /\ q.len > e.len
      <4>1. q.len = size /\ size \in Nat /\ e.len \in Nat
        <5>1. e.len \in Requests
          BY <1>1, <3>5, <3>9, PieceType
        <5> QED BY <3>4, <3>5, <5>1, HeapParams
      <4> QED BY <1>3, <3>8, <3>11, <3>12, <4>1
    <3>14. Abstract!Realloc
      BY <3>6, <3>10, <3>13, MoveStep
    <3> QED BY <3>1, <3>14
  <2> QED BY <2>1, <2>2
<1>10. CASE HeapNext
  <2>1. ~halted
    BY <1>10 DEF HeapNext
  <2>2. ASSUME NEW req \in Requests, kmalloc(req) PROVE Abstract!Next
    BY <1>4, <1>6, <2>1, <2>2
  <2>3. ASSUME NEW req \in Requests, kmalloc_fails(req) PROVE Abstract!Next
    BY <1>5, <2>1, <2>3 DEF kmalloc_fails
  <2>4. ASSUME NEW p \in Pointers, kfree(p) PROVE Abstract!Next
    BY <1>4, <1>7, <2>1, <2>4
  <2>5. ASSUME NEW p \in Pointers, NEW size \in Requests, krealloc_in_place(p, size)
        PROVE  Abstract!Next \/ UNCHANGED <<LiveIn(heap), halted>>
    BY <1>4, <1>8, <2>1, <2>5
  <2>6. ASSUME NEW p \in Pointers, NEW size \in Requests, krealloc_moves(p, size)
        PROVE  Abstract!Next
    BY <1>4, <1>5, <1>9, <2>1, <2>6
  <2> QED BY <1>10, <2>2, <2>3, <2>4, <2>5, <2>6 DEF HeapNext
<1>11. CASE UNCHANGED heapVars
  BY <1>11 DEF heapVars
<1> QED BY <1>10, <1>11

\* The heap is an allocator for every size of headers, pages and alignment:
\* a call changes only the piece of its caller, and a new piece, that of a
\* growing krealloc() included, overlaps no other.
THEOREM HeapIsAllocator == HeapSpec => ImplementsAllocator
<1>1. HeapInit => Abstract!Init
  <2> SUFFICES ASSUME HeapInit PROVE Abstract!Init
    OBVIOUS
  <2>1. heap \in HeapRecord /\ halted = FALSE
    BY HeapInitOK DEF HeapInv, HeapOK, HeapCore, HeapInit
  <2>2. Len(heap.majors) = 1 /\ heap.majors[1].minors = << >>
    BY DEF HeapInit, allocate_new_page
  <2>3. \A e : e \notin LiveIn(heap)
    BY <2>1, <2>2, LiveIs DEF IsPiece, In
  <2> QED BY <2>1, <2>3 DEF Abstract!Init
<1>2. HeapInv /\ [HeapNext]_heapVars => [Abstract!Next]_<<LiveIn(heap), halted>>
  BY AllocatorStep
<1> QED BY <1>1, <1>2, HeapSafe, PTL DEF HeapSpec, ImplementsAllocator, Abstract!Spec

-----------------------------------------------------------------------------
(* The heap takes pages only when it has no gap left.                       *)

\* The bytes before the gap after the i-th minor that are in use.
UsedBefore(maj, u) ==
  /\ u[0] = MajorHeader /\ u[Len(maj.minors)] = maj.usage
  /\ \A k \in 0..Len(maj.minors) : u[k] \in Int
  /\ \A k \in 1..Len(maj.minors) : u[k] = u[k - 1] + maj.minors[k].size + MinorHeader

LEMMA UsedFacts ==
  ASSUME NEW maj, MajorOK(maj)
  PROVE  \E u : UsedBefore(maj, u)
<1>1. maj \in Major
  BY DEF MajorOK
<1>2. PICK n, N : n = Len(maj.minors) /\ n \in Nat /\ N = MinorHeader /\ N \in Nat
  BY <1>1, MajorFields, HeapParams
<1>3. PICK f : f = [j \in DOMAIN maj.minors |-> maj.minors[j].size]
  OBVIOUS
<1>4. f \in Seq(Int) /\ Len(f) = n /\ \A j \in 1..n : f[j] = maj.minors[j].size
  BY <1>1, <1>2, <1>3, SizesFacts, MajorFields
<1>5. PICK p : Sums(p, f) /\ Total(f) = p[Len(f)]
  BY <1>4, TotalSums
<1>6. /\ p[0] = 0 /\ \A k \in 0..n : p[k] \in Int
      /\ \A k \in 1..n : p[k] = p[k - 1] + maj.minors[k].size
  BY <1>4, <1>5 DEF Sums
<1>7. PICK u : u = [k \in 0..n |-> MajorHeader + p[k] + k * N]
  OBVIOUS
<1>8. \A k \in 0..n : u[k] \in Int /\ u[k] = MajorHeader + p[k] + k * N
  <2>1. ASSUME NEW k \in 0..n PROVE u[k] \in Int /\ u[k] = MajorHeader + p[k] + k * N
    <3>1. k * N \in Int /\ p[k] \in Int /\ MajorHeader \in Int
      BY <1>2, <1>6, HeapParams
    <3> QED BY <1>7, <3>1
  <2> QED BY <2>1
<1>9. u[0] = MajorHeader
  BY <1>2, <1>6, <1>8, HeapParams
<1>10. u[n] = maj.usage
  <2>1. InMinors(maj) = p[n]
    BY <1>3, <1>4, <1>5 DEF InMinors
  <2>2. maj.usage = MajorHeader + InMinors(maj) + n * N
    BY <1>2 DEF MajorOK
  <2> QED BY <1>2, <1>8, <2>1, <2>2
<1>11. ASSUME NEW k \in 1..n PROVE u[k] = u[k - 1] + maj.minors[k].size + N
  <2>1. k \in 0..n /\ k - 1 \in 0..n
    BY <1>2
  <2>2. PICK c, d : c = k * N /\ d = (k - 1) * N
    OBVIOUS
  <2>3. c \in Int /\ d \in Int /\ c = d + N
    BY <1>2, <2>2
  <2>4. u[k] = MajorHeader + p[k] + c /\ u[k - 1] = MajorHeader + p[k - 1] + d
    BY <1>8, <2>1, <2>2
  <2>5. PICK a, b, s : a = p[k] /\ b = p[k - 1] /\ s = maj.minors[k].size
    OBVIOUS
  <2>6. a \in Int /\ b \in Int /\ a = b + s /\ s \in Int
    BY <1>1, <1>2, <1>6, <2>1, <2>5, MajorFields
  <2>7. MajorHeader + a + c = (MajorHeader + b + d) + s + N
    BY <1>2, <2>3, <2>6, HeapParams
  <2> QED BY <2>4, <2>5, <2>7
<1> QED BY <1>2, <1>8, <1>9, <1>10, <1>11 DEF UsedBefore

\* No gap has more bytes than the major has free.
LEMMA GapIsFree ==
  ASSUME NEW maj, MajorOK(maj), NEW i \in 0..Len(maj.minors)
  PROVE  GapEnd(maj, i) - GapStart(maj, i) <= FreeBytes(maj)
<1>1. maj \in Major
  BY DEF MajorOK
<1>2. PICK n : n = Len(maj.minors) /\ n \in Nat
  BY <1>1, MajorFields
<1>3. PICK u : UsedBefore(maj, u)
  BY UsedFacts
<1>4. PICK s, e : s = [k \in 0..n |-> GapStart(maj, k)] /\ e = [k \in 0..n |-> GapEnd(maj, k)]
  OBVIOUS
<1>5. \A k \in 0..n : /\ s[k] = GapStart(maj, k) /\ e[k] = GapEnd(maj, k)
                      /\ s[k] \in Int /\ e[k] \in Int /\ s[k] <= e[k] /\ u[k] \in Int
  BY <1>1, <1>2, <1>3, <1>4, GapTypes DEF MajorOK, UsedBefore
<1>6. ASSUME NEW k \in 1..n PROVE s[k] - u[k] = e[k - 1] - u[k - 1]
  <2>1. k \in 0..n /\ k - 1 \in 0..n /\ k - 1 # n /\ k - 1 + 1 = k /\ k # 0
    BY <1>2
  <2>2. PICK o, z, N : o = maj.minors[k].off /\ z = maj.minors[k].size /\ N = MinorHeader
    OBVIOUS
  <2>3. o \in Int /\ z \in Int /\ N \in Int
    BY <1>1, <1>2, <2>2, MajorFields, HeapParams
  <2>4. e[k - 1] = o
    BY <1>2, <1>5, <2>1, <2>2 DEF GapEnd
  <2>5. s[k] = o + N + z
    BY <1>5, <2>1, <2>2 DEF GapStart
  <2>6. u[k] = u[k - 1] + z + N /\ u[k - 1] \in Int
    BY <1>2, <1>5, <1>3, <2>1, <2>2 DEF UsedBefore
  <2> QED BY <2>3, <2>4, <2>5, <2>6
<1>7. s[0] = u[0] /\ e[n] = Size(maj) /\ u[n] = maj.usage
  <2>1. 0 \in 0..n /\ n \in 0..n
    BY <1>2
  <2> QED BY <1>2, <1>3, <1>5, <2>1 DEF UsedBefore, GapStart, GapEnd
<1> DEFINE G == {k \in 0..n : s[k] - u[k] >= 0}
           H == {k \in 0..n : k >= i => e[i] - u[i] <= e[k] - u[k]}
<1>8. ASSUME NEW k \in 0..n, k # 0 => k - 1 \in G PROVE k \in G
  <2>1. CASE k = 0
    BY <1>5, <1>7, <2>1
  <2>2. CASE k # 0
    <3>1. k \in 1..n /\ k - 1 \in 0..n /\ s[k - 1] - u[k - 1] >= 0
      BY <1>2, <1>8, <2>2
    <3>2. /\ s[k] - u[k] = e[k - 1] - u[k - 1]
          /\ s[k - 1] \in Int /\ e[k - 1] \in Int /\ u[k - 1] \in Int /\ s[k - 1] <= e[k - 1]
      BY <1>5, <1>6, <3>1
    <3> QED BY <3>1, <3>2
  <2> QED BY <2>1, <2>2
<1>9. ASSUME NEW k \in 0..n, k # 0 => k - 1 \in H PROVE k \in H
  <2>1. CASE k > i
    <3>1. k \in 1..n /\ k - 1 \in 0..n /\ k - 1 >= i /\ k # 0 /\ i \in 0..n
      BY <1>2, <2>1
    <3>2. e[i] - u[i] <= e[k - 1] - u[k - 1]
      BY <1>9, <3>1
    <3>3. s[k] - u[k] = e[k - 1] - u[k - 1]
      BY <1>6, <3>1
    <3>4. /\ s[k] \in Int /\ e[k] \in Int /\ u[k] \in Int /\ s[k] <= e[k]
          /\ e[i] \in Int /\ u[i] \in Int /\ e[k - 1] \in Int /\ u[k - 1] \in Int
      BY <1>5, <3>1
    <3> QED BY <3>2, <3>3, <3>4
  <2>2. CASE k = i
    <3>1. e[i] \in Int /\ u[i] \in Int
      BY <1>2, <1>5
    <3> QED BY <2>2, <3>1
  <2>3. CASE k < i
    BY <1>2, <2>3
  <2>4. k \in Int /\ i \in Int
    BY <1>2
  <2> QED BY <2>1, <2>2, <2>3, <2>4
<1>10. i \in G /\ n \in H
  <2> HIDE DEF G, H
  <2>1. /\ Forwards(n, G) /\ Forwards(n, H) /\ n \in Int /\ i \in 0..n /\ n \in 0..n
    BY <1>2, <1>8, <1>9 DEF Forwards
  <2> QED BY <2>1, StepInduction
<1>11. s[i] - u[i] >= 0 /\ e[i] - u[i] <= e[n] - u[n]
  BY <1>2, <1>10
<1>12. e[i] - s[i] <= e[n] - u[n]
  <2>1. s[i] \in Int /\ u[i] \in Int /\ e[i] \in Int /\ e[n] \in Int /\ u[n] \in Int
    BY <1>2, <1>5
  <2> QED BY <1>11, <2>1
<1> QED BY <1>2, <1>5, <1>7, <1>12 DEF FreeBytes

\* No gap has the room for size bytes and a header.
FullFor(h, size) ==
  \A k \in 1..Len(h.majors) : \A i \in 0..Len(h.majors[k].minors) :
    GapEnd(h.majors[k], i) - GapStart(h.majors[k], i) < size + MinorHeader

LEMMA UnsuitedFull ==
  ASSUME NEW h, HeapCore(h), NEW size \in Nat,
         \A k \in 1..Len(h.majors) : ~Suits(h.majors[k], size)
  PROVE  FullFor(h, size)
<1> SUFFICES ASSUME NEW k \in 1..Len(h.majors), NEW i \in 0..Len(h.majors[k].minors)
             PROVE  GapEnd(h.majors[k], i) - GapStart(h.majors[k], i) < size + MinorHeader
  BY DEF FullFor
<1>1. PICK maj : maj = h.majors[k]
  OBVIOUS
<1>2. MajorOK(maj) /\ maj \in Major /\ ~Suits(maj, size) /\ i \in 0..Len(maj.minors)
  BY <1>1 DEF HeapCore, MajorOK
<1>3. GapEnd(maj, i) \in Nat /\ GapStart(maj, i) \in Nat
  BY <1>2, GapTypes
<1>4. PICK r : r = size + MinorHeader /\ r \in Nat
  BY HeapParams
<1>5. CASE Insufficient(maj, size)
  <2>1. GapEnd(maj, i) - GapStart(maj, i) <= FreeBytes(maj)
    BY <1>2, GapIsFree
  <2>2. FreeBytes(maj) < r
    BY <1>4, <1>5 DEF Insufficient
  <2>3. FreeBytes(maj) \in Int
    BY <1>2, MajorFields DEF FreeBytes
  <2> QED BY <1>1, <1>3, <1>4, <2>1, <2>2, <2>3
<1>6. CASE ~Insufficient(maj, size)
  <2>1. Fits(maj, size) = {}
    BY <1>2, <1>6 DEF Suits
  <2>2. ~(GapEnd(maj, i) - GapStart(maj, i) >= r)
    BY <1>2, <1>4, <2>1 DEF Fits
  <2> QED BY <1>1, <1>3, <1>4, <2>2
<1> QED BY <1>5, <1>6

\* The list has grown by a major with one minor, for which there was no gap.
Grown(h, new) ==
  LET n == Len(h.majors) IN
  /\ Len(new.majors) = n + 1 /\ Len(new.majors[n + 1].minors) = 1
  /\ FullFor(h, new.majors[n + 1].minors[1].size)

LEMMA TakesGrows ==
  ASSUME NEW h, HeapCore(h), NEW req \in Requests, NEW new, Takes(h, new, req)
  PROVE  Len(new.majors) = Len(h.majors) \/ Grown(h, new)
<1>1. h \in HeapRecord /\ h.majors \in Seq(Major)
  BY RecordFields DEF HeapCore
<1>2. PICK size, n : size = Padded(req) /\ n = Len(h.majors) /\ n \in Nat
  BY <1>1, RecordFields
<1>3. size \in Nat /\ size >= Padded(req)
  BY <1>2, PaddedType
<1>4. PICK maj, x : maj = allocate_new_page(h.majors, size) /\ x = Insert(maj, size, req)
  OBVIOUS
<1>5. PICK b :
    \/ \E i \in 1..n :
         new = HeapOf([h.majors EXCEPT ![i] = Insert(h.majors[i], size, req)],
                         b, h.allocated, h.inuse + size)
    \/ /\ \A i \in 1..n : ~Suits(h.majors[i], size)
       /\ new = HeapOf(Append(h.majors, x), b, h.allocated + Size(maj), h.inuse + size)
  BY <1>2, <1>4 DEF Takes
<1>6. ASSUME NEW i \in 1..n,
             new = HeapOf([h.majors EXCEPT ![i] = Insert(h.majors[i], size, req)],
                         b, h.allocated, h.inuse + size)
      PROVE  Len(new.majors) = Len(h.majors)
  <2>1. PICK t : t = [h.majors EXCEPT ![i] = Insert(h.majors[i], size, req)]
    OBVIOUS
  <2>2. new.majors = t
    BY <1>6, <2>1 DEF HeapOf
  <2>3. DOMAIN t = 1..n
    BY <1>1, <1>2, <2>1
  <2>4. Len(t) = n
    BY <1>2, <2>3
  <2> QED BY <1>2, <2>2, <2>4
<1>7. ASSUME \A i \in 1..n : ~Suits(h.majors[i], size),
             new = HeapOf(Append(h.majors, x), b, h.allocated + Size(maj), h.inuse + size)
      PROVE  Grown(h, new)
  <2>1. new.majors = Append(h.majors, x)
    BY <1>7 DEF HeapOf
  <2>2. MajorOK(maj) /\ maj.minors = << >> /\ Suits(maj, size)
    <3>1. /\ MajorOK(maj) /\ maj.minors = << >>
          /\ ~Insufficient(maj, size) /\ Fits(maj, size) # {}
      BY <1>1, <1>2, <1>3, <1>4, NewFacts
    <3> QED BY <3>1 DEF Suits
  <2>3. /\ MajorOK(x)
        /\ \E k \in 0..Len(maj.minors) :
             Holds(x, maj, k, [off |-> GapStart(maj, k), size |-> size, req |-> req])
    BY <1>3, <1>4, <2>2, SuitsTakes
  <2>4. x \in Major
    BY <2>3 DEF MajorOK
  <2>5. Len(maj.minors) = 0
    BY <2>2
  <2>6. PICK k \in 0..0 : Holds(x, maj, k, [off |-> GapStart(maj, k), size |-> size, req |-> req])
    BY <2>3, <2>5
  <2>7. k = 0 /\ k + 1 = 1
    BY <2>6
  <2>8. Len(x.minors) = 1
    BY <2>5, <2>6 DEF Holds, Inserted
  <2>9. x.minors[1].size = size
    <3>1. 1 \in 1..Len(x.minors)
      BY <2>8
    <3>2. x.minors[1] = [off |-> GapStart(maj, k), size |-> size, req |-> req]
      BY <2>6, <2>7, <3>1 DEF Holds, Inserted
    <3> QED BY <3>2
  <2>10. Len(new.majors) = n + 1 /\ new.majors[n + 1] = x
    BY <1>1, <1>2, <2>1, <2>4
  <2>11. FullFor(h, size)
    BY <1>2, <1>3, <1>7, UnsuitedFull
  <2> QED BY <1>2, <2>8, <2>9, <2>10, <2>11 DEF Grown
<1> QED BY <1>5, <1>6, <1>7

LEMMA FreesShrinks ==
  ASSUME NEW h, HeapCore(h), NEW i, NEW j, At(h, i, j), NEW new, Frees(h, new, i, j)
  PROVE  \/ Len(new.majors) = Len(h.majors) - 1
         \/ /\ Len(new.majors) = Len(h.majors) /\ Len(h.majors[i].minors) > 1
            /\ \A k \in 1..Len(h.majors) : k # i => new.majors[k] = h.majors[k]
<1>1. h \in HeapRecord /\ h.majors \in Seq(Major)
  BY RecordFields DEF HeapCore
<1>2. PICK n : n = Len(h.majors) /\ n \in Nat /\ i \in 1..n
  BY <1>1, RecordFields DEF At
<1>3. MajorOK(h.majors[i])
  BY <1>2 DEF HeapCore
<1>4. PICK less, t : less = Without(h.majors[i], j) /\ t = [h.majors EXCEPT ![i] = less]
  OBVIOUS
<1>5. MajorOK(less) /\ Holds(h.majors[i], less, j - 1, h.majors[i].minors[j])
  BY <1>3, <1>4, RemoveKeeps DEF At
<1>6. less \in Major /\ Len(less.minors) \in Nat /\ Len(h.majors[i].minors) = Len(less.minors) + 1
  BY <1>5, MajorFields DEF MajorOK, Holds, Inserted
<1>7. t \in Seq(Major) /\ Len(t) = n /\ \A k \in 1..n : t[k] = IF k = i THEN less ELSE h.majors[k]
  BY <1>1, <1>2, <1>4, <1>6, ExceptSeq
<1>8. CASE less.minors # << >>
  <2>1. new.majors = t
    BY <1>4, <1>8, HeapOfFields DEF Frees
  <2>2. Len(less.minors) # 0
    BY <1>6, <1>8, MajorFields, EmptySeq
  <2> QED BY <1>2, <1>6, <1>7, <2>1, <2>2
<1>9. CASE less.minors = << >>
  <2>1. new.majors = RemoveAt(t, i)
    BY <1>4, <1>9, HeapOfFields DEF Frees
  <2>2. Inserted(t, RemoveAt(t, i), i, t[i]) /\ RemoveAt(t, i) \in Seq(Major)
    BY <1>2, <1>7, RemoveAtFacts
  <2>3. n = Len(new.majors) + 1 /\ Len(new.majors) \in Nat
    BY <1>7, <2>1, <2>2 DEF Inserted
  <2> QED BY <1>2, <2>3
<1> QED BY <1>8, <1>9

\* A call that makes the list longer appends the major of a minor for which
\* there was no gap.
LEMMA GrowthStep ==
  ASSUME HeapInv, HeapNext, Len(heap'.majors) > Len(heap.majors)
  PROVE  Grown(heap, heap') \/ (/\ Len(heap'.majors) = Len(heap.majors) + 1
                                /\ FullFor(heap, heap'.majors[Len(heap.majors) + 1].minors[1].size))
<1>1. HeapCore(heap) /\ HeapInv' /\ heap \in HeapRecord
  BY HeapStep DEF HeapInv, HeapOK, HeapCore
<1>2. HeapCore(heap') /\ heap' \in HeapRecord
  BY <1>1 DEF HeapInv, HeapOK, HeapCore
<1>3. PICK n, m : n = Len(heap.majors) /\ m = Len(heap'.majors) /\ n \in Nat /\ m \in Nat /\ m > n
  BY <1>1, <1>2, RecordFields
<1>4. ASSUME Halt PROVE FALSE
  BY <1>3, <1>4 DEF Halt
<1>5. ASSUME NEW req \in Requests, kmalloc(req) PROVE Grown(heap, heap')
  <2>1. Takes(heap, heap', req)
    BY <1>5, MallocTakes
  <2> QED BY <1>1, <1>3, <2>1, TakesGrows
<1>6. ASSUME NEW p \in Pointers, kfree(p) PROVE FALSE
  <2>1. PICK i, j : At(heap, i, j) /\ Frees(heap, heap', i, j)
    BY <1>6, FreeFrees
  <2>2. m = n - 1 \/ m = n
    BY <1>1, <1>3, <2>1, FreesShrinks
  <2> QED BY <1>3, <2>2
<1>7. ASSUME NEW p \in Pointers, NEW size \in Requests, krealloc_in_place(p, size) PROVE FALSE
  <2>1. PICK i, j :
          heap'.majors = [heap.majors EXCEPT ![i] = Resized(heap.majors[i], j, size)]
    BY <1>7, ReallocResizes
  <2>2. DOMAIN heap'.majors = DOMAIN heap.majors
    BY <2>1
  <2>3. DOMAIN heap'.majors = 1..m /\ DOMAIN heap.majors = 1..n
    BY <1>1, <1>2, <1>3, RecordFields
  <2>4. m \in 1..m
    BY <1>3
  <2>5. m \in 1..n
    BY <2>2, <2>3, <2>4
  <2> QED BY <1>3, <2>5
<1>8. ASSUME NEW p \in Pointers, NEW size \in Requests, krealloc_moves(p, size)
      PROVE  m = n + 1 /\ FullFor(heap, heap'.majors[n + 1].minors[1].size)
  <2>1. PICK g, k, l : /\ Takes(heap, g, size) /\ HeapOK(g) /\ At(g, k, l)
                       /\ Frees(g, heap', k, l)
    BY <1>4, <1>8, ReallocMoves
  <2>2. HeapCore(g) /\ g \in HeapRecord
    BY <2>1 DEF HeapOK, HeapCore
  <2>3. PICK d : d = Len(g.majors) /\ d \in Nat
    BY <2>2, RecordFields
  <2>4. d = n \/ Grown(heap, g)
    BY <1>1, <1>3, <2>1, <2>3, TakesGrows
  <2>5. m = d - 1 \/ (/\ m = d /\ Len(g.majors[k].minors) > 1
                      /\ \A e \in 1..d : e # k => heap'.majors[e] = g.majors[e])
    BY <1>3, <2>1, <2>2, <2>3, FreesShrinks
  <2>6. d # n
    BY <1>3, <2>3, <2>5
  <2>7. Grown(heap, g) /\ d = n + 1 /\ Len(g.majors[n + 1].minors) = 1
    BY <1>3, <2>3, <2>4, <2>6 DEF Grown
  <2>8. /\ m = d /\ Len(g.majors[k].minors) > 1
        /\ \A e \in 1..d : e # k => heap'.majors[e] = g.majors[e]
    BY <1>3, <2>5, <2>7
  <2>9. n + 1 # k /\ n + 1 \in 1..d
    <3>1. ~(1 > 1)
      OBVIOUS
    <3>2. n + 1 # k
      BY <2>7, <2>8, <3>1
    <3>3. n + 1 \in 1..(n + 1)
      BY <1>3
    <3> QED BY <2>7, <3>2, <3>3
  <2>10. heap'.majors[n + 1] = g.majors[n + 1]
    BY <2>8, <2>9
  <2> QED BY <1>3, <2>7, <2>8, <2>10 DEF Grown
<1> QED BY <1>3, <1>4, <1>5, <1>6, <1>7, <1>8 DEF HeapNext, kmalloc_fails

\* kmalloc() asks the system for pages only when no gap of any major has the
\* room for the request and its header, although the walk may begin at the
\* best bet, in the middle of the list.
THEOREM GrowsWhenFull == HeapSpec => GrowsOnlyWhenFull
<1> DEFINE A == Len(heap'.majors) > Len(heap.majors) =>
                  \A maj \in SetOf(heap.majors) :
                    \A i \in 0..Len(maj.minors) :
                      GapEnd(maj, i) - GapStart(maj, i)
                        < Last(heap'.majors).minors[1].size + MinorHeader
<1>1. HeapInv /\ [HeapNext]_heapVars => [A]_heapVars
  <2> SUFFICES ASSUME HeapInv, HeapNext, Len(heap'.majors) > Len(heap.majors),
                      NEW maj \in SetOf(heap.majors), NEW i \in 0..Len(maj.minors)
               PROVE  GapEnd(maj, i) - GapStart(maj, i)
                        < Last(heap'.majors).minors[1].size + MinorHeader
    OBVIOUS
  <2>1. PICK k \in 1..Len(heap.majors) : heap.majors[k] = maj
    BY ListIs
  <2>2. /\ Len(heap'.majors) = Len(heap.majors) + 1
        /\ FullFor(heap, heap'.majors[Len(heap.majors) + 1].minors[1].size)
    BY GrowthStep DEF Grown
  <2>3. Last(heap'.majors) = heap'.majors[Len(heap.majors) + 1]
    BY <2>2 DEF Last
  <2> QED BY <2>1, <2>2, <2>3 DEF FullFor
<1>2. GrowsOnlyWhenFull <=> [][A]_heapVars
  BY DEF GrowsOnlyWhenFull
<1> QED BY <1>1, <1>2, HeapSafe, PTL DEF HeapSpec
=============================================================================
