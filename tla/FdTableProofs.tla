--------------------------- MODULE FdTableProofs ---------------------------
(***************************************************************************)
(* The reference counts of process.c's descriptor tables, for every number *)
(* of processes, tables and descriptors and every capacity.                *)
(*                                                                         *)
(* FdInv adds to the checked invariants why a blocked read() is safe: as   *)
(* long as its table is not shared, the reader is the table's only user,   *)
(* and the entry it reads is still in one of the slots.                    *)
(*                                                                         *)
(* Then what descriptors lead to, the nodes and objects of fs.c and        *)
(* tmpfs.c, for every archive, all paths and any number of objects.        *)
(***************************************************************************)
EXTENDS FdTable, Vfs, Facts, FiniteSetTheorems, SequenceTheorems, TLAPS

-----------------------------------------------------------------------------
(* Counting slots.                                                          *)

Pairs(t, S) == {<<t, i>> : i \in S}

\* A set of slots has as many members as it has pairs with one table.
LEMMA PairsCount ==
  ASSUME NEW t, NEW S, IsFiniteSet(S)
  PROVE  IsFiniteSet(Pairs(t, S)) /\ Cardinality(Pairs(t, S)) = Cardinality(S)
<1> DEFINE f == [i \in S |-> <<t, i>>]
           P == Pairs(t, S)
<1>1. f \in Bijection(S, P)
  BY DEF Pairs, Bijection, Injection, Surjection, IsInjective
<1>2. ExistsBijection(S, P)
  BY <1>1 DEF ExistsBijection
<1> QED BY <1>2, FS_Bijection

-----------------------------------------------------------------------------
(* One table.                                                               *)

TableType == [entries: [Slot -> Entry \cup {NULL}],
              length: 0..MaxCapacity, capacity: 0..MaxCapacity,
              __refcount: 0..Cardinality(Process)]

\* Every used slot of tb lies within its length, and that within its capacity.
Reachable(tb) == /\ \A i \in Used(tb) : i <= tb.length
                 /\ tb.length <= tb.capacity

\* r is tb, but for slot k, which holds e, and for slots that were emptied.
Placed(tb, r, k, e) ==
  /\ r \in TableType /\ Reachable(r) /\ r.__refcount = tb.__refcount
  /\ k \in Slot /\ r.entries[k] = e
  /\ \A i \in Slot \ {k} : r.entries[i] \in {tb.entries[i], NULL}

\* fd_table_realloc() to a capacity that holds the first length slots.
LEMMA ReallocFacts ==
  ASSUME FdAssumption, NEW tb \in TableType, NEW c \in 0..MaxCapacity
  PROVE  LET g == fd_table_realloc(tb, c) IN
         /\ g.length = tb.length /\ g.capacity = c
         /\ g.__refcount = tb.__refcount /\ g \in TableType
         /\ \A i \in Slot : g.entries[i] = IF i < tb.length THEN tb.entries[i] ELSE NULL
<1> DEFINE g == fd_table_realloc(tb, c)
           kept == [i \in Slot |-> IF i < tb.length THEN tb.entries[i] ELSE NULL]
<1>1. g = [[tb EXCEPT !.capacity = c] EXCEPT !.entries = kept]
  BY DEF fd_table_realloc, TableType
<1>2. kept \in [Slot -> Entry \cup {NULL}]
  BY DEF TableType
<1> HIDE DEF g, kept
<1>3. /\ g.length = tb.length /\ g.capacity = c
      /\ g.__refcount = tb.__refcount /\ g.entries = kept
  BY <1>1 DEF TableType
<1>4. g \in TableType
  BY <1>1, <1>2 DEF TableType
<1> QED BY <1>3, <1>4 DEF kept, g

\* fd_table_set(): inside the array, or right behind the one it moves to.
LEMMA SetPlaces ==
  ASSUME FdAssumption, NEW tb \in TableType, Reachable(tb),
         NEW i \in Slot, NEW e \in Entry \cup {NULL}, e # NULL \/ i < tb.capacity
  PROVE  Placed(tb, fd_table_set(tb, i, e), i, e)
<1> DEFINE r == fd_table_set(tb, i, e)
<1>1. MaxCapacity \in Nat /\ Slot = 0..MaxCapacity /\ NULL \notin Entry
  BY DEF FdAssumption, Slot
<1>2. PICK room : room = IF i < tb.capacity THEN tb ELSE fd_table_realloc(tb, i)
  OBVIOUS
<1>3. /\ room \in TableType /\ room.length = tb.length
      /\ room.__refcount = tb.__refcount
      /\ room.capacity = IF i < tb.capacity THEN tb.capacity ELSE i
      /\ \A j \in Slot : room.entries[j] \in {tb.entries[j], NULL}
  <2>1. CASE i < tb.capacity
    BY <1>2, <2>1
  <2>2. CASE ~(i < tb.capacity)
    <3>1. room = fd_table_realloc(tb, i) /\ i \in 0..MaxCapacity
      BY <1>1, <1>2, <2>2
    <3>2. /\ room.length = tb.length /\ room.capacity = i
          /\ room.__refcount = tb.__refcount /\ room \in TableType
          /\ \A j \in Slot : room.entries[j] = IF j < tb.length THEN tb.entries[j] ELSE NULL
      BY <3>1, ReallocFacts
    <3> QED BY <2>2, <3>2
  <2> QED BY <2>1, <2>2
<1>4. /\ r.entries = [room.entries EXCEPT ![i] = e]
      /\ r.capacity = room.capacity /\ r.__refcount = tb.__refcount
      /\ r.length \in {tb.length, i} /\ r.length >= tb.length
      /\ e # NULL => r.length >= i
      /\ r \in TableType
  <2>1. CASE e = NULL
    <3>1. r = [room EXCEPT !.entries = [room.entries EXCEPT ![i] = NULL]]
      BY <1>2, <2>1 DEF fd_table_set
    <3>2. [room.entries EXCEPT ![i] = NULL] \in [Slot -> Entry \cup {NULL}]
      BY <1>3 DEF TableType
    <3> DEFINE es == [room.entries EXCEPT ![i] = NULL]
    <3> HIDE DEF r, es
    <3>3. r = [room EXCEPT !.entries = es] /\ es \in [Slot -> Entry \cup {NULL}]
      BY <3>1, <3>2 DEF es
    <3>4. /\ r.entries = es /\ r.capacity = room.capacity
          /\ r.__refcount = tb.__refcount /\ r.length = tb.length
      BY <1>3, <3>3 DEF TableType
    <3>5. r \in TableType
      BY <1>3, <3>3 DEF TableType
    <3>6. tb.length \in Nat
      BY <1>1 DEF TableType
    <3> QED BY <2>1, <3>4, <3>5, <3>6 DEF es
  <2>2. CASE e # NULL
    <3> DEFINE es == [room.entries EXCEPT ![i] = e]
               n == IF room.length < i THEN i ELSE room.length
    <3>1. r = [room EXCEPT !.entries = es, !.length = n]
      BY <1>2, <1>3, <2>2 DEF fd_table_set, TableType
    <3>2. es \in [Slot -> Entry \cup {NULL}]
      BY <1>3 DEF TableType
    <3>3. n \in 0..MaxCapacity /\ n \in {tb.length, i} /\ n >= tb.length /\ n >= i
      BY <1>1, <1>3 DEF TableType
    <3> HIDE DEF es, n, r
    <3>4. /\ r.entries = es /\ r.capacity = room.capacity
          /\ r.__refcount = tb.__refcount /\ r.length = n
      BY <1>3, <3>1 DEF TableType
    <3>5. r \in TableType
      BY <1>3, <3>1, <3>2, <3>3 DEF TableType
    <3> QED BY <3>3, <3>4, <3>5 DEF es
  <2> QED BY <2>1, <2>2
<1> HIDE DEF r
<1>5. r.entries[i] = e /\ \A j \in Slot \ {i} : r.entries[j] \in {tb.entries[j], NULL}
  BY <1>3, <1>4 DEF TableType
<1>6. Reachable(r)
  <2>1. /\ tb.length \in Nat /\ tb.capacity \in Nat /\ tb.length <= tb.capacity
        /\ \A j \in Slot : tb.entries[j] # NULL => j <= tb.length
        /\ i \in Nat /\ r.length \in Nat
    BY <1>1, <1>4 DEF Reachable, Used, TableType
  <2>2. r.length <= r.capacity
    BY <1>3, <1>4, <2>1
  <2>3. ASSUME NEW j \in Slot, r.entries[j] # NULL PROVE j <= r.length
    <3>1. CASE j = i
      BY <1>4, <1>5, <2>3, <3>1
    <3>2. CASE j # i
      <4>1. j <= tb.length /\ j \in Nat
        BY <1>1, <1>5, <2>1, <2>3, <3>2
      <4> QED BY <1>4, <2>1, <4>1
    <3> QED BY <3>1, <3>2
  <2> QED BY <2>2, <2>3 DEF Reachable, Used
<1> QED BY <1>4, <1>5, <1>6 DEF Placed, r

\* fd_table_append() on a table without a gap and with room for another slot.
LEMMA AddLastFacts ==
  ASSUME MaxCapacity \in Nat, NEW tb \in TableType, tb.length < MaxCapacity, NEW e \in Entry
  PROVE  LET r == AddLast(tb, e) IN
         /\ r.length = tb.length + 1 /\ r.capacity = tb.capacity
         /\ r.__refcount = tb.__refcount /\ r \in TableType
         /\ r.entries = [tb.entries EXCEPT ![tb.length] = e]
<1> DEFINE added == [tb.entries EXCEPT ![tb.length] = e]
           r == AddLast(tb, e)
<1>1. r = [[tb EXCEPT !.entries = added] EXCEPT !.length = tb.length + 1]
  BY DEF AddLast, TableType
<1>2. added \in [Slot -> Entry \cup {NULL}]
  BY DEF TableType
<1>3. tb.length + 1 \in 0..MaxCapacity
  BY DEF TableType
<1> HIDE DEF added, r
<1>4. /\ r.length = tb.length + 1 /\ r.capacity = tb.capacity
      /\ r.__refcount = tb.__refcount /\ r.entries = added
  BY <1>1 DEF TableType
<1>5. r \in TableType
  BY <1>1, <1>2, <1>3 DEF TableType
<1> QED BY <1>4, <1>5 DEF r, added

\* fd_table_append(): a gap, a grown array or the slot at length.
LEMMA AppendPlaces ==
  ASSUME FdAssumption, NEW tb \in TableType, Reachable(tb), MayAppend(tb),
         NEW e \in Entry
  PROVE  \E k \in Slot : Placed(tb, fd_table_append(tb, e), k, e)
<1>1. /\ MaxCapacity \in Nat /\ Slot = 0..MaxCapacity /\ NULL \notin Entry
      /\ Growth \in Nat \ {0}
  BY DEF FdAssumption, Slot
<1>2. /\ tb.length \in Nat /\ tb.capacity \in Nat /\ tb.length <= tb.capacity
      /\ tb.capacity <= MaxCapacity /\ tb.entries \in [Slot -> Entry \cup {NULL}]
      /\ \A i \in Slot : tb.entries[i] # NULL => i <= tb.length
  BY <1>1 DEF TableType, Reachable, Used
<1>3. CASE Gaps(tb) # {}
  <2>1. Gaps(tb) \in SUBSET Nat
    BY <1>2 DEF Gaps
  <2>2. PICK k : k = Min(Gaps(tb))
    OBVIOUS
  <2>3. k \in Gaps(tb)
    BY <1>3, <2>1, <2>2, MinFacts
  <2>4. k \in Slot /\ k < tb.length
    BY <1>1, <1>2, <2>3 DEF Gaps
  <2>5. fd_table_append(tb, e) = [tb EXCEPT !.entries[k] = e]
    BY <1>3, <2>2 DEF fd_table_append, FillGap
  <2> DEFINE es == [tb.entries EXCEPT ![k] = e]
             r == fd_table_append(tb, e)
  <2>6. r = [tb EXCEPT !.entries = es] /\ es \in [Slot -> Entry \cup {NULL}]
    BY <1>2, <2>5
  <2> HIDE DEF es, r
  <2>7. /\ r.length = tb.length /\ r.capacity = tb.capacity
        /\ r.__refcount = tb.__refcount /\ r.entries = es
    BY <2>6 DEF TableType
  <2>8. r \in TableType
    BY <2>6 DEF TableType
  <2>9. es[k] = e /\ \A i \in Slot \ {k} : es[i] = tb.entries[i]
    BY <1>2, <2>4 DEF es
  <2>10. Reachable(r)
    BY <1>1, <1>2, <2>4, <2>7, <2>9 DEF Reachable, Used
  <2> QED BY <2>4, <2>7, <2>8, <2>9, <2>10 DEF Placed, r
<1>4. CASE Gaps(tb) = {} /\ Full(tb)
  <2> DEFINE g == fd_table_realloc(tb, tb.capacity + Growth)
             r == AddLast(g, e)
  <2>1. /\ tb.length = tb.capacity /\ tb.capacity + Growth <= MaxCapacity
        /\ tb.length \in Slot /\ tb.length < MaxCapacity
    BY <1>1, <1>2, <1>4 DEF Full, MayAppend
  <2>2. /\ g.length = tb.length /\ g.capacity = tb.capacity + Growth
        /\ g.__refcount = tb.__refcount /\ g \in TableType
        /\ \A i \in Slot : g.entries[i] = IF i < tb.length THEN tb.entries[i] ELSE NULL
    <3>1. tb.capacity + Growth \in 0..MaxCapacity
      BY <1>1, <1>2, <2>1
    <3> QED BY <3>1, ReallocFacts
  <2> HIDE DEF g
  <2>3. /\ r.length = g.length + 1 /\ r.capacity = g.capacity
        /\ r.__refcount = g.__refcount /\ r \in TableType
        /\ r.entries = [g.entries EXCEPT ![g.length] = e]
    BY <1>1, <1>2, <2>1, <2>2, AddLastFacts
  <2> HIDE DEF r
  <2>4. Reachable(r)
    BY <1>1, <1>2, <2>1, <2>2, <2>3 DEF Reachable, Used, TableType
  <2>5. Placed(tb, r, tb.length, e)
    BY <1>1, <1>2, <2>1, <2>2, <2>3, <2>4 DEF Placed, TableType
  <2>6. fd_table_append(tb, e) = r
    BY <1>4 DEF fd_table_append, r, g
  <2> QED BY <2>1, <2>5, <2>6
<1>5. CASE Gaps(tb) = {} /\ ~Full(tb)
  <2> DEFINE r == AddLast(tb, e)
  <2>1. tb.length < tb.capacity /\ tb.length \in Slot /\ tb.length < MaxCapacity
    BY <1>1, <1>2, <1>5 DEF Full
  <2>2. /\ r.length = tb.length + 1 /\ r.capacity = tb.capacity
        /\ r.__refcount = tb.__refcount /\ r \in TableType
        /\ r.entries = [tb.entries EXCEPT ![tb.length] = e]
    BY <1>1, <1>2, <2>1, AddLastFacts
  <2> HIDE DEF r
  <2>3. Reachable(r)
    BY <1>1, <1>2, <2>1, <2>2 DEF Reachable, Used, TableType
  <2>4. Placed(tb, r, tb.length, e)
    BY <1>1, <1>2, <2>1, <2>2, <2>3 DEF Placed, TableType
  <2>5. fd_table_append(tb, e) = r
    BY <1>5 DEF fd_table_append, r
  <2> QED BY <2>1, <2>4, <2>5
<1> QED BY <1>3, <1>4, <1>5

\* The tables that fd_table_clone() passes through: each slot is empty or the
\* original's, within the slots that have been copied.
CopyOf(tb, r, n) ==
  /\ r \in TableType /\ Reachable(r) /\ r.__refcount = 1
  /\ \A i \in Slot : r.entries[i] = NULL \/ (i < n /\ r.entries[i] = tb.entries[i])

\* One round of fd_table_clone(), behind the array or not.
LEMMA CopyOne ==
  ASSUME FdAssumption, NEW tb \in TableType, NEW r, NEW n \in 1..MaxCapacity,
         CopyOf(tb, r, n - 1)
  PROVE  CopyOf(tb, fd_table_set(r, n - 1, tb.entries[n - 1]), n)
<1>1. /\ MaxCapacity \in Nat /\ n - 1 \in Slot /\ NULL \notin Entry
      /\ Slot \subseteq Nat /\ n \in Nat
  BY DEF FdAssumption, Slot
<1>2. PICK e : e = tb.entries[n - 1] /\ e \in Entry \cup {NULL}
  BY <1>1 DEF TableType
<1>3. r \in TableType /\ Reachable(r) /\ r.__refcount = 1
  BY DEF CopyOf
<1>4. CASE e # NULL \/ n - 1 < r.capacity
  <2>1. PICK q : q = fd_table_set(r, n - 1, e)
    OBVIOUS
  <2>2. Placed(r, q, n - 1, e)
    BY <1>1, <1>2, <1>3, <1>4, <2>1, SetPlaces
  <2>3. q \in TableType /\ Reachable(q) /\ q.__refcount = 1
    BY <1>3, <2>2 DEF Placed
  <2>4. ASSUME NEW i \in Slot
        PROVE  q.entries[i] = NULL \/ (i < n /\ q.entries[i] = tb.entries[i])
    <3>1. CASE i = n - 1
      BY <1>1, <1>2, <2>2, <3>1 DEF Placed
    <3>2. CASE i # n - 1
      <4>1. q.entries[i] = NULL \/ q.entries[i] = r.entries[i]
        BY <2>2, <3>2 DEF Placed
      <4>2. r.entries[i] = NULL \/ (i < n - 1 /\ r.entries[i] = tb.entries[i])
        BY DEF CopyOf
      <4>3. i \in Nat
        BY <1>1
      <4> QED BY <1>1, <4>1, <4>2, <4>3
    <3> QED BY <3>1, <3>2
  <2> QED BY <1>2, <2>1, <2>3, <2>4 DEF CopyOf
<1>5. CASE e = NULL /\ ~(n - 1 < r.capacity)
  <2>1. fd_table_set(r, n - 1, e) = r
    BY <1>5 DEF fd_table_set
  <2>2. \A i \in Slot : i < n - 1 => i < n
    BY <1>1
  <2> QED BY <1>2, <2>1, <2>2 DEF CopyOf
<1> QED BY <1>4, <1>5

\* fd_table_clone(): every slot of the copy is the original's or empty.
LEMMA CloneReachable ==
  ASSUME FdAssumption, NEW tb \in TableType, Cardinality(Process) \in Nat \ {0}
  PROVE  CopyOf(tb, fd_table_clone(tb), tb.length)
<1>1. PICK m : m = tb.length /\ m \in Nat /\ m <= MaxCapacity /\ MaxCapacity \in Nat
  BY DEF TableType, FdAssumption
<1>2. CopyOf(tb, fd_table_new, 0)
  <2>1. /\ 1 \in 0..Cardinality(Process) /\ 0 \in 0..MaxCapacity
        /\ Capacity \in 0..MaxCapacity
    BY DEF FdAssumption
  <2>2. [i \in Slot |-> NULL] \in [Slot -> Entry \cup {NULL}]
    OBVIOUS
  <2> QED BY <2>1, <2>2 DEF CopyOf, fd_table_new, TableType, Reachable, Used
<1>3. PICK base : base = fd_table_new /\ CopyOf(tb, base, 0)
  BY <1>2
<1> DEFINE Def(c, k) ==
             c = [n \in 0..k |-> IF n = 0 THEN base
                                 ELSE fd_table_set(c[n - 1], n - 1, tb.entries[n - 1])]
           G == {k \in 0..m : \E c : Def(c, k)}
<1>4. ASSUME NEW k \in 0..m, k # 0 => k - 1 \in G PROVE k \in G
  <2>1. CASE k = 0
    <3>1. PICK c : c = [n \in 0..k |-> base]
      OBVIOUS
    <3>2. \A n \in 0..k : n = 0
      BY <2>1
    <3>3. Def(c, k)
      BY <3>1, <3>2
    <3> QED BY <3>3
  <2>2. CASE k # 0
    <3>1. PICK d : Def(d, k - 1)
      BY <1>4, <2>2
    <3>2. PICK c : c = [n \in 0..k |-> IF n = k THEN fd_table_set(d[k - 1], k - 1, tb.entries[k - 1])
                                       ELSE d[n]]
      OBVIOUS
    <3>3. ASSUME NEW n \in 0..k
          PROVE  c[n] = IF n = 0 THEN base
                        ELSE fd_table_set(c[n - 1], n - 1, tb.entries[n - 1])
      <4>1. n # 0 => n - 1 \in 0..k /\ n - 1 # k
        BY <1>1
      <4>2. n # k => n \in 0..(k - 1)
        BY <1>1
      <4>3. CASE n = k
        BY <2>2, <3>2, <4>1, <4>3
      <4>4. CASE n # k
        <5>1. d[n] = IF n = 0 THEN base
                     ELSE fd_table_set(d[n - 1], n - 1, tb.entries[n - 1])
          BY <3>1, <4>2, <4>4
        <5> QED BY <3>2, <4>1, <4>4, <5>1
      <4> QED BY <4>3, <4>4
    <3>4. Def(c, k)
      <4>1. c = [n \in 0..k |-> c[n]]
        BY <3>2
      <4> QED BY <3>3, <4>1
    <3> QED BY <3>4
  <2> QED BY <2>1, <2>2
<1>5. m \in G
  <2> HIDE DEF G
  <2>1. Forwards(m, G)
    BY <1>4 DEF Forwards
  <2> QED BY <1>1, <2>1, StepInduction
<1>6. PICK s : s = CHOOSE c : Def(c, m)
  OBVIOUS
<1>7. Def(s, m)
  BY <1>5, <1>6
<1>8. fd_table_clone(tb) = s[m]
  BY <1>1, <1>3, <1>6, Zenon DEF fd_table_clone
<1>9. /\ s[0] = base
      /\ \A k \in 1..m : s[k] = fd_table_set(s[k - 1], k - 1, tb.entries[k - 1])
  BY <1>1, <1>7
<1> HIDE DEF Def
<1>10. m \in {k \in 0..m : CopyOf(tb, s[k], k)}
  <2> DEFINE H == {k \in 0..m : CopyOf(tb, s[k], k)}
  <2>1. ASSUME NEW k \in 0..m, k # 0 => k - 1 \in H PROVE k \in H
    <3>1. CASE k = 0
      BY <1>1, <1>3, <1>9, <3>1
    <3>2. CASE k # 0
      <4>1. k \in 1..m /\ k \in 1..MaxCapacity /\ CopyOf(tb, s[k - 1], k - 1)
        BY <1>1, <2>1, <3>2
      <4>2. CopyOf(tb, fd_table_set(s[k - 1], k - 1, tb.entries[k - 1]), k)
        BY <4>1, CopyOne
      <4> QED BY <1>9, <4>1, <4>2
    <3> QED BY <3>1, <3>2
  <2> HIDE DEF H
  <2>2. Forwards(m, H)
    BY <2>1 DEF Forwards
  <2>3. m \in H
    BY <1>1, <2>2, StepInduction
  <2> QED BY <2>3 DEF H
<1> QED BY <1>1, <1>8, <1>10

-----------------------------------------------------------------------------
(* The inductive invariant.                                                 *)

Users(t) == {p \in Process : fd_table[p] = t}

SlotsOf(e) == {x \in Live \X Slot : table[x[1]].entries[x[2]] = e}

\* A blocked read() keeps its table, and unless that is shared a slot of it
\* still refers to what is read.
ReadersHold ==
  \A p \in Process : reading[p] # NULL =>
    /\ fd_table[p] # NULL
    /\ fd_table[p] \notin shared =>
         \E i \in Slot : table[fd_table[p]].entries[i] = reading[p]

\* Two processes use the same table only after clone() shared it.
SharedIsKnown ==
  \A p, q \in Process : p # q /\ fd_table[p] = fd_table[q] /\ fd_table[p] # NULL
                         => fd_table[p] \in shared

FdInv == CountsProtect /\ SlotsReachable /\ ReadersHold /\ SharedIsKnown

\* What the invariant says of one table and of one entry.
LEMMA InvFacts ==
  ASSUME FdAssumption, FdInv
  PROVE  /\ Cardinality(Process) \in Nat
         /\ table \in [Table -> TableType]
         /\ \A t \in Table : /\ IsFiniteSet(Users(t))
                             /\ table[t].__refcount = Cardinality(Users(t))
         /\ \A t \in Live : t \in Table /\ Reachable(table[t])
         /\ \A p \in Process : fd_table[p] # NULL => fd_table[p] \in Live
         /\ \A e \in Entry : /\ IsFiniteSet(SlotsOf(e)) /\ refcount[e] \in Nat
                             /\ Cardinality(SlotsOf(e)) <= refcount[e]
<1>1. Cardinality(Process) \in Nat
  BY FS_CardinalityType DEF FdAssumption
<1>2. table \in [Table -> TableType]
  BY DEF FdInv, CountsProtect, FdTypeOK, TableType
<1>3. ASSUME NEW t \in Table
      PROVE  IsFiniteSet(Users(t)) /\ table[t].__refcount = Cardinality(Users(t))
  <2>1. Users(t) \subseteq Process
    BY DEF Users
  <2>2. IsFiniteSet(Users(t))
    BY <2>1, FS_Subset DEF FdAssumption
  <2> QED BY <2>2 DEF FdInv, CountsProtect, TableRefsExact, Users
<1>4. \A t \in Live : t \in Table /\ Reachable(table[t])
  BY DEF FdInv, SlotsReachable, Live, Reachable
<1>5. ASSUME NEW p \in Process, fd_table[p] # NULL PROVE fd_table[p] \in Live
  <2>1. fd_table[p] \in Table
    BY <1>5 DEF FdInv, CountsProtect, FdTypeOK
  <2>2. PICK U : U = Users(fd_table[p])
    OBVIOUS
  <2>3. p \in U /\ IsFiniteSet(U)
    BY <1>3, <2>1, <2>2 DEF Users
  <2>4. Cardinality(U) \in Nat /\ Cardinality(U) # 0
    BY <2>3, FS_CardinalityType, FS_EmptySet
  <2> QED BY <1>3, <2>1, <2>2, <2>4 DEF Live
<1>6. ASSUME NEW e \in Entry
      PROVE  /\ IsFiniteSet(SlotsOf(e)) /\ refcount[e] \in Nat
             /\ Cardinality(SlotsOf(e)) <= refcount[e]
  <2>1. IsFiniteSet(Slot)
    BY FS_Interval DEF FdAssumption, Slot
  <2>2. Live \subseteq Table
    BY DEF Live
  <2>3. IsFiniteSet(Live)
    BY <2>2, FS_Subset DEF FdAssumption
  <2>4. IsFiniteSet(Live \X Slot)
    BY <2>1, <2>3, FS_Product
  <2>5. SlotsOf(e) \subseteq Live \X Slot
    BY DEF SlotsOf
  <2>6. IsFiniteSet(SlotsOf(e))
    BY <2>4, <2>5, FS_Subset
  <2>7. refcount[e] \in Nat /\ refcount[e] >= Cardinality(SlotsOf(e))
    BY DEF FdInv, CountsProtect, FdTypeOK, RefsCoverSlots, SlotsOf
  <2>8. Cardinality(SlotsOf(e)) \in Nat
    BY <2>6, FS_CardinalityType
  <2> QED BY <2>6, <2>7, <2>8
<1> QED BY <1>1, <1>2, <1>3, <1>4, <1>5, <1>6

-----------------------------------------------------------------------------
(* System calls that change one slot of the caller's table.                 *)

\* The change of slot k of table t from old to e in the counts.
LEMMA OneSlot ==
  ASSUME FdAssumption, FdInv, NEW t \in Live, NEW r, NEW k, NEW e,
         Placed(table[t], r, k, e), table' = [table EXCEPT ![t] = r],
         NEW x \in Entry
  PROVE  LET old == table[t].entries[k]
             n == Cardinality(SlotsOf(x)') IN
         /\ Live' = Live
         /\ n \in Nat /\ n <= refcount[x] + 1
         /\ x # e => n <= refcount[x]
         /\ x = old => n <= refcount[x] /\ refcount[x] > 0
         /\ x = old /\ x # e => n <= refcount[x] - 1
<1> DEFINE S == SlotsOf(x)
           S2 == SlotsOf(x)'
           old == table[t].entries[k]
<1>1. /\ table \in [Table -> TableType] /\ t \in Table
      /\ IsFiniteSet(S) /\ refcount[x] \in Nat /\ Cardinality(S) <= refcount[x]
  BY InvFacts
<1>2. /\ r.__refcount = table[t].__refcount /\ k \in Slot /\ r.entries[k] = e
      /\ \A i \in Slot \ {k} : r.entries[i] \in {table[t].entries[i], NULL}
  BY DEF Placed
<1>3. table'[t] = r /\ \A u \in Table \ {t} : table'[u] = table[u]
  BY <1>1
<1>4. Live' = Live
  BY <1>2, <1>3 DEF Live
<1>5. x # NULL
  BY DEF FdAssumption
<1>6. S2 = {y \in Live \X Slot : table'[y[1]].entries[y[2]] = x}
  BY <1>4 DEF SlotsOf
<1>7. ASSUME NEW y \in S2, y # <<t, k>> PROVE y \in S
  <2>1. PICK u \in Live, i \in Slot : y = <<u, i>>
    BY <1>6
  <2>2. table'[u].entries[i] = x
    BY <1>6, <2>1
  <2>3. CASE u = t
    BY <1>2, <1>3, <1>5, <1>7, <2>1, <2>2, <2>3 DEF SlotsOf
  <2>4. CASE u # t
    <3>1. u \in Table
      BY DEF Live
    <3> QED BY <1>3, <2>1, <2>2, <2>4, <3>1 DEF SlotsOf
  <2> QED BY <2>3, <2>4
<1>8. <<t, k>> \in S2 => x = e
  BY <1>2, <1>3, <1>6
<1>9. x = old => <<t, k>> \in S
  BY <1>2 DEF SlotsOf
<1> HIDE DEF S, S2
<1>10. S2 \subseteq S \cup {<<t, k>>}
  BY <1>7
<1>11. IsFiniteSet(S2) /\ Cardinality(S2) <= refcount[x] + 1
  BY <1>1, <1>10, CountFacts
<1>12. Cardinality(S2) \in Nat
  BY <1>11, FS_CardinalityType
<1>13. x # e => Cardinality(S2) <= refcount[x]
  <2>1. x # e => S2 \subseteq S
    BY <1>7, <1>8
  <2> QED BY <1>1, <2>1, CountFacts
<1>14. x = old => Cardinality(S2) <= refcount[x] /\ refcount[x] > 0
  <2> SUFFICES ASSUME x = old PROVE Cardinality(S2) <= refcount[x] /\ refcount[x] > 0
    OBVIOUS
  <2>1. S2 \subseteq S /\ <<t, k>> \in S
    BY <1>9, <1>10
  <2>2. Cardinality(S2) <= refcount[x]
    BY <1>1, <2>1, CountFacts
  <2>3. Cardinality(S) \in Nat /\ Cardinality(S) # 0
    BY <1>1, <2>1, FS_CardinalityType, FS_EmptySet
  <2>4. refcount[x] > 0
    BY <1>1, <2>3
  <2> QED BY <2>2, <2>4
<1>15. x = old /\ x # e => Cardinality(S2) <= refcount[x] - 1
  <2> SUFFICES ASSUME x = old, x # e PROVE Cardinality(S2) <= refcount[x] - 1
    OBVIOUS
  <2>1. S2 \subseteq S \ {<<t, k>>} /\ <<t, k>> \in S
    BY <1>7, <1>8, <1>9
  <2> QED BY <1>1, <2>1, CountFacts
<1> QED BY <1>4, <1>11, <1>12, <1>13, <1>14, <1>15 DEF S2

\* If the counts follow the slot, the invariant holds again.
LEMMA UpdateStep ==
  ASSUME FdAssumption, FdInv, damaged' \in BOOLEAN, NEW p \in Process, Running(p),
         NEW r, NEW k, NEW e, Placed(Own(p), r, k, e), Update(p, r),
         UNCHANGED <<fd_table, reading, shared>>,
         refcount' \in [Entry -> Nat],
         \A x \in Entry : refcount'[x] >= Cardinality(SlotsOf(x)')
  PROVE  FdInv'
<1> DEFINE t == fd_table[p]
<1>1. /\ t \in Live /\ t \in Table /\ table \in [Table -> TableType]
      /\ fd_table[p] # NULL /\ reading[p] = NULL
  BY InvFacts DEF Running
<1>2. Placed(table[t], r, k, e) /\ table' = [table EXCEPT ![t] = r]
  BY DEF Own, Update
<1> HIDE DEF t
<1>3. table'[t] = r /\ \A u \in Table \ {t} : table'[u] = table[u]
  BY <1>1, <1>2
<1>4. r \in TableType /\ Reachable(r) /\ r.__refcount = table[t].__refcount
  BY <1>2 DEF Placed
<1>5. Live' = Live
  BY <1>3, <1>4 DEF Live
<1>6. CountsProtect'
  <2>1. FdTypeOK'
    <3>1. table' \in [Table -> TableType]
      BY <1>1, <1>2, <1>4
    <3> QED BY <3>1 DEF FdInv, CountsProtect, FdTypeOK, TableType
  <2>2. RefsCoverSlots'
    BY DEF RefsCoverSlots, SlotsOf
  <2>3. TableRefsExact'
    BY <1>3, <1>4 DEF FdInv, CountsProtect, TableRefsExact
  <2> QED BY <2>1, <2>2, <2>3 DEF CountsProtect
<1>7. SlotsReachable'
  <2>1. \A u \in Live : Reachable(table'[u])
    <3> TAKE u \in Live
    <3>1. u \in Table /\ Reachable(table[u])
      BY InvFacts
    <3> QED BY <1>3, <1>4, <3>1
  <2> QED BY <1>5, <2>1 DEF SlotsReachable, Reachable, Used
<1>8. ReadersHold'
  <2> SUFFICES ASSUME NEW q \in Process, reading[q] # NULL
               PROVE  /\ fd_table[q] # NULL
                      /\ fd_table[q] \notin shared =>
                           \E i \in Slot : table'[fd_table[q]].entries[i] = reading[q]
    BY DEF ReadersHold
  <2>1. /\ fd_table[q] # NULL
        /\ fd_table[q] \notin shared =>
             \E i \in Slot : table[fd_table[q]].entries[i] = reading[q]
    BY DEF FdInv, ReadersHold
  <2>2. fd_table[q] \notin shared => fd_table[q] # t
    BY <1>1, <2>1 DEF FdInv, SharedIsKnown, t
  <2>3. fd_table[q] \in Table
    BY <2>1 DEF FdInv, CountsProtect, FdTypeOK
  <2> QED BY <1>3, <2>1, <2>2, <2>3
<1>9. SharedIsKnown'
  BY DEF FdInv, SharedIsKnown
<1> QED BY <1>6, <1>7, <1>8, <1>9 DEF FdInv

\* What fd_table_get() returns is in the slot.
LEMMA GetFacts ==
  ASSUME FdAssumption, FdInv, NEW p \in Process, Running(p), NEW i \in Slot,
         fd_table_get(Own(p), i) # NULL
  PROVE  /\ fd_table_get(Own(p), i) = Own(p).entries[i]
         /\ Own(p).entries[i] \in Entry
<1>1. fd_table[p] \in Live
  BY InvFacts DEF Running
<1>2. Own(p) \in TableType /\ Reachable(Own(p))
  BY <1>1, InvFacts DEF Own
<1>3. fd_table_get(Own(p), i) = Own(p).entries[i]
  BY DEF fd_table_get
<1> QED BY <1>2, <1>3 DEF Reachable, Used, TableType

\* open() and dup(): one more slot, and one more reference, to e.
LEMMA AppendStep ==
  ASSUME FdAssumption, FdInv, damaged' \in BOOLEAN, NEW p \in Process, Running(p), MayAppend(Own(p)),
         NEW e \in Entry, Update(p, fd_table_append(Own(p), e)),
         refcount' = [refcount EXCEPT ![e] = refcount[e] + 1],
         UNCHANGED <<fd_table, reading, shared>>
  PROVE  FdInv'
<1> DEFINE r == fd_table_append(Own(p), e)
<1>1. fd_table[p] \in Live
  BY InvFacts DEF Running
<1>2. Own(p) \in TableType /\ Reachable(Own(p))
  BY <1>1, InvFacts DEF Own
<1>3. PICK k \in Slot : Placed(Own(p), r, k, e)
  BY <1>2, AppendPlaces
<1> HIDE DEF r
<1>4. refcount \in [Entry -> Nat]
  BY DEF FdInv, CountsProtect, FdTypeOK
<1>5. refcount' \in [Entry -> Nat]
  BY <1>4
<1>6. ASSUME NEW x \in Entry PROVE refcount'[x] >= Cardinality(SlotsOf(x)')
  <2>1. table' = [table EXCEPT ![fd_table[p]] = r] /\ Placed(table[fd_table[p]], r, k, e)
    BY <1>3 DEF Update, Own, r
  <2>2. /\ Cardinality(SlotsOf(x)') \in Nat
        /\ Cardinality(SlotsOf(x)') <= refcount[x] + 1
        /\ x # e => Cardinality(SlotsOf(x)') <= refcount[x]
    BY <1>1, <2>1, OneSlot
  <2> QED BY <1>4, <2>2
<1> QED BY <1>3, <1>5, <1>6, UpdateStep DEF r

LEMMA Dup2Step ==
  ASSUME FdAssumption, FdInv, damaged' \in BOOLEAN, NEW p \in Process, NEW i \in Slot, NEW j \in Slot,
         syscall_dup2(p, i, j)
  PROVE  FdInv'
<1> DEFINE e == fd_table_get(Own(p), i)
           old == IF j < Own(p).capacity THEN Own(p).entries[j] ELSE NULL
           r == fd_table_set(Own(p), j, e)
<1>1. Running(p) /\ e # NULL
  BY DEF syscall_dup2
<1>2. fd_table[p] \in Live /\ e \in Entry
  BY <1>1, InvFacts, GetFacts DEF Running
<1>3. Own(p) \in TableType /\ Reachable(Own(p))
  BY <1>2, InvFacts DEF Own
<1>4. Placed(Own(p), r, j, e)
  BY <1>1, <1>2, <1>3, SetPlaces
<1>5. /\ refcount' = [x \in Entry |-> (refcount[x] + (IF x = e THEN 1 ELSE 0))
                                       - (IF x = old THEN 1 ELSE 0)]
      /\ Update(p, r) /\ UNCHANGED <<fd_table, reading, shared>>
  BY DEF syscall_dup2
<1> HIDE DEF e, r
<1>6. refcount \in [Entry -> Nat]
  BY DEF FdInv, CountsProtect, FdTypeOK
<1>7. ASSUME NEW x \in Entry
      PROVE  refcount'[x] \in Nat /\ refcount'[x] >= Cardinality(SlotsOf(x)')
  <2>1. table' = [table EXCEPT ![fd_table[p]] = r] /\ Placed(table[fd_table[p]], r, j, e)
    BY <1>4, <1>5 DEF Update, Own
  <2>2. /\ Cardinality(SlotsOf(x)') \in Nat
        /\ Cardinality(SlotsOf(x)') <= refcount[x] + 1
        /\ x # e => Cardinality(SlotsOf(x)') <= refcount[x]
        /\ x = Own(p).entries[j] =>
             Cardinality(SlotsOf(x)') <= refcount[x] /\ refcount[x] > 0
        /\ x = Own(p).entries[j] /\ x # e => Cardinality(SlotsOf(x)') <= refcount[x] - 1
    BY <1>2, <2>1, OneSlot DEF Own
  <2>4. x = old => x = Own(p).entries[j]
    BY DEF FdAssumption
  <2> HIDE DEF old
  <2>3. refcount'[x] = (refcount[x] + (IF x = e THEN 1 ELSE 0)) - (IF x = old THEN 1 ELSE 0)
    BY <1>5
  <2> QED BY <1>6, <2>2, <2>3, <2>4
<1>8. refcount' \in [Entry -> Nat]
  BY <1>5, <1>7
<1> QED BY <1>1, <1>4, <1>5, <1>7, <1>8, UpdateStep

LEMMA CloseStep ==
  ASSUME FdAssumption, FdInv, damaged' \in BOOLEAN,
         NEW p \in Process, NEW i \in Slot, syscall_close(p, i)
  PROVE  FdInv'
<1> DEFINE e == fd_table_get(Own(p), i)
           r == fd_table_set(Own(p), i, NULL)
           inside == i < Own(p).capacity
           left == IF inside THEN NULL ELSE e
<1>1. Running(p) /\ e # NULL
  BY DEF syscall_close
<1>2. /\ fd_table[p] \in Live /\ e \in Entry /\ e = Own(p).entries[i]
  BY <1>1, InvFacts, GetFacts DEF Running
<1>3. Own(p) \in TableType /\ Reachable(Own(p))
  BY <1>2, InvFacts DEF Own
<1>4. Placed(Own(p), r, i, left)
  <2>1. CASE inside
    BY <1>3, <2>1, SetPlaces
  <2>2. CASE ~inside
    <3>1. r = Own(p)
      BY <2>2 DEF fd_table_set
    <3> QED BY <1>2, <1>3, <2>2, <3>1 DEF Placed
  <2> QED BY <2>1, <2>2
<1>5. /\ refcount' = [refcount EXCEPT ![e] = IF inside THEN refcount[e] - 1 ELSE refcount[e]]
      /\ Update(p, r) /\ UNCHANGED <<fd_table, reading, shared>>
  BY DEF syscall_close
<1> HIDE DEF e, r, inside
<1>6. refcount \in [Entry -> Nat] /\ NULL \notin Entry
  BY DEF FdInv, CountsProtect, FdTypeOK, FdAssumption
<1>7. ASSUME NEW x \in Entry
      PROVE  refcount'[x] \in Nat /\ refcount'[x] >= Cardinality(SlotsOf(x)')
  <2>1. table' = [table EXCEPT ![fd_table[p]] = r] /\ Placed(table[fd_table[p]], r, i, left)
    BY <1>4, <1>5 DEF Update, Own
  <2> HIDE DEF left
  <2>2. /\ Cardinality(SlotsOf(x)') \in Nat
        /\ x # left => Cardinality(SlotsOf(x)') <= refcount[x]
        /\ x = e => Cardinality(SlotsOf(x)') <= refcount[x] /\ refcount[x] > 0
        /\ x = e /\ x # left => Cardinality(SlotsOf(x)') <= refcount[x] - 1
    BY <1>2, <2>1, OneSlot DEF Own
  <2> QED BY <1>2, <1>5, <1>6, <2>2 DEF left
<1>8. refcount' \in [Entry -> Nat]
  BY <1>5, <1>6, <1>7
<1> QED BY <1>1, <1>4, <1>5, <1>7, <1>8, UpdateStep

-----------------------------------------------------------------------------
(* clone() and exit().                                                      *)

\* A table gains or loses a user, with its other fields as they were.
LEMMA RefcountStep ==
  ASSUME FdAssumption, FdInv, NEW t \in Live, NEW n \in 1..Cardinality(Process),
         table' = [table EXCEPT ![t] = [table[t] EXCEPT !.__refcount = n]],
         UNCHANGED refcount
  PROVE  /\ table' \in [Table -> TableType] /\ Live' = Live
         /\ \A u \in Table : /\ table'[u].entries = table[u].entries
                             /\ table'[u].length = table[u].length
                             /\ table'[u].capacity = table[u].capacity
                             /\ table'[u].__refcount = IF u = t THEN n ELSE table[u].__refcount
         /\ RefsCoverSlots' /\ SlotsReachable'
<1> DEFINE r == [table[t] EXCEPT !.__refcount = n]
<1>1. table \in [Table -> TableType] /\ t \in Table /\ Cardinality(Process) \in Nat
  BY InvFacts
<1>2. table[t] \in TableType
  BY <1>1
<1>3. /\ r.entries = table[t].entries /\ r.length = table[t].length
      /\ r.capacity = table[t].capacity /\ r.__refcount = n
      /\ r \in TableType
  BY <1>1, <1>2 DEF TableType
<1>4. table' = [table EXCEPT ![t] = r]
  OBVIOUS
<1> HIDE DEF r
<1>5. table' \in [Table -> TableType]
  BY <1>1, <1>3, <1>4
<1>6. \A u \in Table : /\ table'[u].entries = table[u].entries
                       /\ table'[u].length = table[u].length
                       /\ table'[u].capacity = table[u].capacity
                       /\ table'[u].__refcount = IF u = t THEN n ELSE table[u].__refcount
  BY <1>1, <1>3, <1>4
<1>7. Live' = Live
  BY <1>1, <1>6 DEF Live
<1>8. RefsCoverSlots'
  <2>1. ASSUME NEW e \in Entry PROVE SlotsOf(e)' = SlotsOf(e)
    <3>1. \A u \in Live : table'[u].entries = table[u].entries
      BY <1>6 DEF Live
    <3>2. \A y \in Live \X Slot : table'[y[1]].entries[y[2]] = table[y[1]].entries[y[2]]
      BY <3>1
    <3> QED BY <1>7, <3>2 DEF SlotsOf
  <2> QED BY <2>1 DEF FdInv, CountsProtect, RefsCoverSlots, SlotsOf
<1>9. SlotsReachable'
  BY <1>6, <1>7 DEF FdInv, SlotsReachable, Used, Live
<1> QED BY <1>5, <1>6, <1>7, <1>8, <1>9

LEMMA CloneSharedStep ==
  ASSUME FdAssumption, FdInv, damaged' \in BOOLEAN, NEW p \in Process, NEW child \in Process,
         Running(p), fd_table[child] = NULL, CloneShared(p, child), UNCHANGED reading
  PROVE  FdInv'
<1>0. PICK t : t = fd_table[p]
  OBVIOUS
<1> DEFINE n == table[t].__refcount + 1
<1>1. /\ t \in Live /\ t \in Table /\ table \in [Table -> TableType]
      /\ t # NULL /\ Cardinality(Process) \in Nat
  BY <1>0, InvFacts DEF Running
<1>2. /\ fd_table' = [fd_table EXCEPT ![child] = t] /\ shared' = shared \cup {t}
      /\ table' = [table EXCEPT ![t] = [table[t] EXCEPT !.__refcount = n]]
      /\ UNCHANGED refcount
  BY <1>0 DEF CloneShared, Update, Own
<1>3. fd_table \in [Process -> Table \cup {NULL}]
  BY DEF FdInv, CountsProtect, FdTypeOK
<1>4. /\ IsFiniteSet(Users(t)) /\ table[t].__refcount = Cardinality(Users(t))
      /\ Users(t)' = Users(t) \cup {child} /\ child \notin Users(t)
  BY <1>1, <1>2, <1>3, InvFacts DEF Users
<1>5. IsFiniteSet(Users(t)') /\ Cardinality(Users(t)') = n
  BY <1>4, FS_AddElement
<1>6. n \in 1..Cardinality(Process)
  <2>1. Users(t)' \subseteq Process
    BY DEF Users
  <2>2. n <= Cardinality(Process)
    BY <1>5, <2>1, FS_Subset DEF FdAssumption
  <2>3. table[t].__refcount \in Nat
    BY <1>4, FS_CardinalityType
  <2> QED BY <1>1, <2>2, <2>3
<1> HIDE DEF n
<1>7. /\ table' \in [Table -> TableType] /\ Live' = Live
      /\ \A u \in Table : /\ table'[u].entries = table[u].entries
                          /\ table'[u].__refcount = IF u = t THEN n ELSE table[u].__refcount
      /\ RefsCoverSlots' /\ SlotsReachable'
  BY <1>1, <1>2, <1>6, RefcountStep
<1>8. TableRefsExact'
  <2> SUFFICES ASSUME NEW u \in Table PROVE table'[u].__refcount = Cardinality(Users(u)')
    BY DEF TableRefsExact, Users
  <2>1. CASE u = t
    BY <1>5, <1>7, <2>1
  <2>2. CASE u # t
    <3>1. Users(u)' = Users(u)
      BY <1>2, <1>3, <2>2 DEF Users, FdAssumption
    <3> QED BY <1>7, <2>2, <3>1, InvFacts
  <2> QED BY <2>1, <2>2
<1>9. FdTypeOK'
  BY <1>1, <1>2, <1>3, <1>7 DEF FdInv, CountsProtect, FdTypeOK, TableType
<1>10. ReadersHold'
  BY <1>2, <1>3, <1>7 DEF FdInv, ReadersHold
<1>11. SharedIsKnown'
  BY <1>2, <1>3 DEF FdInv, SharedIsKnown
<1> QED BY <1>7, <1>8, <1>9, <1>10, <1>11 DEF FdInv, CountsProtect

\* exit() of one of several users.
LEMMA ExitSharedStep ==
  ASSUME FdAssumption, FdInv, damaged' \in BOOLEAN, NEW p \in Process, Running(p),
         fd_table' = [fd_table EXCEPT ![p] = NULL],
         Own(p).__refcount > 1, Update(p, [Own(p) EXCEPT !.__refcount = @ - 1]),
         UNCHANGED <<refcount, shared, reading>>
  PROVE  FdInv'
<1>0. PICK t : t = fd_table[p]
  OBVIOUS
<1> DEFINE n == table[t].__refcount - 1
<1>1. /\ t \in Live /\ t \in Table /\ table \in [Table -> TableType]
      /\ t # NULL /\ Cardinality(Process) \in Nat /\ reading[p] = NULL
  BY <1>0, InvFacts DEF Running
<1>2. /\ fd_table' = [fd_table EXCEPT ![p] = NULL]
      /\ table' = [table EXCEPT ![t] = [table[t] EXCEPT !.__refcount = n]]
      /\ table[t].__refcount > 1 /\ UNCHANGED refcount
  BY <1>0 DEF Update, Own
<1>3. fd_table \in [Process -> Table \cup {NULL}]
  BY DEF FdInv, CountsProtect, FdTypeOK
<1>4. /\ IsFiniteSet(Users(t)) /\ table[t].__refcount = Cardinality(Users(t))
      /\ Users(t)' = Users(t) \ {p} /\ p \in Users(t)
  BY <1>0, <1>1, <1>2, <1>3, InvFacts DEF Users
<1>5. IsFiniteSet(Users(t)') /\ Cardinality(Users(t)') = n
  BY <1>4, FS_RemoveElement
<1>6. n \in 1..Cardinality(Process)
  <2>1. table[t] \in TableType
    BY <1>1
  <2> QED BY <1>1, <1>2, <2>1 DEF TableType
<1> HIDE DEF n
<1>7. /\ table' \in [Table -> TableType] /\ Live' = Live
      /\ \A u \in Table : /\ table'[u].entries = table[u].entries
                          /\ table'[u].__refcount = IF u = t THEN n ELSE table[u].__refcount
      /\ RefsCoverSlots' /\ SlotsReachable'
  BY <1>1, <1>2, <1>6, RefcountStep
<1>8. TableRefsExact'
  <2> SUFFICES ASSUME NEW u \in Table PROVE table'[u].__refcount = Cardinality(Users(u)')
    BY DEF TableRefsExact, Users
  <2>1. CASE u = t
    BY <1>5, <1>7, <2>1
  <2>2. CASE u # t
    <3>1. Users(u)' = Users(u)
      BY <1>0, <1>2, <1>3, <2>2 DEF Users, FdAssumption
    <3> QED BY <1>7, <2>2, <3>1, InvFacts
  <2> QED BY <2>1, <2>2
<1>9. FdTypeOK'
  BY <1>1, <1>2, <1>3, <1>7 DEF FdInv, CountsProtect, FdTypeOK, TableType
<1>10. ReadersHold'
  BY <1>1, <1>2, <1>3, <1>7 DEF FdInv, ReadersHold
<1>11. SharedIsKnown'
  BY <1>2, <1>3 DEF FdInv, SharedIsKnown
<1> QED BY <1>7, <1>8, <1>9, <1>10, <1>11 DEF FdInv, CountsProtect

\* The slots of one table that fd_table_free() and fd_table_clone() count.
Counted(tb, e) == {i \in Slot : i < tb.length /\ tb.entries[i] = e}

\* A live table's count of e never exceeds the references to e.
LEMMA CountedFacts ==
  ASSUME FdAssumption, NEW t, NEW tb, NEW e, NEW P, P = Pairs(t, Counted(tb, e))
  PROVE  /\ IsFiniteSet(P) /\ Cardinality(P) \in Nat
         /\ Occurrences(tb, e, tb.length) = Cardinality(P)
<1>1. IsFiniteSet(Slot)
  BY FS_Interval DEF FdAssumption, Slot
<1>2. Counted(tb, e) \subseteq Slot
  BY DEF Counted
<1>3. IsFiniteSet(Counted(tb, e))
  BY <1>1, <1>2, FS_Subset
<1>4. IsFiniteSet(P) /\ Cardinality(P) = Cardinality(Counted(tb, e))
  BY <1>3, PairsCount
<1> QED BY <1>4, FS_CardinalityType DEF Occurrences, Counted

\* exit() of the only user frees the table and drops its entries.
LEMMA ExitLastStep ==
  ASSUME FdAssumption, FdInv, damaged' \in BOOLEAN, NEW p \in Process, Running(p),
         fd_table' = [fd_table EXCEPT ![p] = NULL],
         Own(p).__refcount = 1, Update(p, Freed), shared' = shared \ {fd_table[p]},
         refcount' = [e \in Entry |->
                        refcount[e] - Occurrences(Own(p), e, Own(p).length)],
         UNCHANGED reading
  PROVE  FdInv'
<1>0. PICK t : t = fd_table[p]
  OBVIOUS
<1>1. /\ t \in Live /\ t \in Table /\ table \in [Table -> TableType]
      /\ t # NULL /\ Cardinality(Process) \in Nat /\ reading[p] = NULL
      /\ fd_table \in [Process -> Table \cup {NULL}]
  BY <1>0, InvFacts DEF Running, FdInv, CountsProtect, FdTypeOK
<1>2. /\ fd_table' = [fd_table EXCEPT ![p] = NULL] /\ shared' = shared \ {t}
      /\ table' = [table EXCEPT ![t] = Freed] /\ table[t].__refcount = 1
  BY <1>0 DEF Update, Own
<1>3. Users(t) = {p}
  <2>1. /\ IsFiniteSet(Users(t)) /\ Cardinality(Users(t)) = 1 /\ p \in Users(t)
    BY <1>0, <1>1, <1>2, InvFacts DEF Users
  <2>2. PICK U : U = Users(t)
    OBVIOUS
  <2>3. \E x : U = {x}
    BY <2>1, <2>2, FS_Singleton
  <2> QED BY <2>1, <2>2, <2>3
<1>4. Freed \in TableType /\ Freed.__refcount = 0
  <2>1. Capacity \in 0..MaxCapacity
    BY DEF FdAssumption
  <2>2. fd_table_new \in TableType
    <3>1. 1 \in 0..Cardinality(Process)
      <4>1. init \in Process /\ IsFiniteSet(Process)
        BY DEF FdAssumption
      <4>2. Cardinality(Process) # 0
        BY <4>1, FS_EmptySet
      <4> QED BY <1>1, <4>2
    <3>2. 0 \in 0..MaxCapacity
      BY DEF FdAssumption
    <3>3. [i \in Slot |-> NULL] \in [Slot -> Entry \cup {NULL}]
      OBVIOUS
    <3> QED BY <2>1, <3>1, <3>2, <3>3 DEF fd_table_new, TableType
  <2>3. 0 \in 0..Cardinality(Process)
    BY <1>1
  <2> QED BY <2>2, <2>3 DEF Freed, TableType
<1> HIDE DEF Freed
<1>5. table'[t] = Freed /\ \A u \in Table \ {t} : table'[u] = table[u]
  BY <1>1, <1>2
<1>6. Live' = Live \ {t}
  BY <1>1, <1>4, <1>5 DEF Live
<1>7. ASSUME NEW e \in Entry
      PROVE  refcount'[e] \in Nat /\ refcount'[e] >= Cardinality(SlotsOf(e)')
  <2>1. PICK P : P = Pairs(t, Counted(table[t], e))
    OBVIOUS
  <2>2. /\ IsFiniteSet(P) /\ Cardinality(P) \in Nat
        /\ Occurrences(Own(p), e, Own(p).length) = Cardinality(P)
    BY <1>0, <2>1, CountedFacts DEF Own
  <2>3. /\ IsFiniteSet(SlotsOf(e)) /\ refcount[e] \in Nat
        /\ Cardinality(SlotsOf(e)) <= refcount[e]
    BY InvFacts
  <2>4. P \subseteq SlotsOf(e)
    BY <1>1, <2>1 DEF SlotsOf, Counted, Pairs
  <2>5. SlotsOf(e)' \subseteq SlotsOf(e) \ P
    <3> SUFFICES ASSUME NEW y \in SlotsOf(e)' PROVE y \in SlotsOf(e) /\ y \notin P
      OBVIOUS
    <3>1. y \in (Live \ {t}) \X Slot /\ table'[y[1]].entries[y[2]] = e
      BY <1>6 DEF SlotsOf
    <3>2. PICK u \in Live \ {t}, i \in Slot : y = <<u, i>>
      BY <3>1
    <3>3. table[u].entries[i] = e
      BY <1>5, <3>1, <3>2 DEF Live
    <3>4. y \in SlotsOf(e)
      BY <3>2, <3>3 DEF SlotsOf
    <3>5. y \notin P
      BY <2>1, <3>2 DEF Pairs
    <3> QED BY <3>4, <3>5
  <2>6. PICK A, B : A = SlotsOf(e) /\ B = SlotsOf(e)'
    OBVIOUS
  <2>7. IsFiniteSet(B) /\ Cardinality(B) + Cardinality(P) <= Cardinality(A)
    BY <2>2, <2>3, <2>4, <2>5, <2>6, SplitCount
  <2>8. Cardinality(A) \in Nat /\ Cardinality(B) \in Nat
    BY <2>3, <2>6, <2>7, FS_CardinalityType
  <2>9. refcount'[e] = refcount[e] - Cardinality(P)
    BY <2>2
  <2> QED BY <2>2, <2>3, <2>6, <2>7, <2>8, <2>9
<1>8. FdTypeOK'
  <2>1. refcount' \in [Entry -> Nat]
    BY <1>7
  <2>2. table' \in [Table -> TableType]
    BY <1>1, <1>2, <1>4
  <2> QED BY <1>1, <1>2, <2>1, <2>2 DEF FdInv, CountsProtect, FdTypeOK, TableType
<1>9. RefsCoverSlots'
  BY <1>7 DEF RefsCoverSlots, SlotsOf
<1>10. TableRefsExact'
  <2> SUFFICES ASSUME NEW u \in Table PROVE table'[u].__refcount = Cardinality(Users(u)')
    BY DEF TableRefsExact, Users
  <2>1. CASE u = t
    <3>1. Users(u)' = {}
      BY <1>1, <1>2, <1>3, <2>1 DEF Users
    <3> QED BY <1>4, <1>5, <2>1, <3>1, FS_EmptySet
  <2>2. CASE u # t
    <3>1. Users(u)' = Users(u)
      BY <1>0, <1>1, <1>2, <2>2 DEF Users, FdAssumption
    <3> QED BY <1>5, <2>2, <3>1, InvFacts
  <2> QED BY <2>1, <2>2
<1>11. SlotsReachable'
  BY <1>5, <1>6 DEF FdInv, SlotsReachable, Used, Live
<1>12. ReadersHold'
  <2> SUFFICES ASSUME NEW q \in Process, reading[q] # NULL
               PROVE  /\ fd_table'[q] # NULL
                      /\ fd_table'[q] \notin shared' =>
                           \E i \in Slot : table'[fd_table'[q]].entries[i] = reading[q]
    BY DEF ReadersHold
  <2>1. q # p /\ fd_table'[q] = fd_table[q] /\ fd_table[q] # t
    BY <1>1, <1>2, <1>3 DEF Users
  <2>2. /\ fd_table[q] # NULL
        /\ fd_table[q] \notin shared =>
             \E i \in Slot : table[fd_table[q]].entries[i] = reading[q]
    BY DEF FdInv, ReadersHold
  <2> QED BY <1>1, <1>2, <1>5, <2>1, <2>2
<1>13. SharedIsKnown'
  <2> SUFFICES ASSUME NEW q \in Process, NEW w \in Process, q # w,
                      fd_table'[q] = fd_table'[w], fd_table'[q] # NULL
               PROVE  fd_table'[q] \in shared'
    BY DEF SharedIsKnown
  <2>1. /\ q # p /\ w # p /\ fd_table'[q] = fd_table[q] /\ fd_table'[w] = fd_table[w]
    BY <1>1, <1>2
  <2>2. fd_table[q] # t
    BY <1>3, <2>1 DEF Users
  <2> QED BY <1>2, <2>1, <2>2 DEF FdInv, SharedIsKnown
<1> QED BY <1>8, <1>9, <1>10, <1>11, <1>12, <1>13 DEF FdInv, CountsProtect

\* clone() with a copy: a new table, and a reference for every copied slot.
LEMMA CloneCopyStep ==
  ASSUME FdAssumption, FdInv, damaged' \in BOOLEAN, NEW p \in Process, NEW child \in Process,
         Running(p), fd_table[child] = NULL, CloneCopy(p, child), UNCHANGED reading
  PROVE  FdInv'
<1> DEFINE tb == Own(p)
<1>1. PICK t \in Table :
        /\ table[t].__refcount = 0
        /\ table' = [table EXCEPT ![t] = fd_table_clone(tb)]
        /\ fd_table' = [fd_table EXCEPT ![child] = t]
  BY DEF CloneCopy
<1>2. PICK r : r = fd_table_clone(tb)
  OBVIOUS
<1>3. /\ fd_table[p] \in Live /\ table \in [Table -> TableType]
      /\ Cardinality(Process) \in Nat /\ reading[child] = NULL
      /\ fd_table \in [Process -> Table \cup {NULL}]
  BY InvFacts DEF Running, FdInv, CountsProtect, FdTypeOK, ReadersHold
<1>4. /\ r \in TableType /\ Reachable(r) /\ r.__refcount = 1
      /\ \A i \in Slot : r.entries[i] = NULL \/ (i < tb.length /\ r.entries[i] = tb.entries[i])
  <2>1. tb \in TableType
    BY <1>3, InvFacts DEF Own
  <2>2. Cardinality(Process) # 0
    <3>1. init \in Process /\ IsFiniteSet(Process)
      BY DEF FdAssumption
    <3> QED BY <3>1, FS_EmptySet
  <2> HIDE DEF tb
  <2>3. CopyOf(tb, r, tb.length)
    BY <1>2, <1>3, <2>1, <2>2, CloneReachable
  <2> QED BY <2>3 DEF CopyOf
<1>5. table' = [table EXCEPT ![t] = r]
  BY <1>1, <1>2
<1>6. table'[t] = r /\ \A u \in Table \ {t} : table'[u] = table[u]
  BY <1>3, <1>5
<1>7. t \notin Live /\ Live' = Live \cup {t}
  BY <1>1, <1>4, <1>6 DEF Live
<1>8. Users(t) = {}
  <2>1. IsFiniteSet(Users(t)) /\ Cardinality(Users(t)) = 0
    BY <1>1, InvFacts
  <2> QED BY <2>1, FS_EmptySet
<1>9. ASSUME NEW e \in Entry
      PROVE  refcount'[e] \in Nat /\ refcount'[e] >= Cardinality(SlotsOf(e)')
  <2>1. PICK P : P = Pairs(t, Counted(tb, e))
    OBVIOUS
  <2>2. /\ IsFiniteSet(P) /\ Cardinality(P) \in Nat
        /\ Occurrences(tb, e, tb.length) = Cardinality(P)
    BY <2>1, CountedFacts
  <2>3. /\ IsFiniteSet(SlotsOf(e)) /\ refcount[e] \in Nat
        /\ Cardinality(SlotsOf(e)) <= refcount[e]
    BY InvFacts
  <2>4. e # NULL
    BY DEF FdAssumption
  <2>5. SlotsOf(e)' \subseteq SlotsOf(e) \cup P
    <3> SUFFICES ASSUME NEW y \in SlotsOf(e)' PROVE y \in SlotsOf(e) \cup P
      OBVIOUS
    <3>1. y \in (Live \cup {t}) \X Slot /\ table'[y[1]].entries[y[2]] = e
      BY <1>7 DEF SlotsOf
    <3>2. PICK u \in Live \cup {t}, i \in Slot : y = <<u, i>>
      BY <3>1
    <3>3. table'[u].entries[i] = e
      BY <3>1, <3>2
    <3>4. CASE u = t
      <4>1. r.entries[i] = e
        BY <1>6, <3>3, <3>4
      <4>2. i \in Counted(tb, e)
        BY <1>4, <2>4, <4>1 DEF Counted
      <4> QED BY <2>1, <3>2, <3>4, <4>2 DEF Pairs
    <3>5. CASE u # t
      <4>1. u \in Live /\ table[u].entries[i] = e
        BY <1>6, <3>3, <3>5 DEF Live
      <4> QED BY <3>2, <4>1 DEF SlotsOf
    <3> QED BY <3>4, <3>5
  <2>6. PICK A, B, C : A = SlotsOf(e) /\ B = SlotsOf(e)' /\ C = A \cup P
    OBVIOUS
  <2>7. IsFiniteSet(C) /\ Cardinality(C) <= Cardinality(A) + Cardinality(P)
    BY <2>2, <2>3, <2>6, SplitCount
  <2>8. IsFiniteSet(B) /\ Cardinality(B) <= Cardinality(C)
    BY <2>5, <2>6, <2>7, FS_Subset
  <2>9. Cardinality(A) \in Nat /\ Cardinality(B) \in Nat /\ Cardinality(C) \in Nat
    BY <2>3, <2>6, <2>7, <2>8, FS_CardinalityType
  <2>10. refcount'[e] = refcount[e] + Cardinality(P)
    BY <2>2 DEF CloneCopy
  <2> QED BY <2>2, <2>3, <2>6, <2>7, <2>8, <2>9, <2>10
<1>10. FdTypeOK'
  <2>1. refcount' \in [Entry -> Nat]
    BY <1>9 DEF CloneCopy
  <2>2. table' \in [Table -> TableType]
    BY <1>3, <1>4, <1>5
  <2>3. fd_table' \in [Process -> Table \cup {NULL}]
    BY <1>1, <1>3
  <2> QED BY <2>1, <2>2, <2>3 DEF FdInv, CountsProtect, FdTypeOK, TableType, CloneCopy
<1>11. RefsCoverSlots'
  BY <1>9 DEF RefsCoverSlots, SlotsOf
<1>12. TableRefsExact'
  <2> SUFFICES ASSUME NEW u \in Table PROVE table'[u].__refcount = Cardinality(Users(u)')
    BY DEF TableRefsExact, Users
  <2>1. CASE u = t
    <3>1. Users(u)' = {child}
      BY <1>1, <1>3, <1>8, <2>1 DEF Users
    <3> QED BY <1>4, <1>6, <2>1, <3>1, FS_Singleton
  <2>2. CASE u # t
    <3>1. Users(u)' = Users(u)
      BY <1>1, <1>3, <2>2 DEF Users, FdAssumption
    <3> QED BY <1>6, <2>2, <3>1, InvFacts
  <2> QED BY <2>1, <2>2
<1>13. SlotsReachable'
  <2>1. \A u \in Live' : Reachable(table'[u])
    <3> TAKE u \in Live'
    <3>1. CASE u = t
      BY <1>4, <1>6, <3>1
    <3>2. CASE u # t
      <4>1. u \in Live /\ u \in Table /\ Reachable(table[u])
        BY <1>7, <3>2, InvFacts
      <4> QED BY <1>6, <3>2, <4>1
    <3> QED BY <3>1, <3>2
  <2> QED BY <2>1 DEF SlotsReachable, Reachable, Used
<1>14. shared' = shared
  BY DEF CloneCopy
<1>15. ReadersHold'
  <2> SUFFICES ASSUME NEW q \in Process, reading[q] # NULL
               PROVE  /\ fd_table'[q] # NULL
                      /\ fd_table'[q] \notin shared' =>
                           \E i \in Slot : table'[fd_table'[q]].entries[i] = reading[q]
    BY DEF ReadersHold
  <2>1. fd_table'[q] = fd_table[q] /\ fd_table[q] # t
    BY <1>1, <1>3, <1>8 DEF Users
  <2>2. /\ fd_table[q] # NULL
        /\ fd_table[q] \notin shared =>
             \E i \in Slot : table[fd_table[q]].entries[i] = reading[q]
    BY DEF FdInv, ReadersHold
  <2> QED BY <1>3, <1>6, <1>14, <2>1, <2>2
<1>16. SharedIsKnown'
  BY <1>1, <1>3, <1>8, <1>14 DEF FdInv, SharedIsKnown, Users
<1> QED BY <1>10, <1>11, <1>12, <1>13, <1>15, <1>16 DEF FdInv, CountsProtect

-----------------------------------------------------------------------------
(* Every step, and the results.                                             *)

\* process_spawn_init(): three references for the three slots of one table.
LEMMA InitInv ==
  ASSUME FdAssumption, Init
  PROVE  FdInv
<1>1. PICK tty \in Entry, t \in Table :
        /\ table = [u \in Table |-> IF u = t THEN SpawnTable(tty) ELSE Freed]
        /\ refcount = [e \in Entry |-> IF e = tty THEN 3 ELSE 0]
        /\ fd_table = [p \in Process |-> IF p = init THEN t ELSE NULL]
        /\ reading = [p \in Process |-> NULL]
        /\ shared = {} /\ damaged = FALSE
  BY DEF Init
<1>2. PICK r : r = SpawnTable(tty)
  OBVIOUS
<1>3. Cardinality(Process) \in Nat /\ Cardinality(Process) # 0 /\ init \in Process
  <2>1. init \in Process /\ IsFiniteSet(Process)
    BY DEF FdAssumption
  <2> QED BY <2>1, FS_CardinalityType, FS_EmptySet
<1>4. /\ 0 \in Slot /\ 1 \in Slot /\ 2 \in Slot /\ MaxCapacity \in Nat
      /\ Capacity \in 0..MaxCapacity /\ 0 < Capacity /\ 1 < Capacity /\ 2 < Capacity
      /\ NULL \notin Entry /\ NULL \notin Table
  BY DEF FdAssumption, Slot
<1>5. /\ fd_table_new \in TableType /\ Reachable(fd_table_new)
      /\ fd_table_new.capacity = Capacity /\ fd_table_new.__refcount = 1
      /\ \A i \in Slot : fd_table_new.entries[i] = NULL
  <2>1. 1 \in 0..Cardinality(Process) /\ 0 \in 0..MaxCapacity
    BY <1>3, <1>4
  <2>2. [i \in Slot |-> NULL] \in [Slot -> Entry \cup {NULL}]
    OBVIOUS
  <2> QED BY <1>4, <2>1, <2>2 DEF fd_table_new, TableType, Reachable, Used
<1>6. Freed \in TableType /\ Freed.__refcount = 0
  <2>1. 0 \in 0..Cardinality(Process)
    BY <1>3
  <2> QED BY <1>5, <2>1 DEF Freed, TableType
<1> HIDE DEF Freed, fd_table_new
<1>7. /\ r \in TableType /\ Reachable(r) /\ r.__refcount = 1
      /\ \A i \in Slot : r.entries[i] \in {NULL, tty}
      /\ \A i \in Slot : r.entries[i] # NULL => i \in 0..2
  <2>1. PICK a : a = fd_table_set(fd_table_new, 0, tty)
    OBVIOUS
  <2>2. PICK b : b = fd_table_set(a, 1, tty)
    OBVIOUS
  <2>3. r = fd_table_set(b, 2, tty)
    BY <1>2, <2>1, <2>2 DEF SpawnTable
  <2>4. Placed(fd_table_new, a, 0, tty) /\ a.capacity = Capacity
    <3>1. Placed(fd_table_new, a, 0, tty)
      BY <1>4, <1>5, <2>1, SetPlaces
    <3>2. a.capacity = Capacity
      BY <1>4, <1>5, <2>1 DEF fd_table_set, TableType
    <3> QED BY <3>1, <3>2
  <2>5. Placed(a, b, 1, tty) /\ b.capacity = Capacity
    <3>1. a \in TableType /\ Reachable(a)
      BY <2>4 DEF Placed
    <3>2. Placed(a, b, 1, tty)
      BY <1>4, <2>2, <2>4, <3>1, SetPlaces
    <3>3. b.capacity = Capacity
      BY <1>4, <2>2, <2>4, <3>1 DEF fd_table_set, TableType
    <3> QED BY <3>2, <3>3
  <2>6. Placed(b, r, 2, tty)
    <3>1. b \in TableType /\ Reachable(b)
      BY <2>5 DEF Placed
    <3> QED BY <1>4, <2>3, <2>5, <3>1, SetPlaces
  <2>7. \A i \in Slot : r.entries[i] \in {NULL, tty}
    BY <1>5, <2>4, <2>5, <2>6 DEF Placed
  <2>8. \A i \in Slot \ {0, 1, 2} : r.entries[i] = NULL
    BY <1>5, <2>4, <2>5, <2>6 DEF Placed
  <2> QED BY <1>5, <2>4, <2>5, <2>6, <2>7, <2>8 DEF Placed
<1>8. table = [u \in Table |-> IF u = t THEN r ELSE Freed]
  BY <1>1, <1>2
<1>9. Live = {t}
  BY <1>6, <1>7, <1>8 DEF Live
<1>10. FdTypeOK
  <2>1. table \in [Table -> TableType]
    BY <1>6, <1>7, <1>8
  <2> QED BY <1>1, <2>1 DEF FdTypeOK, TableType
<1>11. RefsCoverSlots
  <2> SUFFICES ASSUME NEW e \in Entry PROVE refcount[e] >= Cardinality(SlotsOf(e))
    BY DEF RefsCoverSlots, SlotsOf
  <2>1. CASE e = tty
    <3>1. SlotsOf(e) \subseteq Pairs(t, 0..2)
      BY <1>4, <1>7, <1>8, <1>9, <2>1 DEF SlotsOf, Pairs
    <3>2. IsFiniteSet(0..2) /\ Cardinality(0..2) = 3
      <4>1. PICK a \in Int, b \in Int : a = 0 /\ b = 2
        OBVIOUS
      <4>2. IsFiniteSet(a..b) /\ Cardinality(a..b) = IF a > b THEN 0 ELSE b - a + 1
        BY FS_Interval
      <4> QED BY <4>1, <4>2
    <3>3. IsFiniteSet(Pairs(t, 0..2)) /\ Cardinality(Pairs(t, 0..2)) = 3
      BY <3>2, PairsCount
    <3>4. PICK S, Q : S = SlotsOf(e) /\ Q = Pairs(t, 0..2)
      OBVIOUS
    <3>5. IsFiniteSet(S) /\ Cardinality(S) <= 3
      BY <3>1, <3>3, <3>4, FS_Subset
    <3>6. Cardinality(S) \in Nat
      BY <3>5, FS_CardinalityType
    <3> QED BY <1>1, <2>1, <3>4, <3>5, <3>6
  <2>2. CASE e # tty
    <3>1. SlotsOf(e) = {}
      BY <1>4, <1>7, <1>8, <1>9, <2>2 DEF SlotsOf
    <3> QED BY <1>1, <2>2, <3>1, FS_EmptySet
  <2> QED BY <2>1, <2>2
<1>12. TableRefsExact
  <2> SUFFICES ASSUME NEW u \in Table PROVE table[u].__refcount = Cardinality(Users(u))
    BY DEF TableRefsExact, Users
  <2>1. CASE u = t
    <3>1. Users(u) = {init}
      BY <1>1, <1>3, <1>4, <2>1 DEF Users
    <3> QED BY <1>7, <1>8, <2>1, <3>1, FS_Singleton
  <2>2. CASE u # t
    <3>1. Users(u) = {}
      BY <1>1, <1>4, <2>2 DEF Users
    <3> QED BY <1>6, <1>8, <2>2, <3>1, FS_EmptySet
  <2> QED BY <2>1, <2>2
<1>13. SlotsReachable
  BY <1>7, <1>8, <1>9 DEF SlotsReachable, Reachable
<1>14. ReadersHold /\ SharedIsKnown
  BY <1>1 DEF ReadersHold, SharedIsKnown
<1> QED BY <1>10, <1>11, <1>12, <1>13, <1>14 DEF FdInv, CountsProtect

LEMMA ReadBlocksStep ==
  ASSUME FdAssumption, FdInv, damaged' \in BOOLEAN, NEW p \in Process, NEW i \in Slot, ReadBlocks(p, i)
  PROVE  FdInv'
<1> DEFINE e == fd_table_get(Own(p), i)
<1>1. /\ Running(p) /\ e # NULL /\ reading' = [reading EXCEPT ![p] = e]
      /\ UNCHANGED <<table, refcount, fd_table, shared>>
  BY DEF ReadBlocks
<1>2. e = table[fd_table[p]].entries[i] /\ e \in Entry
  BY <1>1, GetFacts DEF Own
<1> HIDE DEF e
<1>3. CountsProtect'
  BY <1>1, <1>2 DEF FdInv, CountsProtect, FdTypeOK, RefsCoverSlots, TableRefsExact, Live
<1>4. SlotsReachable'
  BY <1>1 DEF FdInv, SlotsReachable, Live, Used
<1>5. ReadersHold'
  BY <1>1, <1>2 DEF FdInv, CountsProtect, FdTypeOK, ReadersHold, Running
<1>6. SharedIsKnown'
  BY <1>1 DEF FdInv, SharedIsKnown
<1> QED BY <1>3, <1>4, <1>5, <1>6 DEF FdInv

LEMMA ReadReturnsStep ==
  ASSUME FdAssumption, FdInv, damaged' \in BOOLEAN, NEW p \in Process, ReadReturns(p)
  PROVE  FdInv'
<1>1. /\ reading' = [reading EXCEPT ![p] = NULL]
      /\ UNCHANGED <<table, refcount, fd_table, shared>>
  BY DEF ReadReturns
<1>2. CountsProtect'
  BY <1>1 DEF FdInv, CountsProtect, FdTypeOK, RefsCoverSlots, TableRefsExact, Live
<1>3. SlotsReachable'
  BY <1>1 DEF FdInv, SlotsReachable, Live, Used
<1>4. ReadersHold'
  BY <1>1 DEF FdInv, CountsProtect, FdTypeOK, ReadersHold
<1>5. SharedIsKnown'
  BY <1>1 DEF FdInv, SharedIsKnown
<1> QED BY <1>2, <1>3, <1>4, <1>5 DEF FdInv

LEMMA StutterStep ==
  ASSUME FdInv, UNCHANGED fdVars
  PROVE  FdInv'
BY DEF FdInv, fdVars, CountsProtect, FdTypeOK, RefsCoverSlots, TableRefsExact, Live,
       SlotsReachable, Used, ReadersHold, SharedIsKnown

LEMMA ExitStep ==
  ASSUME FdAssumption, FdInv, damaged' \in BOOLEAN, NEW p \in Process, process_exit(p)
  PROVE  FdInv'
<1>1. /\ Running(p) /\ fd_table' = [fd_table EXCEPT ![p] = NULL] /\ UNCHANGED reading
  BY DEF process_exit
<1>2. CASE /\ Own(p).__refcount > 1
           /\ Update(p, [Own(p) EXCEPT !.__refcount = @ - 1])
           /\ UNCHANGED <<refcount, shared>>
  BY <1>1, <1>2, ExitSharedStep
<1>3. CASE /\ Own(p).__refcount = 1
           /\ Update(p, Freed)
           /\ shared' = shared \ {fd_table[p]}
           /\ refcount' = [e \in Entry |->
                             refcount[e] - Occurrences(Own(p), e, Own(p).length)]
  BY <1>1, <1>3, ExitLastStep
<1> QED BY <1>2, <1>3 DEF process_exit

\* The invariant of the descriptor tables is inductive.
LEMMA NextInv ==
  ASSUME FdAssumption, FdInv, [Next]_fdVars
  PROVE  FdInv'
<1>1. ASSUME NEW p \in Process, syscall_open(p), damaged' \in BOOLEAN PROVE FdInv'
  <2>1. PICK e \in Entry :
          /\ refcount[e] = 0 /\ refcount' = [refcount EXCEPT ![e] = 1]
          /\ Update(p, fd_table_append(Own(p), e))
    BY <1>1 DEF syscall_open
  <2>2. refcount' = [refcount EXCEPT ![e] = refcount[e] + 1]
    BY <2>1
  <2>3. /\ Running(p) /\ MayAppend(Own(p)) /\ UNCHANGED <<fd_table, reading, shared>>
    BY <1>1 DEF syscall_open
  <2> QED BY <1>1, <2>1, <2>2, <2>3, AppendStep
<1>2. ASSUME NEW p \in Process, NEW i \in Slot, syscall_dup(p, i), damaged' \in BOOLEAN PROVE FdInv'
  <2>1. PICK e : e = fd_table_get(Own(p), i)
    OBVIOUS
  <2>2. /\ Running(p) /\ e # NULL /\ MayAppend(Own(p))
        /\ refcount' = [refcount EXCEPT ![e] = refcount[e] + 1]
        /\ Update(p, fd_table_append(Own(p), e))
        /\ UNCHANGED <<fd_table, reading, shared>>
    BY <1>2, <2>1 DEF syscall_dup
  <2>3. e \in Entry
    BY <2>1, <2>2, GetFacts
  <2> QED BY <1>2, <2>2, <2>3, AppendStep
<1>3. ASSUME NEW p \in Process, NEW child \in Process, process_clone(p, child),
             damaged' \in BOOLEAN
      PROVE  FdInv'
  <2>1. /\ Running(p) /\ fd_table[child] = NULL /\ UNCHANGED reading
        /\ CloneShared(p, child) \/ CloneCopy(p, child)
    BY <1>3 DEF process_clone
  <2> QED BY <1>3, <2>1, CloneSharedStep, CloneCopyStep
<1>4. ASSUME NEW p \in Process, Syscall(p), UNCHANGED damaged PROVE FdInv'
  <2>1. damaged' \in BOOLEAN
    BY <1>4 DEF FdInv, CountsProtect, FdTypeOK
  <2> QED BY <1>1, <1>2, <1>3, <1>4, <2>1, CloseStep, ReadBlocksStep, Dup2Step,
             ReadReturnsStep, ExitStep DEF Syscall
<1>6. ASSUME NEW p \in Process, Damage(p) PROVE FdInv'
  BY <1>6 DEF Damage, FdInv, CountsProtect, FdTypeOK, RefsCoverSlots, TableRefsExact, Live,
       SlotsReachable, Used, ReadersHold, SharedIsKnown
<1>5. CASE UNCHANGED fdVars
  BY <1>5, StutterStep
<1> QED BY <1>4, <1>5, <1>6 DEF Next

\* The file descriptors of process.c: the inductive invariant holds.
THEOREM FdTablesSafe == Spec => []FdInv
<1>1. FdAssumption
  BY FdAssumption
<1>2. Init => FdInv
  BY <1>1, InitInv
<1>3. FdInv /\ [Next]_fdVars => FdInv'
  BY <1>1, NextInv
<1> QED BY <1>2, <1>3, PTL DEF Spec

\* No descriptor refers to a freed fd_entry_t and no process to a freed
\* fd_table_t, whatever dup(), dup2(), clone() and exit() do in what order.
THEOREM DescriptorsProtected == Spec => []CountsProtect
<1>1. FdInv => CountsProtect
  BY DEF FdInv
<1> QED BY <1>1, FdTablesSafe, PTL

\* Every open descriptor stays within the length that fd_table_get() accepts, and
\* the length within the array, in spite of the two meanings of length and of what
\* dup2() and clone() put behind the array.
THEOREM DescriptorsReachable == Spec => []SlotsReachable
<1>1. FdInv => SlotsReachable
  BY DEF FdInv
<1> QED BY <1>1, FdTablesSafe, PTL

\* The fd_entry_t of a blocked read() is not freed while the table of the
\* reader is its own.
THEOREM ReadersProtected == Spec => []ReadersFileLives
<1>1. ASSUME FdAssumption, FdInv PROVE ReadersFileLives
  <2> SUFFICES ASSUME NEW p \in Process, reading[p] # NULL, fd_table[p] \notin shared
               PROVE  refcount[reading[p]] > 0
    BY DEF ReadersFileLives
  <2>1. PICK i \in Slot : table[fd_table[p]].entries[i] = reading[p]
    BY <1>1 DEF FdInv, ReadersHold
  <2>2. fd_table[p] \in Live /\ reading[p] \in Entry
    BY <1>1, InvFacts DEF FdInv, ReadersHold, CountsProtect, FdTypeOK
  <2>3. <<fd_table[p], i>> \in SlotsOf(reading[p])
    BY <2>1, <2>2 DEF SlotsOf
  <2>4. PICK S : S = SlotsOf(reading[p])
    OBVIOUS
  <2>5. IsFiniteSet(S) /\ refcount[reading[p]] \in Nat /\ Cardinality(S) <= refcount[reading[p]]
    BY <1>1, <2>2, <2>4, InvFacts
  <2>6. Cardinality(S) \in Nat /\ Cardinality(S) # 0
    BY <2>3, <2>4, <2>5, FS_CardinalityType, FS_EmptySet
  <2> QED BY <2>5, <2>6
<1>2. FdInv => ReadersFileLives
  BY <1>1, FdAssumption
<1> QED BY <1>2, FdTablesSafe, PTL

-----------------------------------------------------------------------------
(* The virtual file system: objects, mounts and how they are counted.       *)

ObjType == [live : BOOLEAN, name : Name \cup {"", "tmpfs"}, kind : {"file", "dir"},
            childs : Seq(Obj), ref : Nat]

MountType == [obj : {0} \cup Obj, ref : Nat]

FsOf(objs, mounts, lost, halted) ==
  [objs |-> objs, mounts |-> mounts, lost |-> lost, halted |-> halted]

IsFs(s) ==
  /\ s = FsOf(s.objs, s.mounts, s.lost, s.halted)
  /\ s.objs \in [Obj -> ObjType]
  /\ DOMAIN s.mounts \subseteq Seq(Name) /\ s.mounts \in [DOMAIN s.mounts -> MountType]
  /\ s.lost \subseteq Obj /\ s.halted \in BOOLEAN

LiveOf(s) == {o \in Obj : s.objs[o].live}
ChildsOf(s, o) == SetOf(s.objs[o].childs)
RootsOf(s) == {s.mounts[p].obj : p \in DOMAIN s.mounts} \ {0}

\* The objects that a list or a node of tmpfs may lead to.
Members(s) == LiveOf(s) \ (RootsOf(s) \cup s.lost)

\* Objects form trees: nothing leads to a destroyed object, each is on one list
\* at most, only directories have childs, and no circle of them is cut off.
Shape(s) ==
  /\ << >> \in DOMAIN s.mounts
  /\ RootsOf(s) \subseteq LiveOf(s) \ s.lost /\ s.lost \subseteq LiveOf(s)
  /\ \A o \in Obj : s.objs[o].childs # << >> =>
       o \in LiveOf(s) \ s.lost /\ s.objs[o].kind = "dir"
  /\ \A o \in Obj : ChildsOf(s, o) \subseteq Members(s)
  /\ \A o \in Obj : IsInjective(s.objs[o].childs)
  /\ \A o, p \in Obj : o # p => ChildsOf(s, o) \cap ChildsOf(s, p) = {}
  /\ \A S \in SUBSET Obj : S # {} => \E o \in S : \A p \in S : o \notin ChildsOf(s, p)

Parented(s, o) == \E p \in Obj : o \in ChildsOf(s, p)
Up(s, o) == IF Parented(s, o) THEN 1 ELSE 0

\* References agree with the numbers m of nodes of each mount and t of nodes of
\* each object that somebody has.
RefsCounted(s, m, t) ==
  /\ m \in [DOMAIN s.mounts -> Nat] /\ t \in [Obj -> Nat]
  /\ \A p \in DOMAIN s.mounts : s.mounts[p].ref = (IF p = << >> THEN 2 ELSE 3) + m[p]
  /\ \A o \in Obj : t[o] > 0 => o \in Members(s)
  /\ \A o \in Members(s) :
       /\ s.objs[o].ref >= Up(s, o) + t[o]
       /\ s.objs[o].kind = "dir" => s.objs[o].ref = Up(s, o) + t[o] /\ s.objs[o].ref >= 1

NodeOK(s, n) ==
  \/ \E p \in DOMAIN s.mounts : n = MountNode(s, p)
  \/ \E o \in Obj : n = TmpNode(o)
  \/ \E e \in Entries : n = TarNode(e.path)

\* How many nodes of each mount and of each object a bag has.
NumberOf(b, n) == IF n \in BagToSet(b) THEN b[n] ELSE 0
MountsIn(s, b) == [p \in DOMAIN s.mounts |-> NumberOf(b, MountNode(s, p))]
TmpsIn(b) == [o \in Obj |-> NumberOf(b, TmpNode(o))]

\* Until the machine stops the objects form trees and all references are counted.
InvOf(s, b) ==
  /\ IsFs(s)
  /\ IsABag(b) /\ \A n \in BagToSet(b) : NodeOK(s, n)
  /\ ~s.halted => Shape(s) /\ RefsCounted(s, MountsIn(s, b), TmpsIn(b))

VfsInv == archive \in Archives /\ InvOf(fs, open)

-----------------------------------------------------------------------------
(* Paths.                                                                   *)

LEMMA SubSeqType ==
  ASSUME NEW S, NEW q \in Seq(S), NEW a \in Nat \ {0}, NEW b \in Int, b <= Len(q)
  PROVE  SubSeq(q, a, b) \in Seq(S)
<1>1. Len(q) \in Nat
  OBVIOUS
<1>2. \A k \in a..b : q[k] \in S
  <2>1. \A k \in 1..Len(q) : q[k] \in S
    OBVIOUS
  <2> QED BY <1>1, <2>1
<1> QED BY <1>1, <1>2

LEMMA FrontType ==
  ASSUME NEW S, NEW q \in Seq(S), q # << >>
  PROVE  Front(q) \in Seq(S) /\ Last(q) \in S
<1>1. Len(q) \in Nat /\ Len(q) # 0
  OBVIOUS
<1>2. Front(q) \in Seq(S)
  BY <1>1, SubSeqType DEF Front
<1>3. q[Len(q)] \in S
  BY <1>1, ElementOfSeq
<1> QED BY <1>2, <1>3 DEF Last

PathState == [ok : BOOLEAN, list : Seq(Element)]

LEMMA PushedType ==
  ASSUME NEW l \in PathState, NEW e \in Element
  PROVE  Pushed(l, e) \in PathState
<1>1. l.ok \in BOOLEAN /\ l.list \in Seq(Element)
  BY DEF PathState
<1>2. CASE e = "."
  BY <1>2 DEF Pushed
<1>3. CASE e # "." /\ e = ".." /\ l.list = << >>
  <2>1. Pushed(l, e) = [l EXCEPT !.ok = FALSE]
    BY <1>3 DEF Pushed
  <2> QED BY <2>1 DEF PathState
<1>4. CASE e # "." /\ e = ".." /\ l.list # << >>
  <2>1. Pushed(l, e) = [l EXCEPT !.list = Front(l.list)]
    BY <1>4 DEF Pushed
  <2>2. Front(l.list) \in Seq(Element)
    BY <1>1, <1>4, FrontType
  <2> QED BY <2>1, <2>2 DEF PathState
<1>5. CASE e # "." /\ e # ".."
  <2>1. Pushed(l, e) = [l EXCEPT !.list = Append(l.list, e)]
    BY <1>5 DEF Pushed
  <2>2. Append(l.list, e) \in Seq(Element)
    BY <1>1
  <2> QED BY <2>1, <2>2 DEF PathState
<1> QED BY <1>2, <1>3, <1>4, <1>5

LEMMA PushPathType ==
  ASSUME NEW elements \in Seq(Element), NEW path \in Seq(Element)
  PROVE  PushPath(elements, path) \in PathState
<1>1. PICK n : n = Len(path) /\ n \in Nat /\ \A k \in 1..n : path[k] \in Element
  OBVIOUS
<1>2. PICK base : base = [ok |-> TRUE, list |-> elements] /\ base \in PathState
  <2>1. [ok |-> TRUE, list |-> elements] \in PathState
    BY DEF PathState
  <2> QED BY <2>1
<1> DEFINE Def(p, m) == p = [i \in 0..m |-> IF i = 0 THEN base ELSE Pushed(p[i - 1], path[i])]
           G == {m \in 0..n : \E p : Def(p, m)}
<1>3. ASSUME NEW m \in 0..n, m # 0 => m - 1 \in G PROVE m \in G
  <2>1. CASE m = 0
    <3>1. PICK p : p = [i \in 0..m |-> base]
      OBVIOUS
    <3>2. \A i \in 0..m : i = 0
      BY <2>1
    <3>3. Def(p, m)
      BY <3>1, <3>2
    <3> QED BY <3>3
  <2>2. CASE m # 0
    <3>1. PICK q : Def(q, m - 1)
      BY <1>3, <2>2
    <3>2. PICK p : p = [i \in 0..m |-> IF i = m THEN Pushed(q[m - 1], path[m]) ELSE q[i]]
      OBVIOUS
    <3>3. ASSUME NEW i \in 0..m PROVE p[i] = IF i = 0 THEN base ELSE Pushed(p[i - 1], path[i])
      <4>1. i # 0 => i - 1 \in 0..m /\ i - 1 # m
        BY <1>1
      <4>2. i # m => i \in 0..(m - 1)
        BY <1>1
      <4>3. CASE i = m
        BY <2>2, <3>2, <4>1, <4>3
      <4>4. CASE i # m
        <5>1. q[i] = IF i = 0 THEN base ELSE Pushed(q[i - 1], path[i])
          BY <3>1, <4>2, <4>4
        <5> QED BY <3>2, <4>1, <4>4, <5>1
      <4> QED BY <4>3, <4>4
    <3>4. Def(p, m)
      <4>1. p = [i \in 0..m |-> p[i]]
        BY <3>2
      <4> QED BY <3>3, <4>1
    <3> QED BY <3>4
  <2> QED BY <2>1, <2>2
<1>4. n \in G
  <2> HIDE DEF G
  <2>1. Forwards(n, G)
    BY <1>3 DEF Forwards
  <2> QED BY <1>1, <2>1, StepInduction
<1>5. PICK s : s = CHOOSE p : Def(p, n)
  OBVIOUS
<1>6. Def(s, n)
  BY <1>4, <1>5
<1>7. PushPath(elements, path) = s[n]
  BY <1>1, <1>2, <1>5, Zenon DEF PushPath
<1>8. s[0] = base /\ \A k \in 1..n : s[k] = Pushed(s[k - 1], path[k])
  BY <1>1, <1>6
<1>9. n \in {k \in 0..n : s[k] \in PathState}
  <2> DEFINE H == {k \in 0..n : s[k] \in PathState}
  <2>1. ASSUME NEW k \in 0..n, k # 0 => k - 1 \in H PROVE k \in H
    <3>1. CASE k = 0
      BY <1>1, <1>2, <1>8, <3>1
    <3>2. CASE k # 0
      <4>1. k \in 1..n /\ s[k - 1] \in PathState /\ path[k] \in Element
        BY <1>1, <2>1, <3>2
      <4> QED BY <1>8, <4>1, PushedType
    <3> QED BY <3>1, <3>2
  <2> HIDE DEF H
  <2>2. Forwards(n, H)
    BY <2>1 DEF Forwards
  <2>3. n \in H
    BY <1>1, <2>2, StepInduction
  <2> QED BY <2>3 DEF H
<1> QED BY <1>7, <1>9

\* The elements that lead from mount to mount lead to a mount.
LEMMA WalkFacts ==
  ASSUME NEW s, NEW S, << >> \in DOMAIN s.mounts, NEW elements \in Seq(S)
  PROVE  /\ walk_mount_graph(s, elements) \in 0..Len(elements)
         /\ SubSeq(elements, 1, walk_mount_graph(s, elements)) \in DOMAIN s.mounts
         /\ walk_mount_graph(s, elements) < Len(elements) =>
              SubSeq(elements, 1, walk_mount_graph(s, elements) + 1) \notin DOMAIN s.mounts
<1> DEFINE K == {k \in 0..Len(elements) :
                   \A i \in 0..k : SubSeq(elements, 1, i) \in DOMAIN s.mounts}
<1>1. PICK n : n = Len(elements) /\ n \in Nat
  OBVIOUS
<1>2. SubSeq(elements, 1, 0) = << >>
  OBVIOUS
<1>3. 0 \in K
  <2>1. \A i \in 0..0 : i = 0
    OBVIOUS
  <2>2. \A i \in 0..0 : SubSeq(elements, 1, i) \in DOMAIN s.mounts
    BY <1>2, <2>1
  <2>3. 0 \in 0..Len(elements)
    BY <1>1
  <2> QED BY <2>2, <2>3
<1>4. K \in SUBSET (0..n)
  BY <1>1
<1>5. PICK k : k = Max(K)
  OBVIOUS
<1>6. k \in K /\ \A y \in K : y <= k
  <2> HIDE DEF K
  <2> QED BY <1>1, <1>3, <1>4, <1>5, MaxFacts
<1>7. k = walk_mount_graph(s, elements)
  BY <1>5 DEF walk_mount_graph
<1>8. k \in 0..n /\ \A i \in 0..k : SubSeq(elements, 1, i) \in DOMAIN s.mounts
  BY <1>1, <1>6
<1>9. SubSeq(elements, 1, k) \in DOMAIN s.mounts
  BY <1>8
<1>10. ASSUME k < n, SubSeq(elements, 1, k + 1) \in DOMAIN s.mounts PROVE FALSE
  <2>1. \A i \in 0..(k + 1) : i \in 0..k \/ i = k + 1
    BY <1>8
  <2>2. k + 1 \in K
    BY <1>1, <1>8, <1>10, <2>1
  <2> QED BY <1>6, <1>8, <2>2
<1> QED BY <1>1, <1>7, <1>8, <1>9, <1>10

-----------------------------------------------------------------------------
(* Changes of reference counts alone.                                       *)

SameShape(s, r) ==
  /\ DOMAIN r.mounts = DOMAIN s.mounts
  /\ \A p \in DOMAIN s.mounts : r.mounts[p].obj = s.mounts[p].obj
  /\ r.lost = s.lost
  /\ \A o \in Obj : /\ r.objs[o].live = s.objs[o].live
                    /\ r.objs[o].kind = s.objs[o].kind
                    /\ r.objs[o].childs = s.objs[o].childs

LEMMA SameSets ==
  ASSUME NEW s, NEW r, SameShape(s, r)
  PROVE  /\ LiveOf(r) = LiveOf(s) /\ RootsOf(r) = RootsOf(s) /\ Members(r) = Members(s)
         /\ \A o \in Obj : ChildsOf(r, o) = ChildsOf(s, o)
         /\ \A o \in Obj : Parented(r, o) = Parented(s, o) /\ Up(r, o) = Up(s, o)
<1>1. LiveOf(r) = LiveOf(s)
  BY DEF SameShape, LiveOf
<1>2. RootsOf(r) = RootsOf(s)
  BY DEF SameShape, RootsOf
<1>3. \A o \in Obj : ChildsOf(r, o) = ChildsOf(s, o)
  BY DEF SameShape, ChildsOf
<1>4. \A o \in Obj : Parented(r, o) = Parented(s, o)
  BY <1>3 DEF Parented
<1>5. Members(r) = Members(s)
  BY <1>1, <1>2 DEF Members, SameShape
<1> QED BY <1>1, <1>2, <1>3, <1>4, <1>5 DEF Up

LEMMA SameKeepsShape ==
  ASSUME NEW s, NEW r, SameShape(s, r), Shape(s)
  PROVE  Shape(r)
<1>1. /\ LiveOf(r) = LiveOf(s) /\ RootsOf(r) = RootsOf(s) /\ Members(r) = Members(s)
      /\ \A o \in Obj : ChildsOf(r, o) = ChildsOf(s, o)
  BY SameSets
<1>2. /\ << >> \in DOMAIN r.mounts
      /\ RootsOf(r) \subseteq LiveOf(r) \ r.lost /\ r.lost \subseteq LiveOf(r)
  BY <1>1 DEF Shape, SameShape
<1>3. \A o \in Obj : r.objs[o].childs # << >> => o \in LiveOf(r) \ r.lost /\ r.objs[o].kind = "dir"
  BY <1>1 DEF Shape, SameShape
<1>4. \A o \in Obj : ChildsOf(r, o) \subseteq Members(r)
  BY <1>1 DEF Shape
<1>5. \A o \in Obj : IsInjective(r.objs[o].childs)
  BY DEF Shape, SameShape
<1>6. \A o, p \in Obj : o # p => ChildsOf(r, o) \cap ChildsOf(r, p) = {}
  BY <1>1 DEF Shape
<1>7. ASSUME NEW S \in SUBSET Obj, S # {}
      PROVE  \E o \in S : \A p \in S : o \notin ChildsOf(r, p)
  <2>1. PICK o \in S : \A p \in S : o \notin ChildsOf(s, p)
    BY <1>7 DEF Shape
  <2> QED BY <1>1, <2>1
<1> QED BY <1>2, <1>3, <1>4, <1>5, <1>6, <1>7 DEF Shape

LEMMA SameTransitive ==
  ASSUME NEW s, NEW r, NEW q, SameShape(s, r), SameShape(r, q)
  PROVE  SameShape(s, q)
BY DEF SameShape

\* The fields of a state.
LEMMA FsFields ==
  ASSUME NEW s, IsFs(s)
  PROVE  /\ DOMAIN s.objs = Obj
         /\ \A o \in Obj : /\ s.objs[o] \in ObjType
                           /\ s.objs[o].live \in BOOLEAN /\ s.objs[o].kind \in {"file", "dir"}
                           /\ s.objs[o].childs \in Seq(Obj) /\ s.objs[o].ref \in Nat
         /\ \A p \in DOMAIN s.mounts : /\ p \in Seq(Name)
                                       /\ s.mounts[p] \in MountType
                                       /\ s.mounts[p].obj \in {0} \cup Obj
                                       /\ s.mounts[p].ref \in Nat
         /\ s.halted \in BOOLEAN
<1>1. /\ s.objs \in [Obj -> ObjType] /\ DOMAIN s.mounts \subseteq Seq(Name)
      /\ s.mounts \in [DOMAIN s.mounts -> MountType] /\ s.halted \in BOOLEAN
  BY DEF IsFs
<1>2. DOMAIN s.objs = Obj /\ \A o \in Obj : s.objs[o] \in ObjType
  BY <1>1
<1>3. \A p \in DOMAIN s.mounts : p \in Seq(Name) /\ s.mounts[p] \in MountType
  BY <1>1
<1>4. \A x \in ObjType : /\ x.live \in BOOLEAN /\ x.kind \in {"file", "dir"}
                         /\ x.childs \in Seq(Obj) /\ x.ref \in Nat
  BY DEF ObjType
<1>5. \A x \in MountType : x.obj \in {0} \cup Obj /\ x.ref \in Nat
  BY DEF MountType
<1> QED BY <1>1, <1>2, <1>3, <1>4, <1>5

LEMMA FsOfFields ==
  ASSUME NEW a, NEW b, NEW c, NEW d
  PROVE  /\ FsOf(a, b, c, d).objs = a /\ FsOf(a, b, c, d).mounts = b
         /\ FsOf(a, b, c, d).lost = c /\ FsOf(a, b, c, d).halted = d
BY DEF FsOf

\* Counts of a mount.
MountRefsSet(s, r, p, x) ==
  \A q \in DOMAIN s.mounts : r.mounts[q].ref = IF q = p THEN x ELSE s.mounts[q].ref

WithMountRef(s, p, x) == [s EXCEPT !.mounts[p].ref = x]

LEMMA MountRef ==
  ASSUME NEW s, IsFs(s), NEW p \in DOMAIN s.mounts, NEW x \in Nat,
         NEW r, r = WithMountRef(s, p, x)
  PROVE  /\ IsFs(r) /\ SameShape(s, r) /\ r.objs = s.objs /\ r.halted = s.halted
         /\ MountRefsSet(s, r, p, x)
<1>1. PICK mo, D : mo = s.mounts /\ D = DOMAIN mo /\ mo \in [D -> MountType] /\ p \in D
  BY DEF IsFs
<1>2. PICK mn : mn = [mo EXCEPT ![p].ref = x]
  OBVIOUS
<1>3. r = FsOf(s.objs, mn, s.lost, s.halted)
  <2>1. s = FsOf(s.objs, s.mounts, s.lost, s.halted)
    BY DEF IsFs
  <2> QED BY <1>1, <1>2, <2>1 DEF FsOf, WithMountRef
<1>4. r.objs = s.objs /\ r.mounts = mn /\ r.lost = s.lost /\ r.halted = s.halted
  BY <1>3, FsOfFields
<1>5. /\ DOMAIN mn = D /\ mn \in [D -> MountType]
      /\ \A q \in D : mn[q].ref = (IF q = p THEN x ELSE mo[q].ref) /\ mn[q].obj = mo[q].obj
  BY <1>1, <1>2 DEF MountType
<1>6. IsFs(r)
  BY <1>1, <1>3, <1>4, <1>5 DEF IsFs
<1>7. SameShape(s, r)
  BY <1>1, <1>4, <1>5 DEF SameShape
<1> QED BY <1>1, <1>4, <1>5, <1>6, <1>7 DEF MountRefsSet

\* Counts of an object.
RefsSet(s, r, o, x) == \A q \in Obj : r.objs[q].ref = IF q = o THEN x ELSE s.objs[q].ref

CountSet(y, x) == [y EXCEPT !.ref = x]

WithRef(s, o, x) == [s EXCEPT !.objs[o].ref = x]

LEMMA ObjRef ==
  ASSUME NEW s, IsFs(s), NEW o \in Obj, NEW x \in Nat, NEW r, r = WithRef(s, o, x)
  PROVE  /\ IsFs(r) /\ SameShape(s, r) /\ r.mounts = s.mounts /\ r.halted = s.halted
         /\ RefsSet(s, r, o, x)
<1>1. PICK ob : ob = s.objs /\ ob \in [Obj -> ObjType]
  BY DEF IsFs
<1>2. PICK nb : nb = [ob EXCEPT ![o].ref = x]
  OBVIOUS
<1>3. r = FsOf(nb, s.mounts, s.lost, s.halted)
  <2>1. s = FsOf(s.objs, s.mounts, s.lost, s.halted)
    BY DEF IsFs
  <2> QED BY <1>1, <1>2, <2>1 DEF FsOf, WithRef
<1>4. r.objs = nb /\ r.mounts = s.mounts /\ r.lost = s.lost /\ r.halted = s.halted
  BY <1>3, FsOfFields
<1>5. /\ nb \in [Obj -> ObjType]
      /\ \A q \in Obj : /\ nb[q].ref = (IF q = o THEN x ELSE ob[q].ref)
                        /\ nb[q].live = ob[q].live /\ nb[q].kind = ob[q].kind
                        /\ nb[q].childs = ob[q].childs
  <2>1. \A y \in ObjType : /\ CountSet(y, x) \in ObjType
                           /\ CountSet(y, x).ref = x
                           /\ CountSet(y, x).live = y.live
                           /\ CountSet(y, x).kind = y.kind
                           /\ CountSet(y, x).childs = y.childs
    BY DEF ObjType, CountSet
  <2>2. \A q \in Obj : ob[q] \in ObjType
    BY <1>1
  <2>3. /\ DOMAIN nb = Obj /\ nb = [q \in Obj |-> nb[q]]
        /\ \A q \in Obj : nb[q] = IF q = o THEN CountSet(ob[o], x) ELSE ob[q]
    BY <1>1, <1>2 DEF CountSet
  <2>4. \A q \in Obj : /\ nb[q] \in ObjType
                       /\ nb[q].ref = (IF q = o THEN x ELSE ob[q].ref)
                       /\ nb[q].live = ob[q].live /\ nb[q].kind = ob[q].kind
                       /\ nb[q].childs = ob[q].childs
    BY <2>1, <2>2, <2>3
  <2>5. nb \in [Obj -> ObjType]
    BY <2>3, <2>4
  <2> QED BY <2>4, <2>5
<1>6. IsFs(r)
  BY <1>3, <1>4, <1>5 DEF IsFs
<1>7. SameShape(s, r)
  BY <1>1, <1>4, <1>5 DEF SameShape
<1> QED BY <1>1, <1>4, <1>5, <1>6, <1>7 DEF RefsSet

LEMMA Halting ==
  ASSUME NEW s, IsFs(s), NEW r, r = [s EXCEPT !.halted = TRUE]
  PROVE  IsFs(r) /\ r.halted = TRUE /\ r.mounts = s.mounts /\ r.objs = s.objs /\ r.lost = s.lost
<1>1. r = FsOf(s.objs, s.mounts, s.lost, TRUE)
  <2>1. s = FsOf(s.objs, s.mounts, s.lost, s.halted)
    BY DEF IsFs
  <2> QED BY <2>1 DEF FsOf
<1>2. r.objs = s.objs /\ r.mounts = s.mounts /\ r.lost = s.lost /\ r.halted = TRUE
  BY <1>1, FsOfFields
<1> QED BY <1>1, <1>2 DEF IsFs

-----------------------------------------------------------------------------
(* One node more or less.                                                   *)

PlusMount(m, n) == [p \in DOMAIN m |-> m[p] + (IF n.mount /\ n.at = p THEN 1 ELSE 0)]
PlusTmp(t, n) == [o \in Obj |-> t[o] + (IF ~n.mount /\ n.obj = o THEN 1 ELSE 0)]

\* mn and tn count one node more than m and t, if n is one of a mount or an object.
MoreMounts(s, m, mn, n) ==
  \A p \in DOMAIN s.mounts : mn[p] = IF n.mount /\ n.at = p THEN m[p] + 1 ELSE m[p]
MoreTmps(t, tn, n) ==
  \A o \in Obj : tn[o] = IF ~n.mount /\ n.obj = o THEN t[o] + 1 ELSE t[o]

Counts(s, m, t) == m \in [DOMAIN s.mounts -> Nat] /\ t \in [Obj -> Nat]

LEMMA NodeFields ==
  /\ \A o : TmpNode(o).mount = FALSE /\ TmpNode(o).obj = o /\ TmpNode(o).at = << >>
  /\ \A q : TarNode(q).mount = FALSE /\ TarNode(q).obj = 0 /\ TarNode(q).at = q
  /\ \A s, p : /\ MountNode(s, p).mount = TRUE /\ MountNode(s, p).at = p
               /\ MountNode(s, p).obj = s.mounts[p].obj
  /\ NoNode.mount = FALSE /\ NoNode.obj = -1 /\ NoNode.at = << >>
BY DEF TmpNode, TarNode, MountNode, NoNode

LEMMA PlusFacts ==
  ASSUME NEW s, NEW m, NEW t, Counts(s, m, t), NEW n
  PROVE  /\ Counts(s, PlusMount(m, n), PlusTmp(t, n))
         /\ MoreMounts(s, m, PlusMount(m, n), n) /\ MoreTmps(t, PlusTmp(t, n), n)
<1>1. PICK D : D = DOMAIN s.mounts /\ DOMAIN m = D /\ m \in [D -> Nat] /\ t \in [Obj -> Nat]
  BY DEF Counts
<1>2. \A p \in D : /\ m[p] \in Nat
                   /\ PlusMount(m, n)[p] = IF n.mount /\ n.at = p THEN m[p] + 1 ELSE m[p]
  BY <1>1 DEF PlusMount
<1>3. \A o \in Obj : /\ t[o] \in Nat
                     /\ PlusTmp(t, n)[o] = IF ~n.mount /\ n.obj = o THEN t[o] + 1 ELSE t[o]
  BY <1>1 DEF PlusTmp
<1>4. PlusMount(m, n) \in [D -> Nat]
  BY <1>1 DEF PlusMount
<1>5. PlusTmp(t, n) \in [Obj -> Nat]
  BY <1>1 DEF PlusTmp
<1> QED BY <1>1, <1>2, <1>3, <1>4, <1>5 DEF Counts, MoreMounts, MoreTmps

\* A node that is no mount's and no object's does not count.
LEMMA PlusNothing ==
  ASSUME NEW s, NEW m, NEW t, Counts(s, m, t), NEW n, ~n.mount, n.obj \notin Obj
  PROVE  PlusMount(m, n) = m /\ PlusTmp(t, n) = t
<1>1. PICK D : D = DOMAIN s.mounts /\ DOMAIN m = D /\ m \in [D -> Nat] /\ t \in [Obj -> Nat]
  BY DEF Counts
<1>2. PlusMount(m, n) \in [D -> Nat] /\ PlusTmp(t, n) \in [Obj -> Nat]
  BY <1>1, PlusFacts DEF Counts
<1>3. \A p \in D : PlusMount(m, n)[p] = m[p]
  <2>1. MoreMounts(s, m, PlusMount(m, n), n)
    BY PlusFacts
  <2> QED BY <1>1, <2>1 DEF MoreMounts
<1>4. \A o \in Obj : PlusTmp(t, n)[o] = t[o]
  <2>1. MoreTmps(t, PlusTmp(t, n), n)
    BY PlusFacts
  <2> QED BY <2>1 DEF MoreTmps
<1> QED BY <1>1, <1>2, <1>3, <1>4

LEMMA PlusMountOnly ==
  ASSUME NEW s, NEW m, NEW t, Counts(s, m, t), NEW n, n.mount
  PROVE  PlusTmp(t, n) = t
<1>1. PlusTmp(t, n) \in [Obj -> Nat] /\ t \in [Obj -> Nat]
  BY PlusFacts DEF Counts
<1>2. \A o \in Obj : PlusTmp(t, n)[o] = t[o]
  <2>1. MoreTmps(t, PlusTmp(t, n), n)
    BY PlusFacts
  <2> QED BY <2>1 DEF MoreTmps
<1> QED BY <1>1, <1>2

LEMMA PlusTmpOnly ==
  ASSUME NEW s, NEW m, NEW t, Counts(s, m, t), NEW n, ~n.mount
  PROVE  PlusMount(m, n) = m
<1>1. PICK D : D = DOMAIN s.mounts /\ DOMAIN m = D /\ m \in [D -> Nat]
  BY DEF Counts
<1>2. PlusMount(m, n) \in [D -> Nat]
  BY <1>1, PlusFacts DEF Counts
<1>3. \A p \in D : PlusMount(m, n)[p] = m[p]
  <2>1. MoreMounts(s, m, PlusMount(m, n), n)
    BY PlusFacts
  <2> QED BY <1>1, <2>1 DEF MoreMounts
<1> QED BY <1>1, <1>2, <1>3

\* fs_node_reference() of a mount's node.
LEMMA ReferenceCounts ==
  ASSUME NEW s, IsFs(s), NEW m, NEW t, RefsCounted(s, m, t),
         NEW p \in DOMAIN s.mounts, NEW n, n = MountNode(s, p),
         NEW r, r = fs_node_reference(s, n)
  PROVE  /\ IsFs(r) /\ SameShape(s, r) /\ r.halted = s.halted
         /\ RefsCounted(r, PlusMount(m, n), PlusTmp(t, n))
<1>1. n.mount = TRUE /\ n.at = p
  BY NodeFields
<1>2. Counts(s, m, t)
  BY DEF RefsCounted, Counts
<1>3. PICK x : x = s.mounts[p].ref /\ x \in Nat
  BY FsFields
<1>4. r = WithMountRef(s, p, x + 1) /\ x + 1 \in Nat
  BY <1>1, <1>3 DEF fs_node_reference, WithMountRef
<1>5. /\ IsFs(r) /\ SameShape(s, r) /\ r.objs = s.objs /\ r.halted = s.halted
      /\ MountRefsSet(s, r, p, x + 1)
  BY <1>4, MountRef
<1>6. PICK mn : mn = PlusMount(m, n)
  OBVIOUS
<1>7. /\ mn \in [DOMAIN s.mounts -> Nat] /\ t \in [Obj -> Nat]
      /\ \A q \in DOMAIN s.mounts : mn[q] = IF q = p THEN m[q] + 1 ELSE m[q]
  <2>1. Counts(s, mn, PlusTmp(t, n))
    BY <1>2, <1>6, PlusFacts
  <2>2. MoreMounts(s, m, mn, n)
    BY <1>2, <1>6, PlusFacts
  <2> QED BY <1>1, <1>2, <2>1, <2>2 DEF Counts, MoreMounts
<1>8. ASSUME NEW q \in DOMAIN s.mounts
      PROVE  r.mounts[q].ref = (IF q = << >> THEN 2 ELSE 3) + mn[q]
  <2>1. s.mounts[q].ref = (IF q = << >> THEN 2 ELSE 3) + m[q] /\ m[q] \in Nat
    BY <1>2 DEF RefsCounted, Counts
  <2>2. PICK c : c = (IF q = << >> THEN 2 ELSE 3) /\ c \in Nat
    OBVIOUS
  <2>3. CASE q = p
    <3>1. r.mounts[q].ref = x + 1 /\ mn[q] = m[q] + 1 /\ x = c + m[q]
      BY <1>3, <1>5, <1>7, <2>1, <2>2, <2>3 DEF MountRefsSet
    <3> QED BY <2>1, <2>2, <3>1
  <2>4. CASE q # p
    BY <1>5, <1>7, <2>1, <2>4 DEF MountRefsSet
  <2> QED BY <2>3, <2>4
<1>9. RefsCounted(r, mn, t)
  <2>1. DOMAIN r.mounts = DOMAIN s.mounts
    BY <1>5 DEF SameShape
  <2>2. /\ Members(r) = Members(s)
        /\ \A o \in Obj : Up(r, o) = Up(s, o)
    BY <1>5, SameSets
  <2>3. Members(s) \subseteq Obj
    BY DEF Members, LiveOf
  <2> QED BY <1>5, <1>7, <1>8, <2>1, <2>2, <2>3 DEF RefsCounted
<1> QED BY <1>1, <1>2, <1>5, <1>6, <1>9, PlusMountOnly

\* A new node of tmpfs takes a reference.
LEMMA TakeCounts ==
  ASSUME NEW s, IsFs(s), NEW m, NEW t, RefsCounted(s, m, t), NEW o \in Members(s),
         NEW r, r = WithRef(s, o, s.objs[o].ref + 1)
  PROVE  /\ IsFs(r) /\ SameShape(s, r) /\ r.halted = s.halted
         /\ RefsCounted(r, PlusMount(m, TmpNode(o)), PlusTmp(t, TmpNode(o)))
<1>1. PICK n : n = TmpNode(o) /\ ~n.mount /\ n.obj = o
  BY NodeFields
<1>2. Counts(s, m, t) /\ Members(s) \subseteq Obj
  BY DEF RefsCounted, Counts, Members, LiveOf
<1>3. PICK x : x = s.objs[o].ref /\ x \in Nat
  BY <1>2, FsFields
<1>4. /\ IsFs(r) /\ SameShape(s, r) /\ r.mounts = s.mounts /\ r.halted = s.halted
      /\ RefsSet(s, r, o, x + 1)
  <2>1. r = WithRef(s, o, x + 1) /\ x + 1 \in Nat /\ o \in Obj
    BY <1>2, <1>3
  <2> QED BY <2>1, ObjRef
<1>5. PICK tn : tn = PlusTmp(t, n)
  OBVIOUS
<1>6. /\ tn \in [Obj -> Nat] /\ t \in [Obj -> Nat]
      /\ \A q \in Obj : tn[q] = IF q = o THEN t[q] + 1 ELSE t[q]
  <2>1. Counts(s, PlusMount(m, n), tn)
    BY <1>2, <1>5, PlusFacts
  <2>2. MoreTmps(t, tn, n)
    BY <1>2, <1>5, PlusFacts
  <2> QED BY <1>1, <1>2, <2>1, <2>2 DEF Counts, MoreTmps
<1>7. /\ Members(r) = Members(s)
      /\ \A q \in Obj : Up(r, q) = Up(s, q) /\ Up(s, q) \in Nat /\ r.objs[q].kind = s.objs[q].kind
  BY <1>4, SameSets DEF Up, SameShape
<1>8. ASSUME NEW q \in Members(s)
      PROVE  /\ r.objs[q].ref >= Up(r, q) + tn[q]
             /\ r.objs[q].kind = "dir" => r.objs[q].ref = Up(r, q) + tn[q] /\ r.objs[q].ref >= 1
  <2>1. /\ s.objs[q].ref >= Up(s, q) + t[q]
        /\ s.objs[q].kind = "dir" => s.objs[q].ref = Up(s, q) + t[q] /\ s.objs[q].ref >= 1
    BY DEF RefsCounted
  <2>2. q \in Obj /\ t[q] \in Nat
    BY <1>2, <1>6
  <2>3. s.objs[q].ref \in Nat
    BY <2>2, FsFields
  <2> QED BY <1>3, <1>4, <1>6, <1>7, <2>1, <2>2, <2>3 DEF RefsSet
<1>9. \A q \in Obj : tn[q] > 0 => q \in Members(r)
  <2>1. \A q \in Obj : t[q] > 0 => q \in Members(s)
    BY DEF RefsCounted
  <2> QED BY <1>6, <1>7, <2>1
<1>10. RefsCounted(r, m, tn)
  BY <1>2, <1>4, <1>6, <1>7, <1>8, <1>9 DEF RefsCounted, Counts
<1>11. PlusMount(m, n) = m
  BY <1>1, <1>2, PlusTmpOnly
<1> QED BY <1>1, <1>4, <1>5, <1>10, <1>11

\* fs_finddir(): the state that it leaves has a reference for the node.
LEMMA FinddirCounts ==
  ASSUME NEW s, IsFs(s), Shape(s), NEW m, NEW t, RefsCounted(s, m, t), NEW n, NEW name,
         n.obj \in {0} \cup Obj,
         NEW f, f = fs_finddir(s, n, name)
  PROVE  /\ IsFs(f.st) /\ SameShape(s, f.st) /\ f.st.halted = s.halted
         /\ RefsCounted(f.st, PlusMount(m, f.node), PlusTmp(t, f.node))
         /\ f.node # NoNode => /\ NodeOK(s, f.node) /\ ~f.node.mount
                               /\ f.node.obj # 0 => Parented(s, f.node.obj)
<1>1. Counts(s, m, t) /\ SameShape(s, s)
  BY DEF RefsCounted, Counts, SameShape
<1>2. \A x : ~x.mount /\ x.obj \notin Obj => RefsCounted(s, PlusMount(m, x), PlusTmp(t, x))
  BY <1>1, PlusNothing
<1>3. \A o \in Obj : o > 0
  BY VfsAssumption DEF Obj
<1>4. -1 \notin Obj /\ 0 \notin Obj
  BY <1>3
<1>5. CASE f.st = s /\ f.node = NoNode
  BY <1>1, <1>2, <1>4, <1>5, NodeFields
<1>6. CASE Kind(s, n) = "dir" /\ n.obj > 0
  <2>1. n.obj \in Obj /\ f = tmpfs_finddir(s, n.obj, name)
    BY <1>6 DEF fs_finddir
  <2>2. PICK M : M = Matching(s, n.obj, name)
    OBVIOUS
  <2>3. CASE M = {}
    BY <1>5, <2>1, <2>2, <2>3 DEF tmpfs_finddir
  <2>4. CASE M # {}
    <3>1. s.objs[n.obj].childs \in Seq(Obj)
      BY <2>1, FsFields
    <3>2. M \subseteq DOMAIN s.objs[n.obj].childs /\ M \in SUBSET Nat
      BY <2>2, <3>1 DEF Matching
    <3>3. PICK i : i = Min(M) /\ i \in DOMAIN s.objs[n.obj].childs
      BY <2>4, <3>2, MinFacts
    <3>4. PICK o : o = s.objs[n.obj].childs[i]
      OBVIOUS
    <3>5. o \in ChildsOf(s, n.obj)
      BY <3>3, <3>4 DEF ChildsOf, SetOf
    <3>6. o \in Members(s) /\ o \in Obj /\ Parented(s, o)
      BY <2>1, <3>5 DEF Shape, Members, LiveOf, Parented
    <3>7. f.st = WithRef(s, o, s.objs[o].ref + 1) /\ f.node = TmpNode(o)
      <4>1. PICK d : d = n.obj
        OBVIOUS
      <4>2. f = tmpfs_finddir(s, d, name) /\ Matching(s, d, name) # {}
            /\ s.objs[d].childs[Min(Matching(s, d, name))] = o
        BY <2>1, <2>2, <2>4, <3>3, <3>4, <4>1
      <4>3. f = [st |-> WithRef(s, o, s.objs[o].ref + 1), node |-> TmpNode(o)]
        BY <4>2, Zenon DEF tmpfs_finddir, WithRef
      <4> QED BY <4>3
    <3>8. /\ IsFs(f.st) /\ SameShape(s, f.st) /\ f.st.halted = s.halted
          /\ RefsCounted(f.st, PlusMount(m, f.node), PlusTmp(t, f.node))
      BY <3>6, <3>7, TakeCounts
    <3>9. NodeOK(s, f.node) /\ ~f.node.mount /\ f.node.obj = o
      BY <3>6, <3>7, NodeFields DEF NodeOK
    <3> QED BY <3>6, <3>8, <3>9
  <2> QED BY <2>3, <2>4
<1>7. CASE Kind(s, n) = "dir" /\ ~(n.obj > 0)
  <2>1. f = tar_finddir(s, Append(n.at, name))
    BY <1>7 DEF fs_finddir
  <2>2. PICK q : q = Append(n.at, name)
    OBVIOUS
  <2>3. CASE \E e \in Entries : e.path = q
    <3>1. f.st = s /\ f.node = TarNode(q)
      BY <2>1, <2>2, <2>3 DEF tar_finddir
    <3>2. ~f.node.mount /\ f.node.obj = 0
      BY <3>1, NodeFields
    <3>3. NodeOK(s, f.node)
      BY <2>3, <3>1 DEF NodeOK
    <3> QED BY <1>1, <1>2, <1>4, <3>1, <3>2, <3>3
  <2>4. CASE ~ \E e \in Entries : e.path = q
    BY <1>5, <2>1, <2>2, <2>4 DEF tar_finddir
  <2> QED BY <2>3, <2>4
<1>8. CASE Kind(s, n) # "dir"
  BY <1>5, <1>8 DEF fs_finddir
<1> QED BY <1>6, <1>7, <1>8

\* An object is replaced.
ObjSet(s, o, x) == [s EXCEPT !.objs[o] = x]

Replaces(s, r, o, x) == \A q \in Obj : r.objs[q] = IF q = o THEN x ELSE s.objs[q]

LEMMA WithObj ==
  ASSUME NEW s, IsFs(s), NEW o \in Obj, NEW x \in ObjType,
         NEW r, r = ObjSet(s, o, x)
  PROVE  /\ IsFs(r) /\ r.mounts = s.mounts /\ r.lost = s.lost /\ r.halted = s.halted
         /\ Replaces(s, r, o, x)
<1>1. PICK ob : ob = s.objs /\ ob \in [Obj -> ObjType]
  BY DEF IsFs
<1>2. PICK nb : nb = [ob EXCEPT ![o] = x]
  OBVIOUS
<1>3. r = FsOf(nb, s.mounts, s.lost, s.halted)
  <2>1. s = FsOf(s.objs, s.mounts, s.lost, s.halted)
    BY DEF IsFs
  <2> QED BY <1>1, <1>2, <2>1 DEF FsOf, ObjSet
<1>4. r.objs = nb /\ r.mounts = s.mounts /\ r.lost = s.lost /\ r.halted = s.halted
  BY <1>3, FsOfFields
<1>5. nb \in [Obj -> ObjType] /\ \A q \in Obj : nb[q] = IF q = o THEN x ELSE ob[q]
  BY <1>1, <1>2
<1>6. IsFs(r)
  BY <1>3, <1>4, <1>5 DEF IsFs
<1> QED BY <1>1, <1>4, <1>5, <1>6 DEF Replaces

LEMMA NoObjFacts ==
  /\ NoObj \in ObjType /\ NoObj.live = FALSE /\ NoObj.childs = << >> /\ NoObj.ref = 0
<1>1. << >> \in Seq(Obj) /\ 0 \in Nat /\ FALSE \in BOOLEAN
  OBVIOUS
<1> QED BY <1>1 DEF NoObj, ObjType

\* An object that nothing leads to is destroyed.
LEMMA DestroyKeeps ==
  ASSUME NEW s, IsFs(s), Shape(s), NEW o \in Members(s), ~Parented(s, o),
         s.objs[o].childs = << >>,
         NEW m, NEW t, Counts(s, m, t), t[o] = 0,
         \A p \in DOMAIN s.mounts : s.mounts[p].ref = (IF p = << >> THEN 2 ELSE 3) + m[p],
         \A q \in Obj : t[q] > 0 => q \in Members(s),
         \A q \in Members(s) \ {o} :
           /\ s.objs[q].ref >= Up(s, q) + t[q]
           /\ s.objs[q].kind = "dir" => s.objs[q].ref = Up(s, q) + t[q] /\ s.objs[q].ref >= 1,
         NEW r, r = ObjSet(s, o, NoObj)
  PROVE  IsFs(r) /\ Shape(r) /\ RefsCounted(r, m, t) /\ r.mounts = s.mounts /\ r.halted = s.halted
<1>1. o \in Obj /\ o \in LiveOf(s) /\ o \notin RootsOf(s) /\ o \notin s.lost
  BY DEF Members, LiveOf
<1>2. /\ IsFs(r) /\ r.mounts = s.mounts /\ r.lost = s.lost /\ r.halted = s.halted
      /\ \A q \in Obj : r.objs[q] = IF q = o THEN NoObj ELSE s.objs[q]
  <2>1. IsFs(r) /\ r.mounts = s.mounts /\ r.lost = s.lost /\ r.halted = s.halted
        /\ Replaces(s, r, o, NoObj)
    BY <1>1, WithObj, NoObjFacts
  <2> QED BY <2>1 DEF Replaces
<1>3. \A q \in Obj : r.objs[q].childs = s.objs[q].childs
  BY <1>2, NoObjFacts
<1>4. \A q \in Obj : ChildsOf(r, q) = ChildsOf(s, q)
  BY <1>3 DEF ChildsOf
<1>5. \A q \in Obj : Parented(r, q) = Parented(s, q) /\ Up(r, q) = Up(s, q)
  BY <1>4 DEF Parented, Up
<1>6. LiveOf(r) = LiveOf(s) \ {o}
  BY <1>1, <1>2, NoObjFacts DEF LiveOf
<1>7. RootsOf(r) = RootsOf(s)
  BY <1>2 DEF RootsOf
<1>8. Members(r) = Members(s) \ {o}
  BY <1>2, <1>6, <1>7 DEF Members
<1>9. Shape(r)
  <2>1. /\ << >> \in DOMAIN r.mounts
        /\ RootsOf(r) \subseteq LiveOf(r) \ r.lost /\ r.lost \subseteq LiveOf(r)
    BY <1>1, <1>2, <1>6, <1>7 DEF Shape
  <2>2. ASSUME NEW q \in Obj, r.objs[q].childs # << >>
        PROVE  q \in LiveOf(r) \ r.lost /\ r.objs[q].kind = "dir"
    <3>1. q # o
      BY <1>3, <2>2
    <3> QED BY <1>2, <1>3, <1>6, <2>2, <3>1 DEF Shape
  <2>3. ASSUME NEW q \in Obj PROVE ChildsOf(r, q) \subseteq Members(r)
    <3>1. o \notin ChildsOf(s, q)
      BY DEF Parented
    <3> QED BY <1>4, <1>8, <3>1 DEF Shape
  <2>4. \A q \in Obj : IsInjective(r.objs[q].childs)
    BY <1>3 DEF Shape
  <2>5. \A q, p \in Obj : q # p => ChildsOf(r, q) \cap ChildsOf(r, p) = {}
    BY <1>4 DEF Shape
  <2>6. ASSUME NEW S \in SUBSET Obj, S # {}
        PROVE  \E q \in S : \A p \in S : q \notin ChildsOf(r, p)
    <3>1. PICK q \in S : \A p \in S : q \notin ChildsOf(s, p)
      BY <2>6 DEF Shape
    <3> QED BY <1>4, <3>1
  <2> QED BY <2>1, <2>2, <2>3, <2>4, <2>5, <2>6 DEF Shape
<1>10. Members(s) \subseteq Obj
  BY DEF Members, LiveOf
<1>11. \A q \in Obj : t[q] > 0 => q \in Members(r)
  BY <1>8
<1>12. ASSUME NEW q \in Members(r)
       PROVE  /\ r.objs[q].ref >= Up(r, q) + t[q]
              /\ r.objs[q].kind = "dir" => r.objs[q].ref = Up(r, q) + t[q] /\ r.objs[q].ref >= 1
  <2>1. q \in Members(s) \ {o} /\ q \in Obj /\ q # o
    BY <1>8, <1>10
  <2>2. r.objs[q] = s.objs[q] /\ Up(r, q) = Up(s, q)
    BY <1>2, <1>5, <2>1
  <2> QED BY <2>1, <2>2
<1>13. RefsCounted(r, m, t)
  BY <1>2, <1>11, <1>12 DEF RefsCounted, Counts
<1> QED BY <1>2, <1>9, <1>13

\* The end of a reference to an object, which t does not count any more: the
\* object is destroyed when it was the last one.
LEMMA DropCounts ==
  ASSUME NEW s, IsFs(s), ~s.halted, Shape(s), NEW o \in Obj, NEW m, NEW t, Counts(s, m, t),
         RefsCounted(s, m, PlusTmp(t, TmpNode(o))), NEW r, r = Dropped(s, o)
  PROVE  /\ IsFs(r) /\ r.mounts = s.mounts
         /\ ~r.halted => Shape(r) /\ RefsCounted(r, m, t)
         /\ Parented(s, o) => SameShape(s, r) /\ ~r.halted
<1>1. PICK tn : tn = PlusTmp(t, TmpNode(o))
  OBVIOUS
<1>2. RefsCounted(s, m, tn) /\ TmpNode(o).mount = FALSE /\ TmpNode(o).obj = o
  BY <1>1, NodeFields
<1>3. /\ t \in [Obj -> Nat] /\ m \in [DOMAIN s.mounts -> Nat]
      /\ \A q \in Obj : tn[q] = IF q = o THEN t[q] + 1 ELSE t[q]
  <2>1. MoreTmps(t, tn, TmpNode(o))
    BY <1>1, PlusFacts
  <2> QED BY <1>2, <2>1 DEF Counts, MoreTmps
<1>4. t[o] \in Nat /\ tn[o] = t[o] + 1
  BY <1>3
<1>5. o \in Members(s)
  BY <1>2, <1>4 DEF RefsCounted
<1>6. PICK x : x = s.objs[o].ref /\ x \in Nat
  BY FsFields
<1>7. Up(s, o) \in Nat /\ (Parented(s, o) => Up(s, o) = 1)
  BY DEF Up
<1>8. /\ x >= Up(s, o) + t[o] + 1
      /\ s.objs[o].kind = "dir" => x = Up(s, o) + t[o] + 1
  <2>1. /\ s.objs[o].ref >= Up(s, o) + tn[o]
        /\ s.objs[o].kind = "dir" => s.objs[o].ref = Up(s, o) + tn[o]
    BY <1>2, <1>5 DEF RefsCounted
  <2> QED BY <1>4, <1>6, <1>7, <2>1
<1>9. PICK w : w = WithRef(s, o, x - 1)
  OBVIOUS
<1>10. x - 1 \in Nat
  BY <1>4, <1>6, <1>7, <1>8
<1>11. /\ IsFs(w) /\ SameShape(s, w) /\ w.mounts = s.mounts /\ w.halted = s.halted
       /\ RefsSet(s, w, o, x - 1)
  BY <1>9, <1>10, ObjRef
<1>12. w.objs[o].ref = x - 1 /\ \A q \in Obj : q # o => w.objs[q].ref = s.objs[q].ref
  BY <1>11 DEF RefsSet
<1>13. r = IF x - 1 = 0 THEN Destroyed(w, o) ELSE w
  BY <1>6, <1>9, <1>12 DEF Dropped, WithRef
<1>14. /\ Members(w) = Members(s) /\ Shape(w)
       /\ \A q \in Obj : /\ Up(w, q) = Up(s, q) /\ Parented(w, q) = Parented(s, q)
                         /\ w.objs[q].kind = s.objs[q].kind
  BY <1>11, SameSets, SameKeepsShape DEF SameShape
<1>15. Members(s) \subseteq Obj
  BY DEF Members, LiveOf
<1>16. /\ \A p \in DOMAIN w.mounts : w.mounts[p].ref = (IF p = << >> THEN 2 ELSE 3) + m[p]
       /\ \A q \in Obj : t[q] > 0 => q \in Members(w)
       /\ Counts(w, m, t)
  <2>1. \A q \in Obj : t[q] > 0 => q \in Members(s)
    <3>1. \A q \in Obj : tn[q] > 0 => q \in Members(s)
      BY <1>2 DEF RefsCounted
    <3> QED BY <1>3, <1>5, <3>1
  <2> QED BY <1>2, <1>11, <1>14, <2>1 DEF RefsCounted, Counts
<1>17. ASSUME NEW q \in Members(w), q # o
       PROVE  /\ w.objs[q].ref >= Up(w, q) + t[q]
              /\ w.objs[q].kind = "dir" => w.objs[q].ref = Up(w, q) + t[q] /\ w.objs[q].ref >= 1
  <2>1. q \in Obj /\ q \in Members(s)
    BY <1>14, <1>15
  <2>2. /\ s.objs[q].ref >= Up(s, q) + tn[q]
        /\ s.objs[q].kind = "dir" => s.objs[q].ref = Up(s, q) + tn[q] /\ s.objs[q].ref >= 1
    BY <1>2, <2>1 DEF RefsCounted
  <2>3. tn[q] = t[q] /\ w.objs[q].ref = s.objs[q].ref
    BY <1>3, <1>12, <1>17, <2>1
  <2> QED BY <1>14, <2>1, <2>2, <2>3
<1>18. CASE x - 1 # 0
  <2>1. r = w
    BY <1>13, <1>18
  <2>2. /\ w.objs[o].ref >= Up(w, o) + t[o]
        /\ w.objs[o].kind = "dir" => w.objs[o].ref = Up(w, o) + t[o] /\ w.objs[o].ref >= 1
    BY <1>4, <1>6, <1>7, <1>8, <1>10, <1>12, <1>14, <1>18
  <2>3. RefsCounted(w, m, t)
    BY <1>16, <1>17, <2>2 DEF RefsCounted, Counts
  <2> QED BY <1>11, <1>14, <2>1, <2>3
<1>19. CASE x - 1 = 0
  <2>1. Up(s, o) = 0 /\ t[o] = 0
    BY <1>4, <1>6, <1>7, <1>8, <1>19
  <2>2. ~Parented(s, o) /\ ~Parented(w, o)
    BY <1>7, <1>14, <2>1
  <2>3. r = Destroyed(w, o)
    BY <1>13, <1>19
  <2>4. CASE w.objs[o].childs # << >>
    <3>1. r = [w EXCEPT !.halted = TRUE]
      BY <2>3, <2>4 DEF Destroyed
    <3>2. IsFs(r) /\ r.halted = TRUE /\ r.mounts = w.mounts
      BY <1>11, <3>1, Halting
    <3> QED BY <1>11, <2>2, <3>2
  <2>5. CASE w.objs[o].childs = << >>
    <3>1. r = ObjSet(w, o, NoObj)
      BY <2>3, <2>5 DEF Destroyed, ObjSet
    <3>2. o \in Members(w) /\ \A q \in Members(w) \ {o} : q \in Members(w) /\ q # o
      BY <1>5, <1>14
    <3>3. IsFs(r) /\ Shape(r) /\ RefsCounted(r, m, t) /\ r.mounts = w.mounts
      BY <1>11, <1>14, <1>16, <1>17, <2>1, <2>2, <2>5, <3>1, <3>2, DestroyKeeps
    <3> QED BY <1>11, <2>2, <3>3
  <2> QED BY <2>4, <2>5
<1> QED BY <1>18, <1>19

\* fs_node_release() of a node that m and t do not count any more.
LEMMA ReleaseCounts ==
  ASSUME NEW s, IsFs(s), ~s.halted, Shape(s), NEW n, NodeOK(s, n),
         NEW m, NEW t, Counts(s, m, t),
         RefsCounted(s, PlusMount(m, n), PlusTmp(t, n)), NEW r, r = fs_node_release(s, n)
  PROVE  /\ IsFs(r) /\ DOMAIN r.mounts = DOMAIN s.mounts
         /\ \A p \in DOMAIN s.mounts : r.mounts[p].obj = s.mounts[p].obj
         /\ ~r.halted => Shape(r) /\ RefsCounted(r, m, t)
         /\ (n.mount \/ n.obj = 0 \/ Parented(s, n.obj)) => SameShape(s, r) /\ ~r.halted
<1>1. \A o \in Obj : o > 0
  BY VfsAssumption DEF Obj
<1>2. SameShape(s, s)
  BY DEF SameShape
<1>3. ASSUME NEW p \in DOMAIN s.mounts, n = MountNode(s, p)
      PROVE  IsFs(r) /\ SameShape(s, r) /\ ~r.halted /\ RefsCounted(r, m, t)
  <2>1. n.mount = TRUE /\ n.at = p
    BY <1>3, NodeFields
  <2>2. PICK x : x = s.mounts[p].ref /\ x \in Nat
    BY FsFields
  <2>3. PICK mn : mn = PlusMount(m, n)
    OBVIOUS
  <2>4. RefsCounted(s, mn, t)
    BY <2>1, <2>3, PlusMountOnly
  <2>5. \A q \in DOMAIN s.mounts : mn[q] = IF q = p THEN m[q] + 1 ELSE m[q]
    <3>1. MoreMounts(s, m, mn, n)
      BY <2>3, PlusFacts
    <3> QED BY <2>1, <3>1 DEF MoreMounts
  <2>6. m[p] \in Nat /\ x = (IF p = << >> THEN 2 ELSE 3) + m[p] + 1
    <3>1. m[p] \in Nat /\ s.mounts[p].ref = (IF p = << >> THEN 2 ELSE 3) + mn[p]
      BY <2>4 DEF RefsCounted, Counts
    <3>2. mn[p] = m[p] + 1
      BY <2>5
    <3> QED BY <2>2, <3>1, <3>2
  <2>7. r = WithMountRef(s, p, x - 1) /\ x - 1 \in Nat /\ x - 1 = (IF p = << >> THEN 2 ELSE 3) + m[p]
    <3>1. x - 1 \in Nat /\ x - 1 = (IF p = << >> THEN 2 ELSE 3) + m[p]
      BY <2>6
    <3>2. r = WithMountRef(s, p, x - 1)
      BY <2>1, <2>2 DEF fs_node_release, WithMountRef
    <3> QED BY <3>1, <3>2
  <2>8. /\ IsFs(r) /\ SameShape(s, r) /\ r.objs = s.objs /\ r.halted = s.halted
        /\ MountRefsSet(s, r, p, x - 1)
    BY <2>7, MountRef
  <2>9. ASSUME NEW q \in DOMAIN s.mounts
        PROVE  r.mounts[q].ref = (IF q = << >> THEN 2 ELSE 3) + m[q]
    <3>1. CASE q = p
      BY <2>7, <2>8, <3>1 DEF MountRefsSet
    <3>2. CASE q # p
      <4>1. s.mounts[q].ref = (IF q = << >> THEN 2 ELSE 3) + mn[q] /\ mn[q] = m[q]
        BY <2>4, <2>5, <3>2 DEF RefsCounted
      <4> QED BY <2>8, <3>2, <4>1 DEF MountRefsSet
    <3> QED BY <3>1, <3>2
  <2>10. DOMAIN r.mounts = DOMAIN s.mounts /\ Members(r) = Members(s)
         /\ \A o \in Obj : Up(r, o) = Up(s, o)
    BY <2>8, SameSets DEF SameShape
  <2>11. Members(s) \subseteq Obj
    BY DEF Members, LiveOf
  <2>12. RefsCounted(r, m, t)
    BY <2>4, <2>8, <2>9, <2>10, <2>11 DEF RefsCounted, Counts
  <2> QED BY <2>8, <2>12
<1>4. ASSUME NEW o \in Obj, n = TmpNode(o)
      PROVE  /\ IsFs(r) /\ r.mounts = s.mounts
             /\ ~r.halted => Shape(r) /\ RefsCounted(r, m, t)
             /\ Parented(s, n.obj) => SameShape(s, r) /\ ~r.halted
  <2>1. n.mount = FALSE /\ n.obj = o /\ n.obj > 0
    BY <1>1, <1>4, NodeFields
  <2>2. RefsCounted(s, m, PlusTmp(t, n))
    BY <2>1, PlusTmpOnly
  <2>3. CASE Kind(s, n) = "dir"
    <3>1. r = Dropped(s, o)
      BY <2>1, <2>3 DEF fs_node_release
    <3> QED BY <1>4, <2>1, <2>2, <3>1, DropCounts
  <2>4. CASE Kind(s, n) # "dir"
    <3>1. r = s /\ s.objs[o].kind # "dir"
      BY <2>1, <2>4 DEF fs_node_release, Kind
    <3>2. PICK tn : tn = PlusTmp(t, n)
      OBVIOUS
    <3>3. \A q \in Obj : tn[q] = (IF q = o THEN t[q] + 1 ELSE t[q]) /\ t[q] \in Nat
      <4>1. MoreTmps(t, tn, n)
        BY <3>2, PlusFacts
      <4> QED BY <2>1, <4>1 DEF MoreTmps, Counts
    <3>4. RefsCounted(s, m, tn)
      BY <2>2, <3>2
    <3>5. ASSUME NEW q \in Members(s)
          PROVE  /\ s.objs[q].ref >= Up(s, q) + t[q]
                 /\ s.objs[q].kind = "dir" => s.objs[q].ref = Up(s, q) + t[q] /\ s.objs[q].ref >= 1
      <4>1. /\ s.objs[q].ref >= Up(s, q) + tn[q]
            /\ s.objs[q].kind = "dir" => s.objs[q].ref = Up(s, q) + tn[q] /\ s.objs[q].ref >= 1
        BY <3>4 DEF RefsCounted
      <4>2. q \in Obj /\ Up(s, q) \in Nat /\ s.objs[q].ref \in Nat
        BY FsFields DEF Members, LiveOf, Up
      <4>3. CASE q = o
        <5>1. tn[q] = t[q] + 1 /\ t[q] \in Nat
          BY <3>3, <4>3
        <5> QED BY <3>1, <4>1, <4>2, <4>3, <5>1
      <4>4. CASE q # o
        BY <3>3, <4>1, <4>2, <4>4
      <4> QED BY <4>3, <4>4
    <3>6. \A q \in Obj : t[q] > 0 => q \in Members(s)
      <4>1. \A q \in Obj : tn[q] > 0 => q \in Members(s)
        BY <3>4 DEF RefsCounted
      <4> QED BY <3>3, <4>1
    <3>7. RefsCounted(s, m, t)
      BY <3>4, <3>5, <3>6 DEF RefsCounted, Counts
    <3> QED BY <1>2, <3>1, <3>7
  <2> QED BY <2>3, <2>4
<1>5. ASSUME NEW e \in Entries, n = TarNode(e.path)
      PROVE  r = s /\ RefsCounted(s, m, t)
  <2>1. n.mount = FALSE /\ n.obj = 0
    BY <1>5, NodeFields
  <2>2. 0 \notin Obj
    BY <1>1
  <2>3. r = s
    BY <2>1 DEF fs_node_release
  <2> QED BY <2>1, <2>2, <2>3, PlusNothing
<1>6. CASE \E p \in DOMAIN s.mounts : n = MountNode(s, p)
  <2>1. IsFs(r) /\ SameShape(s, r) /\ ~r.halted /\ RefsCounted(r, m, t)
    BY <1>3, <1>6
  <2> QED BY <2>1, SameKeepsShape DEF SameShape
<1>7. CASE \E o \in Obj : n = TmpNode(o)
  <2>1. /\ IsFs(r) /\ r.mounts = s.mounts
        /\ ~r.halted => Shape(r) /\ RefsCounted(r, m, t)
        /\ Parented(s, n.obj) => SameShape(s, r) /\ ~r.halted
    BY <1>4, <1>7
  <2>2. n.mount = FALSE /\ n.obj # 0
    BY <1>1, <1>7, NodeFields
  <2> QED BY <2>1, <2>2
<1>8. CASE \E e \in Entries : n = TarNode(e.path)
  BY <1>2, <1>5, <1>8
<1> QED BY <1>6, <1>7, <1>8 DEF NodeOK

-----------------------------------------------------------------------------
(* Lookups.                                                                 *)

Frame == [elements : Seq(Element), i : Nat \ {0}]

LookOf(st, node, frames) == [st |-> st, node |-> node, frames |-> frames]

\* A lookup that began in s, where m and t were counted, has one reference more,
\* on its node, and has changed nothing else.
LookOK(c, s, m, t) ==
  /\ c = LookOf(c.st, c.node, c.frames)
  /\ IsFs(c.st) /\ SameShape(s, c.st) /\ c.frames \in Seq(Frame)
  /\ c.node = NoNode \/ c.st.halted => c.frames = << >>
  /\ ~c.st.halted => RefsCounted(c.st, PlusMount(m, c.node), PlusTmp(t, c.node))
  /\ c.node # NoNode =>
       NodeOK(s, c.node) /\ (c.node.mount \/ c.node.obj = 0 \/ Parented(s, c.node.obj))

LEMMA LookOfFields ==
  ASSUME NEW a, NEW b, NEW c
  PROVE  LookOf(a, b, c).st = a /\ LookOf(a, b, c).node = b /\ LookOf(a, b, c).frames = c
BY DEF LookOf

LEMMA NotFoundOK ==
  ASSUME NEW s, NEW m, NEW t, NEW r, IsFs(r), SameShape(s, r), Counts(s, m, t),
         ~r.halted => RefsCounted(r, m, t)
  PROVE  LookOK(NotFound(r), s, m, t)
<1>1. PICK c : c = NotFound(r) /\ c = LookOf(r, NoNode, << >>)
  BY DEF NotFound, LookOf
<1>2. c.st = r /\ c.node = NoNode /\ c.frames = << >>
  BY <1>1, LookOfFields
<1>3. PlusMount(m, NoNode) = m /\ PlusTmp(t, NoNode) = t
  <2>1. -1 \notin Obj
    BY VfsAssumption DEF Obj
  <2> QED BY <2>1, NodeFields, PlusNothing
<1>4. << >> \in Seq(Frame)
  OBVIOUS
<1> QED BY <1>1, <1>2, <1>3, <1>4 DEF LookOK

\* A call of findfile_recursive() begins.
LEMMA EnteredOK ==
  ASSUME NEW s, Shape(s), NEW r, IsFs(r), ~r.halted, SameShape(s, r), NEW m, NEW t,
         RefsCounted(r, m, t), NEW frames \in Seq(Frame), NEW elements \in Seq(Element)
  PROVE  LookOK(Entered(r, frames, elements), s, m, t)
<1>1. DOMAIN r.mounts = DOMAIN s.mounts /\ << >> \in DOMAIN r.mounts
  BY DEF SameShape, Shape
<1>2. PICK k : /\ k = walk_mount_graph(r, elements) /\ k \in 0..Len(elements)
               /\ SubSeq(elements, 1, k) \in DOMAIN r.mounts
  BY <1>1, WalkFacts
<1>3. PICK p : p = SubSeq(elements, 1, k) /\ p \in DOMAIN r.mounts
  BY <1>2
<1>4. PICK n : n = MountNode(r, p)
  OBVIOUS
<1>5. PICK q : q = fs_node_reference(r, n)
  OBVIOUS
<1>6. PICK rest : rest = SubSeq(elements, k + 1, Len(elements)) /\ rest \in Seq(Element)
  <2>1. PICK l : l = Len(elements) /\ l \in Nat
    OBVIOUS
  <2>2. k + 1 \in Nat \ {0} /\ l \in Int /\ l <= Len(elements)
    BY <1>2, <2>1
  <2>3. SubSeq(elements, k + 1, l) \in Seq(Element)
    BY <2>2, SubSeqType
  <2> QED BY <2>1, <2>3
<1>7. Counts(r, m, t) /\ Counts(s, m, t)
  BY <1>1 DEF RefsCounted, Counts
<1>8. CASE Len(frames) >= MaxLevel
  <2>1. Entered(r, frames, elements) = NotFound(r)
    BY <1>8 DEF Entered
  <2> QED BY <1>7, <2>1, NotFoundOK
<1>9. CASE ~(Len(frames) >= MaxLevel)
  <2>1. PICK fr : fr = Append(frames, [elements |-> rest, i |-> 1])
    OBVIOUS
  <2>2. fr \in Seq(Frame)
    <3>1. [elements |-> rest, i |-> 1] \in Frame
      BY <1>6 DEF Frame
    <3> QED BY <2>1, <3>1
  <2>3. Entered(r, frames, elements) = LookOf(q, n, fr)
    BY <1>2, <1>3, <1>4, <1>5, <1>6, <1>9, <2>1 DEF Entered, LookOf
  <2>4. /\ IsFs(q) /\ SameShape(r, q) /\ q.halted = r.halted
        /\ RefsCounted(q, PlusMount(m, n), PlusTmp(t, n))
    BY <1>3, <1>4, <1>5, ReferenceCounts
  <2>5. SameShape(s, q)
    BY <2>4, SameTransitive
  <2>6. n.mount = TRUE
    BY <1>4, NodeFields
  <2>7. n # NoNode
    BY <2>6, NodeFields
  <2>8. NodeOK(s, n)
    <3>1. n = MountNode(s, p) /\ p \in DOMAIN s.mounts
      BY <1>1, <1>3, <1>4 DEF MountNode, SameShape
    <3> QED BY <3>1 DEF NodeOK
  <2>9. PICK c : c = LookOf(q, n, fr)
    OBVIOUS
  <2>10. c.st = q /\ c.node = n /\ c.frames = fr
    BY <2>9, LookOfFields
  <2>11. LookOK(c, s, m, t)
    BY <2>2, <2>4, <2>5, <2>6, <2>7, <2>8, <2>9, <2>10 DEF LookOK
  <2> QED BY <2>3, <2>9, <2>11
<1> QED BY <1>8, <1>9

\* The object behind a node.
LEMMA NodeObj ==
  ASSUME NEW s, IsFs(s), NEW n, NodeOK(s, n)
  PROVE  n.obj \in {0} \cup Obj
BY NodeFields, FsFields DEF NodeOK

LEMMA EntryFacts ==
  ASSUME archive \in Archives, NEW e \in Entries
  PROVE  e.path \in Seq(Name) /\ e.target \in Seq(Element)
<1> DEFINE E == [path : Seq(Name), kind : {"file", "dir", "link"},
                 target : Seq(Element), abs : BOOLEAN, todir : BOOLEAN]
<1>1. archive \in Seq(E)
  BY VfsAssumption
<1>2. e \in E
  <2> HIDE DEF E
  <2>1. PICK i \in DOMAIN archive : e = archive[i]
    BY DEF Entries
  <2> QED BY <1>1, <2>1
<1> QED BY <1>2

\* One round of the loop.
LEMMA WalkedOK ==
  ASSUME archive \in Archives, NEW s, IsFs(s), Shape(s), NEW m, NEW t, Counts(s, m, t),
         NEW c, LookOK(c, s, m, t), c.frames # << >>,
         ~(Last(c.frames).i > Len(Last(c.frames).elements))
  PROVE  LookOK(Walked(c), s, m, t)
<1>1. /\ IsFs(c.st) /\ SameShape(s, c.st) /\ c.frames \in Seq(Frame)
      /\ ~c.st.halted /\ c.node # NoNode
      /\ RefsCounted(c.st, PlusMount(m, c.node), PlusTmp(t, c.node))
      /\ NodeOK(s, c.node) /\ (c.node.mount \/ c.node.obj = 0 \/ Parented(s, c.node.obj))
  BY FsFields DEF LookOK
<1>2. PICK top : top = Last(c.frames) /\ top \in Frame
  BY <1>1, FrontType
<1>3. PICK a, b : a = c.node /\ b = top.elements[top.i]
  OBVIOUS
<1>4. PICK f : f = fs_finddir(c.st, a, b)
  OBVIOUS
<1>5. Shape(c.st) /\ a.obj \in {0} \cup Obj
  BY <1>1, <1>3, NodeObj, SameKeepsShape
<1>6. PICK m1, t1 : m1 = PlusMount(m, a) /\ t1 = PlusTmp(t, a)
  OBVIOUS
<1>7. /\ IsFs(f.st) /\ SameShape(c.st, f.st) /\ f.st.halted = c.st.halted
      /\ RefsCounted(f.st, PlusMount(m1, f.node), PlusTmp(t1, f.node))
      /\ f.node # NoNode => /\ NodeOK(c.st, f.node) /\ ~f.node.mount
                            /\ f.node.obj # 0 => Parented(c.st, f.node.obj)
  BY <1>1, <1>3, <1>4, <1>5, <1>6, FinddirCounts
<1>8. PICK m2, t2 : m2 = PlusMount(m, f.node) /\ t2 = PlusTmp(t, f.node)
  OBVIOUS
<1>9. Counts(s, m2, t2)
  BY <1>8, PlusFacts
<1>10. PlusMount(m1, f.node) = PlusMount(m2, a) /\ PlusTmp(t1, f.node) = PlusTmp(t2, a)
  <2>1. DOMAIN m1 = DOMAIN m /\ DOMAIN m2 = DOMAIN m
    BY <1>6, <1>8 DEF PlusMount
  <2>2. \A p \in DOMAIN m : m[p] \in Nat
    BY DEF Counts
  <2>3. \A o \in Obj : t[o] \in Nat
    BY DEF Counts
  <2>4. PlusMount(m1, f.node) = PlusMount(m2, a)
    <3>1. \A p \in DOMAIN m :
            /\ m1[p] = m[p] + (IF a.mount /\ a.at = p THEN 1 ELSE 0)
            /\ m2[p] = m[p] + (IF f.node.mount /\ f.node.at = p THEN 1 ELSE 0)
      BY <1>6, <1>8 DEF PlusMount
    <3>2. \A p \in DOMAIN m :
            m1[p] + (IF f.node.mount /\ f.node.at = p THEN 1 ELSE 0)
              = m2[p] + (IF a.mount /\ a.at = p THEN 1 ELSE 0)
      BY <2>2, <3>1
    <3> QED BY <2>1, <3>2 DEF PlusMount
  <2>5. PlusTmp(t1, f.node) = PlusTmp(t2, a)
    <3>1. \A o \in Obj :
            /\ t1[o] = t[o] + (IF ~a.mount /\ a.obj = o THEN 1 ELSE 0)
            /\ t2[o] = t[o] + (IF ~f.node.mount /\ f.node.obj = o THEN 1 ELSE 0)
      BY <1>6, <1>8 DEF PlusTmp
    <3>2. \A o \in Obj :
            t1[o] + (IF ~f.node.mount /\ f.node.obj = o THEN 1 ELSE 0)
              = t2[o] + (IF ~a.mount /\ a.obj = o THEN 1 ELSE 0)
      BY <2>3, <3>1
    <3> QED BY <3>2 DEF PlusTmp
  <2> QED BY <2>4, <2>5
<1>11. PICK r : r = fs_node_release(f.st, a)
  OBVIOUS
<1>12. SameShape(s, f.st) /\ Shape(f.st) /\ ~f.st.halted
  BY <1>1, <1>7, SameTransitive, SameKeepsShape
<1>13. /\ NodeOK(f.st, a) /\ (a.mount \/ a.obj = 0 \/ Parented(f.st, a.obj))
       /\ Counts(f.st, m2, t2)
  <2>1. NodeOK(f.st, a)
    BY <1>1, <1>3, <1>12 DEF NodeOK, MountNode, SameShape
  <2>2. a.mount \/ a.obj = 0 \/ Parented(f.st, a.obj)
    BY <1>1, <1>3, <1>5, <1>12, SameSets
  <2>3. Counts(f.st, m2, t2)
    BY <1>9, <1>12 DEF Counts, SameShape
  <2> QED BY <2>1, <2>2, <2>3
<1>14. IsFs(r) /\ SameShape(f.st, r) /\ ~r.halted /\ RefsCounted(r, m2, t2)
  BY <1>7, <1>10, <1>11, <1>12, <1>13, ReleaseCounts
<1>15. SameShape(s, r)
  BY <1>12, <1>14, SameTransitive
<1>16. PICK fr : /\ fr = Append(Front(c.frames), [top EXCEPT !.i = top.i + 1])
                 /\ fr \in Seq(Frame)
  <2>1. Front(c.frames) \in Seq(Frame)
    BY <1>1, FrontType
  <2>2. [top EXCEPT !.i = top.i + 1] \in Frame
    BY <1>2 DEF Frame
  <2>3. Append(Front(c.frames), [top EXCEPT !.i = top.i + 1]) \in Seq(Frame)
    BY <2>1, <2>2
  <2> QED BY <2>3
<1>17. PICK path : path = PushPath(SubSeq(top.elements, 1, top.i - 1), TarEntry(f.node.at).target)
  OBVIOUS
<1>18. Walked(c) = IF f.node = NoNode \/ r.halted THEN NotFound(r)
                   ELSE IF Kind(r, f.node) # "link" THEN LookOf(r, f.node, fr)
                   ELSE IF path.ok THEN Entered(r, fr, path.list)
                   ELSE NotFound([r EXCEPT !.halted = TRUE])
  BY <1>2, <1>3, <1>4, <1>11, <1>16, <1>17, Zenon DEF Walked, LookOf
<1>19. CASE f.node = NoNode
  <2>1. m2 = m /\ t2 = t
    <3>1. -1 \notin Obj
      BY VfsAssumption DEF Obj
    <3> QED BY <1>8, <1>19, <3>1, NodeFields, PlusNothing
  <2>2. Walked(c) = NotFound(r)
    BY <1>18, <1>19
  <2> QED BY <1>14, <1>15, <2>1, <2>2, NotFoundOK
<1>20. CASE f.node # NoNode /\ Kind(r, f.node) # "link"
  <2>1. PICK d : d = LookOf(r, f.node, fr)
    OBVIOUS
  <2>2. Walked(c) = d
    BY <1>14, <1>18, <1>20, <2>1
  <2>3. d.st = r /\ d.node = f.node /\ d.frames = fr
    BY <2>1, LookOfFields
  <2>4. NodeOK(s, f.node)
    BY <1>1, <1>7, <1>20 DEF NodeOK, MountNode, SameShape
  <2>5. f.node.mount \/ f.node.obj = 0 \/ Parented(s, f.node.obj)
    <3>1. f.node.obj \in {0} \cup Obj
      BY <2>4, NodeObj
    <3> QED BY <1>1, <1>7, <1>20, <3>1, SameSets
  <2>6. LookOK(d, s, m, t)
    BY <1>8, <1>14, <1>15, <1>16, <1>20, <2>1, <2>3, <2>4, <2>5 DEF LookOK
  <2> QED BY <2>2, <2>6
<1>21. CASE f.node # NoNode /\ Kind(r, f.node) = "link"
  <2>1. PICK e \in Entries : f.node = TarNode(e.path)
    <3>1. \A o \in Obj : f.node # TmpNode(o)
      <4>1. SUFFICES ASSUME NEW o \in Obj, f.node = TmpNode(o) PROVE FALSE
        OBVIOUS
      <4>2. f.node.obj = o /\ o > 0
        BY <4>1, NodeFields, VfsAssumption DEF Obj
      <4>3. r.objs[o].kind = "link"
        BY <1>21, <4>2 DEF Kind
      <4>4. r.objs[o].kind \in {"file", "dir"}
        BY <1>14, FsFields
      <4> QED BY <4>3, <4>4
    <3>2. \A p : f.node # MountNode(c.st, p)
      BY <1>7, <1>21, NodeFields
    <3> QED BY <1>7, <1>21, <3>1, <3>2 DEF NodeOK
  <2>2. m2 = m /\ t2 = t
    <3>1. 0 \notin Obj
      BY VfsAssumption DEF Obj
    <3> QED BY <1>8, <2>1, <3>1, NodeFields, PlusNothing
  <2>3. path.list \in Seq(Element)
    <3>1. f.node.at = e.path
      BY <2>1, NodeFields
    <3>2. PICK g : g = TarEntry(f.node.at)
      OBVIOUS
    <3>3. g \in Entries
      BY <3>1, <3>2 DEF TarEntry
    <3>4. g.target \in Seq(Element)
      BY <3>3, EntryFacts
    <3>5. top.elements \in Seq(Element) /\ top.i \in Nat \ {0}
      BY <1>2 DEF Frame
    <3>6. top.i - 1 \in Int /\ top.i - 1 <= Len(top.elements)
      <4>1. Len(top.elements) \in Nat /\ ~(top.i > Len(top.elements))
        BY <1>2, <3>5
      <4> QED BY <3>5, <4>1
    <3>7. SubSeq(top.elements, 1, top.i - 1) \in Seq(Element)
      BY <3>5, <3>6, SubSeqType
    <3>8. path \in PathState
      BY <1>17, <3>2, <3>4, <3>7, PushPathType
    <3> QED BY <3>8 DEF PathState
  <2>4. CASE path.ok
    <3>1. Walked(c) = Entered(r, fr, path.list)
      BY <1>14, <1>18, <1>21, <2>4
    <3> QED BY <1>14, <1>15, <1>16, <2>2, <2>3, <3>1, EnteredOK
  <2>5. CASE ~path.ok
    <3>1. PICK h : h = [r EXCEPT !.halted = TRUE]
      OBVIOUS
    <3>2. Walked(c) = NotFound(h)
      BY <1>14, <1>18, <1>21, <2>5, <3>1
    <3>3. IsFs(h) /\ h.halted = TRUE /\ h.mounts = r.mounts /\ h.objs = r.objs /\ h.lost = r.lost
      BY <1>14, <3>1, Halting
    <3>4. SameShape(s, h)
      BY <1>15, <3>3 DEF SameShape
    <3> QED BY <3>2, <3>3, <3>4, NotFoundOK
  <2> QED BY <2>4, <2>5
<1> QED BY <1>19, <1>20, <1>21

LEMMA RoundOK ==
  ASSUME archive \in Archives, NEW s, IsFs(s), Shape(s), NEW m, NEW t, Counts(s, m, t),
         NEW c, LookOK(c, s, m, t)
  PROVE  LookOK(Round(c), s, m, t)
<1>1. CASE c.frames = << >>
  BY <1>1 DEF Round
<1>2. CASE c.frames # << >> /\ Last(c.frames).i > Len(Last(c.frames).elements)
  <2>1. PICK d : d = LookOf(c.st, c.node, Front(c.frames))
    OBVIOUS
  <2>2. Round(c) = d
    <3>1. Round(c) = [c EXCEPT !.frames = Front(c.frames)]
      BY <1>2 DEF Round
    <3>2. c = LookOf(c.st, c.node, c.frames)
      BY DEF LookOK
    <3> QED BY <2>1, <3>1, <3>2 DEF LookOf
  <2>3. d.st = c.st /\ d.node = c.node /\ d.frames = Front(c.frames)
    BY <2>1, LookOfFields
  <2>4. Front(c.frames) \in Seq(Frame)
    BY <1>2, FrontType DEF LookOK
  <2>5. LookOK(d, s, m, t)
    BY <1>2, <2>1, <2>3, <2>4 DEF LookOK
  <2> QED BY <2>2, <2>5
<1>3. CASE c.frames # << >> /\ ~(Last(c.frames).i > Len(Last(c.frames).elements))
  <2>1. Round(c) = Walked(c)
    BY <1>3 DEF Round
  <2> QED BY <1>3, <2>1, WalkedOK
<1> QED BY <1>1, <1>2, <1>3

\* findfile() takes one reference, on the node that it returns.
LEMMA FindfileOK ==
  ASSUME archive \in Archives, NEW s, IsFs(s), ~s.halted, Shape(s),
         NEW m, NEW t, RefsCounted(s, m, t), NEW path \in Seq(Element)
  PROVE  LookOK(findfile(s, path), s, m, t)
<1>1. PICK el : el = PushPath(<< >>, path) /\ el \in PathState
  <2>1. << >> \in Seq(Element)
    OBVIOUS
  <2> QED BY <2>1, PushPathType
<1>2. SameShape(s, s) /\ Counts(s, m, t)
  BY DEF SameShape, Counts, RefsCounted
<1>3. CASE ~el.ok
  <2>1. PICK h : h = [s EXCEPT !.halted = TRUE]
    OBVIOUS
  <2>2. findfile(s, path) = NotFound(h)
    BY <1>1, <1>3, <2>1, Zenon DEF findfile
  <2>3. IsFs(h) /\ h.halted = TRUE /\ h.mounts = s.mounts /\ h.objs = s.objs /\ h.lost = s.lost
    BY <2>1, Halting
  <2>4. SameShape(s, h)
    BY <2>3 DEF SameShape
  <2> QED BY <1>2, <2>2, <2>3, <2>4, NotFoundOK
<1>4. CASE el.ok
  <2>1. PICK base : base = Entered(s, << >>, el.list)
    OBVIOUS
  <2>2. LookOK(base, s, m, t)
    <3>1. << >> \in Seq(Frame) /\ el.list \in Seq(Element)
      BY <1>1 DEF PathState
    <3> QED BY <1>2, <2>1, <3>1, EnteredOK
  <2>3. PICK n : n = MaxSteps /\ n \in Nat
    BY VfsAssumption
  <2> DEFINE Def(p, k) == p = [i \in 0..k |-> IF i = 0 THEN base ELSE Round(p[i - 1])]
             G == {k \in 0..n : \E p : Def(p, k)}
  <2>4. ASSUME NEW k \in 0..n, k # 0 => k - 1 \in G PROVE k \in G
    <3>1. CASE k = 0
      <4>1. PICK p : p = [i \in 0..k |-> base]
        OBVIOUS
      <4>2. \A i \in 0..k : i = 0
        BY <3>1
      <4>3. Def(p, k)
        BY <4>1, <4>2
      <4> QED BY <4>3
    <3>2. CASE k # 0
      <4>1. PICK q : Def(q, k - 1)
        BY <2>4, <3>2
      <4>2. PICK p : p = [i \in 0..k |-> IF i = k THEN Round(q[k - 1]) ELSE q[i]]
        OBVIOUS
      <4>3. ASSUME NEW i \in 0..k PROVE p[i] = IF i = 0 THEN base ELSE Round(p[i - 1])
        <5>1. i # 0 => i - 1 \in 0..k /\ i - 1 # k
          BY <2>3
        <5>2. i # k => i \in 0..(k - 1)
          BY <2>3
        <5>3. CASE i = k
          BY <3>2, <4>2, <5>1, <5>3
        <5>4. CASE i # k
          <6>1. q[i] = IF i = 0 THEN base ELSE Round(q[i - 1])
            BY <4>1, <5>2, <5>4
          <6> QED BY <4>2, <5>1, <5>4, <6>1
        <5> QED BY <5>3, <5>4
      <4>4. Def(p, k)
        <5>1. p = [i \in 0..k |-> p[i]]
          BY <4>2
        <5> QED BY <4>3, <5>1
      <4> QED BY <4>4
    <3> QED BY <3>1, <3>2
  <2>5. n \in G
    <3> HIDE DEF G
    <3>1. Forwards(n, G)
      BY <2>4 DEF Forwards
    <3> QED BY <2>3, <3>1, StepInduction
  <2>6. PICK run : run = CHOOSE p : Def(p, n)
    OBVIOUS
  <2>7. Def(run, n)
    BY <2>5, <2>6
  <2>8. findfile(s, path) = run[n]
    BY <1>1, <1>4, <2>1, <2>3, <2>6, Zenon DEF findfile
  <2>9. run[0] = base /\ \A k \in 1..n : run[k] = Round(run[k - 1])
    BY <2>3, <2>7
  <2>10. n \in {k \in 0..n : LookOK(run[k], s, m, t)}
    <3> DEFINE H == {k \in 0..n : LookOK(run[k], s, m, t)}
    <3>1. ASSUME NEW k \in 0..n, k # 0 => k - 1 \in H PROVE k \in H
      <4>1. CASE k = 0
        BY <2>2, <2>9, <4>1
      <4>2. CASE k # 0
        <5>1. k \in 1..n /\ LookOK(run[k - 1], s, m, t)
          BY <2>3, <3>1, <4>2
        <5>2. LookOK(Round(run[k - 1]), s, m, t)
          BY <1>2, <5>1, RoundOK
        <5> QED BY <2>9, <5>1, <5>2
      <4> QED BY <4>1, <4>2
    <3> HIDE DEF H
    <3>2. Forwards(n, H)
      BY <3>1 DEF Forwards
    <3>3. n \in H
      BY <2>3, <3>2, StepInduction
    <3> QED BY <3>3 DEF H
  <2> QED BY <2>8, <2>10
<1> QED BY <1>3, <1>4

-----------------------------------------------------------------------------
(* Nodes that callers hold.                                                 *)

OneMore(b, c, n) == \A x : NumberOf(c, x) = IF x = n THEN NumberOf(b, x) + 1 ELSE NumberOf(b, x)

LEMMA BagAdd ==
  ASSUME NEW b, IsABag(b), NEW n, NEW c, c = b (+) SetToBag({n})
  PROVE  IsABag(c) /\ BagToSet(c) = BagToSet(b) \cup {n} /\ OneMore(b, c, n)
<1>1. PICK D : D = DOMAIN b /\ b \in [D -> {k \in Nat : k > 0}]
  BY DEF IsABag
<1>2. PICK u : u = SetToBag({n}) /\ DOMAIN u = {n} /\ u[n] = 1
  BY DEF SetToBag
<1>3. c = [e \in D \cup {n} |-> (IF e \in D THEN b[e] ELSE 0) + (IF e \in {n} THEN u[e] ELSE 0)]
  BY <1>1, <1>2 DEF (+)
<1>4. \A e \in D : b[e] \in Nat /\ b[e] > 0
  BY <1>1
<1>5. DOMAIN c = D \cup {n} /\ c = [e \in D \cup {n} |-> c[e]]
  BY <1>3
<1>6. \A e \in D \cup {n} :
        c[e] = IF e = n THEN (IF e \in D THEN b[e] ELSE 0) + 1 ELSE b[e]
  BY <1>2, <1>3, <1>4
<1>7. \A e \in D \cup {n} : c[e] \in {k \in Nat : k > 0}
  BY <1>4, <1>6
<1>8. IsABag(c)
  BY <1>5, <1>7 DEF IsABag
<1>9. BagToSet(c) = D \cup {n} /\ BagToSet(b) = D
  BY <1>1, <1>5 DEF BagToSet
<1>10. OneMore(b, c, n)
  <2>1. SUFFICES ASSUME NEW x
                 PROVE  NumberOf(c, x) = IF x = n THEN NumberOf(b, x) + 1 ELSE NumberOf(b, x)
    BY DEF OneMore
  <2>2. NumberOf(c, x) = IF x \in D \cup {n} THEN c[x] ELSE 0
    BY <1>9 DEF NumberOf
  <2>3. NumberOf(b, x) = IF x \in D THEN b[x] ELSE 0
    BY <1>9 DEF NumberOf
  <2> QED BY <1>6, <2>2, <2>3
<1> QED BY <1>8, <1>9, <1>10

LEMMA BagTake ==
  ASSUME NEW b, IsABag(b), NEW n \in BagToSet(b), NEW c, c = b (-) SetToBag({n})
  PROVE  IsABag(c) /\ BagToSet(c) \subseteq BagToSet(b) /\ OneMore(c, b, n)
<1>1. PICK D : D = DOMAIN b /\ b \in [D -> {k \in Nat : k > 0}] /\ n \in D
  BY DEF IsABag, BagToSet
<1>2. PICK u : u = SetToBag({n}) /\ DOMAIN u = {n} /\ u[n] = 1
  BY DEF SetToBag
<1>3. PICK a : a = [e \in D |-> IF e \in {n} THEN b[e] - u[e] ELSE b[e]]
  OBVIOUS
<1>4. c = [e \in {d \in DOMAIN a : a[d] > 0} |-> a[e]]
  BY <1>1, <1>2, <1>3, Zenon DEF (-)
<1>5. \A e \in D : b[e] \in Nat /\ b[e] > 0
  BY <1>1
<1>6. DOMAIN a = D /\ \A e \in D : a[e] = IF e = n THEN b[e] - 1 ELSE b[e]
  BY <1>2, <1>3
<1>7. PICK E : E = {d \in D : a[d] > 0}
  OBVIOUS
<1>8. DOMAIN c = E /\ c = [e \in E |-> c[e]] /\ \A e \in E : c[e] = a[e]
  BY <1>4, <1>6, <1>7
<1>9. \A e \in E : c[e] \in {k \in Nat : k > 0}
  <2>1. SUFFICES ASSUME NEW e \in E PROVE c[e] \in {k \in Nat : k > 0}
    OBVIOUS
  <2>2. e \in D /\ a[e] > 0
    BY <1>7
  <2>3. a[e] \in Nat
    <3>1. CASE e = n
      BY <1>5, <1>6, <2>2, <3>1
    <3>2. CASE e # n
      BY <1>5, <1>6, <2>2, <3>2
    <3> QED BY <3>1, <3>2
  <2> QED BY <1>8, <2>2, <2>3
<1>10. IsABag(c)
  BY <1>8, <1>9 DEF IsABag
<1>11. BagToSet(c) = E /\ BagToSet(b) = D
  BY <1>1, <1>8 DEF BagToSet
<1>12. OneMore(c, b, n)
  <2>1. SUFFICES ASSUME NEW x
                 PROVE  NumberOf(b, x) = IF x = n THEN NumberOf(c, x) + 1 ELSE NumberOf(c, x)
    BY DEF OneMore
  <2>2. NumberOf(c, x) = IF x \in E THEN c[x] ELSE 0
    BY <1>11 DEF NumberOf
  <2>3. NumberOf(b, x) = IF x \in D THEN b[x] ELSE 0
    BY <1>11 DEF NumberOf
  <2>4. CASE x \in E
    <3>1. x \in D
      BY <1>7, <2>4
    <3>2. c[x] = IF x = n THEN b[x] - 1 ELSE b[x]
      BY <1>6, <1>8, <2>4, <3>1
    <3>3. NumberOf(c, x) = c[x] /\ NumberOf(b, x) = b[x] /\ b[x] \in Nat
      BY <1>5, <2>2, <2>3, <2>4, <3>1
    <3> QED BY <3>2, <3>3
  <2>5. CASE x \notin E
    <3>1. CASE x \in D
      <4>1. ~(a[x] > 0)
        BY <1>7, <2>5, <3>1
      <4>2. x = n /\ b[x] = 1
        BY <1>5, <1>6, <3>1, <4>1
      <4> QED BY <2>2, <2>3, <2>5, <3>1, <4>2
    <3>2. CASE x \notin D
      BY <1>1, <2>2, <2>3, <2>5, <3>2
    <3> QED BY <3>1, <3>2
  <2> QED BY <2>4, <2>5
<1> QED BY <1>7, <1>10, <1>11, <1>12

LEMMA NodeNumbers ==
  ASSUME NEW s, NEW n, NodeOK(s, n), NEW b, NEW c, OneMore(b, c, n), IsABag(b)
  PROVE  MountsIn(s, c) = PlusMount(MountsIn(s, b), n) /\ TmpsIn(c) = PlusTmp(TmpsIn(b), n)
<1>1. \A x : NumberOf(b, x) \in Nat
  BY DEF NumberOf, IsABag, BagToSet
<1>2. \A p \in DOMAIN s.mounts : n = MountNode(s, p) <=> n.mount /\ n.at = p
  BY NodeFields DEF NodeOK
<1>3. \A o \in Obj : n = TmpNode(o) <=> ~n.mount /\ n.obj = o
  <2>1. 0 \notin Obj
    BY VfsAssumption DEF Obj
  <2> QED BY <2>1, NodeFields DEF NodeOK
<1>4. PICK D, A : D = DOMAIN s.mounts /\ A = MountsIn(s, b)
  OBVIOUS
<1>5. DOMAIN A = D /\ \A p \in D : A[p] = NumberOf(b, MountNode(s, p))
  BY <1>4 DEF MountsIn
<1>6. \A p \in D : NumberOf(c, MountNode(s, p)) = A[p] + (IF n.mount /\ n.at = p THEN 1 ELSE 0)
  <2>1. SUFFICES ASSUME NEW p \in D
                 PROVE  NumberOf(c, MountNode(s, p)) = A[p] + (IF n.mount /\ n.at = p THEN 1 ELSE 0)
    OBVIOUS
  <2>2. PICK x : x = MountNode(s, p)
    OBVIOUS
  <2>3. /\ A[p] = NumberOf(b, x) /\ NumberOf(b, x) \in Nat
        /\ NumberOf(c, x) = IF x = n THEN NumberOf(b, x) + 1 ELSE NumberOf(b, x)
    BY <1>1, <1>5, <2>2 DEF OneMore
  <2> QED BY <1>2, <1>4, <2>2, <2>3
<1>7. MountsIn(s, c) = PlusMount(A, n)
  BY <1>4, <1>5, <1>6 DEF MountsIn, PlusMount
<1>8. PICK T : T = TmpsIn(b) /\ \A o \in Obj : T[o] = NumberOf(b, TmpNode(o))
  <2>1. \A o \in Obj : TmpsIn(b)[o] = NumberOf(b, TmpNode(o))
    BY DEF TmpsIn
  <2> QED BY <2>1
<1>9. \A o \in Obj : NumberOf(c, TmpNode(o)) = T[o] + (IF ~n.mount /\ n.obj = o THEN 1 ELSE 0)
  <2>1. SUFFICES ASSUME NEW o \in Obj
                 PROVE  NumberOf(c, TmpNode(o)) = T[o] + (IF ~n.mount /\ n.obj = o THEN 1 ELSE 0)
    OBVIOUS
  <2>2. PICK x : x = TmpNode(o)
    OBVIOUS
  <2>3. /\ T[o] = NumberOf(b, x) /\ NumberOf(b, x) \in Nat
        /\ NumberOf(c, x) = IF x = n THEN NumberOf(b, x) + 1 ELSE NumberOf(b, x)
    BY <1>1, <1>8, <2>2 DEF OneMore
  <2> QED BY <1>3, <2>2, <2>3
<1>10. TmpsIn(c) = PlusTmp(T, n)
  BY <1>8, <1>9 DEF TmpsIn, PlusTmp
<1> QED BY <1>4, <1>7, <1>8, <1>10

SameMounts(s, r) ==
  /\ DOMAIN r.mounts = DOMAIN s.mounts
  /\ \A p \in DOMAIN s.mounts : r.mounts[p].obj = s.mounts[p].obj

\* Nodes stay the same as long as the mounts do.
LEMMA NodesStay ==
  ASSUME NEW s, NEW r, SameMounts(s, r)
  PROVE  /\ \A n : NodeOK(s, n) => NodeOK(r, n)
         /\ \A b : MountsIn(r, b) = MountsIn(s, b)
<1>1. \A p \in DOMAIN s.mounts : MountNode(r, p) = MountNode(s, p)
  BY DEF SameMounts, MountNode
<1>2. \A n : NodeOK(s, n) => NodeOK(r, n)
  BY <1>1 DEF NodeOK, SameMounts
<1>3. \A b : MountsIn(r, b) = MountsIn(s, b)
  BY <1>1 DEF MountsIn, SameMounts
<1> QED BY <1>2, <1>3

\* The numbers of nodes are numbers.
LEMMA NumbersType ==
  ASSUME NEW s, NEW b, IsABag(b)
  PROVE  Counts(s, MountsIn(s, b), TmpsIn(b))
<1>1. \A x : NumberOf(b, x) \in Nat
  BY DEF NumberOf, IsABag, BagToSet
<1> QED BY <1>1 DEF Counts, MountsIn, TmpsIn

LEMMA KopenKeeps ==
  ASSUME archive \in Archives, InvOf(fs, open), ~fs.halted, NEW path \in Paths, kopen(path)
  PROVE  InvOf(fs', open')
<1>1. PICK m, t : m = MountsIn(fs, open) /\ t = TmpsIn(open)
  OBVIOUS
<1>2. /\ IsFs(fs) /\ Shape(fs) /\ RefsCounted(fs, m, t) /\ IsABag(open)
      /\ \A n \in BagToSet(open) : NodeOK(fs, n)
  BY <1>1 DEF InvOf
<1>3. PICK f : /\ f = findfile(fs, path) /\ fs' = f.st
               /\ open' = IF f.node = NoNode \/ f.st.halted THEN open
                          ELSE open (+) SetToBag({f.node})
  BY DEF kopen
<1>4. LookOK(f, fs, m, t)
  BY <1>2, <1>3, FindfileOK, VfsAssumption
<1>5. PICK r, n : r = f.st /\ n = f.node
  OBVIOUS
<1>6. /\ IsFs(r) /\ SameShape(fs, r) /\ (n # NoNode => NodeOK(fs, n))
      /\ ~r.halted => RefsCounted(r, PlusMount(m, n), PlusTmp(t, n))
  BY <1>4, <1>5 DEF LookOK
<1>7. SameMounts(fs, r) /\ Shape(r)
  <2>1. SameMounts(fs, r)
    BY <1>6 DEF SameShape, SameMounts
  <2> QED BY <1>2, <1>6, <2>1, SameKeepsShape
<1>8. CASE n = NoNode \/ r.halted
  <2>1. open' = open /\ fs' = r
    BY <1>3, <1>5, <1>8
  <2>2. ~r.halted => RefsCounted(r, m, t)
    <3>1. SUFFICES ASSUME n = NoNode, ~r.halted PROVE RefsCounted(r, m, t)
      BY <1>8
    <3>2. Counts(fs, m, t) /\ -1 \notin Obj
      BY <1>2, VfsAssumption DEF RefsCounted, Counts, Obj
    <3>3. PlusMount(m, n) = m /\ PlusTmp(t, n) = t
      BY <3>1, <3>2, NodeFields, PlusNothing
    <3> QED BY <1>6, <3>1, <3>3
  <2>3. m = MountsIn(r, open)
    BY <1>1, <1>7, NodesStay
  <2>4. \A x \in BagToSet(open) : NodeOK(r, x)
    BY <1>2, <1>7, NodesStay
  <2>5. InvOf(r, open)
    BY <1>1, <1>2, <1>6, <1>7, <2>2, <2>3, <2>4 DEF InvOf
  <2> QED BY <2>1, <2>5
<1>9. CASE n # NoNode /\ ~r.halted
  <2>1. PICK c : c = open (+) SetToBag({n})
    OBVIOUS
  <2>2. open' = c /\ fs' = r
    BY <1>3, <1>5, <1>9, <2>1
  <2>3. IsABag(c) /\ BagToSet(c) = BagToSet(open) \cup {n} /\ OneMore(open, c, n)
    BY <1>2, <2>1, BagAdd
  <2>4. MountsIn(fs, c) = PlusMount(m, n) /\ TmpsIn(c) = PlusTmp(t, n)
    BY <1>1, <1>2, <1>6, <1>9, <2>3, NodeNumbers
  <2>5. MountsIn(r, c) = PlusMount(m, n)
    BY <1>7, <2>4, NodesStay
  <2>6. \A x \in BagToSet(c) : NodeOK(r, x)
    BY <1>2, <1>6, <1>7, <1>9, <2>3, NodesStay
  <2>7. InvOf(r, c)
    BY <1>6, <1>7, <1>9, <2>3, <2>4, <2>5, <2>6 DEF InvOf
  <2> QED BY <2>2, <2>7
<1> QED BY <1>8, <1>9

LEMMA CloseKeeps ==
  ASSUME InvOf(fs, open), ~fs.halted, NEW node \in BagToSet(open), fs_close(node)
  PROVE  InvOf(fs', open')
<1>1. /\ IsFs(fs) /\ Shape(fs) /\ IsABag(open) /\ NodeOK(fs, node)
      /\ RefsCounted(fs, MountsIn(fs, open), TmpsIn(open))
      /\ \A n \in BagToSet(open) : NodeOK(fs, n)
  BY DEF InvOf
<1>2. PICK c : c = open (-) SetToBag({node}) /\ open' = c
  BY DEF fs_close
<1>3. PICK r : r = fs_node_release(fs, node) /\ fs' = r
  BY DEF fs_close
<1>4. IsABag(c) /\ BagToSet(c) \subseteq BagToSet(open) /\ OneMore(c, open, node)
  BY <1>1, <1>2, BagTake
<1>5. PICK m, t : m = MountsIn(fs, c) /\ t = TmpsIn(c)
  OBVIOUS
<1>6. MountsIn(fs, open) = PlusMount(m, node) /\ TmpsIn(open) = PlusTmp(t, node)
  BY <1>1, <1>4, <1>5, NodeNumbers
<1>7. Counts(fs, m, t)
  BY <1>4, <1>5, NumbersType
<1>8. /\ IsFs(r) /\ DOMAIN r.mounts = DOMAIN fs.mounts
      /\ \A p \in DOMAIN fs.mounts : r.mounts[p].obj = fs.mounts[p].obj
      /\ ~r.halted => Shape(r) /\ RefsCounted(r, m, t)
  BY <1>1, <1>3, <1>6, <1>7, ReleaseCounts
<1>9. SameMounts(fs, r)
  BY <1>8 DEF SameMounts
<1>10. m = MountsIn(r, c)
  BY <1>5, <1>9, NodesStay
<1>11. \A x \in BagToSet(c) : NodeOK(r, x)
  BY <1>1, <1>4, <1>9, NodesStay
<1>12. InvOf(r, c)
  BY <1>4, <1>5, <1>8, <1>10, <1>11 DEF InvOf
<1> QED BY <1>2, <1>3, <1>12

-----------------------------------------------------------------------------
(* Objects come and go.                                                     *)

ListsKept(s, r) ==
  /\ RootsOf(r) \subseteq LiveOf(r) \ r.lost /\ r.lost \subseteq LiveOf(r)
  /\ LiveOf(s) \ s.lost \subseteq LiveOf(r) \ r.lost /\ Members(s) \subseteq Members(r)
  /\ \A q \in Obj : r.objs[q].childs = s.objs[q].childs
  /\ \A q \in LiveOf(s) : r.objs[q].kind = s.objs[q].kind

UpsKept(s, r) == \A q \in Obj : ChildsOf(r, q) = ChildsOf(s, q) /\ Up(r, q) = Up(s, q)

\* A change that keeps all lists, and all objects that a list may lead to.
LEMMA KeepsLists ==
  ASSUME NEW s, NEW r, Shape(s), << >> \in DOMAIN r.mounts,
         ListsKept(s, r)
  PROVE  Shape(r) /\ UpsKept(s, r)
<1>1. \A q \in Obj : ChildsOf(r, q) = ChildsOf(s, q)
  BY DEF ChildsOf, ListsKept
<1>2. \A q \in Obj : Up(r, q) = Up(s, q)
  BY <1>1 DEF Up, Parented
<1>3. \A q \in Obj : r.objs[q].childs # << >> => q \in LiveOf(r) \ r.lost /\ r.objs[q].kind = "dir"
  BY DEF Shape, ListsKept
<1>4. \A q \in Obj : ChildsOf(r, q) \subseteq Members(r)
  BY <1>1 DEF Shape, ListsKept
<1>5. \A q \in Obj : IsInjective(r.objs[q].childs)
  BY DEF Shape, ListsKept
<1>6. \A q, p \in Obj : q # p => ChildsOf(r, q) \cap ChildsOf(r, p) = {}
  BY <1>1 DEF Shape
<1>7. ASSUME NEW S \in SUBSET Obj, S # {}
      PROVE  \E q \in S : \A p \in S : q \notin ChildsOf(r, p)
  <2>1. PICK q \in S : \A p \in S : q \notin ChildsOf(s, p)
    BY <1>7 DEF Shape
  <2> QED BY <1>1, <2>1
<1>8. Shape(r)
  BY <1>3, <1>4, <1>5, <1>6, <1>7 DEF Shape, ListsKept
<1> QED BY <1>1, <1>2, <1>8 DEF UpsKept

LEMMA UnusedFacts ==
  ASSUME NEW s, Unused(s) # {}
  PROVE  Min(Unused(s)) \in Obj /\ Min(Unused(s)) \notin LiveOf(s)
<1>1. Unused(s) \in SUBSET Nat
  BY VfsAssumption DEF Unused, Obj
<1>2. Min(Unused(s)) \in Unused(s)
  BY <1>1, MinFacts
<1> QED BY <1>2 DEF Unused, LiveOf

NewOf(name, kind, ref) ==
  [live |-> TRUE, name |-> name, kind |-> kind, childs |-> << >>, ref |-> ref]

LEMMA NewOfType ==
  \A name \in Name \cup {"", "tmpfs"}, kind \in {"file", "dir"}, ref \in Nat :
    /\ NewOf(name, kind, ref) \in ObjType
    /\ NewOf(name, kind, ref).live = TRUE /\ NewOf(name, kind, ref).childs = << >>
    /\ NewOf(name, kind, ref).kind = kind /\ NewOf(name, kind, ref).ref = ref
<1>1. << >> \in Seq(Obj)
  BY EmptySeq
<1> QED BY <1>1 DEF NewOf, ObjType

ObjAdded(s, r, o) ==
  /\ IsFs(r) /\ r.mounts = s.mounts /\ r.lost = s.lost /\ r.halted = s.halted
  /\ LiveOf(r) = LiveOf(s) \cup {o} /\ RootsOf(r) = RootsOf(s)
  /\ o \notin RootsOf(s) /\ o \notin s.lost /\ s.objs[o].childs = << >>
  /\ \A q \in Obj : r.objs[q].childs = s.objs[q].childs
  /\ \A q \in Obj : q # o => r.objs[q] = s.objs[q]

\* A new object is on no list yet.
LEMMA NewObjFacts ==
  ASSUME NEW s, IsFs(s), Shape(s), NEW o \in Obj, o \notin LiveOf(s),
         NEW x \in ObjType, x.live = TRUE, x.childs = << >>, NEW r, r = ObjSet(s, o, x)
  PROVE  ObjAdded(s, r, o) /\ r.objs[o] = x
<1>4. /\ IsFs(r) /\ r.mounts = s.mounts /\ r.lost = s.lost /\ r.halted = s.halted
      /\ Replaces(s, r, o, x)
  BY WithObj
<1>5. \A q \in Obj : r.objs[q] = IF q = o THEN x ELSE s.objs[q]
  BY <1>4 DEF Replaces
<1>6. LiveOf(r) = LiveOf(s) \cup {o}
  BY <1>5 DEF LiveOf
<1>7. RootsOf(r) = RootsOf(s)
  BY <1>4 DEF RootsOf
<1>8. o \notin RootsOf(s) /\ o \notin s.lost /\ s.objs[o].childs = << >>
  BY DEF Shape
<1>9. \A q \in Obj : r.objs[q].childs = s.objs[q].childs
  BY <1>5, <1>8
<1> QED BY <1>4, <1>5, <1>6, <1>7, <1>8, <1>9 DEF ObjAdded

\* The references of the others when only objects that nobody counts come.
LEMMA KeepsCounted ==
  ASSUME NEW s, NEW r, NEW m, NEW t, RefsCounted(s, m, t),
         Members(r) = Members(s), Members(s) \subseteq Obj,
         \A q \in Members(s) : r.objs[q] = s.objs[q],
         UpsKept(s, r),
         NEW mn, Counts(r, mn, t),
         \A p \in DOMAIN r.mounts : r.mounts[p].ref = (IF p = << >> THEN 2 ELSE 3) + mn[p]
  PROVE  RefsCounted(r, mn, t)
<1>1. ASSUME NEW q \in Members(r)
      PROVE  /\ r.objs[q].ref >= Up(r, q) + t[q]
             /\ r.objs[q].kind = "dir" => r.objs[q].ref = Up(r, q) + t[q] /\ r.objs[q].ref >= 1
  <2>1. r.objs[q] = s.objs[q] /\ Up(r, q) = Up(s, q) /\ q \in Members(s)
    BY DEF UpsKept
  <2> QED BY <2>1 DEF RefsCounted
<1>2. \A q \in Obj : t[q] > 0 => q \in Members(r)
  BY DEF RefsCounted
<1> QED BY <1>1, <1>2 DEF RefsCounted, Counts

NewMounts(s, path, o) ==
  [p \in DOMAIN s.mounts \cup {path} |->
     IF p = path THEN [obj |-> o, ref |-> 3] ELSE s.mounts[p]]

LEMMA SameObjs ==
  ASSUME NEW s, NEW r
  PROVE  /\ r.objs = s.objs => LiveOf(r) = LiveOf(s)
         /\ r.mounts = s.mounts => RootsOf(r) = RootsOf(s)
BY DEF LiveOf, RootsOf

LEMMA RootsOfMember ==
  ASSUME NEW s
  PROVE  \A y : y \in RootsOf(s) <=> y # 0 /\ \E p \in DOMAIN s.mounts : y = s.mounts[p].obj
BY DEF RootsOf

\* A mount: its root is the new object.
LEMMA MountAdded ==
  ASSUME NEW s, InvOf(s, open), ~s.halted, NEW o \in Obj, o \notin LiveOf(s),
         NEW w, ObjAdded(s, w, o),
         NEW path \in Seq(Name), path \notin DOMAIN s.mounts,
         NEW mn, mn = NewMounts(s, path, o), NEW r, r = FsOf(w.objs, mn, w.lost, w.halted)
  PROVE  InvOf(r, open)
<1>1. PICK m, t : m = MountsIn(s, open) /\ t = TmpsIn(open)
  OBVIOUS
<1>2. /\ IsFs(s) /\ Shape(s) /\ RefsCounted(s, m, t) /\ IsABag(open)
      /\ \A n \in BagToSet(open) : NodeOK(s, n)
  BY <1>1 DEF InvOf
<1>3. /\ IsFs(w) /\ w.mounts = s.mounts /\ w.lost = s.lost /\ w.halted = s.halted
      /\ LiveOf(w) = LiveOf(s) \cup {o}
      /\ o \notin RootsOf(s) /\ o \notin s.lost
      /\ \A q \in Obj : w.objs[q].childs = s.objs[q].childs
      /\ \A q \in Obj : q # o => w.objs[q] = s.objs[q]
  BY DEF ObjAdded
<1>4. r.objs = w.objs /\ r.mounts = mn /\ r.lost = s.lost /\ r.halted = s.halted
  BY <1>3, FsOfFields
<1>5. /\ DOMAIN mn = DOMAIN s.mounts \cup {path} /\ mn[path] = [obj |-> o, ref |-> 3]
      /\ \A p \in DOMAIN s.mounts : mn[p] = s.mounts[p]
  BY DEF NewMounts
<1>6. IsFs(r)
  <2>1. [obj |-> o, ref |-> 3] \in MountType
    BY DEF MountType
  <2>2. DOMAIN mn \subseteq Seq(Name)
    BY <1>2, <1>5 DEF IsFs
  <2>3. \A p \in DOMAIN mn : mn[p] \in MountType
    BY <1>2, <1>5, <2>1, FsFields
  <2>4. mn \in [DOMAIN mn -> MountType]
    <3>1. mn = [p \in DOMAIN mn |-> mn[p]]
      BY DEF NewMounts
    <3> QED BY <2>3, <3>1
  <2>5. w.objs \in [Obj -> ObjType] /\ w.lost \subseteq Obj /\ w.halted \in BOOLEAN
    BY <1>3 DEF IsFs
  <2>6. r = FsOf(r.objs, r.mounts, r.lost, r.halted)
    BY <1>3, <1>4
  <2> QED BY <1>3, <1>4, <2>2, <2>4, <2>5, <2>6 DEF IsFs
<1>7. LiveOf(r) = LiveOf(s) \cup {o} /\ LiveOf(s) \subseteq Obj
  BY <1>3, <1>4 DEF LiveOf
<1>8. RootsOf(r) = RootsOf(s) \cup {o}
  <2>1. 0 \notin Obj
    BY VfsAssumption DEF Obj
  <2>2. \A y : y \in RootsOf(r) <=> y # 0 /\ \E p \in DOMAIN mn : y = mn[p].obj
    BY <1>4, RootsOfMember
  <2>3. \A y : y \in RootsOf(s) <=> y # 0 /\ \E p \in DOMAIN s.mounts : y = s.mounts[p].obj
    BY RootsOfMember
  <2>4. mn[path].obj = o
    BY <1>5
  <2>5. ASSUME NEW y \in RootsOf(r) PROVE y \in RootsOf(s) \/ y = o
    <3>1. PICK p \in DOMAIN mn : y = mn[p].obj
      BY <2>2
    <3> QED BY <1>5, <2>2, <2>3, <2>4, <3>1
  <2>6. ASSUME NEW y \in RootsOf(s) PROVE y \in RootsOf(r)
    <3>1. PICK p \in DOMAIN s.mounts : y = s.mounts[p].obj
      BY <2>3
    <3>2. p \in DOMAIN mn /\ y = mn[p].obj
      BY <1>5, <3>1
    <3> QED BY <2>2, <2>3, <3>2
  <2>7. o \in RootsOf(r)
    BY <1>5, <2>1, <2>2, <2>4
  <2> QED BY <2>5, <2>6, <2>7
<1>9. Members(r) = Members(s) /\ Members(s) \subseteq Obj /\ o \notin Members(s)
  BY <1>4, <1>7, <1>8 DEF Members
<1>10. Shape(r) /\ UpsKept(s, r)
  <2>1. << >> \in DOMAIN r.mounts
    BY <1>2, <1>4, <1>5 DEF Shape
  <2>2. RootsOf(s) \subseteq LiveOf(s) \ s.lost /\ s.lost \subseteq LiveOf(s)
    BY <1>2 DEF Shape
  <2>3. /\ RootsOf(r) \subseteq LiveOf(r) \ r.lost /\ r.lost \subseteq LiveOf(r)
        /\ LiveOf(s) \ s.lost \subseteq LiveOf(r) \ r.lost
    BY <1>3, <1>4, <1>7, <1>8, <2>2
  <2>4. \A q \in LiveOf(s) : r.objs[q].kind = s.objs[q].kind
    BY <1>3, <1>4, <1>7
  <2>5. \A q \in Obj : r.objs[q].childs = s.objs[q].childs
    BY <1>3, <1>4
  <2>6. Members(s) \subseteq Members(r)
    BY <1>9
  <2>7. ListsKept(s, r)
    BY <2>3, <2>4, <2>5, <2>6 DEF ListsKept
  <2> QED BY <1>2, <2>1, <2>7, KeepsLists
<1>11. \A p \in DOMAIN s.mounts : MountNode(r, p) = MountNode(s, p)
  BY <1>4, <1>5 DEF MountNode
<1>12. \A n \in BagToSet(open) : NodeOK(r, n) /\ n # MountNode(r, path)
  <2>1. SUFFICES ASSUME NEW n \in BagToSet(open) PROVE NodeOK(r, n) /\ n # MountNode(r, path)
    OBVIOUS
  <2>2. CASE \E p \in DOMAIN s.mounts : n = MountNode(s, p)
    <3>1. PICK p \in DOMAIN s.mounts : n = MountNode(s, p)
      BY <2>2
    <3>2. n = MountNode(r, p) /\ p \in DOMAIN r.mounts
      BY <1>4, <1>5, <1>11, <3>1
    <3>4. n.at = p
      BY <3>1, NodeFields
    <3>3. p # path /\ MountNode(r, path).at = path
      BY NodeFields
    <3> QED BY <3>2, <3>3, <3>4 DEF NodeOK
  <2>3. CASE ~\E p \in DOMAIN s.mounts : n = MountNode(s, p)
    <3>1. (\E q \in Obj : n = TmpNode(q)) \/ (\E e \in Entries : n = TarNode(e.path))
      BY <1>2, <2>3 DEF NodeOK
    <3>2. n.mount = FALSE /\ MountNode(r, path).mount = TRUE
      BY <3>1, NodeFields
    <3> QED BY <3>1, <3>2 DEF NodeOK
  <2> QED BY <2>2, <2>3
<1>13. PICK mm : mm = MountsIn(r, open)
  OBVIOUS
<1>14. Counts(r, mm, t)
  BY <1>1, <1>2, <1>13, NumbersType
<1>15. ASSUME NEW p \in DOMAIN r.mounts
       PROVE  r.mounts[p].ref = (IF p = << >> THEN 2 ELSE 3) + mm[p]
  <2>1. mm[p] = NumberOf(open, MountNode(r, p))
    BY <1>13 DEF MountsIn
  <2>2. CASE p = path
    <3>1. mm[p] = 0
      BY <1>12, <2>1, <2>2 DEF NumberOf
    <3>2. r.mounts[p].ref = 3 /\ p # << >>
      BY <1>2, <1>4, <1>5, <2>2 DEF Shape
    <3> QED BY <3>1, <3>2
  <2>3. CASE p # path
    <3>1. p \in DOMAIN s.mounts /\ r.mounts[p] = s.mounts[p]
      BY <1>4, <1>5, <2>3
    <3>2. mm[p] = m[p]
      BY <1>1, <1>11, <2>1, <3>1 DEF MountsIn
    <3> QED BY <1>2, <3>1, <3>2 DEF RefsCounted
  <2> QED BY <2>2, <2>3
<1>16. RefsCounted(r, mm, t)
  <2>1. \A q \in Members(s) : r.objs[q] = s.objs[q]
    BY <1>3, <1>4, <1>9
  <2> QED BY <1>2, <1>9, <1>10, <1>14, <1>15, <2>1, KeepsCounted
<1> QED BY <1>1, <1>2, <1>6, <1>10, <1>12, <1>13, <1>16 DEF InvOf

\* A mount that fails: its root is lost.
LEMMA MountLost ==
  ASSUME NEW s, InvOf(s, open), ~s.halted, NEW o \in Obj, o \notin LiveOf(s),
         NEW w, ObjAdded(s, w, o),
         NEW r, r = FsOf(w.objs, w.mounts, w.lost \cup {o}, w.halted)
  PROVE  InvOf(r, open)
<1>1. PICK m, t : m = MountsIn(s, open) /\ t = TmpsIn(open)
  OBVIOUS
<1>2. /\ IsFs(s) /\ Shape(s) /\ RefsCounted(s, m, t) /\ IsABag(open)
      /\ \A n \in BagToSet(open) : NodeOK(s, n)
  BY <1>1 DEF InvOf
<1>3. /\ IsFs(w) /\ w.mounts = s.mounts /\ w.lost = s.lost /\ w.halted = s.halted
      /\ LiveOf(w) = LiveOf(s) \cup {o} /\ RootsOf(w) = RootsOf(s)
      /\ o \notin RootsOf(s) /\ o \notin s.lost
      /\ \A q \in Obj : w.objs[q].childs = s.objs[q].childs
      /\ \A q \in Obj : q # o => w.objs[q] = s.objs[q]
  BY DEF ObjAdded
<1>4. r.objs = w.objs /\ r.mounts = s.mounts /\ r.lost = s.lost \cup {o} /\ r.halted = s.halted
  BY <1>3, FsOfFields
<1>5. IsFs(r)
  BY <1>3, <1>4 DEF IsFs
<1>6. LiveOf(r) = LiveOf(s) \cup {o} /\ LiveOf(s) \subseteq Obj /\ RootsOf(r) = RootsOf(s)
  <2>1. LiveOf(s) \subseteq Obj
    BY DEF LiveOf
  <2> QED BY <1>3, <1>4, <2>1, SameObjs
<1>7. Members(r) = Members(s) /\ Members(s) \subseteq Obj /\ o \notin Members(s)
  BY <1>4, <1>6 DEF Members
<1>8. Shape(r) /\ UpsKept(s, r)
  <2>1. << >> \in DOMAIN r.mounts
    BY <1>2, <1>4 DEF Shape
  <2>2. RootsOf(s) \subseteq LiveOf(s) \ s.lost /\ s.lost \subseteq LiveOf(s)
    BY <1>2 DEF Shape
  <2>3. /\ RootsOf(r) \subseteq LiveOf(r) \ r.lost /\ r.lost \subseteq LiveOf(r)
        /\ LiveOf(s) \ s.lost \subseteq LiveOf(r) \ r.lost
    BY <1>3, <1>4, <1>6, <2>2
  <2>4. \A q \in LiveOf(s) : r.objs[q].kind = s.objs[q].kind
    BY <1>3, <1>4, <1>6
  <2>5. \A q \in Obj : r.objs[q].childs = s.objs[q].childs
    BY <1>3, <1>4
  <2>6. Members(s) \subseteq Members(r)
    BY <1>7
  <2>7. ListsKept(s, r)
    BY <2>3, <2>4, <2>5, <2>6 DEF ListsKept
  <2> QED BY <1>2, <2>1, <2>7, KeepsLists
<1>9. SameMounts(s, r)
  BY <1>4 DEF SameMounts
<1>10. m = MountsIn(r, open) /\ \A n \in BagToSet(open) : NodeOK(r, n)
  <2>1. m = MountsIn(r, open)
    BY <1>1, <1>9, NodesStay
  <2>2. \A n \in BagToSet(open) : NodeOK(r, n)
    BY <1>2, <1>9, NodesStay
  <2> QED BY <2>1, <2>2
<1>11. RefsCounted(r, m, t)
  <2>1. \A q \in Members(s) : r.objs[q] = s.objs[q]
    BY <1>3, <1>4, <1>7
  <2>2. Counts(r, m, t) /\ \A p \in DOMAIN r.mounts :
                             r.mounts[p].ref = (IF p = << >> THEN 2 ELSE 3) + m[p]
    BY <1>2, <1>4 DEF RefsCounted, Counts
  <2> QED BY <1>2, <1>7, <1>8, <2>1, <2>2, KeepsCounted
<1> QED BY <1>1, <1>2, <1>5, <1>8, <1>10, <1>11 DEF InvOf

LEMMA KmountKeeps ==
  ASSUME InvOf(fs, open), ~fs.halted, NEW path \in MountPaths, kmount(path)
  PROVE  InvOf(fs', open')
<1>1. IsFs(fs) /\ Shape(fs) /\ IsABag(open) /\ \A n \in BagToSet(open) : NodeOK(fs, n)
  BY DEF InvOf
<1>2. PICK o : o = Min(Unused(fs)) /\ o \in Obj /\ o \notin LiveOf(fs)
  BY UnusedFacts DEF kmount
<1>3. PICK x : /\ x = NewOf("tmpfs", "dir", 0)
               /\ x \in ObjType /\ x.live = TRUE /\ x.childs = << >>
  <2>1. << >> \in Seq(Obj) /\ 0 \in Nat
    BY EmptySeq
  <2>2. /\ NewOf("tmpfs", "dir", 0) \in ObjType
        /\ NewOf("tmpfs", "dir", 0).live = TRUE /\ NewOf("tmpfs", "dir", 0).childs = << >>
    BY <2>1 DEF NewOf, ObjType
  <2> QED BY <2>2
<1>4. PICK w : w = NewObj(fs, "tmpfs", "dir", 0) /\ w = ObjSet(fs, o, x)
  BY <1>2, <1>3 DEF NewObj, NewOf, ObjSet
<1>5. /\ ObjAdded(fs, w, o) /\ IsFs(w) /\ w.mounts = fs.mounts
  <2>1. ObjAdded(fs, w, o)
    BY <1>1, <1>2, <1>3, <1>4, NewObjFacts
  <2> QED BY <2>1 DEF ObjAdded
<1>6. path \in Seq(Name)
  BY VfsAssumption
<1>7. PICK k : /\ k = walk_mount_graph(fs, path) /\ k \in 0..Len(path)
               /\ k < Len(path) => SubSeq(path, 1, k + 1) \notin DOMAIN fs.mounts
  BY <1>1, <1>6, WalkFacts DEF Shape
<1>8. PICK mn : mn = NewMounts(fs, path, o)
  OBVIOUS
<1>9. PICK rest : rest = Len(path) - k /\ rest \in Nat
  BY <1>6, <1>7
<1>10. /\ open' = open
       /\ fs' = CASE rest = 0 -> [w EXCEPT !.lost = w.lost \cup {o}]
                  [] rest = 1 -> [w EXCEPT !.mounts =
                                   [p \in DOMAIN w.mounts \cup {path} |->
                                      IF p = path THEN [obj |-> o, ref |-> 3] ELSE w.mounts[p]]]
                  [] OTHER -> [fs EXCEPT !.halted = TRUE]
  BY <1>2, <1>4, <1>7, <1>9 DEF kmount
<1>11. w = FsOf(w.objs, w.mounts, w.lost, w.halted)
  BY <1>5 DEF IsFs
<1>12. CASE rest = 0
  <2>1. PICK r : r = FsOf(w.objs, w.mounts, w.lost \cup {o}, w.halted)
    OBVIOUS
  <2>2. fs' = r
    BY <1>10, <1>11, <1>12, <2>1 DEF FsOf
  <2>3. InvOf(r, open)
    BY <1>2, <1>5, <2>1, MountLost
  <2> QED BY <1>10, <2>2, <2>3
<1>13. CASE rest = 1
  <2>1. PICK r : r = FsOf(w.objs, mn, w.lost, w.halted)
    OBVIOUS
  <2>2. fs' = [w EXCEPT !.mounts = mn]
    BY <1>5, <1>8, <1>10, <1>13 DEF NewMounts
  <2>3. fs' = r
    BY <1>11, <2>1, <2>2 DEF FsOf
  <2>4. path \notin DOMAIN fs.mounts
    <3>1. k < Len(path) /\ k + 1 = Len(path)
      BY <1>6, <1>7, <1>9, <1>13
    <3>2. SubSeq(path, 1, Len(path)) = path
      BY <1>6
    <3> QED BY <1>7, <3>1, <3>2
  <2>5. InvOf(r, open)
    BY <1>2, <1>5, <1>6, <1>8, <2>1, <2>4, MountAdded
  <2> QED BY <1>10, <2>3, <2>5
<1>14. CASE rest # 0 /\ rest # 1
  <2>1. PICK r : r = [fs EXCEPT !.halted = TRUE]
    OBVIOUS
  <2>2. IsFs(r) /\ r.halted = TRUE /\ r.mounts = fs.mounts
    BY <1>1, <2>1, Halting
  <2>3. fs' = r
    BY <1>10, <1>14, <2>1
  <2>4. SameMounts(fs, r)
    BY <2>2 DEF SameMounts
  <2>5. \A n \in BagToSet(open) : NodeOK(r, n)
    BY <1>1, <2>4, NodesStay
  <2>6. InvOf(r, open)
    BY <1>1, <2>2, <2>5 DEF InvOf
  <2> QED BY <1>10, <2>3, <2>6
<1> QED BY <1>12, <1>13, <1>14

\* A directory gets another list.
ListSet(y, list) == [y EXCEPT !.childs = list]

Relisted(s, r, dir) ==
  /\ IsFs(r) /\ r.mounts = s.mounts /\ r.lost = s.lost /\ r.halted = s.halted
  /\ LiveOf(r) = LiveOf(s) /\ RootsOf(r) = RootsOf(s) /\ Members(r) = Members(s)
  /\ \A q \in Obj : r.objs[q].kind = s.objs[q].kind /\ r.objs[q].ref = s.objs[q].ref
  /\ \A q \in Obj : q # dir => /\ r.objs[q] = s.objs[q]
                               /\ ChildsOf(r, q) = ChildsOf(s, q)

LEMMA RelistFacts ==
  ASSUME NEW s, IsFs(s), NEW dir \in Obj, NEW list \in Seq(Obj),
         NEW r, r = ObjSet(s, dir, ListSet(s.objs[dir], list))
  PROVE  Relisted(s, r, dir) /\ r.objs[dir].childs = list
<1>1. PICK y : y = ListSet(s.objs[dir], list)
  OBVIOUS
<1>2. PICK a : a = s.objs[dir] /\ a \in ObjType
  BY FsFields
<1>3. /\ y \in ObjType /\ y.childs = list
      /\ y.live = a.live /\ y.kind = a.kind /\ y.ref = a.ref
  BY <1>1, <1>2 DEF ListSet, ObjType
<1>4. /\ IsFs(r) /\ r.mounts = s.mounts /\ r.lost = s.lost /\ r.halted = s.halted
      /\ Replaces(s, r, dir, y)
  BY <1>1, <1>3, WithObj
<1>5. \A q \in Obj : r.objs[q] = IF q = dir THEN y ELSE s.objs[q]
  BY <1>4 DEF Replaces
<1>6. \A q \in Obj : /\ r.objs[q].kind = s.objs[q].kind /\ r.objs[q].ref = s.objs[q].ref
                     /\ r.objs[q].live = s.objs[q].live
  BY <1>2, <1>3, <1>5
<1>7. LiveOf(r) = LiveOf(s)
  BY <1>6 DEF LiveOf
<1>8. RootsOf(r) = RootsOf(s)
  BY <1>4, SameObjs
<1>9. Members(r) = Members(s)
  BY <1>4, <1>7, <1>8 DEF Members
<1>10. \A q \in Obj : q # dir => r.objs[q] = s.objs[q] /\ ChildsOf(r, q) = ChildsOf(s, q)
  BY <1>5 DEF ChildsOf
<1> QED BY <1>3, <1>4, <1>5, <1>6, <1>7, <1>8, <1>9, <1>10 DEF Relisted

LEMMA SetOfFacts ==
  ASSUME NEW q \in Seq(Obj), NEW o
  PROVE  o \in SetOf(q) <=> \E k \in 1..Len(q) : o = q[k]
BY DEF SetOf

LEMMA AppendFacts ==
  ASSUME NEW q \in Seq(Obj), IsInjective(q), NEW o \in Obj, o \notin SetOf(q)
  PROVE  /\ Append(q, o) \in Seq(Obj) /\ IsInjective(Append(q, o))
         /\ SetOf(Append(q, o)) = SetOf(q) \cup {o}
<1>1. PICK n : n = Len(q) /\ n \in Nat /\ DOMAIN q = 1..n
  OBVIOUS
<1>2. PICK l : /\ l = Append(q, o) /\ l \in Seq(Obj) /\ DOMAIN l = 1..(n + 1)
               /\ \A k \in 1..n : l[k] = q[k]
               /\ l[n + 1] = o
  <2>1. /\ Append(q, o) \in Seq(Obj) /\ DOMAIN Append(q, o) = 1..(n + 1)
        /\ \A k \in 1..n : Append(q, o)[k] = q[k]
        /\ Append(q, o)[n + 1] = o
    BY <1>1
  <2> QED BY <2>1
<1>3. \A k \in 1..(n + 1) : k \in 1..n \/ k = n + 1
  BY <1>1
<1>4. \A k \in 1..n : k \in 1..(n + 1) /\ q[k] # o
  BY <1>1 DEF SetOf
<1>5. \A a, b \in 1..n : q[a] = q[b] => a = b
  BY <1>1 DEF IsInjective
<1>6. IsInjective(l)
  <2>1. SUFFICES ASSUME NEW a \in 1..(n + 1), NEW b \in 1..(n + 1), l[a] = l[b] PROVE a = b
    BY <1>2 DEF IsInjective
  <2> QED BY <1>2, <1>3, <1>4, <1>5, <2>1
<1>7. SetOf(l) = SetOf(q) \cup {o}
  <2>1. \A y : y \in SetOf(l) <=> \E k \in 1..(n + 1) : y = l[k]
    BY <1>2 DEF SetOf
  <2>2. \A y : y \in SetOf(q) <=> \E k \in 1..n : y = q[k]
    BY <1>1 DEF SetOf
  <2>3. n + 1 \in 1..(n + 1)
    BY <1>1
  <2>4. \A y : y \in SetOf(l) <=> y \in SetOf(q) \/ y = o
    BY <1>2, <1>3, <1>4, <2>1, <2>2, <2>3
  <2> QED BY <2>4
<1> QED BY <1>2, <1>6, <1>7

LEMMA RemoveFacts ==
  ASSUME NEW q \in Seq(Obj), IsInjective(q), NEW i \in 1..Len(q)
  PROVE  /\ RemoveAt(q, i) \in Seq(Obj) /\ IsInjective(RemoveAt(q, i))
         /\ SetOf(RemoveAt(q, i)) = SetOf(q) \ {q[i]}
<1>1. PICK n : n = Len(q) /\ n \in Nat /\ DOMAIN q = 1..n /\ i \in 1..n
  OBVIOUS
<1>2. PICK l : l = RemoveAt(q, i) /\ l \in Seq(Obj) /\ Inserted(q, l, i, q[i])
  <2>1. RemoveAt(q, i) \in Seq(Obj) /\ Inserted(q, RemoveAt(q, i), i, q[i])
    BY RemoveAtFacts
  <2> QED BY <2>1
<1>3. Len(l) = n - 1 /\ DOMAIN l = 1..(n - 1)
  <2>1. Len(l) \in Nat /\ DOMAIN l = 1..Len(l)
    BY <1>2
  <2>2. n = Len(l) + 1
    BY <1>1, <1>2 DEF Inserted
  <2>3. Len(l) = n - 1
    BY <1>1, <2>1, <2>2
  <2> QED BY <2>1, <2>3
<1>4. \A k \in 1..n : q[k] = IF k < i THEN l[k] ELSE IF k = i THEN q[i] ELSE l[k - 1]
  BY <1>1, <1>2 DEF Inserted
<1>5. ASSUME NEW k \in 1..(n - 1)
      PROVE  /\ k < i => k \in 1..n /\ l[k] = q[k] /\ k # i
             /\ ~(k < i) => k + 1 \in 1..n /\ l[k] = q[k + 1] /\ k + 1 # i
  <2>1. CASE k < i
    BY <1>1, <1>4, <2>1
  <2>2. CASE ~(k < i)
    <3>1. k + 1 \in 1..n /\ ~(k + 1 < i) /\ k + 1 # i /\ (k + 1) - 1 = k
      BY <1>1, <2>2
    <3> QED BY <1>4, <2>2, <3>1
  <2> QED BY <2>1, <2>2
<1>6. \A a, b \in 1..n : q[a] = q[b] => a = b
  BY <1>1 DEF IsInjective
<1>7. IsInjective(l)
  <2>1. SUFFICES ASSUME NEW a \in 1..(n - 1), NEW b \in 1..(n - 1), l[a] = l[b] PROVE a = b
    BY <1>3 DEF IsInjective
  <2>2. PICK c : c = (IF a < i THEN a ELSE a + 1) /\ c \in 1..n /\ l[a] = q[c]
    BY <1>5
  <2>3. PICK d : d = (IF b < i THEN b ELSE b + 1) /\ d \in 1..n /\ l[b] = q[d]
    BY <1>5
  <2>4. c = d
    BY <1>6, <2>1, <2>2, <2>3
  <2> QED BY <1>1, <2>2, <2>3, <2>4
<1>8. SetOf(l) = SetOf(q) \ {q[i]}
  <2>1. \A y : y \in SetOf(l) <=> \E k \in 1..(n - 1) : y = l[k]
    BY <1>3 DEF SetOf
  <2>2. \A y : y \in SetOf(q) <=> \E k \in 1..n : y = q[k]
    BY <1>1 DEF SetOf
  <2>3. ASSUME NEW y \in SetOf(l) PROVE y \in SetOf(q) /\ y # q[i]
    <3>1. PICK k \in 1..(n - 1) : y = l[k]
      BY <2>1
    <3>2. PICK c : c \in 1..n /\ c # i /\ y = q[c]
      BY <1>5, <3>1
    <3> QED BY <1>1, <1>6, <2>2, <3>2
  <2>4. ASSUME NEW y \in SetOf(q), y # q[i] PROVE y \in SetOf(l)
    <3>1. PICK k \in 1..n : y = q[k]
      BY <2>2
    <3>2. k # i
      BY <2>4, <3>1
    <3>3. CASE k < i
      <4>1. k \in 1..(n - 1) /\ y = l[k]
        BY <1>1, <1>4, <3>1, <3>3
      <4> QED BY <2>1, <4>1
    <3>4. CASE k > i
      <4>1. k - 1 \in 1..(n - 1) /\ ~(k < i)
        BY <1>1, <3>4
      <4>2. y = l[k - 1]
        BY <1>4, <3>1, <3>2, <4>1
      <4> QED BY <2>1, <4>1, <4>2
    <3> QED BY <1>1, <3>2, <3>3, <3>4
  <2> QED BY <2>3, <2>4
<1> QED BY <1>2, <1>7, <1>8

\* An object of no list is put at the end of one.
LEMMA AppendChild ==
  ASSUME NEW s, IsFs(s), Shape(s), NEW dir \in LiveOf(s), dir \notin s.lost,
         s.objs[dir].kind = "dir", NEW o \in Members(s), ~Parented(s, o),
         s.objs[o].childs = << >>, o # dir, NEW r,
         r = ObjSet(s, dir, ListSet(s.objs[dir], Append(s.objs[dir].childs, o)))
  PROVE  /\ Relisted(s, r, dir) /\ Shape(r)
         /\ \A q \in Obj : Up(r, q) = IF q = o THEN 1 ELSE Up(s, q)
<1>1. dir \in Obj /\ o \in Obj
  BY DEF LiveOf, Members
<1>2. PICK l : l = s.objs[dir].childs /\ l \in Seq(Obj) /\ IsInjective(l)
  <2>1. s.objs[dir].childs \in Seq(Obj) /\ IsInjective(s.objs[dir].childs)
    BY <1>1, FsFields DEF Shape
  <2> QED BY <2>1
<1>3. PICK n : n = Append(l, o)
  OBVIOUS
<1>4. ChildsOf(s, dir) = SetOf(l) /\ \A q \in Obj : o \notin ChildsOf(s, q)
  BY <1>2 DEF ChildsOf, Parented
<1>5. n \in Seq(Obj) /\ IsInjective(n) /\ SetOf(n) = SetOf(l) \cup {o}
  BY <1>1, <1>2, <1>3, <1>4, AppendFacts
<1>6. Relisted(s, r, dir) /\ r.objs[dir].childs = n
  <2>1. r = ObjSet(s, dir, ListSet(s.objs[dir], n))
    BY <1>2, <1>3
  <2> QED BY <1>1, <1>5, <2>1, RelistFacts
<1>7. /\ r.mounts = s.mounts /\ r.lost = s.lost
      /\ LiveOf(r) = LiveOf(s) /\ RootsOf(r) = RootsOf(s) /\ Members(r) = Members(s)
      /\ \A q \in Obj : r.objs[q].kind = s.objs[q].kind
      /\ \A q \in Obj : q # dir => r.objs[q] = s.objs[q]
  BY <1>6 DEF Relisted
<1>8. \A q \in Obj : ChildsOf(r, q) = IF q = dir THEN ChildsOf(s, dir) \cup {o} ELSE ChildsOf(s, q)
  <2>1. ChildsOf(r, dir) = ChildsOf(s, dir) \cup {o}
    BY <1>4, <1>5, <1>6 DEF ChildsOf
  <2>2. \A q \in Obj : q # dir => ChildsOf(r, q) = ChildsOf(s, q)
    BY <1>6 DEF Relisted
  <2> QED BY <2>1, <2>2
<1>9. Shape(r)
  <2>1. /\ << >> \in DOMAIN r.mounts
        /\ RootsOf(r) \subseteq LiveOf(r) \ r.lost /\ r.lost \subseteq LiveOf(r)
    BY <1>7 DEF Shape
  <2>2. ASSUME NEW q \in Obj, r.objs[q].childs # << >>
        PROVE  q \in LiveOf(r) \ r.lost /\ r.objs[q].kind = "dir"
    <3>1. CASE q = dir
      BY <1>7, <3>1
    <3>2. CASE q # dir
      BY <1>7, <2>2, <3>2 DEF Shape
    <3> QED BY <3>1, <3>2
  <2>3. \A q \in Obj : ChildsOf(r, q) \subseteq Members(r)
    <3>1. \A q \in Obj : ChildsOf(s, q) \subseteq Members(s)
      BY DEF Shape
    <3> QED BY <1>1, <1>7, <1>8, <3>1
  <2>4. \A q \in Obj : IsInjective(r.objs[q].childs)
    <3>1. \A q \in Obj : IsInjective(s.objs[q].childs)
      BY DEF Shape
    <3> QED BY <1>5, <1>6, <1>7, <3>1
  <2>5. \A q, p \in Obj : q # p => ChildsOf(r, q) \cap ChildsOf(r, p) = {}
    <3>1. \A q, p \in Obj : q # p => ChildsOf(s, q) \cap ChildsOf(s, p) = {}
      BY DEF Shape
    <3> QED BY <1>1, <1>4, <1>8, <3>1
  <2>6. ASSUME NEW S \in SUBSET Obj, S # {}
        PROVE  \E q \in S : \A p \in S : q \notin ChildsOf(r, p)
    <3>1. ChildsOf(r, o) = {}
      <4>1. ChildsOf(s, o) = {}
        BY DEF ChildsOf, SetOf
      <4> QED BY <1>1, <1>8, <4>1
    <3>2. CASE S \ {o} = {}
      <4>1. o \in S /\ \A p \in S : p = o
        BY <2>6, <3>2
      <4> QED BY <3>1, <4>1
    <3>3. CASE S \ {o} # {}
      <4>1. S \ {o} \in SUBSET Obj
        OBVIOUS
      <4>2. PICK q \in S \ {o} : \A p \in S \ {o} : q \notin ChildsOf(s, p)
        BY <3>3, <4>1 DEF Shape
      <4>3. \A p \in S : q \notin ChildsOf(r, p)
        <5>1. SUFFICES ASSUME NEW p \in S PROVE q \notin ChildsOf(r, p)
          OBVIOUS
        <5>2. CASE p = o
          BY <3>1, <5>2
        <5>3. CASE p # o
          BY <1>8, <4>2, <5>3
        <5> QED BY <5>2, <5>3
      <4> QED BY <4>2, <4>3
    <3> QED BY <3>2, <3>3
  <2> QED BY <2>1, <2>2, <2>3, <2>4, <2>5, <2>6 DEF Shape
<1>10. ASSUME NEW q \in Obj PROVE Up(r, q) = IF q = o THEN 1 ELSE Up(s, q)
  <2>1. CASE q = o
    <3>1. Parented(r, q)
      BY <1>1, <1>8, <2>1 DEF Parented
    <3> QED BY <2>1, <3>1 DEF Up
  <2>2. CASE q # o
    <3>1. Parented(r, q) <=> Parented(s, q)
      BY <1>1, <1>8, <2>2 DEF Parented
    <3> QED BY <2>2, <3>1 DEF Up
  <2> QED BY <2>1, <2>2
<1> QED BY <1>6, <1>9, <1>10

\* An object is taken off its list.
LEMMA RemoveChild ==
  ASSUME NEW s, IsFs(s), Shape(s), NEW dir \in Obj, NEW i \in 1..Len(s.objs[dir].childs),
         NEW o, o = s.objs[dir].childs[i], NEW r,
         r = ObjSet(s, dir, ListSet(s.objs[dir], RemoveAt(s.objs[dir].childs, i)))
  PROVE  /\ Relisted(s, r, dir) /\ Shape(r) /\ o \in Members(s) /\ o # dir
         /\ Up(s, o) = 1
         /\ \A q \in Obj : Up(r, q) = IF q = o THEN 0 ELSE Up(s, q)
<1>1. PICK l : l = s.objs[dir].childs /\ l \in Seq(Obj) /\ IsInjective(l)
  <2>1. s.objs[dir].childs \in Seq(Obj) /\ IsInjective(s.objs[dir].childs)
    BY FsFields DEF Shape
  <2> QED BY <2>1
<1>2. PICK n : n = RemoveAt(l, i)
  OBVIOUS
<1>3. o \in ChildsOf(s, dir) /\ ChildsOf(s, dir) = SetOf(l)
  <2>1. i \in DOMAIN l /\ o = l[i]
    BY <1>1
  <2> QED BY <1>1, <2>1 DEF ChildsOf, SetOf
<1>4. n \in Seq(Obj) /\ IsInjective(n) /\ SetOf(n) = SetOf(l) \ {o}
  BY <1>1, <1>2, RemoveFacts
<1>5. Relisted(s, r, dir) /\ r.objs[dir].childs = n
  BY <1>1, <1>2, <1>4, RelistFacts
<1>6. /\ r.mounts = s.mounts /\ r.lost = s.lost
      /\ LiveOf(r) = LiveOf(s) /\ RootsOf(r) = RootsOf(s) /\ Members(r) = Members(s)
      /\ \A q \in Obj : r.objs[q].kind = s.objs[q].kind
      /\ \A q \in Obj : q # dir => r.objs[q] = s.objs[q]
  BY <1>5 DEF Relisted
<1>7. \A q \in Obj : ChildsOf(r, q) = IF q = dir THEN ChildsOf(s, dir) \ {o} ELSE ChildsOf(s, q)
  <2>1. ChildsOf(r, dir) = ChildsOf(s, dir) \ {o}
    BY <1>3, <1>4, <1>5 DEF ChildsOf
  <2>2. \A q \in Obj : q # dir => ChildsOf(r, q) = ChildsOf(s, q)
    BY <1>5 DEF Relisted
  <2> QED BY <2>1, <2>2
<1>8. o \in Members(s) /\ o \in Obj
  BY <1>3 DEF Shape, Members, LiveOf
<1>9. o # dir
  <2>1. PICK q \in {dir} : \A p \in {dir} : q \notin ChildsOf(s, p)
    <3>1. {dir} \in SUBSET Obj /\ {dir} # {}
      OBVIOUS
    <3> QED BY <3>1 DEF Shape
  <2> QED BY <1>3, <2>1
<1>10. Shape(r)
  <2>1. /\ << >> \in DOMAIN r.mounts
        /\ RootsOf(r) \subseteq LiveOf(r) \ r.lost /\ r.lost \subseteq LiveOf(r)
    BY <1>6 DEF Shape
  <2>2. ASSUME NEW q \in Obj, r.objs[q].childs # << >>
        PROVE  q \in LiveOf(r) \ r.lost /\ r.objs[q].kind = "dir"
    <3>1. s.objs[dir].childs # << >>
      BY <1>1
    <3>2. s.objs[q].childs # << >>
      BY <1>6, <2>2, <3>1
    <3> QED BY <1>6, <3>2 DEF Shape
  <2>3. \A q \in Obj : ChildsOf(r, q) \subseteq Members(r)
    <3>1. \A q \in Obj : ChildsOf(s, q) \subseteq Members(s)
      BY DEF Shape
    <3> QED BY <1>6, <1>7, <3>1
  <2>4. \A q \in Obj : IsInjective(r.objs[q].childs)
    <3>1. \A q \in Obj : IsInjective(s.objs[q].childs)
      BY DEF Shape
    <3> QED BY <1>4, <1>5, <1>6, <3>1
  <2>5. \A q, p \in Obj : q # p => ChildsOf(r, q) \cap ChildsOf(r, p) = {}
    <3>1. \A q, p \in Obj : q # p => ChildsOf(s, q) \cap ChildsOf(s, p) = {}
      BY DEF Shape
    <3> QED BY <1>7, <3>1
  <2>6. ASSUME NEW S \in SUBSET Obj, S # {}
        PROVE  \E q \in S : \A p \in S : q \notin ChildsOf(r, p)
    <3>1. PICK q \in S : \A p \in S : q \notin ChildsOf(s, p)
      BY <2>6 DEF Shape
    <3> QED BY <1>7, <3>1
  <2> QED BY <2>1, <2>2, <2>3, <2>4, <2>5, <2>6 DEF Shape
<1>11. Up(s, o) = 1
  BY <1>3 DEF Up, Parented
<1>12. ASSUME NEW q \in Obj PROVE Up(r, q) = IF q = o THEN 0 ELSE Up(s, q)
  <2>1. CASE q = o
    <3>1. \A p \in Obj : p # dir => o \notin ChildsOf(s, p)
      BY <1>3 DEF Shape
    <3>2. ~Parented(r, q)
      BY <1>7, <2>1, <3>1 DEF Parented
    <3> QED BY <2>1, <3>2 DEF Up
  <2>2. CASE q # o
    <3>1. Parented(r, q) <=> Parented(s, q)
      BY <1>7, <2>2 DEF Parented
    <3> QED BY <2>2, <3>1 DEF Up
  <2> QED BY <2>1, <2>2
<1> QED BY <1>5, <1>8, <1>9, <1>10, <1>11, <1>12

\* The directory of a node that somebody holds.
LEMMA HeldDir ==
  ASSUME NEW s, NEW b, InvOf(s, b), ~s.halted, NEW n \in BagToSet(b), n.obj \in Obj
  PROVE  n.obj \in LiveOf(s) /\ n.obj \notin s.lost
<1>1. /\ IsFs(s) /\ Shape(s) /\ RefsCounted(s, MountsIn(s, b), TmpsIn(b)) /\ IsABag(b) /\ NodeOK(s, n)
  BY DEF InvOf
<1>2. 0 \notin Obj
  BY VfsAssumption DEF Obj
<1>3. CASE \E p \in DOMAIN s.mounts : n = MountNode(s, p)
  <2>1. PICK p \in DOMAIN s.mounts : n = MountNode(s, p)
    BY <1>3
  <2>2. n.obj = s.mounts[p].obj /\ n.obj # 0
    BY <1>2, <2>1, NodeFields
  <2>3. n.obj \in RootsOf(s)
    BY <2>2, RootsOfMember
  <2> QED BY <1>1, <2>3 DEF Shape
<1>4. CASE \E o \in Obj : n = TmpNode(o)
  <2>1. PICK o \in Obj : n = TmpNode(o)
    BY <1>4
  <2>2. n.obj = o
    BY <2>1, NodeFields
  <2>3. TmpsIn(b)[o] = b[n] /\ b[n] > 0
    BY <1>1, <2>1 DEF TmpsIn, NumberOf, IsABag, BagToSet
  <2>4. o \in Members(s)
    BY <1>1, <2>3 DEF RefsCounted
  <2> QED BY <2>2, <2>4 DEF Members
<1>5. CASE \E e \in Entries : n = TarNode(e.path)
  BY <1>2, <1>5, NodeFields
<1> QED BY <1>1, <1>3, <1>4, <1>5 DEF NodeOK

LEMMA TmpDirFacts ==
  ASSUME InvOf(fs, open), ~fs.halted, NEW node \in BagToSet(open), IsTmpDir(node)
  PROVE  /\ node.obj \in Obj /\ node.obj \in LiveOf(fs) /\ node.obj \notin fs.lost
         /\ fs.objs[node.obj].kind = "dir"
<1>1. node.obj > 0 /\ Kind(fs, node) = "dir"
  BY DEF IsTmpDir
<1>2. node.obj \in {0} \cup Obj
  BY NodeObj DEF InvOf
<1>3. node.obj \in Obj
  BY <1>1, <1>2
<1>4. fs.objs[node.obj].kind = "dir"
  BY <1>1 DEF Kind
<1> QED BY <1>3, <1>4, HeldDir

LEMMA CreateKeeps ==
  ASSUME InvOf(fs, open), ~fs.halted, NEW node \in BagToSet(open),
         NEW name \in Name, NEW kind \in {"file", "dir"}, tmpfs_create(node, name, kind)
  PROVE  InvOf(fs', open')
<1>1. PICK m, t : m = MountsIn(fs, open) /\ t = TmpsIn(open)
  OBVIOUS
<1>2. /\ IsFs(fs) /\ Shape(fs) /\ RefsCounted(fs, m, t) /\ IsABag(open)
      /\ \A n \in BagToSet(open) : NodeOK(fs, n)
  BY <1>1 DEF InvOf
<1>3. PICK dir : /\ dir = node.obj /\ dir \in Obj /\ dir \in LiveOf(fs) /\ dir \notin fs.lost
                 /\ fs.objs[dir].kind = "dir"
  BY TmpDirFacts DEF tmpfs_create
<1>4. PICK o : o = Min(Unused(fs)) /\ o \in Obj /\ o \notin LiveOf(fs)
  BY UnusedFacts DEF tmpfs_create
<1>5. PICK x : /\ x = NewOf(name, kind, 1) /\ x \in ObjType /\ x.live = TRUE
               /\ x.childs = << >> /\ x.ref = 1
  <2>1. << >> \in Seq(Obj) /\ 1 \in Nat
    BY EmptySeq
  <2>2. /\ NewOf(name, kind, 1) \in ObjType /\ NewOf(name, kind, 1).live = TRUE
        /\ NewOf(name, kind, 1).childs = << >> /\ NewOf(name, kind, 1).ref = 1
    BY <2>1 DEF NewOf, ObjType
  <2> QED BY <2>2
<1>6. PICK w : w = NewObj(fs, name, kind, 1) /\ w = ObjSet(fs, o, x)
  BY <1>4, <1>5 DEF NewObj, NewOf, ObjSet
<1>7. ObjAdded(fs, w, o) /\ w.objs[o] = x
  <2>1. x \in ObjType /\ x.live = TRUE /\ x.childs = << >>
    BY <1>5
  <2>2. w = ObjSet(fs, o, x)
    BY <1>6
  <2>3. o \in Obj /\ o \notin LiveOf(fs)
    BY <1>4
  <2>4. IsFs(fs) /\ Shape(fs)
    BY <1>2
  <2>5. ObjAdded(fs, w, o)
    BY <2>1, <2>2, <2>3, <2>4, NewObjFacts
  <2>6. w.objs[o] = x
    BY <2>1, <2>2, <2>3, <2>4, WithObj DEF Replaces
  <2> QED BY <2>5, <2>6
<1>8. /\ IsFs(w) /\ w.mounts = fs.mounts /\ w.lost = fs.lost /\ w.halted = fs.halted
      /\ LiveOf(w) = LiveOf(fs) \cup {o} /\ RootsOf(w) = RootsOf(fs)
      /\ o \notin RootsOf(fs) /\ o \notin fs.lost /\ fs.objs[o].childs = << >>
      /\ \A q \in Obj : w.objs[q].childs = fs.objs[q].childs
      /\ \A q \in Obj : q # o => w.objs[q] = fs.objs[q]
  BY <1>7 DEF ObjAdded
<1>9. Members(w) = Members(fs) \cup {o} /\ o \notin Members(fs) /\ Members(fs) \subseteq Obj
  BY <1>4, <1>8 DEF Members, LiveOf
<1>10. Shape(w) /\ UpsKept(fs, w)
  <2>1. << >> \in DOMAIN w.mounts
    BY <1>2, <1>8 DEF Shape
  <2>2. RootsOf(fs) \subseteq LiveOf(fs) \ fs.lost /\ fs.lost \subseteq LiveOf(fs)
    BY <1>2 DEF Shape
  <2>3. LiveOf(fs) \subseteq Obj
    BY DEF LiveOf
  <2>4. ListsKept(fs, w)
    <3>1. /\ RootsOf(w) \subseteq LiveOf(w) \ w.lost /\ w.lost \subseteq LiveOf(w)
          /\ LiveOf(fs) \ fs.lost \subseteq LiveOf(w) \ w.lost
          /\ Members(fs) \subseteq Members(w)
      BY <1>8, <1>9, <2>2
    <3>2. \A q \in LiveOf(fs) : w.objs[q].kind = fs.objs[q].kind
      BY <1>4, <1>8, <2>3
    <3> QED BY <1>8, <3>1, <3>2 DEF ListsKept
  <2> QED BY <1>2, <2>1, <2>4, KeepsLists
<1>11. ~Parented(w, o)
  <2>1. \A q \in Obj : ChildsOf(w, q) \subseteq Members(fs)
    BY <1>2, <1>10 DEF UpsKept, Shape
  <2> QED BY <1>9, <2>1 DEF Parented
<1>12. PICK r : r = ObjSet(w, dir, ListSet(w.objs[dir], Append(w.objs[dir].childs, o)))
  OBVIOUS
<1>13. fs' = r /\ open' = open
  <2>1. fs' = [w EXCEPT !.objs[dir].childs = Append(w.objs[dir].childs, o)] /\ open' = open
    BY <1>3, <1>4, <1>6 DEF tmpfs_create
  <2>2. w = FsOf(w.objs, w.mounts, w.lost, w.halted) /\ w.objs \in [Obj -> ObjType]
    BY <1>8 DEF IsFs
  <2> QED BY <1>3, <1>12, <2>1, <2>2 DEF ObjSet, ListSet
<1>14. /\ Relisted(w, r, dir) /\ Shape(r)
       /\ \A q \in Obj : Up(r, q) = IF q = o THEN 1 ELSE Up(w, q)
  <2>1. /\ dir \in LiveOf(w) /\ dir \notin w.lost /\ o # dir /\ w.objs[dir].kind = "dir"
        /\ o \in Members(w) /\ w.objs[o].childs = << >>
    BY <1>3, <1>4, <1>8, <1>9
  <2> QED BY <1>8, <1>10, <1>11, <1>12, <2>1, AppendChild
<1>15. /\ IsFs(r) /\ r.mounts = fs.mounts /\ r.halted = fs.halted
       /\ Members(r) = Members(fs) \cup {o}
       /\ \A q \in Obj : r.objs[q].kind = w.objs[q].kind /\ r.objs[q].ref = w.objs[q].ref
  BY <1>8, <1>9, <1>14 DEF Relisted
<1>16. RefsCounted(r, m, t)
  <2>1. /\ m \in [DOMAIN r.mounts -> Nat] /\ t \in [Obj -> Nat]
        /\ \A p \in DOMAIN r.mounts : r.mounts[p].ref = (IF p = << >> THEN 2 ELSE 3) + m[p]
        /\ \A q \in Obj : t[q] > 0 => q \in Members(fs)
    BY <1>2, <1>15 DEF RefsCounted
  <2>2. \A q \in Obj : t[q] > 0 => q \in Members(r)
    BY <1>15, <2>1
  <2>3. ASSUME NEW q \in Members(r)
        PROVE  /\ r.objs[q].ref >= Up(r, q) + t[q]
               /\ r.objs[q].kind = "dir" => r.objs[q].ref = Up(r, q) + t[q] /\ r.objs[q].ref >= 1
    <3>1. CASE q = o
      <4>1. t[q] = 0
        BY <1>4, <1>9, <2>1, <3>1
      <4>2. r.objs[q].ref = 1 /\ Up(r, q) = 1
        BY <1>4, <1>5, <1>7, <1>14, <1>15, <3>1
      <4> QED BY <4>1, <4>2
    <3>2. CASE q # o
      <4>1. q \in Members(fs) /\ q \in Obj
        BY <1>9, <1>15, <3>2
      <4>2. /\ r.objs[q].ref = fs.objs[q].ref /\ r.objs[q].kind = fs.objs[q].kind
            /\ Up(r, q) = Up(fs, q)
        BY <1>8, <1>10, <1>14, <1>15, <3>2, <4>1 DEF UpsKept
      <4> QED BY <1>2, <4>1, <4>2 DEF RefsCounted
    <3> QED BY <3>1, <3>2
  <2> QED BY <2>1, <2>2, <2>3 DEF RefsCounted
<1>17. SameMounts(fs, r)
  BY <1>15 DEF SameMounts
<1>18. m = MountsIn(r, open)
  BY <1>1, <1>17, NodesStay
<1>19. \A n \in BagToSet(open) : NodeOK(r, n)
  BY <1>2, <1>17, NodesStay
<1>20. InvOf(r, open)
  BY <1>1, <1>2, <1>14, <1>15, <1>16, <1>18, <1>19 DEF InvOf
<1> QED BY <1>13, <1>20

\* What is left of an object when a reference ends.
LeftOf(y) == IF y.ref - 1 = 0 THEN NoObj ELSE CountSet(y, y.ref - 1)

LEMMA DroppedForm ==
  ASSUME NEW s, IsFs(s), ~s.halted, NEW o \in Obj, s.objs[o].ref >= 1,
         NEW r, r = Dropped(s, o)
  PROVE  /\ IsFs(r) /\ r.mounts = s.mounts /\ LeftOf(s.objs[o]) \in ObjType
         /\ r.halted <=> s.objs[o].ref = 1 /\ s.objs[o].childs # << >>
         /\ ~r.halted => r = ObjSet(s, o, LeftOf(s.objs[o]))
<1>1. PICK y, x : y = s.objs[o] /\ y \in ObjType /\ x = y.ref /\ x \in Nat /\ x >= 1
  BY FsFields
<1>2. x - 1 \in Nat /\ (x - 1 = 0 <=> x = 1)
  BY <1>1
<1>3. PICK w : w = WithRef(s, o, x - 1)
  OBVIOUS
<1>4. /\ IsFs(w) /\ SameShape(s, w) /\ w.mounts = s.mounts /\ w.halted = s.halted
      /\ RefsSet(s, w, o, x - 1)
  BY <1>2, <1>3, ObjRef
<1>5. w.objs[o].ref = x - 1 /\ w.objs[o].childs = y.childs
  BY <1>1, <1>4 DEF RefsSet, SameShape
<1>6. r = IF x - 1 = 0 THEN Destroyed(w, o) ELSE w
  BY <1>1, <1>3, <1>5 DEF Dropped, WithRef
<1>7. s = FsOf(s.objs, s.mounts, s.lost, s.halted) /\ s.objs \in [Obj -> ObjType]
  BY DEF IsFs
<1>8. w = ObjSet(s, o, CountSet(y, x - 1))
  BY <1>1, <1>3, <1>7 DEF WithRef, ObjSet, CountSet
<1>9. CountSet(y, x - 1) \in ObjType
  BY <1>1, <1>2 DEF CountSet, ObjType
<1>10. CASE x - 1 # 0
  <2>1. r = w /\ LeftOf(y) = CountSet(y, x - 1)
    BY <1>1, <1>6, <1>10 DEF LeftOf
  <2>2. ~r.halted /\ x # 1
    BY <1>2, <1>4, <1>10, <2>1
  <2> QED BY <1>1, <1>4, <1>8, <1>9, <2>1, <2>2
<1>11. CASE x - 1 = 0 /\ y.childs # << >>
  <2>1. r = [w EXCEPT !.halted = TRUE]
    BY <1>5, <1>6, <1>11 DEF Destroyed
  <2>2. IsFs(r) /\ r.halted = TRUE /\ r.mounts = w.mounts
    BY <1>4, <2>1, Halting
  <2>3. LeftOf(y) \in ObjType
    BY <1>1, <1>11, NoObjFacts DEF LeftOf
  <2> QED BY <1>1, <1>2, <1>4, <1>11, <2>2, <2>3
<1>12. CASE x - 1 = 0 /\ y.childs = << >>
  <2>1. r = ObjSet(w, o, NoObj) /\ LeftOf(y) = NoObj
    BY <1>1, <1>5, <1>6, <1>12 DEF Destroyed, ObjSet, LeftOf
  <2>2. r = ObjSet(s, o, NoObj)
    BY <1>7, <1>8, <2>1 DEF ObjSet, FsOf
  <2>3. IsFs(r) /\ r.mounts = s.mounts /\ r.halted = s.halted
    BY <2>2, NoObjFacts, WithObj
  <2> QED BY <1>1, <1>12, <2>1, <2>2, <2>3, NoObjFacts
<1> QED BY <1>10, <1>11, <1>12

LEMMA ObjSetsCommute ==
  ASSUME NEW s, IsFs(s), NEW o \in Obj, NEW p \in Obj, o # p, NEW x, NEW y
  PROVE  ObjSet(ObjSet(s, o, x), p, y) = ObjSet(ObjSet(s, p, y), o, x)
<1>1. PICK ob : ob = s.objs /\ DOMAIN ob = Obj
  BY FsFields
<1>2. s = FsOf(ob, s.mounts, s.lost, s.halted)
  BY <1>1 DEF IsFs
<1>3. [[ob EXCEPT ![o] = x] EXCEPT ![p] = y] = [[ob EXCEPT ![p] = y] EXCEPT ![o] = x]
  BY <1>1
<1>4. \A z : ObjSet(FsOf(z, s.mounts, s.lost, s.halted), o, x)
               = FsOf([z EXCEPT ![o] = x], s.mounts, s.lost, s.halted)
  BY DEF ObjSet, FsOf
<1>5. \A z : ObjSet(FsOf(z, s.mounts, s.lost, s.halted), p, y)
               = FsOf([z EXCEPT ![p] = y], s.mounts, s.lost, s.halted)
  BY DEF ObjSet, FsOf
<1>6. ObjSet(s, o, x) = FsOf([ob EXCEPT ![o] = x], s.mounts, s.lost, s.halted)
  BY <1>2, <1>4
<1>7. ObjSet(s, p, y) = FsOf([ob EXCEPT ![p] = y], s.mounts, s.lost, s.halted)
  BY <1>2, <1>5
<1> QED BY <1>3, <1>4, <1>5, <1>6, <1>7

\* References when an object has been taken off its list.
LEMMA OffCounts ==
  ASSUME NEW s, IsFs(s), NEW m, NEW t, RefsCounted(s, m, t), NEW dir, NEW r, Relisted(s, r, dir),
         NEW o \in Members(s), Up(s, o) = 1,
         \A q \in Obj : Up(r, q) = IF q = o THEN 0 ELSE Up(s, q)
  PROVE  RefsCounted(r, m, PlusTmp(t, TmpNode(o)))
<1>1. Counts(s, m, t) /\ Members(s) \subseteq Obj
  BY DEF RefsCounted, Counts, Members, LiveOf
<1>2. PICK tn : tn = PlusTmp(t, TmpNode(o))
  OBVIOUS
<1>3. /\ tn \in [Obj -> Nat] /\ t \in [Obj -> Nat]
      /\ \A q \in Obj : tn[q] = IF q = o THEN t[q] + 1 ELSE t[q]
  <2>1. TmpNode(o).mount = FALSE /\ TmpNode(o).obj = o
    BY NodeFields
  <2>2. MoreTmps(t, tn, TmpNode(o)) /\ Counts(s, PlusMount(m, TmpNode(o)), tn)
    BY <1>1, <1>2, PlusFacts
  <2> QED BY <1>1, <2>1, <2>2 DEF Counts, MoreTmps
<1>4. /\ r.mounts = s.mounts /\ Members(r) = Members(s)
      /\ \A q \in Obj : r.objs[q].kind = s.objs[q].kind /\ r.objs[q].ref = s.objs[q].ref
  BY DEF Relisted
<1>5. ASSUME NEW q \in Members(r)
      PROVE  /\ r.objs[q].ref >= Up(r, q) + tn[q]
             /\ r.objs[q].kind = "dir" => r.objs[q].ref = Up(r, q) + tn[q] /\ r.objs[q].ref >= 1
  <2>1. q \in Members(s) /\ q \in Obj
    BY <1>1, <1>4
  <2>2. /\ s.objs[q].ref >= Up(s, q) + t[q]
        /\ s.objs[q].kind = "dir" => s.objs[q].ref = Up(s, q) + t[q] /\ s.objs[q].ref >= 1
    BY <2>1 DEF RefsCounted
  <2>3. Up(r, q) + tn[q] = Up(s, q) + t[q]
    <3>1. CASE q = o
      BY <1>3, <2>1, <3>1
    <3>2. CASE q # o
      BY <1>3, <2>1, <3>2
    <3> QED BY <3>1, <3>2
  <2> QED BY <1>4, <2>1, <2>2, <2>3
<1>6. \A q \in Obj : tn[q] > 0 => q \in Members(r)
  <2>1. \A q \in Obj : t[q] > 0 => q \in Members(s)
    BY DEF RefsCounted
  <2> QED BY <1>3, <1>4, <2>1
<1>7. \A p \in DOMAIN r.mounts : r.mounts[p].ref = (IF p = << >> THEN 2 ELSE 3) + m[p]
  BY <1>4 DEF RefsCounted
<1>8. RefsCounted(r, m, tn)
  BY <1>1, <1>3, <1>4, <1>5, <1>6, <1>7 DEF RefsCounted, Counts
<1> QED BY <1>2, <1>8

LEMMA UnlinkKeeps ==
  ASSUME InvOf(fs, open), ~fs.halted, NEW node \in BagToSet(open), NEW name \in Name,
         tmpfs_unlink(node, name)
  PROVE  InvOf(fs', open')
<1>1. PICK m, t : m = MountsIn(fs, open) /\ t = TmpsIn(open)
  OBVIOUS
<1>2. /\ IsFs(fs) /\ Shape(fs) /\ RefsCounted(fs, m, t) /\ IsABag(open)
      /\ \A n \in BagToSet(open) : NodeOK(fs, n)
  BY <1>1 DEF InvOf
<1>3. PICK dir : dir = node.obj /\ dir \in Obj
  BY TmpDirFacts DEF tmpfs_unlink
<1>4. PICK l : l = fs.objs[dir].childs /\ l \in Seq(Obj)
  BY <1>2, <1>3, FsFields
<1>5. PICK i : i = Min(Matching(fs, dir, name)) /\ i \in 1..Len(l)
  <2>1. Matching(fs, dir, name) # {} /\ Matching(fs, dir, name) \subseteq 1..Len(l)
    <3>1. Matching(fs, dir, name) # {}
      BY <1>3, Zenon DEF tmpfs_unlink
    <3>2. DOMAIN l = 1..Len(l)
      BY <1>4
    <3>3. Matching(fs, dir, name) \subseteq DOMAIN l
      BY <1>4 DEF Matching
    <3> QED BY <3>1, <3>2, <3>3
  <2>2. Matching(fs, dir, name) \in SUBSET Nat
    BY <2>1
  <2>3. Min(Matching(fs, dir, name)) \in Matching(fs, dir, name)
    BY <2>1, <2>2, MinFacts
  <2> QED BY <2>1, <2>3
<1>6. PICK o, s : o = l[i] /\ s = Dropped(fs, o)
  OBVIOUS
<1>7. PICK y : y = ListSet(fs.objs[dir], RemoveAt(l, i))
  OBVIOUS
<1>8. PICK w : w = ObjSet(fs, dir, y)
  OBVIOUS
<1>9. /\ Relisted(fs, w, dir) /\ Shape(w) /\ o \in Members(fs) /\ o # dir /\ Up(fs, o) = 1
      /\ \A q \in Obj : Up(w, q) = IF q = o THEN 0 ELSE Up(fs, q)
  BY <1>2, <1>3, <1>4, <1>5, <1>6, <1>7, <1>8, RemoveChild
<1>10. o \in Obj
  BY <1>9 DEF Members, LiveOf
<1>11. /\ IsFs(w) /\ w.mounts = fs.mounts /\ w.halted = fs.halted /\ w.objs[o] = fs.objs[o]
  BY <1>9, <1>10 DEF Relisted
<1>12. RefsCounted(w, m, PlusTmp(t, TmpNode(o)))
  BY <1>2, <1>9, OffCounts
<1>13. PICK d : d = Dropped(w, o)
  OBVIOUS
<1>14. IsFs(d) /\ d.mounts = w.mounts /\ (~d.halted => Shape(d) /\ RefsCounted(d, m, t))
  <2>1. Counts(w, m, t)
    BY <1>2, <1>11 DEF RefsCounted, Counts
  <2> QED BY <1>9, <1>10, <1>11, <1>12, <1>13, <2>1, DropCounts
<1>15. fs.objs[o].ref >= 1
  <2>1. fs.objs[o].ref >= 1 + t[o] /\ t[o] \in Nat /\ fs.objs[o].ref \in Nat
    BY <1>2, <1>9, <1>10, FsFields DEF RefsCounted
  <2> QED BY <2>1
<1>16. PICK z : z = LeftOf(fs.objs[o]) /\ z \in ObjType
  BY <1>2, <1>6, <1>10, <1>15, DroppedForm
<1>17. /\ IsFs(s) /\ s.mounts = fs.mounts
       /\ s.halted <=> fs.objs[o].ref = 1 /\ fs.objs[o].childs # << >>
       /\ ~s.halted => s = ObjSet(fs, o, z)
  BY <1>2, <1>6, <1>10, <1>15, <1>16, DroppedForm
<1>18. /\ d.halted <=> fs.objs[o].ref = 1 /\ fs.objs[o].childs # << >>
       /\ ~d.halted => d = ObjSet(w, o, z)
  BY <1>10, <1>11, <1>13, <1>15, <1>16, DroppedForm
<1>19. /\ open' = open
       /\ fs' = IF s.halted THEN s
                ELSE [s EXCEPT !.objs[dir].childs = RemoveAt(s.objs[dir].childs, i)]
  BY <1>3, <1>4, <1>5, <1>6 DEF tmpfs_unlink
<1>20. CASE s.halted
  <2>1. fs' = s
    BY <1>19, <1>20
  <2>2. SameMounts(fs, s)
    BY <1>17 DEF SameMounts
  <2>3. \A n \in BagToSet(open) : NodeOK(s, n)
    BY <1>2, <2>2, NodesStay
  <2>4. InvOf(s, open)
    BY <1>2, <1>17, <1>20, <2>3 DEF InvOf
  <2> QED BY <1>19, <2>1, <2>4
<1>21. CASE ~s.halted
  <2>1. s = ObjSet(fs, o, z) /\ ~d.halted /\ d = ObjSet(w, o, z)
    BY <1>17, <1>18, <1>21
  <2>2. s.objs[dir] = fs.objs[dir]
    BY <1>2, <1>3, <1>9, <1>10, <1>16, <2>1, WithObj DEF Replaces
  <2>3. fs' = ObjSet(s, dir, y)
    <3>1. fs' = [s EXCEPT !.objs[dir].childs = RemoveAt(l, i)]
      BY <1>4, <1>19, <1>21, <2>2
    <3>2. s = FsOf(s.objs, s.mounts, s.lost, s.halted) /\ s.objs \in [Obj -> ObjType]
      BY <1>17 DEF IsFs
    <3> QED BY <1>3, <1>7, <2>2, <3>1, <3>2 DEF ObjSet, ListSet
  <2>4. ObjSet(s, dir, y) = d
    BY <1>2, <1>3, <1>8, <1>9, <1>10, <2>1, ObjSetsCommute
  <2>5. SameMounts(fs, d)
    BY <1>11, <1>14 DEF SameMounts
  <2>6. m = MountsIn(d, open)
    BY <1>1, <2>5, NodesStay
  <2>7. \A n \in BagToSet(open) : NodeOK(d, n)
    BY <1>2, <2>5, NodesStay
  <2>8. InvOf(d, open)
    BY <1>1, <1>2, <1>14, <2>1, <2>6, <2>7 DEF InvOf
  <2> QED BY <1>19, <2>3, <2>4, <2>8
<1> QED BY <1>20, <1>21

-----------------------------------------------------------------------------
(* The invariant and what follows from it.                                  *)

LEMMA VfsStarts ==
  ASSUME VfsInit
  PROVE  VfsInv
<1>1. PICK ob, mo : /\ ob = [o \in Obj |-> NoObj]
                    /\ mo = [p \in {<< >>} |-> [obj |-> 0, ref |-> 2]]
  OBVIOUS
<1>2. archive \in Archives /\ fs = FsOf(ob, mo, {}, FALSE) /\ open = EmptyBag
  BY <1>1 DEF VfsInit, FsOf
<1>3. fs.objs = ob /\ fs.mounts = mo /\ fs.lost = {} /\ fs.halted = FALSE
  BY <1>2 DEF FsOf
<1>4. /\ DOMAIN mo = {<< >>} /\ mo[<< >>].obj = 0 /\ mo[<< >>].ref = 2
      /\ mo[<< >>] \in MountType /\ mo = [p \in {<< >>} |-> mo[p]]
  BY <1>1 DEF MountType
<1>5. \A o \in Obj : ob[o] = NoObj /\ NoObj \in ObjType /\ ~NoObj.live /\ NoObj.childs = << >>
  BY <1>1, NoObjFacts
<1>6. IsFs(fs)
  <2>1. ob \in [Obj -> ObjType]
    BY <1>1, NoObjFacts
  <2>2. DOMAIN mo \subseteq Seq(Name) /\ mo \in [DOMAIN mo -> MountType]
    <3>1. << >> \in Seq(Name)
      BY EmptySeq
    <3> QED BY <1>4, <3>1
  <2> QED BY <1>2, <1>3, <2>1, <2>2 DEF IsFs
<1>7. LiveOf(fs) = {} /\ RootsOf(fs) = {} /\ Members(fs) = {}
  <2>1. LiveOf(fs) = {}
    BY <1>3, <1>5 DEF LiveOf
  <2>2. RootsOf(fs) = {}
    BY <1>3, <1>4, RootsOfMember
  <2> QED BY <2>1, <2>2 DEF Members
<1>8. \A o \in Obj : fs.objs[o].childs = << >> /\ ChildsOf(fs, o) = {}
  BY <1>3, <1>5 DEF ChildsOf, SetOf
<1>9. Shape(fs)
  <2>1. << >> \in DOMAIN fs.mounts
    BY <1>3, <1>4
  <2>2. IsInjective(<< >>)
    BY DEF IsInjective
  <2>3. \A o \in Obj : IsInjective(fs.objs[o].childs)
    BY <1>8, <2>2
  <2>4. ASSUME NEW S \in SUBSET Obj, S # {}
        PROVE  \E o \in S : \A p \in S : o \notin ChildsOf(fs, p)
    BY <1>8, <2>4
  <2> QED BY <1>3, <1>7, <1>8, <2>1, <2>3, <2>4 DEF Shape
<1>10. IsABag(open) /\ BagToSet(open) = {}
  BY <1>2 DEF IsABag, BagToSet, EmptyBag, SetToBag
<1>11. PICK m, t : m = MountsIn(fs, open) /\ t = TmpsIn(open)
  OBVIOUS
<1>12. /\ m \in [DOMAIN fs.mounts -> Nat] /\ t \in [Obj -> Nat]
       /\ \A p \in DOMAIN fs.mounts : m[p] = 0
       /\ \A o \in Obj : t[o] = 0
  <2>1. \A x : NumberOf(open, x) = 0
    BY <1>10 DEF NumberOf
  <2> QED BY <1>11, <2>1 DEF MountsIn, TmpsIn
<1>13. \A p \in DOMAIN fs.mounts : fs.mounts[p].ref = (IF p = << >> THEN 2 ELSE 3) + m[p]
  BY <1>3, <1>4, <1>12
<1>14. RefsCounted(fs, m, t)
  BY <1>7, <1>12, <1>13 DEF RefsCounted
<1>15. InvOf(fs, open)
  BY <1>6, <1>9, <1>10, <1>11, <1>14 DEF InvOf
<1> QED BY <1>2, <1>15 DEF VfsInv

LEMMA VfsKeeps ==
  ASSUME VfsInv, [VfsNext]_vfsVars
  PROVE  VfsInv'
<1>1. archive \in Archives /\ InvOf(fs, open)
  BY DEF VfsInv
<1>2. ASSUME archive' = archive, InvOf(fs', open') PROVE VfsInv'
  BY <1>1, <1>2 DEF VfsInv, InvOf, NodeOK, Entries
<1>3. CASE UNCHANGED vfsVars
  <2>1. archive' = archive /\ fs' = fs /\ open' = open
    BY <1>3 DEF vfsVars
  <2> QED BY <1>1, <1>2, <2>1
<1>4. CASE VfsNext
  <2>1. ~fs.halted /\ archive' = archive
    BY <1>4 DEF VfsNext
  <2>2. ASSUME NEW path \in Paths, kopen(path) PROVE InvOf(fs', open')
    BY <1>1, <2>1, <2>2, KopenKeeps
  <2>3. ASSUME NEW path \in MountPaths, kmount(path) PROVE InvOf(fs', open')
    BY <1>1, <2>1, <2>3, KmountKeeps
  <2>4. ASSUME NEW node \in BagToSet(open), fs_close(node) PROVE InvOf(fs', open')
    BY <1>1, <2>1, <2>4, CloseKeeps
  <2>5. ASSUME NEW node \in BagToSet(open), NEW name \in Name, NEW kind \in {"file", "dir"},
               tmpfs_create(node, name, kind)
        PROVE  InvOf(fs', open')
    BY <1>1, <2>1, <2>5, CreateKeeps
  <2>6. ASSUME NEW node \in BagToSet(open), NEW name \in Name, tmpfs_unlink(node, name)
        PROVE  InvOf(fs', open')
    BY <1>1, <2>1, <2>6, UnlinkKeeps
  <2>7. InvOf(fs', open')
    BY <1>4, <2>2, <2>3, <2>4, <2>5, <2>6 DEF VfsNext
  <2> QED BY <1>2, <2>1, <2>7
<1> QED BY <1>3, <1>4

LEMMA VfsTyped ==
  ASSUME VfsInv
  PROVE  VfsTypeOK
<1>1. archive \in Archives /\ IsFs(fs) /\ IsABag(open) /\ \A n \in BagToSet(open) : NodeOK(fs, n)
  BY DEF VfsInv, InvOf
<1>2. fs.objs \in [Obj -> ObjType] /\ fs.halted \in BOOLEAN
  BY <1>1 DEF IsFs
<1>3. \A p \in DOMAIN fs.mounts : fs.mounts[p].obj \in {0} \cup Obj /\ fs.mounts[p].ref \in Nat
  BY <1>1, FsFields
<1>4. ASSUME NEW n \in BagToSet(open) PROVE n \in Node
  <2>1. CASE \E p \in DOMAIN fs.mounts : n = MountNode(fs, p)
    <3>1. PICK p \in DOMAIN fs.mounts : n = MountNode(fs, p)
      BY <2>1
    <3>2. p \in Seq(Name) /\ fs.mounts[p].obj \in {0} \cup Obj
      BY <1>1, FsFields
    <3> QED BY <3>1, <3>2 DEF MountNode, Node
  <2>2. CASE \E o \in Obj : n = TmpNode(o)
    <3>1. << >> \in Seq(Name)
      BY EmptySeq
    <3> QED BY <2>2, <3>1 DEF TmpNode, Node
  <2>3. CASE \E e \in Entries : n = TarNode(e.path)
    <3>1. PICK e \in Entries : n = TarNode(e.path)
      BY <2>3
    <3>2. e.path \in Seq(Name)
      BY <1>1, EntryFacts
    <3> QED BY <3>1, <3>2 DEF TarNode, Node
  <2> QED BY <1>1, <2>1, <2>2, <2>3 DEF NodeOK
<1> QED BY <1>1, <1>2, <1>3, <1>4 DEF VfsTypeOK, ObjType

LEMMA SameNames ==
  /\ LiveObj = LiveOf(fs) /\ Roots = RootsOf(fs)
  /\ \A o \in Obj : Childs(o) = ChildsOf(fs, o)
  /\ \A n : Copies(n) = NumberOf(open, n)
BY DEF LiveObj, LiveOf, Roots, RootsOf, Childs, ChildsOf, Copies, NumberOf

LEMMA VfsPoints ==
  ASSUME VfsInv
  PROVE  NoDangling
<1>1. SUFFICES ASSUME ~fs.halted
               PROVE  /\ Roots \cup Held \subseteq LiveObj
                      /\ \A o \in LiveObj :
                           /\ Childs(o) \subseteq LiveObj \ Roots
                           /\ IsInjective(fs.objs[o].childs)
                           /\ \A p \in LiveObj \ {o} : Childs(o) \cap Childs(p) = {}
  BY DEF NoDangling
<1>2. InvOf(fs, open) /\ Shape(fs) /\ IsFs(fs)
  BY <1>1 DEF VfsInv, InvOf
<1>3. Roots \subseteq LiveObj
  BY <1>2, SameNames DEF Shape
<1>4. Held \subseteq LiveObj
  <2>1. SUFFICES ASSUME NEW n \in BagToSet(open), n.obj # 0 PROVE n.obj \in LiveOf(fs)
    BY SameNames DEF Held
  <2>2. n.obj \in Obj
    BY <1>2, <2>1, NodeObj DEF InvOf
  <2> QED BY <1>1, <1>2, <2>2, HeldDir
<1>5. ASSUME NEW o \in LiveObj
      PROVE  /\ Childs(o) \subseteq LiveObj \ Roots
             /\ IsInjective(fs.objs[o].childs)
             /\ \A p \in LiveObj \ {o} : Childs(o) \cap Childs(p) = {}
  <2>1. o \in Obj /\ \A p \in LiveObj \ {o} : p \in Obj /\ p # o
    BY DEF LiveObj
  <2>2. Childs(o) = ChildsOf(fs, o) /\ \A p \in LiveObj \ {o} : Childs(p) = ChildsOf(fs, p)
    BY <2>1, SameNames
  <2>3. ChildsOf(fs, o) \subseteq Members(fs) /\ IsInjective(fs.objs[o].childs)
    BY <1>2, <2>1 DEF Shape
  <2>4. Members(fs) \subseteq LiveObj \ Roots
    BY SameNames DEF Members
  <2>5. \A p \in LiveObj \ {o} : ChildsOf(fs, o) \cap ChildsOf(fs, p) = {}
    BY <1>2, <2>1 DEF Shape
  <2> QED BY <2>2, <2>3, <2>4, <2>5
<1> QED BY <1>3, <1>4, <1>5

LEMMA VfsReaches ==
  ASSUME VfsInv
  PROVE  NoLostDirectory
<1>1. SUFFICES ASSUME ~fs.halted, NEW o \in LiveObj \ Below(Roots \cup Held),
                      o \notin fs.lost, fs.objs[o].kind # "file"
               PROVE  FALSE
  BY DEF NoLostDirectory
<1>2. PICK m, t : m = MountsIn(fs, open) /\ t = TmpsIn(open)
  OBVIOUS
<1>3. InvOf(fs, open) /\ Shape(fs) /\ IsFs(fs) /\ RefsCounted(fs, m, t)
  BY <1>1, <1>2 DEF VfsInv, InvOf
<1>4. o \in Obj /\ o \in LiveOf(fs) /\ fs.objs[o].kind = "dir"
  <2>1. o \in Obj /\ o \in LiveOf(fs)
    BY SameNames DEF LiveObj
  <2> QED BY <1>1, <1>3, <2>1, FsFields
<1>5. PICK S \in SUBSET Obj : /\ Roots \cup Held \subseteq S /\ o \notin S
                              /\ \A p \in S : Childs(p) \subseteq S
  BY <1>1, <1>4 DEF Below
<1>6. PICK D : D = {d \in LiveOf(fs) \ S : fs.objs[d].kind = "dir" /\ d \notin fs.lost}
  OBVIOUS
<1>7. D \in SUBSET Obj /\ o \in D
  BY <1>1, <1>4, <1>5, <1>6 DEF LiveOf
<1>8. ASSUME NEW d \in D PROVE \E p \in D : d \in ChildsOf(fs, p)
  <2>1. d \in Obj /\ d \in LiveOf(fs) /\ d \notin S /\ fs.objs[d].kind = "dir" /\ d \notin fs.lost
    BY <1>6, <1>7
  <2>2. d \in Members(fs)
    BY <1>5, <2>1, SameNames DEF Members
  <2>3. t[d] = 0
    <3>1. TmpNode(d) \notin BagToSet(open)
      <4>1. SUFFICES ASSUME TmpNode(d) \in BagToSet(open) PROVE FALSE
        OBVIOUS
      <4>2. TmpNode(d).obj = d /\ d # 0
        BY <2>1, NodeFields, VfsAssumption DEF Obj
      <4>3. d \in Held
        BY <4>1, <4>2 DEF Held
      <4> QED BY <1>5, <2>1, <4>3
    <3> QED BY <1>2, <2>1, <3>1 DEF TmpsIn, NumberOf
  <2>4. fs.objs[d].ref = Up(fs, d) + t[d] /\ fs.objs[d].ref >= 1
    BY <1>3, <2>1, <2>2 DEF RefsCounted
  <2>5. Parented(fs, d)
    BY <2>3, <2>4 DEF Up
  <2>6. PICK p \in Obj : d \in ChildsOf(fs, p)
    BY <2>5 DEF Parented
  <2>7. fs.objs[p].childs # << >>
    BY <2>6 DEF ChildsOf, SetOf
  <2>8. p \in LiveOf(fs) /\ p \notin fs.lost /\ fs.objs[p].kind = "dir"
    BY <1>3, <2>6, <2>7 DEF Shape
  <2>9. p \notin S
    BY <1>5, <2>1, <2>6, SameNames
  <2> QED BY <1>6, <2>6, <2>8, <2>9
<1>9. PICK d \in D : \A p \in D : d \notin ChildsOf(fs, p)
  BY <1>3, <1>7 DEF Shape
<1> QED BY <1>8, <1>9

LEMMA VfsCounts ==
  ASSUME VfsInv
  PROVE  RefsExact
<1>1. SUFFICES ASSUME ~fs.halted
               PROVE  /\ \A p \in DOMAIN fs.mounts :
                           fs.mounts[p].ref = (IF p = << >> THEN 2 ELSE 3)
                             + Copies(MountNode(fs, p))
                      /\ \A o \in LiveObj \ Roots :
                           LET count == Cardinality({p \in LiveObj : o \in Childs(p)})
                                          + Copies(TmpNode(o))
                           IN IF fs.objs[o].kind = "dir" /\ o \notin fs.lost
                              THEN fs.objs[o].ref = count
                              ELSE fs.objs[o].ref >= count
  BY Zenon DEF RefsExact
<1>2. PICK m, t : m = MountsIn(fs, open) /\ t = TmpsIn(open)
  OBVIOUS
<1>3. Shape(fs) /\ IsFs(fs) /\ RefsCounted(fs, m, t)
  BY <1>1, <1>2 DEF VfsInv, InvOf
<1>4. ASSUME NEW p \in DOMAIN fs.mounts
      PROVE  fs.mounts[p].ref = (IF p = << >> THEN 2 ELSE 3) + Copies(MountNode(fs, p))
  <2>1. m[p] = Copies(MountNode(fs, p))
    BY <1>2, SameNames DEF MountsIn
  <2> QED BY <1>3, <2>1 DEF RefsCounted
<1>5. ASSUME NEW o \in LiveObj \ Roots, NEW count,
             count = Cardinality({p \in LiveObj : o \in Childs(p)}) + Copies(TmpNode(o))
      PROVE  IF fs.objs[o].kind = "dir" /\ o \notin fs.lost
             THEN fs.objs[o].ref = count
             ELSE fs.objs[o].ref >= count
  <2>1. o \in Obj /\ o \in LiveOf(fs) /\ o \notin RootsOf(fs) /\ fs.objs[o].ref \in Nat
    <3>1. o \in Obj /\ o \in LiveOf(fs) /\ o \notin RootsOf(fs)
      BY SameNames DEF LiveObj
    <3> QED BY <1>3, <3>1, FsFields
  <2>2. t[o] = Copies(TmpNode(o)) /\ t[o] \in Nat
    <3>1. t[o] = Copies(TmpNode(o))
      BY <1>2, <2>1, SameNames DEF TmpsIn
    <3> QED BY <1>3, <2>1, <3>1 DEF RefsCounted
  <2>3. PICK P : P = {p \in LiveObj : o \in Childs(p)}
    OBVIOUS
  <2>4. \A p : p \in P <=> p \in LiveOf(fs) /\ o \in ChildsOf(fs, p)
    BY <2>3, SameNames DEF LiveObj
  <2>5. Cardinality(P) = Up(fs, o)
    <3>1. CASE Parented(fs, o)
      <4>1. PICK p \in Obj : o \in ChildsOf(fs, p)
        BY <3>1 DEF Parented
      <4>2. fs.objs[p].childs # << >>
        BY <4>1 DEF ChildsOf, SetOf
      <4>3. p \in LiveOf(fs)
        BY <1>3, <4>1, <4>2 DEF Shape
      <4>4. \A q \in Obj : q # p => o \notin ChildsOf(fs, q)
        BY <1>3, <4>1 DEF Shape
      <4>5. LiveOf(fs) \subseteq Obj
        BY DEF LiveOf
      <4>6. P = {p}
        BY <2>4, <4>1, <4>3, <4>4, <4>5
      <4>7. Cardinality(P) = 1
        BY <4>6, FS_Singleton
      <4> QED BY <3>1, <4>7 DEF Up
    <3>2. CASE ~Parented(fs, o)
      <4>1. LiveOf(fs) \subseteq Obj
        BY DEF LiveOf
      <4>2. P = {}
        BY <2>4, <3>2, <4>1 DEF Parented
      <4>3. Cardinality(P) = 0
        BY <4>2, FS_EmptySet
      <4> QED BY <3>2, <4>3 DEF Up
    <3> QED BY <3>1, <3>2
  <2>6. count = Up(fs, o) + t[o]
    BY <1>5, <2>2, <2>3, <2>5
  <2>7. CASE o \notin fs.lost
    <3>1. o \in Members(fs)
      BY <2>1, <2>7 DEF Members
    <3>2. /\ fs.objs[o].ref >= Up(fs, o) + t[o]
          /\ fs.objs[o].kind = "dir" => fs.objs[o].ref = Up(fs, o) + t[o]
      BY <1>3, <3>1 DEF RefsCounted
    <3> QED BY <2>6, <2>7, <3>2
  <2>8. CASE o \in fs.lost
    <3>1. o \notin Members(fs)
      BY <2>8 DEF Members
    <3>2. t[o] = 0
      BY <1>3, <2>1, <2>2, <3>1 DEF RefsCounted
    <3>3. Up(fs, o) = 0
      BY <1>3, <3>1 DEF Up, Parented, Shape
    <3> QED BY <2>1, <2>6, <2>8, <3>2, <3>3
  <2> QED BY <2>7, <2>8
<1> QED BY <1>4, <1>5

\* Until the machine stops, every object is reached by one list at most, a mount
\* or a node that somebody holds, lists form trees, and each call of fs.c and
\* tmpfs.c leaves every reference accounted for, whichever way a lookup ends.
THEOREM VfsSafe == VfsSpec => []VfsInv
<1>1. VfsInit => VfsInv
  BY VfsStarts
<1>2. VfsInv /\ [VfsNext]_vfsVars => VfsInv'
  BY VfsKeeps
<1> QED BY <1>1, <1>2, PTL DEF VfsSpec

\* No list, mount or open node of tmpfs points to a destroyed object, and a
\* directory that can no longer be reached has been destroyed, for all archives,
\* paths, mounts and orders of the calls.
THEOREM ObjectsStayLive == VfsSpec => []ObjectsLive
<1>1. VfsInv => ObjectsLive
  BY VfsTyped, VfsPoints, VfsReaches DEF ObjectsLive
<1> QED BY <1>1, VfsSafe, PTL

\* kopen() and fs_close() balance: reference counts of mounts and directories say
\* how many references there are, for all archives, paths and orders of the calls.
THEOREM ReferencesBalance == VfsSpec => []RefsExact
<1>1. VfsInv => RefsExact
  BY VfsCounts
<1> QED BY <1>1, VfsSafe, PTL
=============================================================================
