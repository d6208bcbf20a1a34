--------------------------- MODULE ProcessProofs ---------------------------
(***************************************************************************)
(* The memory, the pids and the waiting of process.c, for every number of  *)
(* processes, directories and blocks.                                      *)
(*                                                                         *)
(* ProcInv adds to the checked invariants what a process that does not     *)
(* exist yet and a directory without references look like, that a waiting  *)
(* process waits for a child of its own, and that only one that was        *)
(* interrupted before it blocked counts as late.                           *)
(***************************************************************************)
EXTENDS Process, Facts, FiniteSetTheorems, TLAPS

-----------------------------------------------------------------------------
(* pmm_alloc_blocks_safe().                                                 *)

\* s are the first n blocks of fr.
FirstBlocks(s, n, fr) ==
  s \in SUBSET fr /\ Cardinality(s) = n /\ \A b \in s, c \in fr \ s : b < c

\* There are first n blocks whenever there are n blocks: a least n without
\* them would not be 0, and those for n - 1 could be extended by the lowest of
\* the others.
LEMMA FirstBlocksExist ==
  ASSUME NEW fr \in SUBSET Nat, IsFiniteSet(fr), NEW n \in 0..Cardinality(fr)
  PROVE  \E s : FirstBlocks(s, n, fr)
<1> DEFINE Bad == {k \in 0..Cardinality(fr) : ~ \E s : FirstBlocks(s, k, fr)}
<1>1. Cardinality(fr) \in Nat
  BY FS_CardinalityType
<1>2. Bad = {}
  <2> SUFFICES ASSUME Bad # {} PROVE FALSE
    OBVIOUS
  <2>1. Bad \in SUBSET Nat
    BY <1>1
  <2>2. PICK k : k = Min(Bad)
    OBVIOUS
  <2>3. k \in Bad /\ \A y \in Bad : k <= y
    BY <2>1, <2>2, MinFacts
  <2>4. k \in 0..Cardinality(fr) /\ ~ \E s : FirstBlocks(s, k, fr)
    BY <2>3
  <2>5. k # 0
    <3>1. FirstBlocks({}, 0, fr)
      BY FS_EmptySet DEF FirstBlocks
    <3> QED BY <2>4, <3>1
  <2>6. k - 1 \in 0..Cardinality(fr) /\ k - 1 \notin Bad /\ k \in Nat
    BY <1>1, <2>1, <2>3, <2>4, <2>5
  <2>7. PICK s : FirstBlocks(s, k - 1, fr)
    BY <2>6
  <2>8. PICK rest : rest = fr \ s
    OBVIOUS
  <2>9. IsFiniteSet(s) /\ s \subseteq fr /\ Cardinality(s) = k - 1
    BY <2>7, FS_Subset DEF FirstBlocks
  <2>10. rest # {}
    <3>1. rest = {} => s = fr
      BY <2>8, <2>9
    <3> QED BY <1>1, <2>4, <2>6, <2>9, <3>1
  <2>11. PICK m : m \in rest /\ \A y \in rest : m <= y
    <3>1. rest \in SUBSET Nat
      BY <2>8
    <3> QED BY <2>10, <3>1, MinFacts
  <2>12. PICK t : t = s \cup {m}
    OBVIOUS
  <2>13. t \in SUBSET fr /\ m \notin s
    BY <2>8, <2>9, <2>11, <2>12
  <2>14. Cardinality(t) = k
    <3>1. Cardinality(s \cup {m}) = Cardinality(s) + 1
      BY <2>9, <2>13, FS_AddElement
    <3> QED BY <2>6, <2>9, <2>12, <3>1
  <2>15. ASSUME NEW b \in t, NEW c \in fr \ t PROVE b < c
    <3>1. c \in rest /\ c # m /\ c \in Nat /\ m \in Nat /\ b \in Nat
      BY <2>8, <2>11, <2>12, <2>13
    <3>2. CASE b = m
      BY <2>11, <3>1, <3>2
    <3>3. CASE b \in s
      BY <2>7, <2>8, <3>1, <3>3 DEF FirstBlocks
    <3> QED BY <2>12, <3>2, <3>3
  <2>16. FirstBlocks(t, k, fr)
    BY <2>13, <2>14, <2>15 DEF FirstBlocks
  <2> QED BY <2>4, <2>16
<1> QED BY <1>2

\* What Lowest() returns when there are enough blocks.
LEMMA LowestFacts ==
  ASSUME NEW fr \in SUBSET Block, Blocks \in Nat, NEW n \in Nat, n <= Cardinality(fr)
  PROVE  /\ IsFiniteSet(fr) /\ IsFiniteSet(Lowest(fr, n))
         /\ Lowest(fr, n) \in SUBSET fr /\ Cardinality(Lowest(fr, n)) = n
         /\ Cardinality(fr \ Lowest(fr, n)) = Cardinality(fr) - n
<1>1. IsFiniteSet(Block)
  BY FS_Interval DEF Block
<1>2. IsFiniteSet(fr) /\ fr \in SUBSET Nat /\ Cardinality(fr) \in Nat
  <2>1. IsFiniteSet(fr)
    BY <1>1, FS_Subset
  <2> QED BY <2>1, FS_CardinalityType DEF Block
<1>3. n \in 0..Cardinality(fr)
  BY <1>2
<1>4. PICK s0 : FirstBlocks(s0, n, fr)
  BY <1>2, <1>3, FirstBlocksExist
<1>5. s0 \in kSubset(n, fr) /\ \A b \in s0, c \in fr \ s0 : b < c
  BY <1>4 DEF FirstBlocks, kSubset
<1>6. PICK s : s = Lowest(fr, n)
  OBVIOUS
<1>7. s \in kSubset(n, fr)
  BY <1>5, <1>6 DEF Lowest
<1>8. s \in SUBSET fr /\ Cardinality(s) = n
  BY <1>7 DEF kSubset
<1>9. IsFiniteSet(s)
  BY <1>2, <1>8, FS_Subset
<1>10. Cardinality(fr \ s) = Cardinality(fr) - n
  <2>1. PICK r : r = fr \ s
    OBVIOUS
  <2>2. IsFiniteSet(r)
    BY <1>2, <2>1, FS_Subset
  <2>3. PICK i, u : i = r \cap s /\ u = r \cup s
    OBVIOUS
  <2>4. i = {} /\ u = fr
    BY <1>8, <2>1, <2>3
  <2>5. Cardinality(u) = Cardinality(r) + Cardinality(s) - Cardinality(i)
    BY <1>9, <2>2, <2>3, FS_Union
  <2>6. Cardinality(i) = 0 /\ Cardinality(r) \in Nat
    BY <2>2, <2>4, FS_EmptySet, FS_CardinalityType
  <2> QED BY <1>8, <2>1, <2>4, <2>5, <2>6
<1> QED BY <1>2, <1>6, <1>8, <1>9, <1>10

\* One block.
LEMMA LowestOne ==
  ASSUME NEW fr \in SUBSET Block, Blocks \in Nat, fr # {}
  PROVE  \E b \in fr : /\ Lowest(fr, 1) = {b} /\ Min(Lowest(fr, 1)) = b
                       /\ Cardinality(fr \ {b}) = Cardinality(fr) - 1
                       /\ Cardinality(fr) \in Nat
<1>1. IsFiniteSet(Block)
  BY FS_Interval DEF Block
<1>2. IsFiniteSet(fr)
  BY <1>1, FS_Subset
<1>3. Cardinality(fr) \in Nat /\ Cardinality(fr) # 0
  BY <1>2, FS_CardinalityType, FS_EmptySet
<1>4. PICK s : s = Lowest(fr, 1)
  OBVIOUS
<1>5. /\ IsFiniteSet(s) /\ s \in SUBSET fr /\ Cardinality(s) = 1
      /\ Cardinality(fr \ s) = Cardinality(fr) - 1
  BY <1>3, <1>4, LowestFacts
<1>6. PICK b : s = {b}
  BY <1>5, FS_Singleton
<1>7. Min(s) \in s
  <2>1. s \in SUBSET Nat /\ s # {}
    BY <1>5, <1>6 DEF Block
  <2> QED BY <2>1, MinFacts
<1> QED BY <1>3, <1>4, <1>5, <1>6, <1>7

-----------------------------------------------------------------------------
(* The inductive invariant.                                                 *)

\* BlocksUsedOnce without counting: who uses a block is alone, and who has
\* none is free.
OwnedOnce ==
  /\ \A p \in Process : stack[p] \notin free
  /\ \A d \in Dir : frame[d] \notin free /\ user[d] \cap free = {}
  /\ \A p, q \in Process : stack[p] # 0 /\ stack[p] = stack[q] => p = q
  /\ \A d, e \in Dir : /\ frame[d] # 0 /\ frame[d] = frame[e] => d = e
                       /\ d # e => user[d] \cap user[e] = {}
                       /\ frame[d] # 0 => frame[d] \notin user[e]
  /\ \A p \in Process, d \in Dir :
       stack[p] # 0 => stack[p] # frame[d] /\ stack[p] \notin user[d]
  /\ \A b \in Block \ free : \/ \E p \in Process : stack[p] = b
                             \/ \E d \in Dir : frame[d] = b \/ b \in user[d]

\* A directory that can be allocated has nothing that would be lost.
DirsFresh == \A d \in Dir : refs[d] = 0 => frame[d] = 0 /\ user[d] = {}

StacksPlaced ==
  \A p \in Process : /\ status[p] = "none" <=> stack[p] = 0
                     /\ status[p] \in {"live", "unmapped"} => pdir[p] # NULL

MemInv == OwnedOnce /\ UsersKeepMemory /\ DirsFresh /\ StacksPlaced

\* Pids grow, and who does not exist yet has none and no children.
TreeInv ==
  /\ PidsName
  /\ \A p \in Process :
       /\ status[p] = "none" => /\ pid[p] = 0 /\ parent[p] = NULL
                                /\ \A q \in Process : parent[q] # p
       /\ status[p] # "none" => pid[p] \in 1..last_pid

WaitInv ==
  /\ NoLostExit
  /\ \A p \in Process :
       /\ waiting[p].stage = "no" => waiting[p] = NotWaiting
       /\ waiting[p].stage # "no" => /\ waiting[p].child \in Process
                                     /\ parent[waiting[p].child] = p
       /\ waiting[p].stage = "tested" => waiting[p].late

ProcInv == ProcTypeOK /\ MemInv /\ TreeInv /\ WaitInv

-----------------------------------------------------------------------------
(* Counting users of a block.                                               *)

\* Three sets have one member in all when one of them is a singleton.
LEMMA SumFacts ==
  ASSUME NEW S, NEW F, NEW U, IsFiniteSet(S), IsFiniteSet(F), IsFiniteSet(U)
  PROVE  LET n == Cardinality(S) + Cardinality(F) + Cardinality(U) IN
         /\ S = {} /\ F = {} /\ U = {} => n = 0
         /\ \A x : \/ S = {x} /\ F = {} /\ U = {}
                   \/ S = {} /\ F = {x} /\ U = {}
                   \/ S = {} /\ F = {} /\ U = {x}
                   => n = 1
<1>1. Cardinality({}) = 0 /\ \A x : Cardinality({x}) = 1
  BY FS_EmptySet, FS_Singleton
<1>2. ASSUME S = {}, F = {}, U = {}
      PROVE  Cardinality(S) + Cardinality(F) + Cardinality(U) = 0
  BY <1>1, <1>2
<1>3. ASSUME NEW x, S = {x}, F = {}, U = {}
      PROVE  Cardinality(S) + Cardinality(F) + Cardinality(U) = 1
  <2>1. Cardinality(S) = 1 /\ Cardinality(F) = 0 /\ Cardinality(U) = 0
    BY <1>1, <1>3
  <2> QED BY <2>1
<1>4. ASSUME NEW x, S = {}, F = {x}, U = {}
      PROVE  Cardinality(S) + Cardinality(F) + Cardinality(U) = 1
  <2>1. Cardinality(S) = 0 /\ Cardinality(F) = 1 /\ Cardinality(U) = 0
    BY <1>1, <1>4
  <2> QED BY <2>1
<1>5. ASSUME NEW x, S = {}, F = {}, U = {x}
      PROVE  Cardinality(S) + Cardinality(F) + Cardinality(U) = 1
  <2>1. Cardinality(S) = 0 /\ Cardinality(F) = 0 /\ Cardinality(U) = 1
    BY <1>1, <1>5
  <2> QED BY <2>1
<1> QED BY <1>2, <1>3, <1>4, <1>5

LEMMA OwnedOnceCounts ==
  ASSUME ProcessAssumption, ProcTypeOK, OwnedOnce
  PROVE  BlocksUsedOnce
<1> SUFFICES ASSUME NEW b \in Block PROVE Uses(b) = IF b \in free THEN 0 ELSE 1
  BY DEF BlocksUsedOnce
<1>1. PICK S, F, U : /\ S = {p \in Process : stack[p] = b}
                     /\ F = {d \in Dir : frame[d] = b}
                     /\ U = {d \in Dir : b \in user[d]}
  OBVIOUS
<1>2. IsFiniteSet(S) /\ IsFiniteSet(F) /\ IsFiniteSet(U)
  <2>1. S \in SUBSET Process /\ F \in SUBSET Dir /\ U \in SUBSET Dir
    BY <1>1
  <2> QED BY <2>1, FS_Subset DEF ProcessAssumption
<1>3. Uses(b) = Cardinality(S) + Cardinality(F) + Cardinality(U)
  BY <1>1 DEF Uses
<1>4. b # 0
  BY DEF Block
<1>5. CASE b \in free
  <2>1. S = {} /\ F = {} /\ U = {}
    BY <1>1, <1>5 DEF OwnedOnce
  <2> QED BY <1>2, <1>3, <1>5, <2>1, SumFacts
<1>6. CASE b \notin free
  <2>1. \A p, q \in S : p = q
    BY <1>1, <1>4 DEF OwnedOnce
  <2>2. /\ \A d, e \in F : d = e
        /\ \A d, e \in U : d = e
    BY <1>1, <1>4 DEF OwnedOnce
  <2>3. /\ \A p \in S, d \in Dir : d \notin F /\ d \notin U
        /\ \A d \in F, e \in Dir : e \notin U
    BY <1>1, <1>4 DEF OwnedOnce
  <2>4. F \subseteq Dir /\ U \subseteq Dir
    BY <1>1
  <2>5. S # {} \/ F # {} \/ U # {}
    BY <1>1, <1>6 DEF OwnedOnce
  <2>6. \E x : \/ S = {x} /\ F = {} /\ U = {}
               \/ S = {} /\ F = {x} /\ U = {}
               \/ S = {} /\ F = {} /\ U = {x}
    <3>1. CASE S # {}
      <4>1. PICK x \in S : TRUE
        BY <3>1
      <4>2. S = {x} /\ F = {} /\ U = {}
        BY <2>1, <2>3, <2>4, <4>1
      <4> QED BY <4>2
    <3>2. CASE F # {}
      <4>1. PICK x \in F : TRUE
        BY <3>2
      <4>2. S = {} /\ F = {x} /\ U = {}
        BY <2>2, <2>3, <2>4, <4>1
      <4> QED BY <4>2
    <3>3. CASE S = {} /\ F = {} /\ U # {}
      <4>1. PICK x \in U : TRUE
        BY <3>3
      <4>2. U = {x}
        BY <2>2, <4>1
      <4> QED BY <3>3, <4>2
    <3> QED BY <2>5, <3>1, <3>2, <3>3
  <2>7. Cardinality(S) + Cardinality(F) + Cardinality(U) = 1
    BY <1>2, <2>6, SumFacts
  <2> QED BY <1>3, <1>6, <2>7
<1> QED BY <1>5, <1>6

-----------------------------------------------------------------------------
(* Pids and waiting.                                                        *)

LEMMA TreeKept ==
  ASSUME TreeInv, UNCHANGED treeVars,
         \A q \in Process : status'[q] = "none" <=> status[q] = "none"
  PROVE  TreeInv'
BY DEF TreeInv, PidsName, treeVars

LEMMA TreeClone ==
  ASSUME ProcessAssumption, ProcTypeOK, TreeInv,
         NEW p \in Process, NEW child \in Process, syscall_clone(p, child)
  PROVE  TreeInv' /\ pid' \in [Process -> 0..(MaxPid - 1)] /\ last_pid' \in 1..(MaxPid - 1)
         /\ parent' \in [Process -> Process \cup {NULL}]
<1>1. /\ status[p] = "live" /\ status[child] = "none" /\ child # p
      /\ last_pid' = last_pid + 1 /\ last_pid + 1 < MaxPid
      /\ pid' = [pid EXCEPT ![child] = last_pid + 1]
      /\ parent' = [parent EXCEPT ![child] = p]
      /\ status' = [status EXCEPT ![child] = "live"]
  BY DEF syscall_clone, get_pid, Running
<1>2. /\ pid \in [Process -> 0..(MaxPid - 1)] /\ last_pid \in 1..(MaxPid - 1)
      /\ parent \in [Process -> Process \cup {NULL}] /\ MaxPid \in Nat
      /\ status \in [Process -> {"none", "live", "exec", "unmapped", "exit", "terminated"}]
      /\ NULL \notin Process
  BY DEF ProcTypeOK, ProcessAssumption
<1>3. /\ pid' \in [Process -> 0..(MaxPid - 1)] /\ last_pid' \in 1..(MaxPid - 1)
      /\ parent' \in [Process -> Process \cup {NULL}]
  BY <1>1, <1>2
<1>4. \A q \in Process : pid[q] < last_pid + 1
  BY <1>2 DEF TreeInv
<1>5. \A q \in Process : parent[q] # child
  BY <1>1 DEF TreeInv
<1>6. PidsName'
  <2> SUFFICES ASSUME NEW q \in Process, NEW r \in Process
               PROVE  /\ status'[q] # "none" /\ pid'[q] = pid'[r] => q = r
                      /\ parent'[r] = q => pid'[q] < pid'[r]
    BY DEF PidsName
  <2>1. /\ status[q] # "none" /\ pid[q] = pid[r] => q = r
        /\ parent[r] = q => pid[q] < pid[r]
    BY DEF TreeInv, PidsName
  <2>2. /\ pid[q] < last_pid + 1 /\ pid[r] < last_pid + 1 /\ pid[p] < last_pid + 1
        /\ parent[r] # child
    BY <1>4, <1>5
  <2>3. CASE r = child
    <3>1. pid'[r] = last_pid + 1 /\ parent'[r] = p
      BY <1>1, <1>2, <2>3
    <3>2. q # child => pid'[q] = pid[q]
      BY <1>1, <1>2
    <3> QED BY <1>1, <1>2, <2>2, <2>3, <3>1, <3>2
  <2>4. CASE r # child
    <3>1. pid'[r] = pid[r] /\ parent'[r] = parent[r]
      BY <1>1, <1>2, <2>4
    <3>2. CASE q = child
      <4>1. pid'[q] = last_pid + 1
        BY <1>1, <1>2, <3>2
      <4> QED BY <1>2, <2>2, <2>4, <3>1, <3>2, <4>1
    <3>3. CASE q # child
      <4>1. pid'[q] = pid[q] /\ status'[q] = status[q]
        BY <1>1, <1>2, <3>3
      <4> QED BY <2>1, <3>1, <4>1
    <3> QED BY <3>2, <3>3
  <2> QED BY <2>3, <2>4
<1>7. ASSUME NEW q \in Process
      PROVE  /\ status'[q] = "none" => /\ pid'[q] = 0 /\ parent'[q] = NULL
                                       /\ \A r \in Process : parent'[r] # q
             /\ status'[q] # "none" => pid'[q] \in 1..last_pid'
  <2>1. CASE q = child
    BY <1>1, <1>2, <2>1
  <2>2. CASE q # child
    <3>1. status'[q] = status[q] /\ pid'[q] = pid[q] /\ parent'[q] = parent[q]
      BY <1>1, <1>2, <2>2
    <3>2. status[q] = "none" => q # p /\ pid[q] = 0 /\ parent[q] = NULL
                                /\ \A r \in Process : parent[r] # q
      BY <1>1 DEF TreeInv
    <3>3. status[q] # "none" => pid[q] \in 1..last_pid
      BY DEF TreeInv
    <3> QED BY <1>1, <1>2, <3>1, <3>2, <3>3
  <2> QED BY <2>1, <2>2
<1> QED BY <1>3, <1>6, <1>7 DEF TreeInv

LEMMA WaitKept ==
  ASSUME WaitInv, UNCHANGED <<parent, waiting>>,
         \A q \in Process : status'[q] = "terminated" <=> status[q] = "terminated"
  PROVE  WaitInv'
BY DEF WaitInv, NoLostExit

\* clone() gives a parent to somebody that nobody waits for.
LEMMA WaitClone ==
  ASSUME ProcessAssumption, ProcTypeOK, TreeInv, WaitInv,
         NEW p \in Process, NEW child \in Process, syscall_clone(p, child)
  PROVE  WaitInv'
<1>1. /\ status[child] = "none" /\ parent' = [parent EXCEPT ![child] = p]
      /\ status' = [status EXCEPT ![child] = "live"] /\ waiting' = waiting
  BY DEF syscall_clone
<1>2. /\ parent \in [Process -> Process \cup {NULL}] /\ NULL \notin Process
      /\ status \in [Process -> {"none", "live", "exec", "unmapped", "exit", "terminated"}]
  BY DEF ProcTypeOK, ProcessAssumption
<1>3. parent[child] = NULL
  BY <1>1 DEF TreeInv
<1>4. \A q \in Process : waiting[q].stage # "no" => waiting[q].child # child
  BY <1>2, <1>3 DEF WaitInv
<1> QED BY <1>1, <1>2, <1>4 DEF WaitInv, NoLostExit

WaitType == [stage: {"no", "tested", "blocked", "woken"},
             child: Process \cup {NULL}, late: BOOLEAN]

\* What waitpid() makes of its caller's state.
WaitBecomes(p, w) ==
  /\ w \in WaitType /\ waiting' = [waiting EXCEPT ![p] = w]
  /\ w.stage = "no" => w = NotWaiting
  /\ w.stage # "no" => w.child \in Process /\ parent[w.child] = p
  /\ w.stage = "tested" => w.late
  /\ w.stage = "blocked" /\ status[w.child] = "terminated" => w.late
  /\ w.stage # "woken"

\* The steps of waitpid().
LEMMA WaitSteps ==
  ASSUME ProcessAssumption, ProcTypeOK, WaitInv, NEW p \in Process,
         \/ \E child \in Process : WaitBlocks(p, child) \/ WaitTests(p, child)
         \/ WaitBlocksLate(p)
         \/ WaitReturns(p)
  PROVE  WaitInv' /\ ProcTypeOK'
<1>1. waiting \in [Process -> WaitType] /\ UNCHANGED <<status, treeVars, memVars>>
  BY DEF ProcTypeOK, WaitType, WaitBlocks, WaitTests, WaitBlocksLate, WaitReturns
<1>2. PICK w : WaitBecomes(p, w)
  <2>1. ASSUME NEW child \in Process, WaitBlocks(p, child) PROVE \E w : WaitBecomes(p, w)
    <3> DEFINE w0 == [stage |-> "blocked", child |-> child, late |-> FALSE]
    <3>1. waiting' = [waiting EXCEPT ![p] = w0] /\ MustWait(p, child)
      BY <2>1 DEF WaitBlocks
    <3>2. w0 \in WaitType /\ w0.stage = "blocked" /\ w0.child = child
      BY DEF WaitType
    <3> HIDE DEF w0
    <3> QED BY <3>1, <3>2 DEF MustWait, WaitBecomes
  <2>2. ASSUME NEW child \in Process, WaitTests(p, child) PROVE \E w : WaitBecomes(p, w)
    <3> DEFINE w0 == [stage |-> "tested", child |-> child, late |-> TRUE]
    <3>1. waiting' = [waiting EXCEPT ![p] = w0] /\ MustWait(p, child)
      BY <2>2 DEF WaitTests
    <3>2. w0 \in WaitType /\ w0.stage = "tested" /\ w0.child = child /\ w0.late
      BY DEF WaitType
    <3> HIDE DEF w0
    <3> QED BY <3>1, <3>2 DEF MustWait, WaitBecomes
  <2>3. ASSUME WaitBlocksLate(p) PROVE \E w : WaitBecomes(p, w)
    <3> DEFINE v == waiting[p]
               w0 == [v EXCEPT !.stage = "blocked"]
    <3>1. v \in WaitType /\ v.stage = "tested" /\ v.late /\ v.child \in Process
          /\ parent[v.child] = p
      BY <1>1, <2>3 DEF WaitBlocksLate, WaitInv
    <3>2. waiting' = [waiting EXCEPT ![p] = w0]
      BY <2>3 DEF WaitBlocksLate
    <3> HIDE DEF v
    <3>3. w0 \in WaitType /\ w0.stage = "blocked" /\ w0.child = v.child /\ w0.late = v.late
      BY <3>1 DEF WaitType
    <3> HIDE DEF w0
    <3> QED BY <3>1, <3>2, <3>3 DEF WaitBecomes
  <2>4. ASSUME WaitReturns(p) PROVE \E w : WaitBecomes(p, w)
    <3>1. waiting[p].stage = "woken" /\ status[waiting[p].child] = "terminated"
      BY <2>4 DEF WaitReturns, WaitInv, NoLostExit
    <3>2. ~MustWait(p, waiting[p].child)
      BY <3>1 DEF MustWait
    <3>3. waiting' = [waiting EXCEPT ![p] = NotWaiting]
      BY <2>4, <3>2 DEF WaitReturns
    <3>4. NotWaiting \in WaitType /\ NotWaiting.stage = "no"
      BY DEF NotWaiting, WaitType
    <3> QED BY <3>3, <3>4 DEF WaitBecomes
  <2> QED BY <2>1, <2>2, <2>3, <2>4
<1>3. waiting' \in [Process -> WaitType]
  BY <1>1, <1>2 DEF WaitBecomes
<1>4. ProcTypeOK'
  BY <1>1, <1>3 DEF ProcTypeOK, treeVars, memVars, WaitType
<1>5. parent' = parent /\ status' = status
  BY <1>1 DEF treeVars
<1>6. ASSUME NEW q \in Process
      PROVE  /\ waiting'[q].stage = "no" => waiting'[q] = NotWaiting
             /\ waiting'[q].stage # "no" => /\ waiting'[q].child \in Process
                                            /\ parent[waiting'[q].child] = q
             /\ waiting'[q].stage = "tested" => waiting'[q].late
             /\ waiting'[q].stage = "blocked" /\ status[waiting'[q].child] = "terminated"
                  => waiting'[q].late
             /\ waiting'[q].stage = "woken" => status[waiting'[q].child] = "terminated"
  <2>1. CASE q = p
    <3>1. waiting'[q] = w
      BY <1>1, <1>2, <2>1 DEF WaitBecomes
    <3> QED BY <1>2, <2>1, <3>1 DEF WaitBecomes
  <2>2. CASE q # p
    <3>1. waiting'[q] = waiting[q]
      BY <1>1, <1>2, <2>2 DEF WaitBecomes
    <3> QED BY <3>1 DEF WaitInv, NoLostExit
  <2> QED BY <2>1, <2>2
<1> QED BY <1>4, <1>5, <1>6 DEF WaitInv, NoLostExit

\* exit() wakes the one that waits for it: only its parent can.
LEMMA WaitExit ==
  ASSUME ProcessAssumption, ProcTypeOK, WaitInv, NEW p \in Process, ExitEnd(p)
  PROVE  WaitInv' /\ ProcTypeOK'
<1>1. /\ status[p] = "exit" /\ status' = [status EXCEPT ![p] = "terminated"]
      /\ UNCHANGED <<treeVars, memVars>>
      /\ waiting \in [Process -> WaitType]
      /\ status \in [Process -> {"none", "live", "exec", "unmapped", "exit", "terminated"}]
  BY DEF ExitEnd, ProcTypeOK, WaitType
<1>2. parent' = parent
  BY <1>1 DEF treeVars
<1>3. CASE Waiters(p) = {} /\ UNCHANGED waiting
  <2>1. \A q \in Process : waiting[q].stage = "blocked" => waiting[q].child # p
    BY <1>3 DEF Waiters
  <2>2. WaitInv'
    BY <1>1, <1>2, <1>3, <2>1 DEF WaitInv, NoLostExit
  <2> QED BY <1>1, <1>3, <2>2 DEF ProcTypeOK, treeVars, memVars
<1>4. ASSUME NEW w \in Waiters(p), waiting' = [waiting EXCEPT ![w].stage = "woken"]
      PROVE  WaitInv' /\ ProcTypeOK'
  <2> DEFINE v == waiting[w]
             v2 == [v EXCEPT !.stage = "woken"]
  <2>1. /\ w \in Process /\ v \in WaitType /\ v.stage = "blocked" /\ v.child = p
        /\ parent[p] = w
    BY <1>1, <1>4 DEF Waiters, WaitInv
  <2>2. waiting' = [waiting EXCEPT ![w] = v2]
    BY <1>4
  <2> HIDE DEF v
  <2>3. v2 \in WaitType /\ v2.stage = "woken" /\ v2.child = p
    BY <2>1 DEF WaitType
  <2> HIDE DEF v2
  <2>4. waiting' \in [Process -> WaitType]
    BY <1>1, <2>2, <2>3
  <2>5. ProcTypeOK'
    BY <1>1, <2>4 DEF ProcTypeOK, treeVars, memVars, WaitType
  <2>6. ASSUME NEW q \in Process
        PROVE  /\ waiting'[q].stage = "no" => waiting'[q] = NotWaiting
               /\ waiting'[q].stage # "no" => /\ waiting'[q].child \in Process
                                              /\ parent[waiting'[q].child] = q
               /\ waiting'[q].stage = "tested" => waiting'[q].late
               /\ waiting'[q].stage = "blocked" /\ status'[waiting'[q].child] = "terminated"
                    => waiting'[q].late
               /\ waiting'[q].stage = "woken" => status'[waiting'[q].child] = "terminated"
    <3>1. CASE q = w
      <4>1. waiting'[q] = v2
        BY <1>1, <2>1, <2>2, <3>1
      <4> QED BY <1>1, <2>1, <2>3, <3>1, <4>1
    <3>2. CASE q # w
      <4>1. waiting'[q] = waiting[q]
        BY <1>1, <2>2, <3>2
      <4>2. waiting[q].stage # "no" => waiting[q].child # p /\ waiting[q].child \in Process
        BY <2>1, <3>2 DEF WaitInv
      <4>3. waiting[q].stage # "no" => status'[waiting[q].child] = status[waiting[q].child]
        BY <1>1, <4>2
      <4> QED BY <4>1, <4>3 DEF WaitInv, NoLostExit
    <3> QED BY <3>1, <3>2
  <2> QED BY <1>2, <2>5, <2>6 DEF WaitInv, NoLostExit
<1> QED BY <1>3, <1>4 DEF ExitEnd

-----------------------------------------------------------------------------
(* Memory.                                                                  *)

MemTypes ==
  /\ pdir \in [Process -> Dir \cup {NULL}]
  /\ stack \in [Process -> 0..Blocks]
  /\ refs \in [Dir -> Nat]
  /\ frame \in [Dir -> 0..Blocks]
  /\ user \in [Dir -> SUBSET Block]
  /\ kernel \in [Dir -> SUBSET Block]
  /\ free \subseteq Block

StatusType == [Process -> {"none", "live", "exec", "unmapped", "exit", "terminated"}]

LEMMA MemKept ==
  ASSUME MemInv, UNCHANGED memVars,
         \A q \in Process : /\ status'[q] = "none" <=> status[q] = "none"
                            /\ status'[q] = "live" <=> status[q] = "live"
                            /\ status'[q] = "unmapped" <=> status[q] = "unmapped"
  PROVE  MemInv'
<1>1. Alive' = Alive
  BY DEF Alive
<1>2. \A d \in Dir : Users(d)' = Users(d) /\ Holders(d)' = Holders(d)
  BY <1>1 DEF Users, Holders, memVars
<1>3. UsersKeepMemory'
  BY <1>2 DEF MemInv, UsersKeepMemory, MemoryStays, StacksMapped, memVars
<1>4. OwnedOnce'
  BY DEF MemInv, OwnedOnce, memVars
<1>5. DirsFresh' /\ StacksPlaced'
  BY DEF MemInv, DirsFresh, StacksPlaced, memVars
<1> QED BY <1>3, <1>4, <1>5 DEF MemInv

\* The holders of a directory are finitely many, and it counts them; its users
\* are among them.
LEMMA HoldersFacts ==
  ASSUME ProcessAssumption, MemInv, NEW d \in Dir
  PROVE  /\ IsFiniteSet(Holders(d)) /\ Cardinality(Holders(d)) \in Nat
         /\ Holders(d) # {} => /\ Cardinality(Holders(d)) # 0
                              /\ refs[d] = Cardinality(Holders(d))
         /\ refs[d] = 0 => Holders(d) = {}
         /\ Users(d) \subseteq Holders(d)
<1>1. PICK H : H = Holders(d)
  OBVIOUS
<1>2. H \in SUBSET Process
  BY <1>1 DEF Holders
<1>3. IsFiniteSet(H)
  BY <1>2, FS_Subset DEF ProcessAssumption
<1>4. Cardinality(H) \in Nat /\ (H # {} => Cardinality(H) # 0)
  BY <1>3, FS_CardinalityType, FS_EmptySet
<1>5. H # {} => refs[d] = Cardinality(H)
  BY <1>1 DEF MemInv, UsersKeepMemory, MemoryStays
<1>6. Users(d) \subseteq Holders(d)
  BY DEF Users, Alive, Holders
<1> QED BY <1>1, <1>3, <1>4, <1>5, <1>6

\* exit() up to the message after process_unmap_kstack(): the process holds its
\* directory, but its stack is no longer mapped there.
LEMMA ExitUnmapStep ==
  ASSUME ProcessAssumption, MemTypes, status \in StatusType, MemInv,
         NEW p \in Process, ExitUnmap(p)
  PROVE  MemInv' /\ MemTypes'
<1>1. PICK d : d = pdir[p]
  OBVIOUS
<1>2. /\ status[p] = "live" /\ d \in Dir /\ status' = [status EXCEPT ![p] = "unmapped"]
      /\ kernel' = [kernel EXCEPT ![d] = kernel[d] \ {stack[p]}]
      /\ UNCHANGED <<pdir, stack, refs, frame, user, free>>
  BY <1>1 DEF ExitUnmap, StacksWithout, Running, MemInv, StacksPlaced, MemTypes
<1>3. PICK U : U = Users(d)
  OBVIOUS
<1>4. kernel[d] = {stack[q] : q \in U} /\ p \in U /\ U \in SUBSET Process
  BY <1>1, <1>2, <1>3 DEF MemInv, UsersKeepMemory, StacksMapped, Users, Alive
<1>5. Users(d)' = U \ {p}
  BY <1>1, <1>2, <1>3 DEF Users, Alive, StatusType
<1>6. \A e \in Dir \ {d} : Users(e)' = Users(e)
  BY <1>1, <1>2 DEF Users, Alive, StatusType
<1>7. \A e \in Dir : Holders(e)' = Holders(e)
  BY <1>2 DEF Holders, StatusType
<1>8. \A q \in U \ {p} : stack[q] # stack[p]
  BY <1>2, <1>3, <1>4 DEF Users, Alive, MemInv, OwnedOnce, StacksPlaced
<1>9. kernel[d] \ {stack[p]} = {stack[q] : q \in U \ {p}}
  BY <1>4, <1>8
<1>10. MemTypes'
  BY <1>2 DEF MemTypes
<1>11. MemoryStays'
  BY <1>2, <1>7 DEF MemInv, UsersKeepMemory, MemoryStays
<1>12. StacksMapped'
  <2> SUFFICES ASSUME NEW e \in Dir PROVE kernel'[e] = {stack[q] : q \in Users(e)'}
    BY <1>2 DEF StacksMapped
  <2>1. CASE e = d
    BY <1>2, <1>5, <1>9, <2>1 DEF MemTypes
  <2>2. CASE e # d
    BY <1>2, <1>6, <2>2 DEF MemInv, UsersKeepMemory, StacksMapped, MemTypes
  <2> QED BY <2>1, <2>2
<1>13. OwnedOnce' /\ DirsFresh'
  BY <1>2 DEF MemInv, OwnedOnce, DirsFresh
<1>14. StacksPlaced'
  BY <1>2 DEF MemInv, StacksPlaced, StatusType
<1> QED BY <1>10, <1>11, <1>12, <1>13, <1>14 DEF MemInv, UsersKeepMemory

\* execve() and exit() when they give up the directory: the stacks that are still
\* mapped there are those of its other users.
LEMMA LeaveStep ==
  ASSUME ProcessAssumption, MemTypes, status \in StatusType, MemInv,
         NEW p \in Process, status[p] \in {"live", "unmapped"},
         NEW stacks, stacks = {stack[q] : q \in Users(pdir[p]) \ {p}},
         process_page_directory_free(pdir[p], stacks),
         NEW s \in {"exec", "exit"}, status' = [status EXCEPT ![p] = s],
         UNCHANGED <<pdir, stack, frame>>
  PROVE  MemInv' /\ MemTypes'
<1>1. PICK d : d = pdir[p]
  OBVIOUS
<1>2. d \in Dir
  BY <1>1 DEF MemInv, StacksPlaced, MemTypes
<1>3. PICK U : U = Holders(d)
  OBVIOUS
<1>4. p \in U /\ U \in SUBSET Process /\ Users(d) \subseteq U
  BY <1>1, <1>2, <1>3, HoldersFacts DEF Holders
<1>5. /\ IsFiniteSet(U) /\ Cardinality(U) \in Nat /\ Cardinality(U) # 0
      /\ refs[d] = Cardinality(U)
  BY <1>2, <1>3, <1>4, HoldersFacts
<1>6. user[d] # {} /\ kernel[d] = {stack[q] : q \in Users(d)}
  BY <1>2, <1>3, <1>4 DEF MemInv, UsersKeepMemory, MemoryStays, StacksMapped
<1>7. Holders(d)' = U \ {p} /\ Users(d)' = Users(d) \ {p}
  BY <1>1, <1>3 DEF Users, Alive, Holders, StatusType
<1>8. \A e \in Dir \ {d} : Users(e)' = Users(e) /\ Holders(e)' = Holders(e)
  BY <1>1 DEF Users, Alive, Holders, StatusType
<1>9. stacks \subseteq kernel[d]
  BY <1>1, <1>6
<1>11. stacks = {stack[q] : q \in Users(d) \ {p}}
  BY <1>1
<1>12. StacksPlaced'
  BY DEF MemInv, StacksPlaced, StatusType
<1>13. ASSUME refs[d] # 1, refs' = [refs EXCEPT ![d] = refs[d] - 1],
              kernel' = [kernel EXCEPT ![d] = stacks], UNCHANGED <<user, free>>
       PROVE  MemInv' /\ MemTypes'
  <2>1. Cardinality(U \ {p}) = refs[d] - 1
    <3>1. IsFiniteSet(U) /\ p \in U
      BY <1>4, <1>5
    <3>2. Cardinality(U \ {p}) = Cardinality(U) - 1
      BY <3>1, FS_RemoveElement
    <3> QED BY <1>5, <3>2
  <2>2. refs[d] - 1 \in Nat /\ refs[d] - 1 # 0
    BY <1>5, <1>13
  <2>3. MemTypes'
    BY <1>2, <1>9, <1>13, <2>2 DEF MemTypes
  <2>4. MemoryStays'
    <3> SUFFICES ASSUME NEW e \in Dir, Holders(e)' # {}
                 PROVE  refs'[e] = Cardinality(Holders(e)') /\ user'[e] # {}
      BY DEF MemoryStays
    <3>1. CASE e = d
      BY <1>6, <1>7, <1>13, <2>1, <3>1 DEF MemTypes
    <3>2. CASE e # d
      BY <1>8, <1>13, <3>2 DEF MemInv, UsersKeepMemory, MemoryStays, MemTypes
    <3> QED BY <3>1, <3>2
  <2>5. StacksMapped'
    <3> SUFFICES ASSUME NEW e \in Dir PROVE kernel'[e] = {stack[q] : q \in Users(e)'}
      BY DEF StacksMapped
    <3>1. CASE e = d
      BY <1>7, <1>11, <1>13, <3>1 DEF MemTypes
    <3>2. CASE e # d
      BY <1>8, <1>13, <3>2 DEF MemInv, UsersKeepMemory, StacksMapped, MemTypes
    <3> QED BY <3>1, <3>2
  <2>6. OwnedOnce'
    BY <1>13 DEF MemInv, OwnedOnce
  <2>7. DirsFresh'
    BY <1>13, <2>2 DEF MemInv, DirsFresh, MemTypes
  <2> QED BY <1>12, <2>3, <2>4, <2>5, <2>6, <2>7 DEF MemInv, UsersKeepMemory
<1>14. ASSUME refs[d] = 1, free' = free \cup user[d] \cup stacks,
              user' = [user EXCEPT ![d] = {}], kernel' = [kernel EXCEPT ![d] = {}],
              UNCHANGED refs
       PROVE  MemInv' /\ MemTypes'
  <2>1. U \ {p} = {}
    <3>1. \E x : U = {x}
      BY <1>5, <1>14, FS_Singleton
    <3> QED BY <1>4, <3>1
  <2>2. Users(d) \ {p} = {} /\ stacks = {} /\ free' = free \cup user[d]
    BY <1>4, <1>11, <1>14, <2>1
  <2>3. MemTypes'
    BY <1>2, <1>14, <2>2 DEF MemTypes
  <2>4. MemoryStays'
    BY <1>7, <1>8, <1>14, <2>1 DEF MemInv, UsersKeepMemory, MemoryStays, MemTypes
  <2>5. StacksMapped'
    <3> SUFFICES ASSUME NEW e \in Dir PROVE kernel'[e] = {stack[q] : q \in Users(e)'}
      BY DEF StacksMapped
    <3>1. CASE e = d
      BY <1>7, <1>14, <2>2, <3>1 DEF MemTypes
    <3>2. CASE e # d
      BY <1>8, <1>14, <3>2 DEF MemInv, UsersKeepMemory, StacksMapped, MemTypes
    <3> QED BY <3>1, <3>2
  <2>6. OwnedOnce'
    <3>1. user'[d] = {} /\ \A e \in Dir \ {d} : user'[e] = user[e]
      BY <1>2, <1>14 DEF MemTypes
    <3>2. \A q \in Process : stack[q] \notin free'
      BY <1>2, <2>2 DEF MemInv, OwnedOnce, MemTypes, Block
    <3>3. \A e \in Dir : frame[e] \notin free' /\ user'[e] \cap free' = {}
      BY <1>2, <2>2, <3>1 DEF MemInv, OwnedOnce, MemTypes, Block
    <3>4. \A e, f \in Dir : /\ frame[e] # 0 /\ frame[e] = frame[f] => e = f
                            /\ e # f => user'[e] \cap user'[f] = {}
                            /\ frame[e] # 0 => frame[e] \notin user'[f]
      BY <3>1 DEF MemInv, OwnedOnce
    <3>5. \A q \in Process, e \in Dir :
            stack[q] # 0 => stack[q] # frame[e] /\ stack[q] \notin user'[e]
      BY <3>1 DEF MemInv, OwnedOnce
    <3>6. \A b \in Block \ free' : \/ \E q \in Process : stack[q] = b
                                   \/ \E e \in Dir : frame[e] = b \/ b \in user'[e]
      BY <2>2, <3>1 DEF MemInv, OwnedOnce
    <3>7. \A q, r \in Process : stack[q] # 0 /\ stack[q] = stack[r] => q = r
      BY DEF MemInv, OwnedOnce
    <3> QED BY <3>2, <3>3, <3>4, <3>5, <3>6, <3>7 DEF OwnedOnce
  <2>7. DirsFresh'
    BY <1>14 DEF MemInv, DirsFresh, MemTypes
  <2> QED BY <1>12, <2>3, <2>4, <2>5, <2>6, <2>7 DEF MemInv, UsersKeepMemory
<1> QED BY <1>1, <1>13, <1>14 DEF process_page_directory_free

\* A new directory d with frame f and program im for q, whose stack is st: the
\* one it has, in execve(), or a new one, in clone().
LEMMA NewDirStep ==
  ASSUME ProcessAssumption, MemTypes, status \in StatusType, MemInv,
         NEW q \in Process, status[q] \notin {"live", "unmapped"},
         status' = [status EXCEPT ![q] = "live"],
         NEW d \in Dir, refs[d] = 0, refs' = [refs EXCEPT ![d] = 1],
         NEW f \in free, NEW im \in SUBSET (free \ {f}), im # {},
         NEW st \in Block,
         \/ st = stack[q]
         \/ stack[q] = 0 /\ st \in free \ ({f} \cup im),
         frame' = [frame EXCEPT ![d] = f], user' = [user EXCEPT ![d] = im],
         kernel' = [kernel EXCEPT ![d] = {st}], pdir' = [pdir EXCEPT ![q] = d],
         stack' = [stack EXCEPT ![q] = st],
         free' = free \ ({f} \cup im \cup {st})
  PROVE  MemInv' /\ MemTypes'
<1>1. /\ Blocks \in Nat /\ free \subseteq Block /\ Block = 1..Blocks
      /\ NULL \notin Dir
  BY DEF ProcessAssumption, MemTypes, Block
<1>2. /\ f # 0 /\ st # 0 /\ f \in Block /\ im \subseteq Block
  BY <1>1
<1>3. frame[d] = 0 /\ user[d] = {}
  BY DEF MemInv, DirsFresh
<1>4. /\ frame'[d] = f /\ user'[d] = im /\ kernel'[d] = {st} /\ refs'[d] = 1
      /\ pdir'[q] = d /\ stack'[q] = st /\ status'[q] = "live"
      /\ \A e \in Dir \ {d} : /\ frame'[e] = frame[e] /\ user'[e] = user[e]
                              /\ kernel'[e] = kernel[e] /\ refs'[e] = refs[e]
      /\ \A r \in Process \ {q} : /\ pdir'[r] = pdir[r] /\ stack'[r] = stack[r]
                                  /\ status'[r] = status[r]
  BY DEF MemTypes, StatusType
<1>5. MemTypes'
  BY <1>1, <1>2 DEF MemTypes
<1>6. Users(d) = {} /\ Holders(d) = {}
  BY HoldersFacts
<1>7. Users(d)' = {q} /\ Holders(d)' = {q}
  BY <1>4, <1>6 DEF Users, Alive, Holders
<1>8. \A e \in Dir \ {d} : Users(e)' = Users(e) /\ Holders(e)' = Holders(e)
  BY <1>4 DEF Users, Alive, Holders
<1>9. \A e \in Dir : \A r \in Users(e) : r \in Process \ {q}
  BY DEF Users, Alive
<1>10. MemoryStays'
  <2> SUFFICES ASSUME NEW e \in Dir, Holders(e)' # {}
               PROVE  refs'[e] = Cardinality(Holders(e)') /\ user'[e] # {}
    BY DEF MemoryStays
  <2>1. CASE e = d
    <3>1. Cardinality({q}) = 1
      BY FS_Singleton
    <3> QED BY <1>4, <1>7, <2>1, <3>1
  <2>2. CASE e # d
    BY <1>4, <1>8, <2>2 DEF MemInv, UsersKeepMemory, MemoryStays
  <2> QED BY <2>1, <2>2
<1>11. StacksMapped'
  <2> SUFFICES ASSUME NEW e \in Dir PROVE kernel'[e] = {stack'[r] : r \in Users(e)'}
    BY DEF StacksMapped
  <2>1. CASE e = d
    BY <1>4, <1>7, <2>1
  <2>2. CASE e # d
    <3>1. kernel[e] = {stack[r] : r \in Users(e)}
      BY DEF MemInv, UsersKeepMemory, StacksMapped
    <3>2. \A r \in Users(e) : stack'[r] = stack[r]
      BY <1>4, <1>9
    <3> QED BY <1>4, <1>8, <2>2, <3>1, <3>2
  <2> QED BY <2>1, <2>2
<1>12. OwnedOnce'
  <2>1. \A r \in Process : stack'[r] \notin free'
    BY <1>4 DEF MemInv, OwnedOnce
  <2>2. \A e \in Dir : frame'[e] \notin free' /\ user'[e] \cap free' = {}
    BY <1>4 DEF MemInv, OwnedOnce
  <2>3. /\ \A r \in Process \ {q} : stack'[r] # st /\ stack'[r] # f /\ stack'[r] \notin im
        /\ \A e \in Dir \ {d} : /\ frame'[e] # st /\ frame'[e] # f /\ frame'[e] \notin im
                                /\ st \notin user'[e] /\ f \notin user'[e]
                                /\ user'[e] \cap im = {}
        /\ st # f /\ st \notin im /\ f \notin im
    BY <1>2, <1>4 DEF MemInv, OwnedOnce
  <2>4. \A r, t \in Process : stack'[r] # 0 /\ stack'[r] = stack'[t] => r = t
    BY <1>4, <2>3 DEF MemInv, OwnedOnce
  <2>5. \A e, g \in Dir : /\ frame'[e] # 0 /\ frame'[e] = frame'[g] => e = g
                          /\ e # g => user'[e] \cap user'[g] = {}
                          /\ frame'[e] # 0 => frame'[e] \notin user'[g]
    <3> TAKE e, g \in Dir
    <3>1. CASE e = d
      BY <1>4, <2>3, <3>1
    <3>2. CASE e # d /\ g = d
      BY <1>4, <2>3, <3>2
    <3>3. CASE e # d /\ g # d
      BY <1>4, <3>3 DEF MemInv, OwnedOnce
    <3> QED BY <3>1, <3>2, <3>3
  <2>6. \A r \in Process, e \in Dir :
          stack'[r] # 0 => stack'[r] # frame'[e] /\ stack'[r] \notin user'[e]
    <3> TAKE r \in Process, e \in Dir
    <3>1. CASE r = q
      BY <1>4, <2>3, <3>1
    <3>2. CASE r # q /\ e = d
      BY <1>4, <2>3, <3>2
    <3>3. CASE r # q /\ e # d
      BY <1>4, <3>3 DEF MemInv, OwnedOnce
    <3> QED BY <3>1, <3>2, <3>3
  <2>7. \A b \in Block \ free' : \/ \E r \in Process : stack'[r] = b
                                 \/ \E e \in Dir : frame'[e] = b \/ b \in user'[e]
    <3> SUFFICES ASSUME NEW b \in Block, b \notin free'
                 PROVE  \/ \E r \in Process : stack'[r] = b
                        \/ \E e \in Dir : frame'[e] = b \/ b \in user'[e]
      OBVIOUS
    <3>1. CASE b \in {f} \cup im \cup {st}
      BY <1>4, <3>1
    <3>2. CASE b \notin free /\ b # st
      <4>1. \/ \E r \in Process : stack[r] = b
            \/ \E e \in Dir : frame[e] = b \/ b \in user[e]
        BY <3>2 DEF MemInv, OwnedOnce
      <4>2. CASE \E r \in Process : stack[r] = b
        <5>1. PICK r \in Process : stack[r] = b
          BY <4>2
        <5>2. r # q
          BY <1>1, <3>2, <5>1
        <5> QED BY <1>4, <5>1, <5>2
      <4>3. CASE \E e \in Dir : frame[e] = b \/ b \in user[e]
        <5>1. PICK e \in Dir : frame[e] = b \/ b \in user[e]
          BY <4>3
        <5>2. e # d
          BY <1>1, <1>3, <5>1
        <5> QED BY <1>4, <5>1, <5>2
      <4> QED BY <4>1, <4>2, <4>3
    <3> QED BY <3>1, <3>2
  <2> QED BY <2>1, <2>2, <2>4, <2>5, <2>6, <2>7 DEF OwnedOnce
<1>13. DirsFresh'
  BY <1>4 DEF MemInv, DirsFresh
<1>14. StacksPlaced'
  BY <1>1, <1>2, <1>4 DEF MemInv, StacksPlaced
<1> QED BY <1>5, <1>10, <1>11, <1>12, <1>13, <1>14 DEF MemInv, UsersKeepMemory

\* clone() with CLONE_VM: another user of the parent's directory.
LEMMA CloneVmStep ==
  ASSUME ProcessAssumption, MemTypes, status \in StatusType, MemInv,
         NEW p \in Process, status[p] = "live",
         NEW q \in Process, status[q] = "none", status' = [status EXCEPT ![q] = "live"],
         CloneVm(p, q)
  PROVE  MemInv' /\ MemTypes'
<1>1. /\ Blocks \in Nat /\ free \subseteq Block /\ Block = 1..Blocks /\ NULL \notin Dir
      /\ free # {}
  BY DEF ProcessAssumption, MemTypes, Block, CloneVm
<1>2. PICK st \in free : Lowest(free, 1) = {st} /\ Min(Lowest(free, 1)) = st
  BY <1>1, LowestOne
<1>3. PICK d : d = pdir[p]
  OBVIOUS
<1>4. /\ pdir' = [pdir EXCEPT ![q] = d] /\ refs' = [refs EXCEPT ![d] = refs[d] + 1]
      /\ stack' = [stack EXCEPT ![q] = st]
      /\ kernel' = [kernel EXCEPT ![d] = kernel[d] \cup {st}]
      /\ free' = free \ {st} /\ frame' = frame /\ user' = user
  BY <1>2, <1>3 DEF CloneVm
<1>5. d \in Dir /\ stack[q] = 0 /\ st # 0 /\ st \in Block
  BY <1>1, <1>3 DEF MemInv, StacksPlaced, MemTypes
<1>6. /\ kernel'[d] = kernel[d] \cup {st} /\ refs'[d] = refs[d] + 1 /\ stack'[q] = st
      /\ pdir'[q] = d /\ status'[q] = "live"
      /\ \A e \in Dir \ {d} : kernel'[e] = kernel[e] /\ refs'[e] = refs[e]
      /\ \A r \in Process \ {q} : /\ pdir'[r] = pdir[r] /\ stack'[r] = stack[r]
                                  /\ status'[r] = status[r]
  BY <1>4, <1>5 DEF MemTypes, StatusType
<1>7. MemTypes'
  BY <1>1, <1>4, <1>5 DEF MemTypes
<1>8. PICK U, H : U = Users(d) /\ H = Holders(d)
  OBVIOUS
<1>9. p \in H /\ q \notin H /\ q \notin U
  BY <1>3, <1>8 DEF Users, Alive, Holders
<1>10. /\ IsFiniteSet(H) /\ refs[d] = Cardinality(H) /\ user[d] # {} /\ refs[d] \in Nat
       /\ kernel[d] = {stack[r] : r \in U}
  BY <1>5, <1>8, <1>9, HoldersFacts DEF MemInv, UsersKeepMemory, MemoryStays, StacksMapped
<1>11. Users(d)' = U \cup {q} /\ Holders(d)' = H \cup {q}
  BY <1>6, <1>8 DEF Users, Alive, Holders
<1>12. \A e \in Dir \ {d} : Users(e)' = Users(e) /\ Holders(e)' = Holders(e)
  BY <1>6 DEF Users, Alive, Holders
<1>13. MemoryStays'
  <2> SUFFICES ASSUME NEW e \in Dir, Holders(e)' # {}
               PROVE  refs'[e] = Cardinality(Holders(e)') /\ user'[e] # {}
    BY DEF MemoryStays
  <2>1. CASE e = d
    <3>1. Cardinality(H \cup {q}) = Cardinality(H) + 1
      BY <1>9, <1>10, FS_AddElement
    <3> QED BY <1>4, <1>6, <1>10, <1>11, <2>1, <3>1
  <2>2. CASE e # d
    BY <1>4, <1>6, <1>12, <2>2 DEF MemInv, UsersKeepMemory, MemoryStays
  <2> QED BY <2>1, <2>2
<1>14. StacksMapped'
  <2> SUFFICES ASSUME NEW e \in Dir PROVE kernel'[e] = {stack'[r] : r \in Users(e)'}
    BY DEF StacksMapped
  <2>1. \A r \in Users(e) : stack'[r] = stack[r]
    BY <1>6 DEF Users, Alive
  <2>2. CASE e = d
    BY <1>6, <1>8, <1>10, <1>11, <2>1, <2>2
  <2>3. CASE e # d
    <3>1. kernel[e] = {stack[r] : r \in Users(e)}
      BY DEF MemInv, UsersKeepMemory, StacksMapped
    <3> QED BY <1>6, <1>12, <2>1, <2>3, <3>1
  <2> QED BY <2>2, <2>3
<1>15. OwnedOnce'
  <2>1. /\ \A r \in Process \ {q} : stack'[r] # st
        /\ \A e \in Dir : frame[e] # st /\ st \notin user[e]
    BY <1>5, <1>6 DEF MemInv, OwnedOnce
  <2>2. \A r \in Process : stack'[r] \notin free'
    BY <1>4, <1>6 DEF MemInv, OwnedOnce
  <2>3. \A e \in Dir : frame'[e] \notin free' /\ user'[e] \cap free' = {}
    BY <1>4 DEF MemInv, OwnedOnce
  <2>4. \A r, t \in Process : stack'[r] # 0 /\ stack'[r] = stack'[t] => r = t
    BY <1>6, <2>1 DEF MemInv, OwnedOnce
  <2>5. \A e, g \in Dir : /\ frame'[e] # 0 /\ frame'[e] = frame'[g] => e = g
                          /\ e # g => user'[e] \cap user'[g] = {}
                          /\ frame'[e] # 0 => frame'[e] \notin user'[g]
    BY <1>4 DEF MemInv, OwnedOnce
  <2>6. \A r \in Process, e \in Dir :
          stack'[r] # 0 => stack'[r] # frame'[e] /\ stack'[r] \notin user'[e]
    BY <1>4, <1>6, <2>1 DEF MemInv, OwnedOnce
  <2>7. \A b \in Block \ free' : \/ \E r \in Process : stack'[r] = b
                                 \/ \E e \in Dir : frame'[e] = b \/ b \in user'[e]
    <3> SUFFICES ASSUME NEW b \in Block, b \notin free'
                 PROVE  \/ \E r \in Process : stack'[r] = b
                        \/ \E e \in Dir : frame'[e] = b \/ b \in user'[e]
      OBVIOUS
    <3>1. CASE b = st
      BY <1>6, <3>1
    <3>2. CASE b # st
      <4>1. \/ \E r \in Process : stack[r] = b
            \/ \E e \in Dir : frame[e] = b \/ b \in user[e]
        BY <1>4, <3>2 DEF MemInv, OwnedOnce
      <4>2. \A r \in Process : stack[r] = b => r # q
        BY <1>1, <1>5
      <4> QED BY <1>4, <1>6, <4>1, <4>2
    <3> QED BY <3>1, <3>2
  <2> QED BY <2>2, <2>3, <2>4, <2>5, <2>6, <2>7 DEF OwnedOnce
<1>16. DirsFresh'
  BY <1>4, <1>5, <1>6, <1>10 DEF MemInv, DirsFresh
<1>17. StacksPlaced'
  BY <1>1, <1>5, <1>6 DEF MemInv, StacksPlaced
<1> QED BY <1>7, <1>13, <1>14, <1>15, <1>16, <1>17 DEF MemInv, UsersKeepMemory

\* mmap(): one block more for the directory of p.
LEMMA MmapStep ==
  ASSUME ProcessAssumption, MemTypes, MemInv, NEW p \in Process, syscall_mmap_anon(p)
  PROVE  MemInv' /\ MemTypes'
<1>1. /\ Blocks \in Nat /\ free \subseteq Block /\ Block = 1..Blocks /\ NULL \notin Dir
      /\ free # {} /\ status[p] = "live"
  BY DEF ProcessAssumption, MemTypes, Block, syscall_mmap_anon, Running
<1>2. PICK b \in free : Lowest(free, 1) = {b}
  BY <1>1, LowestOne
<1>3. PICK d : d = pdir[p]
  OBVIOUS
<1>4. /\ user' = [user EXCEPT ![d] = user[d] \cup {b}] /\ free' = free \ {b}
      /\ UNCHANGED <<status, pdir, stack, refs, frame, kernel>>
  BY <1>2, <1>3 DEF syscall_mmap_anon
<1>5. d \in Dir /\ b # 0 /\ b \in Block
  BY <1>1, <1>3 DEF MemInv, StacksPlaced, MemTypes
<1>6. /\ user'[d] = user[d] \cup {b}
      /\ \A e \in Dir \ {d} : user'[e] = user[e]
  BY <1>4, <1>5 DEF MemTypes
<1>7. MemTypes'
  BY <1>1, <1>4, <1>5 DEF MemTypes
<1>8. \A e \in Dir : Users(e)' = Users(e) /\ Holders(e)' = Holders(e)
  BY <1>4 DEF Users, Alive, Holders
<1>9. MemoryStays' /\ StacksMapped'
  BY <1>4, <1>6, <1>8 DEF MemInv, UsersKeepMemory, MemoryStays, StacksMapped
<1>10. OwnedOnce'
  <2>1. /\ \A r \in Process : stack[r] # b
        /\ \A e \in Dir : frame[e] # b /\ b \notin user[e]
    BY <1>5 DEF MemInv, OwnedOnce
  <2>2. /\ \A r \in Process : stack[r] \notin free'
        /\ \A e \in Dir : frame[e] \notin free' /\ user'[e] \cap free' = {}
    BY <1>4, <1>6 DEF MemInv, OwnedOnce
  <2>3. \A e, g \in Dir : /\ frame[e] # 0 /\ frame[e] = frame[g] => e = g
                          /\ e # g => user'[e] \cap user'[g] = {}
                          /\ frame[e] # 0 => frame[e] \notin user'[g]
    BY <1>6, <2>1 DEF MemInv, OwnedOnce
  <2>4. \A r \in Process, e \in Dir :
          stack[r] # 0 => stack[r] # frame[e] /\ stack[r] \notin user'[e]
    BY <1>6, <2>1 DEF MemInv, OwnedOnce
  <2>5. \A c \in Block \ free' : \/ \E r \in Process : stack[r] = c
                                 \/ \E e \in Dir : frame[e] = c \/ c \in user'[e]
    BY <1>4, <1>5, <1>6 DEF MemInv, OwnedOnce
  <2>6. \A r, t \in Process : stack[r] # 0 /\ stack[r] = stack[t] => r = t
    BY DEF MemInv, OwnedOnce
  <2> QED BY <1>4, <2>2, <2>3, <2>4, <2>5, <2>6 DEF OwnedOnce
<1>11. DirsFresh'
  <2>1. refs[d] # 0
    <3>1. p \in Holders(d)
      BY <1>1, <1>3 DEF Holders
    <3> QED BY <1>5, <3>1, HoldersFacts
  <2> QED BY <1>4, <1>6, <2>1 DEF MemInv, DirsFresh
<1>12. StacksPlaced'
  BY <1>4 DEF MemInv, StacksPlaced
<1> QED BY <1>7, <1>9, <1>10, <1>11, <1>12 DEF MemInv, UsersKeepMemory

\* The blocks of a new directory: one for itself, n > 0 for the program.
LEMMA NewBlocks ==
  ASSUME ProcessAssumption, free \subseteq Block, NEW n \in Nat \ {0},
         Cardinality(free) >= 1 + n
  PROVE  /\ Cardinality(free) \in Nat
         /\ \E f \in free : \E im \in SUBSET (free \ {f}) :
              /\ Lowest(free, 1) = {f} /\ Min({f}) = f
              /\ im = Lowest(free \ {f}, n) /\ im # {}
              /\ Cardinality(free \ ({f} \cup im)) = Cardinality(free) - 1 - n
<1>1. Blocks \in Nat /\ IsFiniteSet(Block)
  BY FS_Interval DEF ProcessAssumption, Block
<1>2. IsFiniteSet(free)
  BY <1>1, FS_Subset
<1>3. Cardinality(free) \in Nat /\ (free = {} => Cardinality(free) = 0)
  BY <1>2, FS_CardinalityType, FS_EmptySet
<1>4. free # {}
  BY <1>3
<1>5. PICK f \in free : /\ Lowest(free, 1) = {f} /\ Min(Lowest(free, 1)) = f
                        /\ Cardinality(free \ {f}) = Cardinality(free) - 1
  BY <1>1, <1>4, LowestOne
<1>6. PICK rest : rest = free \ {f}
  OBVIOUS
<1>7. rest \in SUBSET Block /\ n <= Cardinality(rest)
  BY <1>3, <1>5, <1>6
<1>8. PICK im : im = Lowest(rest, n)
  OBVIOUS
<1>9. /\ IsFiniteSet(im) /\ im \in SUBSET rest /\ Cardinality(im) = n
      /\ Cardinality(rest \ im) = Cardinality(rest) - n
  BY <1>1, <1>7, <1>8, LowestFacts
<1>10. im # {}
  BY <1>9, FS_EmptySet
<1>11. free \ ({f} \cup im) = rest \ im
  BY <1>6
<1> QED BY <1>3, <1>5, <1>6, <1>8, <1>9, <1>10, <1>11

LEMMA ExecveBuildStep ==
  ASSUME ProcessAssumption, MemTypes, status \in StatusType, MemInv,
         NEW p \in Process, ExecveBuild(p)
  PROVE  MemInv' /\ MemTypes'
<1>1. /\ status[p] = "exec" /\ status' = [status EXCEPT ![p] = "live"]
      /\ Cardinality(free) >= 1 + ImageSize /\ stack' = stack
      /\ ImageSize \in Nat \ {0} /\ free \subseteq Block
  BY DEF ExecveBuild, ProcessAssumption, MemTypes
<1>0. PICK f \in free : \E im \in SUBSET (free \ {f}) :
        /\ Lowest(free, 1) = {f} /\ Min({f}) = f
        /\ im = Lowest(free \ {f}, ImageSize) /\ im # {}
  BY <1>1, NewBlocks
<1>2. PICK im \in SUBSET (free \ {f}) :
        /\ Lowest(free, 1) = {f} /\ Min({f}) = f
        /\ im = Lowest(free \ {f}, ImageSize) /\ im # {}
  BY <1>0
<1>3. PICK d \in Dir :
        /\ refs[d] = 0 /\ refs' = [refs EXCEPT ![d] = 1]
        /\ frame' = [frame EXCEPT ![d] = Min(Lowest(free, 1))]
        /\ user' = [user EXCEPT ![d] = Lowest(free \ Lowest(free, 1), ImageSize)]
        /\ kernel' = [kernel EXCEPT ![d] = {stack[p]}]
        /\ free' = free \ (Lowest(free, 1) \cup Lowest(free \ Lowest(free, 1), ImageSize))
        /\ pdir' = [pdir EXCEPT ![p] = d]
  BY DEF ExecveBuild
<1>4. PICK st : st = stack[p]
  OBVIOUS
<1>5. st \in Block /\ st \notin free
  BY <1>1, <1>4 DEF MemInv, StacksPlaced, OwnedOnce, MemTypes, Block, ProcessAssumption
<1>6. /\ frame' = [frame EXCEPT ![d] = f] /\ user' = [user EXCEPT ![d] = im]
      /\ kernel' = [kernel EXCEPT ![d] = {st}] /\ stack' = [stack EXCEPT ![p] = st]
      /\ free' = free \ ({f} \cup im \cup {st})
  <2>1. /\ frame' = [frame EXCEPT ![d] = f] /\ user' = [user EXCEPT ![d] = im]
        /\ kernel' = [kernel EXCEPT ![d] = {st}] /\ free' = free \ ({f} \cup im)
    BY <1>2, <1>3, <1>4
  <2>2. stack' = [stack EXCEPT ![p] = st]
    BY <1>1, <1>4 DEF MemTypes
  <2>3. free \ ({f} \cup im) = free \ ({f} \cup im \cup {st})
    BY <1>5
  <2> QED BY <2>1, <2>2, <2>3
<1>7. /\ status[p] \notin {"live", "unmapped"} /\ status' = [status EXCEPT ![p] = "live"]
      /\ im # {} /\ st \in Block /\ st = stack[p]
  BY <1>1, <1>2, <1>4, <1>5
<1>8. /\ refs[d] = 0 /\ refs' = [refs EXCEPT ![d] = 1]
      /\ pdir' = [pdir EXCEPT ![p] = d]
  BY <1>3
<1> QED BY <1>6, <1>7, <1>8, NewDirStep

LEMMA CloneCopyStep ==
  ASSUME ProcessAssumption, MemTypes, status \in StatusType, MemInv,
         NEW p \in Process, status[p] = "live",
         NEW q \in Process, status[q] = "none", status' = [status EXCEPT ![q] = "live"],
         CloneCopy(p, q)
  PROVE  MemInv' /\ MemTypes'
<1>1. PICK n : n = Cardinality(user[pdir[p]])
  OBVIOUS
<1>2. n \in Nat \ {0}
  <2>1. pdir[p] \in Dir
    BY DEF MemInv, StacksPlaced, MemTypes
  <2>2. p \in Holders(pdir[p])
    BY DEF Holders
  <2>3. PICK U : U = user[pdir[p]]
    OBVIOUS
  <2>4. U # {} /\ U \in SUBSET Block
    BY <2>1, <2>2, <2>3 DEF MemInv, UsersKeepMemory, MemoryStays, MemTypes
  <2>5. IsFiniteSet(Block)
    BY FS_Interval DEF ProcessAssumption, Block
  <2>6. IsFiniteSet(U)
    BY <2>4, <2>5, FS_Subset
  <2>7. Cardinality(U) \in Nat /\ Cardinality(U) # 0
    BY <2>4, <2>6, FS_CardinalityType, FS_EmptySet
  <2> QED BY <1>1, <2>3, <2>7
<1>3. /\ Cardinality(free) >= n + 2 /\ free \subseteq Block /\ Blocks \in Nat
  BY <1>1 DEF CloneCopy, MemTypes, ProcessAssumption
<1>4. Cardinality(free) \in Nat
  <2>1. IsFiniteSet(Block)
    BY <1>3, FS_Interval DEF Block
  <2>2. IsFiniteSet(free)
    BY <1>3, <2>1, FS_Subset
  <2> QED BY <2>2, FS_CardinalityType
<1>5. Cardinality(free) >= 1 + n
  BY <1>2, <1>3, <1>4
<1>0. PICK f \in free : \E im \in SUBSET (free \ {f}) :
        /\ Lowest(free, 1) = {f} /\ Min({f}) = f
        /\ im = Lowest(free \ {f}, n) /\ im # {}
        /\ Cardinality(free \ ({f} \cup im)) = Cardinality(free) - 1 - n
  BY <1>2, <1>3, <1>5, NewBlocks
<1>6. PICK im \in SUBSET (free \ {f}) :
        /\ Lowest(free, 1) = {f} /\ Min({f}) = f
        /\ im = Lowest(free \ {f}, n) /\ im # {}
        /\ Cardinality(free \ ({f} \cup im)) = Cardinality(free) - 1 - n
  BY <1>0
<1>7. PICK rest : rest = free \ ({f} \cup im)
  OBVIOUS
<1>8. rest # {}
  <2>1. Cardinality(rest) # 0
    BY <1>2, <1>3, <1>4, <1>6, <1>7
  <2> QED BY <2>1, FS_EmptySet
<1>9. rest \in SUBSET Block
  BY <1>3, <1>7
<1>10. PICK st \in rest : Lowest(rest, 1) = {st} /\ Min(Lowest(rest, 1)) = st
  BY <1>3, <1>8, <1>9, LowestOne
<1>11. PICK d \in Dir :
         /\ refs[d] = 0 /\ refs' = [refs EXCEPT ![d] = 1]
         /\ frame' = [frame EXCEPT ![d] = f]
         /\ user' = [user EXCEPT ![d] = im]
         /\ kernel' = [kernel EXCEPT ![d] = {st}]
         /\ pdir' = [pdir EXCEPT ![q] = d]
  BY <1>1, <1>6, <1>7, <1>10 DEF CloneCopy
<1>12. stack' = [stack EXCEPT ![q] = st] /\ free' = free \ ({f} \cup im \cup {st})
  BY <1>1, <1>6, <1>7, <1>10 DEF CloneCopy
<1>13. stack[q] = 0
  BY DEF MemInv, StacksPlaced
<1>14. st \in Block /\ st \in free \ ({f} \cup im)
       /\ status[q] \notin {"live", "unmapped"}
  BY <1>7, <1>9, <1>10
<1> QED BY <1>6, <1>11, <1>12, <1>13, <1>14, NewDirStep

-----------------------------------------------------------------------------
(* Every step, and the results.                                             *)

LEMMA InitInv ==
  ASSUME ProcessAssumption, Init
  PROVE  ProcInv
<1>1. PICK d \in Dir :
        /\ status = [p \in Process |-> IF p = init THEN "live" ELSE "none"]
        /\ pid = [p \in Process |-> IF p = init THEN 1 ELSE 0]
        /\ parent = [p \in Process |-> NULL] /\ last_pid = 1
        /\ pdir = [p \in Process |-> IF p = init THEN d ELSE NULL]
        /\ stack = [p \in Process |-> IF p = init THEN 2 ELSE 0]
        /\ refs = [e \in Dir |-> IF e = d THEN 1 ELSE 0]
        /\ frame = [e \in Dir |-> IF e = d THEN 1 ELSE 0]
        /\ user = [e \in Dir |-> IF e = d THEN 3..(2 + ImageSize) ELSE {}]
        /\ kernel = [e \in Dir |-> IF e = d THEN {2} ELSE {}]
        /\ free = Block \ (1..(2 + ImageSize))
        /\ waiting = [p \in Process |-> NotWaiting]
  BY DEF Init
<1>2. /\ Blocks \in Nat /\ ImageSize \in Nat \ {0} /\ Blocks >= 2 + ImageSize
      /\ MaxPid \in Nat /\ MaxPid > 2 /\ NULL \notin Process \cup Dir
      /\ Block = 1..Blocks /\ init \in Process
  BY DEF ProcessAssumption, Block
<1>3. ProcTypeOK
  <2>1. NotWaiting \in [stage: {"no", "tested", "blocked", "woken"},
                        child: Process \cup {NULL}, late: BOOLEAN]
    BY DEF NotWaiting
  <2> QED BY <1>1, <1>2, <2>1 DEF ProcTypeOK
<1>4. TreeInv
  BY <1>1, <1>2 DEF TreeInv, PidsName
<1>5. WaitInv
  BY <1>1 DEF WaitInv, NoLostExit, NotWaiting
<1>6. OwnedOnce
  <2>1. 3 \in user[d] /\ \A b \in user[d] : b \in 3..(2 + ImageSize)
    BY <1>1, <1>2
  <2>2. \A b \in Block \ free : \/ \E p \in Process : stack[p] = b
                                \/ \E e \in Dir : frame[e] = b \/ b \in user[e]
    <3> SUFFICES ASSUME NEW b \in 1..(2 + ImageSize)
                 PROVE  \/ \E p \in Process : stack[p] = b
                        \/ \E e \in Dir : frame[e] = b \/ b \in user[e]
      BY <1>1, <1>2
    <3>1. b = 1 \/ b = 2 \/ b \in 3..(2 + ImageSize)
      BY <1>2
    <3> QED BY <1>1, <1>2, <3>1
  <2>3. \A p \in Process : stack[p] \notin free
    BY <1>1, <1>2
  <2>4. \A e \in Dir : frame[e] \notin free /\ user[e] \cap free = {}
    BY <1>1, <1>2
  <2>5. \A p, q \in Process : stack[p] # 0 /\ stack[p] = stack[q] => p = q
    BY <1>1
  <2>6. \A e, g \in Dir : /\ frame[e] # 0 /\ frame[e] = frame[g] => e = g
                          /\ e # g => user[e] \cap user[g] = {}
                          /\ frame[e] # 0 => frame[e] \notin user[g]
    BY <1>1, <1>2
  <2>7. \A p \in Process, e \in Dir :
          stack[p] # 0 => stack[p] # frame[e] /\ stack[p] \notin user[e]
    BY <1>1, <1>2
  <2> QED BY <2>2, <2>3, <2>4, <2>5, <2>6, <2>7 DEF OwnedOnce
<1>7. \A e \in Dir : /\ Users(e) = IF e = d THEN {init} ELSE {}
                     /\ Holders(e) = IF e = d THEN {init} ELSE {}
  BY <1>1, <1>2 DEF Users, Alive, Holders
<1>8. UsersKeepMemory
  <2>1. Cardinality({init}) = 1
    BY FS_Singleton
  <2>0. 3 \in 3..(2 + ImageSize)
    BY <1>2
  <2>2. MemoryStays
    BY <1>1, <1>7, <2>0, <2>1 DEF MemoryStays
  <2>3. StacksMapped
    BY <1>1, <1>2, <1>7 DEF StacksMapped
  <2> QED BY <2>2, <2>3 DEF UsersKeepMemory
<1>9. DirsFresh /\ StacksPlaced
  BY <1>1, <1>2 DEF DirsFresh, StacksPlaced
<1> QED BY <1>3, <1>4, <1>5, <1>6, <1>8, <1>9 DEF ProcInv, MemInv

\* The parts of ProcTypeOK.
LEMMA TypeParts ==
  ProcTypeOK <=>
    /\ MemTypes /\ status \in StatusType
    /\ pid \in [Process -> 0..(MaxPid - 1)] /\ last_pid \in 1..(MaxPid - 1)
    /\ parent \in [Process -> Process \cup {NULL}]
    /\ waiting \in [Process -> WaitType]
BY DEF ProcTypeOK, MemTypes, StatusType, WaitType

\* execve(), exit() and mmap() leave the tree and waitpid() alone.
LEMMA MemoryStep ==
  ASSUME ProcessAssumption, ProcInv, NEW p \in Process,
         ExecveLeave(p) \/ ExecveBuild(p) \/ syscall_mmap_anon(p)
         \/ ExitUnmap(p) \/ ExitFree(p)
  PROVE  ProcInv'
<1>1. /\ MemTypes /\ status \in StatusType /\ MemInv /\ TreeInv /\ WaitInv
      /\ pid \in [Process -> 0..(MaxPid - 1)] /\ last_pid \in 1..(MaxPid - 1)
      /\ parent \in [Process -> Process \cup {NULL}]
      /\ waiting \in [Process -> WaitType]
  BY TypeParts DEF ProcInv
<1>2. UNCHANGED <<pid, parent, last_pid, waiting>>
  BY DEF ExecveLeave, ExecveBuild, syscall_mmap_anon, ExitUnmap, ExitFree, treeVars
<1>3. /\ MemInv' /\ MemTypes' /\ status' \in StatusType
      /\ \A q \in Process : /\ status'[q] = "none" <=> status[q] = "none"
                            /\ status'[q] = "terminated" <=> status[q] = "terminated"
  <2>1. CASE ExecveLeave(p)
    <3>1. /\ status[p] = "live" /\ status' = [status EXCEPT ![p] = "exec"]
          /\ process_page_directory_free(pdir[p], StacksWithout(p))
          /\ UNCHANGED <<pdir, stack, frame>>
      BY <2>1 DEF ExecveLeave, Running
    <3>2. StacksWithout(p) = {stack[q] : q \in Users(pdir[p]) \ {p}}
      <4>1. pdir[p] \in Dir /\ stack[p] # 0
        BY <1>1, <3>1 DEF MemInv, StacksPlaced, MemTypes
      <4>2. kernel[pdir[p]] = {stack[q] : q \in Users(pdir[p])}
        BY <1>1, <4>1 DEF MemInv, UsersKeepMemory, StacksMapped
      <4>3. \A q \in Users(pdir[p]) \ {p} : stack[q] # stack[p]
        BY <1>1, <4>1 DEF Users, Alive, MemInv, OwnedOnce
      <4> QED BY <4>2, <4>3 DEF StacksWithout
    <3>3. MemInv' /\ MemTypes'
      BY <1>1, <3>1, <3>2, LeaveStep
    <3> QED BY <1>1, <3>1, <3>3 DEF StatusType
  <2>2. CASE ExitFree(p)
    <3>1. /\ status[p] = "unmapped" /\ status' = [status EXCEPT ![p] = "exit"]
          /\ process_page_directory_free(pdir[p], kernel[pdir[p]])
          /\ UNCHANGED <<pdir, stack, frame>>
      BY <2>2 DEF ExitFree
    <3>2. kernel[pdir[p]] = {stack[q] : q \in Users(pdir[p]) \ {p}}
      <4>1. pdir[p] \in Dir
        BY <1>1, <3>1 DEF MemInv, StacksPlaced, MemTypes
      <4>2. p \notin Users(pdir[p])
        BY <3>1 DEF Users, Alive
      <4> QED BY <1>1, <4>1, <4>2 DEF MemInv, UsersKeepMemory, StacksMapped
    <3>3. MemInv' /\ MemTypes'
      BY <1>1, <3>1, <3>2, LeaveStep
    <3> QED BY <1>1, <3>1, <3>3 DEF StatusType
  <2>5. CASE ExitUnmap(p)
    <3>1. status[p] = "live" /\ status' = [status EXCEPT ![p] = "unmapped"]
      BY <2>5 DEF ExitUnmap, Running
    <3>2. MemInv' /\ MemTypes'
      BY <1>1, <2>5, ExitUnmapStep
    <3> QED BY <1>1, <3>1, <3>2 DEF StatusType
  <2>3. CASE ExecveBuild(p)
    <3>1. status[p] = "exec" /\ status' = [status EXCEPT ![p] = "live"]
      BY <2>3 DEF ExecveBuild
    <3>2. MemInv' /\ MemTypes'
      BY <1>1, <2>3, ExecveBuildStep
    <3> QED BY <1>1, <3>1, <3>2 DEF StatusType
  <2>4. CASE syscall_mmap_anon(p)
    <3>1. status' = status
      BY <2>4 DEF syscall_mmap_anon
    <3>2. MemInv' /\ MemTypes'
      BY <1>1, <2>4, MmapStep
    <3> QED BY <1>1, <3>1, <3>2
  <2> QED BY <2>1, <2>2, <2>3, <2>4, <2>5
<1>4. TreeInv' /\ WaitInv'
  <2>1. UNCHANGED treeVars
    BY <1>2 DEF treeVars
  <2> QED BY <1>1, <1>2, <1>3, <2>1, TreeKept, WaitKept
<1>5. ProcTypeOK'
  BY <1>1, <1>2, <1>3 DEF ProcTypeOK, MemTypes, StatusType, WaitType
<1> QED BY <1>3, <1>4, <1>5 DEF ProcInv

LEMMA CloneStep ==
  ASSUME ProcessAssumption, ProcInv, NEW p \in Process, NEW child \in Process,
         syscall_clone(p, child)
  PROVE  ProcInv'
<1>1. /\ MemTypes /\ status \in StatusType /\ MemInv /\ TreeInv /\ WaitInv /\ ProcTypeOK
      /\ waiting \in [Process -> WaitType]
  BY TypeParts DEF ProcInv
<1>2. /\ status[p] = "live" /\ status[child] = "none" /\ waiting' = waiting
      /\ status' = [status EXCEPT ![child] = "live"]
      /\ CloneVm(p, child) \/ CloneCopy(p, child)
  BY DEF syscall_clone, Running
<1>3. MemInv' /\ MemTypes'
  BY <1>1, <1>2, CloneVmStep, CloneCopyStep
<1>4. /\ TreeInv' /\ pid' \in [Process -> 0..(MaxPid - 1)] /\ last_pid' \in 1..(MaxPid - 1)
      /\ parent' \in [Process -> Process \cup {NULL}]
  BY <1>1, TreeClone
<1>5. WaitInv'
  BY <1>1, WaitClone
<1>6. ProcTypeOK'
  BY <1>1, <1>2, <1>3, <1>4 DEF ProcTypeOK, MemTypes, StatusType, WaitType
<1> QED BY <1>3, <1>4, <1>5, <1>6 DEF ProcInv

LEMMA WaitingStep ==
  ASSUME ProcessAssumption, ProcInv, NEW p \in Process,
         \/ \E child \in Process : WaitBlocks(p, child) \/ WaitTests(p, child)
         \/ WaitBlocksLate(p)
         \/ WaitReturns(p)
  PROVE  ProcInv'
<1>1. UNCHANGED <<status, treeVars, memVars>>
  BY DEF WaitBlocks, WaitTests, WaitBlocksLate, WaitReturns
<1>2. WaitInv' /\ ProcTypeOK'
  BY WaitSteps DEF ProcInv
<1>3. TreeInv' /\ MemInv'
  BY <1>1, TreeKept, MemKept DEF ProcInv
<1> QED BY <1>2, <1>3 DEF ProcInv

LEMMA ExitEndStep ==
  ASSUME ProcessAssumption, ProcInv, NEW p \in Process, ExitEnd(p)
  PROVE  ProcInv'
<1>1. /\ status[p] = "exit" /\ status' = [status EXCEPT ![p] = "terminated"]
      /\ UNCHANGED <<treeVars, memVars>> /\ status \in StatusType
  BY TypeParts DEF ExitEnd, ProcInv
<1>2. WaitInv' /\ ProcTypeOK'
  BY WaitExit DEF ProcInv
<1>3. \A q \in Process : /\ status'[q] = "none" <=> status[q] = "none"
                         /\ status'[q] = "live" <=> status[q] = "live"
                         /\ status'[q] = "unmapped" <=> status[q] = "unmapped"
  BY <1>1 DEF StatusType
<1>4. TreeInv' /\ MemInv'
  BY <1>1, <1>3, TreeKept, MemKept DEF ProcInv
<1> QED BY <1>2, <1>4 DEF ProcInv

\* The invariant of processes and their memory is inductive.
LEMMA NextInv ==
  ASSUME ProcessAssumption, ProcInv, [Next]_procVars
  PROVE  ProcInv'
<1>1. CASE Next
  BY <1>1, MemoryStep, CloneStep, WaitingStep, ExitEndStep DEF Next
<1>2. CASE UNCHANGED procVars
  <2>1. UNCHANGED <<status, treeVars, memVars, waiting, parent>>
    BY <1>2 DEF procVars, treeVars
  <2>2. TreeInv' /\ MemInv' /\ WaitInv'
    BY <2>1, TreeKept, MemKept, WaitKept DEF ProcInv
  <2>3. ProcTypeOK'
    BY <2>1 DEF ProcInv, ProcTypeOK, treeVars, memVars
  <2> QED BY <2>2, <2>3 DEF ProcInv
<1> QED BY <1>1, <1>2

\* The processes of process.c: the inductive invariant holds.
THEOREM ProcessesSafe == Spec => []ProcInv
<1>1. ProcessAssumption
  BY ProcessAssumption
<1>2. Init => ProcInv
  BY <1>1, InitInv
<1>3. ProcInv /\ [Next]_procVars => ProcInv'
  BY <1>1, NextInv
<1> QED BY <1>2, <1>3, PTL DEF Spec

\* Every physical block is free or has exactly one use, whatever clone(),
\* execve(), mmap() and exit() do to directories with one or several users.
THEOREM BlocksNeverShared == Spec => []BlocksOwned
<1>1. ProcInv => BlocksOwned
  BY ProcessAssumption, OwnedOnceCounts DEF ProcInv, MemInv, BlocksOwned
<1> QED BY <1>1, ProcessesSafe, PTL

\* A page directory counts its holders, and keeps their program and exactly the
\* kernel stacks of those that can still run in it, also while others are between
\* process_unmap_kstack() and process_page_directory_free() in exit().
THEOREM MemoryKept == Spec => []UsersKeepMemory
<1>1. ProcInv => UsersKeepMemory
  BY DEF ProcInv, MemInv
<1> QED BY <1>1, ProcessesSafe, PTL

\* exit() wakes a parent that is blocked in waitpid() for it, and no woken
\* parent waits again.
THEOREM ExitsNoticed == Spec => []NoLostExit
<1>1. ProcInv => NoLostExit
  BY DEF ProcInv, WaitInv
<1> QED BY <1>1, ProcessesSafe, PTL

\* get_pid() never gives a pid twice, and children are younger than parents.
THEOREM PidsUnique == Spec => []PidsName
<1>1. ProcInv => PidsName
  BY DEF ProcInv, TreeInv
<1> QED BY <1>1, ProcessesSafe, PTL
=============================================================================
