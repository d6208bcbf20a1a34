------------------------------ MODULE FdTable ------------------------------
(***************************************************************************)
(* The file descriptor tables of kernel/process.c and the system calls     *)
(* that work on them: reference counts of the fd_entry_t's and of the      *)
(* fd_table_t's, which clone() may share between processes.                *)
(*                                                                         *)
(* `length` has two meanings in the code: fd_table_append() keeps it one   *)
(* past the last used slot, fd_table_set() at the last used slot, and      *)
(* fd_table_get() accepts both.  A system call is atomic here, except that *)
(* a read() of the terminal blocks with a pointer to its fd_entry_t.       *)
(*                                                                         *)
(* dup2() and clone() may write, and fd_table_get() read, the word right   *)
(* behind the array.  When that is padding of the allocation it keeps what *)
(* was written; when it belongs to somebody else, `damaged` is set and     *)
(* nothing is said of what the kernel does from then on.                   *)
(***************************************************************************)
EXTENDS Naturals, FiniteSets, FiniteSetsExt

CONSTANTS Process, Table, Entry,  \* every object that is ever allocated
          init,                   \* the process of process_spawn_init()
          Capacity, Growth,       \* 16 and 8 in the code
          MaxCapacity,            \* bound on the growth of a table
          MaxRefs,                \* bound on the references to an fd_entry_t
          NULL

ASSUME FdAssumption ==
  /\ IsFiniteSet(Process) /\ IsFiniteSet(Table)
  /\ init \in Process
  /\ Capacity \in Nat /\ Capacity > 2 /\ Growth \in Nat \ {0}
  /\ MaxCapacity \in Nat /\ MaxCapacity >= Capacity
  /\ MaxRefs \in Nat /\ MaxRefs >= 3
  /\ NULL \notin Table \cup Entry

VARIABLES
  table,     \* the contents of each fd_table_t; __refcount 0 means freed
  refcount,  \* fd_entry_t.__refcount; 0 means freed
  fd_table,  \* process->fd_table, NULL for no process
  reading,   \* the fd_entry_t of the read() that the process is blocked in
  shared,    \* history: the tables that clone() has given to a second process
  damaged    \* an access behind an array has met foreign memory

fdVars == <<table, refcount, fd_table, reading, shared, damaged>>

\* Slot `capacity` of a table is the word behind its array.
Slot == 0..MaxCapacity

-----------------------------------------------------------------------------
(* Operations on one table.                                                 *)

Used(tb) == {i \in Slot : tb.entries[i] # NULL}

fd_table_new ==
  [entries |-> [i \in Slot |-> NULL], length |-> 0, capacity |-> Capacity,
   __refcount |-> 1]

Freed == [fd_table_new EXCEPT !.__refcount = 0]

fd_table_get(tb, i) == IF i > tb.length THEN NULL ELSE tb.entries[i]

\* fd_table_realloc() to another capacity: only the first length slots stay.
fd_table_realloc(tb, capacity) ==
  [tb EXCEPT !.capacity = capacity,
             !.entries = [i \in Slot |-> IF i < tb.length THEN @[i] ELSE NULL]]

\* Mutant: leaves the capacity of a table that is too short as it is.
fd_table_set_keeping(tb, i, e) ==
  LET room == IF i < tb.capacity THEN tb ELSE fd_table_realloc(tb, tb.capacity) IN
  IF e # NULL
  THEN [room EXCEPT !.entries[i] = e,
                    !.length = IF @ < i THEN i ELSE @]
  ELSE IF i < tb.capacity THEN [tb EXCEPT !.entries[i] = NULL] ELSE tb

\* The capacity of a table that is too short becomes i, one too few: entries[i]
\* is the word behind the new array, and clearing it does nothing.
fd_table_set(tb, i, e) ==
  LET room == IF i < tb.capacity THEN tb ELSE fd_table_realloc(tb, i) IN
  IF e # NULL
  THEN [room EXCEPT !.entries[i] = e,
                    !.length = IF @ < i THEN i ELSE @]
  ELSE IF i < tb.capacity THEN [tb EXCEPT !.entries[i] = NULL] ELSE tb

Gaps(tb) == {i \in 0..(tb.length - 1) : tb.entries[i] = NULL}

FillGap(tb, e) == [tb EXCEPT !.entries[Min(Gaps(tb))] = e]

AddLast(tb, e) == [tb EXCEPT !.entries[tb.length] = e, !.length = @ + 1]

Full(tb) == tb.length = tb.capacity

fd_table_append(tb, e) ==
  IF Gaps(tb) # {} THEN FillGap(tb, e)
  ELSE IF Full(tb) THEN AddLast(fd_table_realloc(tb, tb.capacity + Growth), e)
  ELSE AddLast(tb, e)

\* The growth stays within the bound of the model.
MayAppend(tb) ==
  Gaps(tb) = {} /\ Full(tb) => tb.capacity + Growth <= MaxCapacity

\* fd_table_clone(): fd_table_set() of the first length slots, one by one.
fd_table_clone(tb) ==
  LET copy[n \in 0..tb.length] ==
        IF n = 0 THEN fd_table_new
        ELSE fd_table_set(copy[n - 1], n - 1, tb.entries[n - 1])
  IN copy[tb.length]

\* How many of the first n slots of tb refer to e.
Occurrences(tb, e, n) == Cardinality({i \in Slot : i < n /\ tb.entries[i] = e})

-----------------------------------------------------------------------------
(* The system calls of process p.                                           *)

Running(p) == fd_table[p] # NULL /\ reading[p] = NULL /\ ~damaged

Own(p) == table[fd_table[p]]

RefsBounded == \A e \in Entry : refcount'[e] <= MaxRefs

\* Process p's table becomes tb.
Update(p, tb) == table' = [table EXCEPT ![fd_table[p]] = tb]

syscall_open(p) ==
  /\ Running(p) /\ MayAppend(Own(p))
  /\ \E e \in Entry :
       /\ refcount[e] = 0
       /\ refcount' = [refcount EXCEPT ![e] = 1]
       /\ Update(p, fd_table_append(Own(p), e))
  /\ UNCHANGED <<fd_table, reading, shared>>

syscall_dup(p, oldfd) ==
  LET e == fd_table_get(Own(p), oldfd) IN
  /\ Running(p) /\ e # NULL /\ MayAppend(Own(p))
  /\ refcount' = [refcount EXCEPT ![e] = @ + 1]
  /\ RefsBounded
  /\ Update(p, fd_table_append(Own(p), e))
  /\ UNCHANGED <<fd_table, reading, shared>>

\* Mutant: takes no reference for newfd.
syscall_dup2_unreferenced(p, oldfd, newfd) ==
  LET e   == fd_table_get(Own(p), oldfd)
      old == IF newfd < Own(p).capacity THEN Own(p).entries[newfd] ELSE NULL IN
  /\ Running(p) /\ e # NULL
  /\ newfd # oldfd
  /\ refcount' = [x \in Entry |-> refcount[x] - (IF x = old THEN 1 ELSE 0)]
  /\ Update(p, fd_table_set(Own(p), newfd, e))
  /\ UNCHANGED <<fd_table, reading, shared>>

\* Takes the new reference first, then drops what newfd referred to; any newfd
\* is accepted, and behind the array nothing is dropped.
syscall_dup2(p, oldfd, newfd) ==
  LET e   == fd_table_get(Own(p), oldfd)
      old == IF newfd < Own(p).capacity THEN Own(p).entries[newfd] ELSE NULL IN
  /\ Running(p) /\ e # NULL
  /\ newfd # oldfd
  /\ refcount' = [x \in Entry |-> (refcount[x] + (IF x = e THEN 1 ELSE 0))
                                  - (IF x = old THEN 1 ELSE 0)]
  /\ RefsBounded
  /\ Update(p, fd_table_set(Own(p), newfd, e))
  /\ UNCHANGED <<fd_table, reading, shared>>

\* Behind the array fd_table_set() neither drops nor clears the descriptor.
syscall_close(p, fd) ==
  LET e == fd_table_get(Own(p), fd) IN
  /\ Running(p) /\ e # NULL
  /\ refcount' = [refcount EXCEPT ![e] = IF fd < Own(p).capacity THEN @ - 1 ELSE @]
  /\ Update(p, fd_table_set(Own(p), fd, NULL))
  /\ UNCHANGED <<fd_table, reading, shared>>

ReadBlocks(p, fd) ==
  /\ Running(p)
  /\ fd_table_get(Own(p), fd) # NULL
  /\ reading' = [reading EXCEPT ![p] = fd_table_get(Own(p), fd)]
  /\ UNCHANGED <<table, refcount, fd_table, shared>>

ReadReturns(p) ==
  /\ reading[p] # NULL /\ ~damaged
  /\ reading' = [reading EXCEPT ![p] = NULL]
  /\ UNCHANGED <<table, refcount, fd_table, shared>>

-----------------------------------------------------------------------------
(* Processes come and go.                                                   *)

\* Mutant: shares the table without a reference.
CloneSharedUnreferenced(p, child) ==
  /\ fd_table' = [fd_table EXCEPT ![child] = fd_table[p]]
  /\ shared' = shared \cup {fd_table[p]}
  /\ UNCHANGED <<table, refcount>>

CloneShared(p, child) ==
  /\ fd_table' = [fd_table EXCEPT ![child] = fd_table[p]]
  /\ Update(p, [Own(p) EXCEPT !.__refcount = @ + 1])
  /\ shared' = shared \cup {fd_table[p]}
  /\ UNCHANGED refcount

\* Mutant: copies the descriptors without references.
CloneCopyUnreferenced(p, child) ==
  /\ \E tab \in Table :
       /\ table[tab].__refcount = 0
       /\ table' = [table EXCEPT ![tab] = fd_table_clone(Own(p))]
       /\ fd_table' = [fd_table EXCEPT ![child] = tab]
  /\ UNCHANGED <<refcount, shared>>

\* A slot that a new table does not have is written behind its array, and the
\* next one moves the array and loses it, reference included.
CloneCopy(p, child) ==
  /\ \E tab \in Table :
       /\ table[tab].__refcount = 0
       /\ table' = [table EXCEPT ![tab] = fd_table_clone(Own(p))]
       /\ fd_table' = [fd_table EXCEPT ![child] = tab]
  /\ refcount' = [e \in Entry |-> refcount[e] + Occurrences(Own(p), e, Own(p).length)]
  /\ RefsBounded
  /\ UNCHANGED shared

process_clone(p, child) ==
  /\ Running(p) /\ fd_table[child] = NULL
  /\ CloneShared(p, child) \/ CloneCopy(p, child)
  /\ UNCHANGED reading

\* process_exit()'s fd_table_free(): the last user drops the first length
\* entries.  init never exits.
process_exit(p) ==
  /\ Running(p) /\ p # init
  /\ fd_table' = [fd_table EXCEPT ![p] = NULL]
  /\ \/ /\ Own(p).__refcount > 1
        /\ Update(p, [Own(p) EXCEPT !.__refcount = @ - 1])
        /\ UNCHANGED <<refcount, shared>>
     \/ /\ Own(p).__refcount = 1
        /\ Update(p, Freed)
        /\ shared' = shared \ {fd_table[p]}
        /\ refcount' = [e \in Entry |->
                          refcount[e] - Occurrences(Own(p), e, Own(p).length)]
  /\ UNCHANGED reading

-----------------------------------------------------------------------------
(* Accesses behind an array that meet foreign memory.                       *)

Dup2Damages(p) ==
  \E oldfd, newfd \in Slot : /\ fd_table_get(Own(p), oldfd) # NULL
                              /\ newfd # oldfd /\ newfd >= Own(p).capacity

\* The word was never written, yet it is not 0: no pointer to an fd_entry_t.
GetDamages(p) ==
  /\ Own(p).length = Own(p).capacity
  /\ Own(p).entries[Own(p).length] = NULL

CloneDamages(p) ==
  \E i \in Used(Own(p)) : Capacity <= i /\ i < Own(p).length

Damage(p) ==
  /\ Running(p)
  /\ Dup2Damages(p) \/ GetDamages(p) \/ CloneDamages(p)
  /\ damaged' = TRUE
  /\ UNCHANGED <<table, refcount, fd_table, reading, shared>>

-----------------------------------------------------------------------------
\* process_spawn_init(): the terminal on 0, 1 and 2 of a new table.
SpawnTable(tty) ==
  fd_table_set(fd_table_set(fd_table_set(fd_table_new, 0, tty), 1, tty), 2, tty)

Init ==
  \E tty \in Entry, tab \in Table :
    /\ table = [t \in Table |-> IF t = tab THEN SpawnTable(tty)
                                ELSE Freed]
    /\ refcount = [e \in Entry |-> IF e = tty THEN 3 ELSE 0]
    /\ fd_table = [p \in Process |-> IF p = init THEN tab ELSE NULL]
    /\ reading = [p \in Process |-> NULL]
    /\ shared = {}
    /\ damaged = FALSE

Syscall(p) ==
  \/ syscall_open(p)
  \/ \E i \in Slot : \/ syscall_dup(p, i)
                     \/ syscall_close(p, i)
                     \/ ReadBlocks(p, i)
                     \/ \E j \in Slot : syscall_dup2(p, i, j)
  \/ ReadReturns(p)
  \/ \E child \in Process : process_clone(p, child)
  \/ process_exit(p)

Next == \E p \in Process : (Syscall(p) /\ UNCHANGED damaged) \/ Damage(p)

Spec == Init /\ [][Next]_fdVars

-----------------------------------------------------------------------------
(* Properties.                                                              *)

Live == {tab \in Table : table[tab].__refcount > 0}

\* Types of fd_table_t and fd_entry_t: a slot holds an entry or NULL, length and
\* capacity are bounded, and a table has at most one reference per process.
FdTypeOK ==
  /\ table \in [Table -> [entries: [Slot -> Entry \cup {NULL}],
                          length: 0..MaxCapacity, capacity: 0..MaxCapacity,
                          __refcount: 0..Cardinality(Process)]]
  /\ refcount \in [Entry -> Nat]
  /\ fd_table \in [Process -> Table \cup {NULL}]
  /\ reading \in [Process -> Entry \cup {NULL}]
  /\ shared \subseteq Table
  /\ damaged \in BOOLEAN

\* No descriptor ever refers to a freed fd_entry_t: the reference count is at
\* least the number of slots in all tables, over dup(), dup2(), clone() and
\* exit() of several processes.
RefsCoverSlots ==
  \A e \in Entry :
    refcount[e] >= Cardinality({x \in Live \X Slot : table[x[1]].entries[x[2]] = e})

\* A table lives exactly as long as a process uses it.
TableRefsExact ==
  \A tab \in Table :
    table[tab].__refcount = Cardinality({p \in Process : fd_table[p] = tab})

\* The reference counts of process.c protect every table and every entry that
\* is in use.
CountsProtect == FdTypeOK /\ RefsCoverSlots /\ TableRefsExact

\* Every open descriptor can be reached by fd_table_get(), and what
\* fd_table_free() and fd_table_clone() walk over lies inside the array, in
\* spite of the two meanings of length.  A descriptor itself may lie in the word
\* behind the array, where dup2() has put it.
SlotsReachable ==
  \A tab \in Live : /\ \A i \in Used(table[tab]) : i <= table[tab].length
                    /\ table[tab].length <= table[tab].capacity

\* While a read() is blocked nobody frees its fd_entry_t, unless the table of
\* the reader has been shared.
ReadersFileLives ==
  \A p \in Process : reading[p] # NULL /\ fd_table[p] \notin shared
                      => refcount[reading[p]] > 0

\* fd_table_append() never replaces an open descriptor: the slot it adds at
\* the end was free (the comment of process.c:192).
AppendSlotIsFree ==
  [][\A tab \in Live :
       LET n == table[tab].length IN
       /\ table'[tab].length = n + 1
       /\ n \in Slot
       /\ table'[tab].entries[n] # table[tab].entries[n]
       => table[tab].entries[n] = NULL]_fdVars
=============================================================================
