-------------------------------- MODULE Vfs --------------------------------
(***************************************************************************)
(* The virtual file system, kernel/fs.c, with the archive that is mounted  *)
(* at its root, kernel/tar.c, and the file system that is mounted below    *)
(* it, kernel/tmpfs.c.                                                     *)
(*                                                                         *)
(* No call lets another task run before it has finished with the lists, so *)
(* that each is one step.  An fs_node that finddir() makes belongs to the  *)
(* one that asked for it; only the node of a mount is shared, and only its *)
(* reference count is kept.  A failed assertion stops the machine.         *)
(***************************************************************************)
EXTENDS Integers, Sequences, FiniteSets, Bags, SequencesExt, FiniteSetsExt

CONSTANTS
  Name,       \* the names of files
  Prefixed,   \* the pairs <<n, m>> of names of which n is a proper prefix of m
  Archives,   \* the archives: sequences of entries
  Paths,      \* the paths that callers open
  MountPaths, \* the paths that callers mount at
  MaxLevel,   \* how deep findfile_recursive() goes, 10 in the code
  MaxSteps,   \* bound on the steps of a lookup
  MaxObj,     \* bound on the objects of tmpfs
  MaxOpen,    \* bound on the nodes that callers hold
  MaxRef      \* bound on how often the same file of tmpfs is opened

Element == Name \cup {".", ".."}

ASSUME VfsAssumption ==
  /\ Archives \subseteq Seq([path : Seq(Name), kind : {"file", "dir", "link"},
                             target : Seq(Element), abs : BOOLEAN, todir : BOOLEAN])
  /\ Paths \subseteq Seq(Element)
  /\ MountPaths \subseteq Seq(Name) \ {<< >>}
  /\ MaxLevel \in Nat /\ MaxSteps \in Nat /\ MaxObj \in Nat

VARIABLES
  archive,    \* the content of the ramdisk
  fs,         \* objects, mounts and what has happened to them, see FsType
  open        \* the bag of nodes that callers hold

vfsVars == <<archive, fs, open>>

SetOf(seq) == {seq[i] : i \in DOMAIN seq}

Obj == 1..MaxObj

NoNode == [mount |-> FALSE, at |-> << >>, obj |-> -1]
TarNode(path) == [mount |-> FALSE, at |-> path, obj |-> 0]
TmpNode(o) == [mount |-> FALSE, at |-> << >>, obj |-> o]

\* The node of the mount at a path; the archive is the mount at << >>.
MountNode(s, path) == [mount |-> TRUE, at |-> path, obj |-> s.mounts[path].obj]

-----------------------------------------------------------------------------
(* canonicalize_path_push_path() and the graph of mounts.                   *)

\* A ".." with nothing to take away is a failed assertion.
Pushed(l, e) ==
  CASE e = "." -> l
    [] e = ".." /\ l.list = << >> -> [l EXCEPT !.ok = FALSE]
    [] e = ".." /\ l.list # << >> -> [l EXCEPT !.list = Front(@)]
    [] OTHER -> [l EXCEPT !.list = Append(@, e)]

PushPath(elements, path) ==
  LET push[i \in 0..Len(path)] ==
        IF i = 0 THEN [ok |-> TRUE, list |-> elements] ELSE Pushed(push[i - 1], path[i])
  IN push[Len(path)]

\* Mutant: takes one step in the graph and not as many as there are.
walk_mount_graph_one(s, elements) ==
  IF elements # << >> /\ SubSeq(elements, 1, 1) \in DOMAIN s.mounts THEN 1 ELSE 0

\* How many of the elements lead from mount to mount.
walk_mount_graph(s, elements) ==
  Max({k \in 0..Len(elements) :
         \A i \in 0..k : SubSeq(elements, 1, i) \in DOMAIN s.mounts})

-----------------------------------------------------------------------------
(* Nodes and objects.                                                       *)

Entries == {archive[i] : i \in DOMAIN archive}
TarEntry(path) == CHOOSE e \in Entries : e.path = path

Kind(s, n) ==
  IF n.obj > 0 THEN s.objs[n.obj].kind
  ELSE IF n.at = << >> THEN "dir" ELSE TarEntry(n.at).kind

NoObj == [live |-> FALSE, name |-> "", kind |-> "file", childs |-> << >>, ref |-> 0]

\* tmpfs_destroy_object(), which asserts that a directory is empty.
Destroyed(s, o) ==
  IF s.objs[o].childs # << >> THEN [s EXCEPT !.halted = TRUE]
  ELSE [s EXCEPT !.objs[o] = NoObj]

\* Mutant: the last reference leaves the object behind.
DroppedKept(s, o) == [s EXCEPT !.objs[o].ref = @ - 1]

\* The end of a reference to an object.
Dropped(s, o) ==
  LET r == [s EXCEPT !.objs[o].ref = @ - 1] IN
  IF r.objs[o].ref = 0 THEN Destroyed(r, o) ELSE r

fs_node_reference(s, n) ==
  IF n.mount THEN [s EXCEPT !.mounts[n.at].ref = @ + 1] ELSE s

\* The last reference calls close(), which files of tmpfs do not have: the
\* reference that a file's node holds on its object is never given back.
fs_node_release(s, n) ==
  IF n.mount THEN [s EXCEPT !.mounts[n.at].ref = @ - 1]
  ELSE IF n.obj > 0 /\ Kind(s, n) = "dir" THEN Dropped(s, n.obj)
  ELSE s

\* tmpfs_finddir() and tmpfs_unlink() compare as many characters as the name
\* they are given has.
Matches(s, name, o) ==
  LET has == s.objs[o].name IN has = name \/ <<name, has>> \in Prefixed

Matching(s, dir, name) ==
  {i \in DOMAIN s.objs[dir].childs : Matches(s, name, s.objs[dir].childs[i])}

\* tmpfs_finddir(), whose new node takes a reference on the object.
tmpfs_finddir(s, dir, name) ==
  LET found == Matching(s, dir, name) IN
  IF found = {} THEN [st |-> s, node |-> NoNode]
  ELSE LET o == s.objs[dir].childs[Min(found)]
       IN [st |-> [s EXCEPT !.objs[o].ref = @ + 1], node |-> TmpNode(o)]

\* tar_finddir() looks the whole path up.
tar_finddir(s, path) ==
  [st |-> s,
   node |-> IF \E e \in Entries : e.path = path THEN TarNode(path) ELSE NoNode]

fs_finddir(s, n, name) ==
  IF Kind(s, n) # "dir" THEN [st |-> s, node |-> NoNode]
  ELSE IF n.obj > 0 THEN tmpfs_finddir(s, n.obj, name)
  ELSE tar_finddir(s, Append(n.at, name))

-----------------------------------------------------------------------------
(* findfile().                                                              *)

\* findfile_recursive() in progress: the node that it has reached, with a
\* reference on it, and a frame for every level with the elements that it was
\* called with and the one that is next.  NULL is passed on through all levels.
NotFound(s) == [st |-> s, node |-> NoNode, frames |-> << >>]

\* A call begins at the mount that the elements lead to.
Entered(s, frames, elements) ==
  LET k == walk_mount_graph(s, elements)
      node == MountNode(s, SubSeq(elements, 1, k))
      rest == SubSeq(elements, k + 1, Len(elements))
  IN IF Len(frames) >= MaxLevel THEN NotFound(s)
     ELSE [st |-> fs_node_reference(s, node), node |-> node,
           frames |-> Append(frames, [elements |-> rest, i |-> 1])]

\* One round of the loop.  A link is put in the place of its name and
\* everything before it looked up again, from the root of all mounts.  Its own
\* node, which is dropped after that, belongs to the archive and to nobody else.
Walked(c) ==
  LET top == Last(c.frames)
      next == fs_finddir(c.st, c.node, top.elements[top.i])
      s == fs_node_release(next.st, c.node)
      frames == Append(Front(c.frames), [top EXCEPT !.i = @ + 1])
      path == PushPath(SubSeq(top.elements, 1, top.i - 1), TarEntry(next.node.at).target)
  IN IF next.node = NoNode \/ s.halted THEN NotFound(s)
     ELSE IF Kind(s, next.node) # "link" THEN [st |-> s, node |-> next.node, frames |-> frames]
     ELSE IF path.ok THEN Entered(s, frames, path.list)
     ELSE NotFound([s EXCEPT !.halted = TRUE])

\* A call that has come to the end of its elements returns its node.
Round(c) ==
  IF c.frames = << >> THEN c
  ELSE IF Last(c.frames).i > Len(Last(c.frames).elements) THEN [c EXCEPT !.frames = Front(@)]
  ELSE Walked(c)

\* The lookup after at most MaxSteps steps.
findfile(s, path) ==
  LET elements == PushPath(<< >>, path)
      run[n \in 0..MaxSteps] ==
        IF n = 0 THEN Entered(s, << >>, elements.list) ELSE Round(run[n - 1])
  IN IF elements.ok THEN run[MaxSteps] ELSE NotFound([s EXCEPT !.halted = TRUE])

-----------------------------------------------------------------------------
(* readdir().                                                               *)

\* Mutant: lists what lies deeper as well.
tar_readdir_deep(path) ==
  SelectSeq(archive, LAMBDA e : IsStrictPrefix(path, e.path))

\* The entries that tar_readdir() counts, in order: those whose name begins
\* with the characters of the directory's name and has one element after
\* them.  They need not end at a separator.
tar_readdir(path) ==
  SelectSeq(archive, LAMBDA e :
    \/ IsStrictPrefix(path, e.path) /\ Len(e.path) = Len(path) + 1
    \/ /\ Len(e.path) = Len(path) /\ path # << >>
       /\ Front(e.path) = Front(path)
       /\ <<Last(path), Last(e.path)>> \in Prefixed)

-----------------------------------------------------------------------------
(* The calls.                                                               *)

\* Mutant: keeps the reference of findfile() as well as that of fs_open().
kopen_twice(path) ==
  LET f == findfile(fs, path) IN
  /\ f.frames = << >> /\ BagCardinality(open) < MaxOpen
  /\ \A o \in Obj : f.st.objs[o].ref <= MaxRef
  /\ fs' = fs_node_reference(f.st, f.node)
  /\ open' = IF f.node = NoNode \/ f.st.halted THEN open
             ELSE open (+) SetToBag({f.node})

\* Mutant: hands out what findfile() returns without looking at it.
kopen_unchecked(path) ==
  LET f == findfile(fs, path) IN
  /\ f.frames = << >> /\ BagCardinality(open) < MaxOpen
  /\ \A o \in Obj : f.st.objs[o].ref <= MaxRef
  /\ fs' = f.st
  /\ open' = open (+) SetToBag({f.node})

\* kopen(): fs_open() takes a reference and that of findfile() is given back.
kopen(path) ==
  LET f == findfile(fs, path) IN
  /\ f.frames = << >> /\ BagCardinality(open) < MaxOpen
  /\ \A o \in Obj : f.st.objs[o].ref <= MaxRef
  /\ fs' = f.st
  /\ open' = IF f.node = NoNode \/ f.st.halted THEN open
             ELSE open (+) SetToBag({f.node})

fs_close(node) ==
  /\ fs' = fs_node_release(fs, node)
  /\ open' = open (-) SetToBag({node})

Unused(s) == {o \in Obj : ~s.objs[o].live}

\* A new object, with ref references.
NewObj(s, name, kind, ref) ==
  [s EXCEPT !.objs[Min(Unused(s))] =
     [live |-> TRUE, name |-> name, kind |-> kind, childs |-> << >>, ref |-> ref]]

IsTmpDir(node) == node.obj > 0 /\ Kind(fs, node) = "dir"

\* tmpfs_create() and tmpfs_mkdir(), which compare whole names.
tmpfs_create(node, name, kind) ==
  LET dir == node.obj IN
  /\ IsTmpDir(node)
  /\ \A i \in DOMAIN fs.objs[dir].childs :
       fs.objs[fs.objs[dir].childs[i]].name # name
  /\ Unused(fs) # {}
  /\ fs' = LET s == NewObj(fs, name, kind, 1) IN
           [s EXCEPT !.objs[dir].childs = Append(@, Min(Unused(fs)))]
  /\ UNCHANGED open

\* Mutant: forgets to take an object that is destroyed off the list.
tmpfs_unlink_listed(node, name) ==
  LET dir == node.obj
      i == Min(Matching(fs, dir, name))
      s == Dropped(fs, fs.objs[dir].childs[i])
  IN /\ IsTmpDir(node)
     /\ Matching(fs, dir, name) # {}
     /\ fs' = s
     /\ UNCHANGED open

tmpfs_unlink(node, name) ==
  LET dir == node.obj
      i == Min(Matching(fs, dir, name))
      s == Dropped(fs, fs.objs[dir].childs[i])
  IN /\ IsTmpDir(node)
     /\ Matching(fs, dir, name) # {}
     /\ fs' = IF s.halted THEN s
              ELSE [s EXCEPT !.objs[dir].childs = RemoveAt(@, i)]
     /\ UNCHANGED open

\* kmount(path, mount_tmpfs()): the element after the mounts that exist
\* already must be the last one.  When there is none the new root stays
\* behind unused.  The mount has the third reference on the node.
kmount(path) ==
  LET rest == Len(path) - walk_mount_graph(fs, path) IN
  /\ Unused(fs) # {}
  /\ fs' = LET s == NewObj(fs, "tmpfs", "dir", 0)
               m == [obj |-> Min(Unused(fs)), ref |-> 3]
           IN CASE rest = 0 -> [s EXCEPT !.lost = @ \cup {Min(Unused(fs))}]
                [] rest = 1 -> [s EXCEPT !.mounts =
                                 [p \in DOMAIN @ \cup {path} |->
                                    IF p = path THEN m ELSE @[p]]]
                [] OTHER -> [fs EXCEPT !.halted = TRUE]
  /\ UNCHANGED open

-----------------------------------------------------------------------------
\* fs_mount_root(mount_tar()): the node has its own reference and the mount's.
VfsInit ==
  /\ archive \in Archives
  /\ fs = [objs |-> [o \in Obj |-> NoObj],
           mounts |-> [p \in {<< >>} |-> [obj |-> 0, ref |-> 2]],
           lost |-> {},
           halted |-> FALSE]
  /\ open = EmptyBag

VfsNext ==
  /\ ~fs.halted
  /\ \/ \E path \in Paths : kopen(path)
     \/ \E path \in MountPaths : kmount(path)
     \/ \E node \in BagToSet(open) :
          \/ fs_close(node)
          \/ \E name \in Name, kind \in {"file", "dir"} : tmpfs_create(node, name, kind)
          \/ \E name \in Name : tmpfs_unlink(node, name)
  /\ UNCHANGED archive

VfsSpec == VfsInit /\ [][VfsNext]_vfsVars

-----------------------------------------------------------------------------
(* Properties.                                                              *)

Node == [mount : BOOLEAN, at : Seq(Name), obj : {0} \cup Obj]

\* Types of the objects, the mounts and the nodes that are held.
VfsTypeOK ==
  /\ archive \in Archives
  /\ fs.objs \in [Obj -> [live : BOOLEAN, name : Name \cup {"", "tmpfs"},
                          kind : {"file", "dir"}, childs : Seq(Obj), ref : Nat]]
  /\ \A p \in DOMAIN fs.mounts : fs.mounts[p].obj \in {0} \cup Obj /\ fs.mounts[p].ref \in Nat
  /\ fs.halted \in BOOLEAN
  /\ IsABag(open) /\ BagToSet(open) \subseteq Node

LiveObj == {o \in Obj : fs.objs[o].live}
Childs(o) == SetOf(fs.objs[o].childs)
Roots == {fs.mounts[p].obj : p \in DOMAIN fs.mounts} \ {0}
Copies(n) == IF n \in BagToSet(open) THEN open[n] ELSE 0
Held == {n.obj : n \in BagToSet(open)} \ {0}

\* No list, mount or node points to an object that has been destroyed, and an
\* object is on one list at most, once.
NoDangling ==
  ~fs.halted =>
    /\ Roots \cup Held \subseteq LiveObj
    /\ \A o \in LiveObj :
         /\ Childs(o) \subseteq LiveObj \ Roots
         /\ IsInjective(fs.objs[o].childs)
         /\ \A p \in LiveObj \ {o} : Childs(o) \cap Childs(p) = {}

\* Reference counts say how many there are, whatever paths have been opened,
\* found or not found: kopen() and fs_close() balance on the nodes of mounts,
\* and a directory is referenced by its parent and by the nodes on it.  Files
\* count every node there has ever been.
RefsExact ==
  ~fs.halted =>
    /\ \A p \in DOMAIN fs.mounts :
         fs.mounts[p].ref = (IF p = << >> THEN 2 ELSE 3)
           + Copies(MountNode(fs, p))
    /\ \A o \in LiveObj \ Roots :
         LET count == Cardinality({p \in LiveObj : o \in Childs(p)}) + Copies(TmpNode(o))
         IN IF fs.objs[o].kind = "dir" /\ o \notin fs.lost THEN fs.objs[o].ref = count
            ELSE fs.objs[o].ref >= count

\* What the lists of childs lead to.
Below(from) ==
  {o \in Obj : \A S \in SUBSET Obj :
     from \subseteq S /\ (\A p \in S : Childs(p) \subseteq S) => o \in S}

\* A directory that can no longer be reached is destroyed.  Roots of mounts
\* that failed and files, which tmpfs never closes, are what is left behind.
NoLostDirectory ==
  ~fs.halted =>
    \A o \in LiveObj \ Below(Roots \cup Held) :
      o \in fs.lost \/ fs.objs[o].kind = "file"

\* Objects live as long as something leads to them, and directories no longer.
ObjectsLive == VfsTypeOK /\ NoDangling /\ NoLostDirectory
=============================================================================
