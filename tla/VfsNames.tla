------------------------------ MODULE VfsNames ------------------------------
(***************************************************************************)
(* Where paths lead: what the lookups of Vfs should find, defined without  *)
(* them, and the properties that compare the two.                          *)
(***************************************************************************)
EXTENDS Vfs

-----------------------------------------------------------------------------
(* A reference: the name space as one tree, followed element by element.    *)

\* The object that exact names lead to from a directory of tmpfs, or -1.
RECURSIVE Exact(_, _)
Exact(o, names) ==
  IF names = << >> THEN o
  ELSE LET c == {x \in SetOf(fs.objs[o].childs) : fs.objs[x].name = Head(names)}
       IN IF c = {} THEN -1 ELSE Exact(CHOOSE x \in c : TRUE, Tail(names))

\* The node at a place of the tree: below the longest mounted prefix.
At(place) ==
  LET k == Max({j \in 0..Len(place) : SubSeq(place, 1, j) \in DOMAIN fs.mounts})
      o == fs.mounts[SubSeq(place, 1, k)].obj
      rest == SubSeq(place, k + 1, Len(place))
  IN IF o # 0 THEN [NoNode EXCEPT !.obj = Exact(o, rest)]
     ELSE IF rest = << >> \/ \E e \in Entries : e.path = rest THEN TarNode(rest)
     ELSE NoNode

\* Where a path leads and how many links it takes, with fuel for so many.
RECURSIVE Resolve(_, _, _)
Resolve(place, todo, links) ==
  LET next == Append(place, Head(todo))
      n == At(next)
      e == TarEntry(n.at)
  IN IF todo = << >> THEN [node |-> At(place), links |-> links]
     ELSE IF Head(todo) = "." THEN Resolve(place, Tail(todo), links)
     ELSE IF Head(todo) = ".."
     THEN Resolve(IF place = << >> THEN place ELSE Front(place), Tail(todo), links)
     ELSE IF n = NoNode \/ links = MaxLevel * MaxLevel THEN [node |-> NoNode, links |-> links]
     ELSE IF Kind(fs, n) = "link"
     THEN Resolve(IF e.abs THEN << >> ELSE place, e.target \o Tail(todo), links + 1)
     ELSE Resolve(next, Tail(todo), links)

\* The names that a lookup of path may compare with.
NamesFor(path) == SetOf(path) \cup UNION {SetOf(e.target) : e \in Entries}

-----------------------------------------------------------------------------
(* Properties.                                                              *)

SameNode(n, m) == n.obj = m.obj /\ (n.obj = 0 => n.at = m.at)

\* What kopen() finds is what the path names, through all mounts and links,
\* and it finds everything that is at most one link away.  It does so when no
\* name in tmpfs begins with one that is looked for, no link below the root
\* directory is absolute (fs.c takes it for a relative one) and ".." does not
\* meet links or names that do not exist (fs.c resolves it in the text).  Every
\* lookup ends, within the bound.
FindsWhatIsNamed ==
  LET textual == \/ \A e \in Entries : ".." \notin SetOf(e.target)
                 \/ \A e \in Entries : ~e.todir
      rooted == \A e \in Entries : e.abs => Len(e.path) = 1
  IN ~fs.halted /\ textual /\ rooted =>
       \A path \in Paths :
         LET f == findfile(fs, path)
             r == Resolve(<< >>, path, 0)
         IN /\ f.frames = << >>
            /\ /\ ~f.st.halted
               /\ \A o \in LiveObj, n \in NamesFor(path) : <<n, fs.objs[o].name>> \notin Prefixed
               /\ ".." \in SetOf(path) => r.node # NoNode /\ r.links = 0
               => /\ f.node # NoNode => SameNode(f.node, r.node)
                  /\ r.node # NoNode /\ r.links <= 1 => f.node # NoNode

\* readdir() of the archive gives the files in a directory, each once, unless
\* another name beside it begins with its own.
ListsDirectory ==
  \A d \in {<< >>} \cup {e.path : e \in {x \in Entries : x.kind = "dir"}} :
    (\A e \in Entries : Len(e.path) = Len(d) /\ d # << >> =>
                          <<Last(d), Last(e.path)>> \notin Prefixed) =>
      LET listed == tar_readdir(d) IN
      /\ IsInjective(listed)
      /\ SetOf(listed) = {e \in Entries : e.path # << >> /\ Front(e.path) = d}

\* Lookups and listings agree with the names, mounts and links there are.
LookupsExact == FindsWhatIsNamed /\ ListsDirectory
=============================================================================
