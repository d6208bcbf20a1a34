------------------------------- MODULE MCVfs -------------------------------
(* Small instances of Vfs for TLC. *)
EXTENDS VfsNames

Names == {"t", "te", "d"}
BeginsWith == {<<"t", "te">>}

Dir(path) == [path |-> path, kind |-> "dir", target |-> << >>, abs |-> FALSE, todir |-> FALSE]
File(path) == [path |-> path, kind |-> "file", target |-> << >>, abs |-> FALSE, todir |-> FALSE]
Link(path, target, abs, todir) ==
  [path |-> path, kind |-> "link", target |-> target, abs |-> abs, todir |-> todir]

\* A link into a directory and one out of it; a link into a mount; a chain of
\* links that is too long and a loop; names that begin with one another.
SmallArchives ==
  { <<Dir(<<"d">>), File(<<"d", "t">>), Link(<<"te">>, <<"d", "t">>, TRUE, FALSE),
      Link(<<"d", "d">>, <<"..", "te">>, FALSE, FALSE)>>,
    <<Link(<<"d">>, <<"t", "te">>, FALSE, TRUE), Link(<<"te">>, <<"te">>, FALSE, FALSE)>>,
    <<Dir(<<"t">>), Dir(<<"te">>), Link(<<"t", "d">>, <<"t">>, FALSE, FALSE),
      File(<<"t", "t">>), Link(<<"d">>, <<"t", "d">>, FALSE, FALSE)>> }

Mounts == {<<"t">>, <<"t", "te">>}

OpenPaths == {<< >>, <<"..">>, <<"t">>, <<"d">>, <<"te">>, <<"d", "t">>, <<"t", "d">>,
              <<"t", "t">>, <<"t", "te">>, <<"d", "..", "t">>, <<"d", "d">>,
              <<"t", "te", "d">>, <<"d", ".", "te">>, <<"t", "d", "d">>}
=============================================================================
