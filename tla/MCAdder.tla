------------------------------- MODULE MCAdder -------------------------------
\* Every tree of at most three entries, of which one may be a directory with
\* two entries of its own, and every single file, symlink and special file.
EXTENDS Adder

MCHidden == {".h"}

Paths == {<<"a">>, <<".h">>, <<"d">>, <<"d", "a">>, <<"d", ".h">>}
MCKinds == {"dir", "x", "symlink", "special", "unreadable"}

\* Paths below a file have no kind of their own.
WellFormed(t) ==
  \A p \in DOMAIN t \ {<<>>} : Front(p) \in DOMAIN t /\ t[Front(p)] = "dir"
MCTree == {t \in UNION {[{<<>>} \cup D -> MCKinds] : D \in SUBSET Paths} : WellFormed(t)}
=============================================================================
