----------------------------- MODULE MCConsole -----------------------------
EXTENDS Console

\* Two tasks listed in either order; the second list is of a mission that
\* has ended.
MCProjections ==
  {[list |-> <<"a", "b">>, done |-> {}, ended |-> FALSE],
   [list |-> <<"b", "a">>, done |-> {"b"}, ended |-> TRUE]}

MCMixes == {{"watch", "views"}, {"views", "command"}, {"read"}, {"compose"}}
=============================================================================
