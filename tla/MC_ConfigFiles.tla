--------------------------- MODULE MC_ConfigFiles ---------------------------
EXTENDS ConfigFiles, TLC

Symmetry == Permutations(Paths) \cup Permutations(Handlers) \cup Permutations(Reads)

\* One file at most is a symbolic link or may not be written.
Ordinary ==
  {k \in [Paths -> {"file", "readonly", "link"}] :
     \E p \in Paths : \A q \in Paths \ {p} : k[q] = "file"}

\* The search goes up to the first late answer and not past it: the property of
\* texts asks nothing there, and that of writes is not about the editor.
OnTime == ~late
=============================================================================
