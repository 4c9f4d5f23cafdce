---------------------------- MODULE PathScopes -----------------------------
(***************************************************************************)
(* Repository-relative paths as sequences of components, the repository    *)
(* root (".") being the empty one.  Both lease stores compare normalised   *)
(* paths by string prefix up to a "/".                                     *)
(***************************************************************************)
EXTENDS Integers, Sequences

CONSTANTS
    Name,        \* path components, after normcase
    Path         \* normalised relative paths

ASSUME PathAssumption == Path \subseteq Seq(Name)

\* `a` is `b` or a directory above it.
Ancestor(a, b) == /\ Len(a) <= Len(b)
                  /\ \A i \in 1..Len(a) : a[i] = b[i]

PathsOverlap(a, b) == Ancestor(a, b) \/ Ancestor(b, a)
=============================================================================
