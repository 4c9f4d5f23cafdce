---------------------------- MODULE MCScopeLease ---------------------------
(* An instance of ScopeLease for TLC. *)
EXTENDS ScopeLease, TLC

CONSTANTS o1, o2, r1, p1, l1, l2

MCName == {"d", "x", "y"}
Dir == <<"d">>

\* A directory and two files in it, claimed one at a time.
TreePaths == {Dir, <<"d", "x">>, <<"d", "y">>}
TreeSets == {{p} : p \in TreePaths}

OneProject == [r \in Resource |-> p1]

\* A row of the physical scope that a first-release agent left on r1.
LegacyRow == {[lease |-> l1, owner |-> o1, resource |-> r1, scope |-> r1,
               path |-> Dir, expires |-> 1]}

LeaseSymmetry == Permutations(LeaseId)
=============================================================================
