--------------------------- MODULE MCWriterFence ---------------------------
(* Instances of WriterFence for TLC. *)
EXTENDS WriterFence, TLC

CONSTANTS r1, p1, a1, a2, l1, l2

MCName == {"d", "x"}
Dir == <<"d">>
File == <<"d", "x">>

\* A directory and a file in it.
NestedPath == {Dir, File}
NestedSets == {{Dir}, {File}}

\* One contended file.
OnePath == {File}
OneSet == {{File}}

\* A root that starts with physical rows and is then given a project.
Upgrade == Resource \X {p1}

Symmetry == Permutations(AttemptId) \cup Permutations(LeaseId)
=============================================================================
