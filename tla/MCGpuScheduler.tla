--------------------------- MODULE MCGpuScheduler ---------------------------
EXTENDS GpuScheduler, TLC

CONSTANTS f1, f2, b1, m1, m2, e1, e2

\* Two models; the background request asks for the second one.
Requested == [j \in {f1, f2, b1} |-> IF j = f1 THEN m1 ELSE m2]

\* The files of processes that are gone: a whole lease, a digest alone.
DeadLeases == {File(None, None), File("dead", "dead"), File("dead", None)}

\* The same, and metadata that has lost its digest.
Wreckage == DeadLeases \cup {File(None, "dead")}

=============================================================================
