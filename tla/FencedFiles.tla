---------------------------- MODULE FencedFiles ----------------------------
(***************************************************************************)
(* What the writer fence promises, file by file and without clocks, rows   *)
(* or transactions: grants on a file carry increasing tokens, and a file   *)
(* is only ever written under the newest token granted on it.              *)
(***************************************************************************)
EXTENDS Naturals

CONSTANTS Resource, Path

VARIABLES
    granted,   \* granted[<<r, f>>]: newest token granted on file f of root r
    written    \* written[<<r, f>>]: token of the last write to f

File == Resource \X Path

Init == /\ granted = [k \in File |-> 0]
        /\ written = [k \in File |-> 0]

\* Some files of root r are granted to the holder of one token, newer than
\* every token granted on any of them.
Grant(r) ==
    LET F == {f \in Path : granted'[<<r, f>>] # granted[<<r, f>>]}
    IN  /\ F # {}
        /\ \A f, g \in F : /\ granted'[<<r, f>>] = granted'[<<r, g>>]
                           /\ granted'[<<r, f>>] > granted[<<r, g>>]
        /\ \A k \in File : k[1] # r => granted'[k] = granted[k]
        /\ UNCHANGED written

Write(k) == /\ granted[k] > 0
            /\ written' = [written EXCEPT ![k] = granted[k]]
            /\ UNCHANGED granted

Next == \/ \E r \in Resource : Grant(r)
        \/ \E k \in File : Write(k)

Spec == Init /\ [][Next]_<<granted, written>>
=============================================================================
