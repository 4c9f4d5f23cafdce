---------------------------- MODULE MCAsyncJobs ----------------------------
EXTENDS AsyncJobs, TLC

CONSTANTS j1, j2, keyed, reason, plain, lint, w1, w2, w3, h1, h2, c1

TwoKinds == (keyed :> "keyed") @@ (lint :> "lint")
OneReason == reason :> "reason"
OneKeyed == keyed :> "keyed"
Threads == Permutations(Workers) \cup Permutations(Handlers)
=============================================================================
