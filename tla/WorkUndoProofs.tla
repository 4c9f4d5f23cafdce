---------------------------- MODULE WorkUndoProofs ----------------------------
(***************************************************************************)
(* What WorkOrders promises about the edits of orders that were not        *)
(* delivered, for every set of orders and files and every bound, provided  *)
(* that attempts do not lapse under a working thread and that one worker   *)
(* and one recovery thread run (max_active_work_orders is 1 by default).   *)
(***************************************************************************)
EXTENDS WorkOrdersProofs

\* The orders are worked on by one thread and repaired by one thread, and no thread
\* is delayed past the lifetime of an attempt or a lease.
Alone == /\ Prompt
         /\ \A w, v \in Worker : w = v
         /\ \A r, q \in Recoverer : r = q

-----------------------------------------------------------------------------
(* Steps of one thread *)

Others(t) == \A u \in Thread \ {t} : th'[u] = th[u]
Still(t) == /\ th'[t].order = th[t].order /\ th'[t].token = th[t].token
            /\ th'[t].journal = th[t].journal

\* A thread moves on.
LEMMA Goes ==
    ASSUME TInv, NEW t \in Thread, NEW p, Go(t, p)
    PROVE  /\ th'[t].pc = p /\ th'[t].goal = th[t].goal /\ th'[t].todo = th[t].todo
           /\ Still(t) /\ Others(t)
BY DEF Go, TInv, Threads, ThreadRec, Still, Others

\* It notes how the order is to end.
LEMMA Heads ==
    ASSUME TInv, NEW t \in Thread, NEW p, NEW g, th' = [th EXCEPT ![t].pc = p, ![t].goal = g]
    PROVE  th'[t].pc = p /\ th'[t].goal = g /\ Still(t) /\ Others(t)
BY DEF TInv, Threads, ThreadRec, Still, Others

\* It is done.
LEMMA Rests ==
    ASSUME TInv, NEW t \in Thread, th' = [th EXCEPT ![t] = IdleThread]
    PROVE  th'[t] = IdleThread /\ Others(t)
BY DEF TInv, Threads, Others

-----------------------------------------------------------------------------
(* Attempts *)

\* Thread t works under the attempt it claimed.
Holds(t) == \/ t \in Worker /\ th[t].pc \notin {"idle", "picked", "checked"}
            \/ t \in Recoverer /\ th[t].pc \in {"claimed", "restore", "clear", "update", "release"}

\* A thread that works under an attempt owns it, and nobody else works on its order.
Owners == /\ \A t \in Thread : Holds(t) => Own(t)
          /\ \A t, u \in Thread : Holds(t) /\ Holds(u) /\ Mine(t) = Mine(u) => t = u

\* Steps in which no thread starts to work under an attempt
LEMMA OwnersKept ==
    ASSUME Owners,
           \A t \in Thread : Holds(t)' => /\ Holds(t) /\ th'[t].order = th[t].order
                                          /\ th'[t].token = th[t].token
                                          /\ attempt'[Mine(t)] = attempt[Mine(t)]
    PROVE  Owners'
<1>1. ASSUME NEW t \in Thread, Holds(t)'
      PROVE  Own(t)'
  BY <1>1 DEF Owners, Own, Mine
<1>2. ASSUME NEW t \in Thread, NEW u \in Thread, Holds(t)', Holds(u)', Mine(t)' = Mine(u)'
      PROVE  t = u
  BY <1>2 DEF Owners, Mine
<1> QED
  BY <1>1, <1>2 DEF Owners

\* The steps of a worker that change nothing but its place and a row
Edge(w) ==
    \/ th[w].pc = "picked" /\ th'[w].pc = "checked"
    \/ /\ th[w].pc \in {"begin", "plan"}
       /\ \/ th'[w].pc \in {"plan", "step", "raise", "release"}
          \/ th'[w].pc = "ending" /\ th'[w].goal = "cancelled"
    \/ /\ th[w].pc \in {"step", "body", "verify", "delivered"}
       /\ th'[w].pc \in {"step", "body", "verify", "rollback", "delivered"}
    \/ /\ th[w].pc = "rollback"
       /\ \/ th'[w].pc = "raise"
          \/ th'[w].pc = "ending" /\ th'[w].goal \in {"failed", "cancelled"}
       /\ Busy(w) \/ (~KeepsEdits(w) /\ ~Restorable(th[w].journal))
    \/ /\ th[w].pc = "ending" /\ th[w].goal \in {"partial", "needs_agent"}
       /\ th'[w].pc = "rollback"
    \/ th[w].pc \in {"ending", "raise"} /\ th'[w].pc \in {"raise", "release"}

\* After a rollback that failed the worker raises, or records a failure or a cancellation.
LEMMA FailedRollbackEdge ==
    ASSUME TInv, NEW t \in Thread, th' = AfterFailedRollback(t), th[t].goal \in Terminal
    PROVE  /\ \/ th'[t].pc = "raise"
              \/ th'[t].pc = "ending" /\ th'[t].goal \in {"failed", "cancelled"}
           /\ Still(t) /\ Others(t)
<1>0. th[t] \in ThreadRec /\ th \in [Thread -> ThreadRec]
  BY DEF TInv, Threads
<1>1. CASE th' = [th EXCEPT ![t].pc = "raise"]
  BY <1>0, <1>1 DEF ThreadRec, Still, Others
<1>2. CASE th' = [th EXCEPT ![t].pc = "ending", ![t].ok = FALSE,
                            ![t].goal = IF @ = "cancelled" THEN @ ELSE "failed"]
  BY <1>0, <1>2 DEF ThreadRec, Still, Others
<1> QED
  BY <1>1, <1>2 DEF AfterFailedRollback

\* Those steps
Quiet(w) ==
    \/ CheckPlanning(w) /\ row[Mine(w)].state = "planning"
    \/ Begin(w) \/ PlanFails(w) \/ PlanDone(w) \/ StartStep(w)
    \/ StepDone(w) \/ ReviewAsks(w) \/ StartVerify(w) \/ StepFails(w)
    \/ ClearDeliveredBusy(w) \/ RollbackRefused(w)
    \/ End(w) \/ Raise(w) \/ LoseAttempt(w) \/ UpdateBusy(w)
    \/ \E s \in {"complete", "needs_agent"} : PlanEnds(w, s) \/ Deliver(w, s)

\* Steps of a worker between patches and rollbacks leave files, journals and claims alone.
LEMMA QuietMoves ==
    ASSUME TInv, Owners, NEW w \in Worker, Quiet(w)
    PROVE  /\ UNCHANGED <<file, journal, attempt, lease, lock, patches>>
           /\ Still(w) /\ Others(w) /\ Edge(w)
<1> USE DEF TInv, disk, fence, env
<1>0. w \in Thread /\ th[w] \in ThreadRec /\ th[w].goal \in Terminal
  BY DEF Thread, Threads, ThreadRec
<1>1. UNCHANGED <<file, journal, attempt, lease, lock, patches>>
  BY DEF Quiet, CheckPlanning, Begin, PlanFails, PlanDone, StartStep, StepDone, ReviewAsks,
     StartVerify, StepFails, ClearDeliveredBusy, RollbackRefused, End, Raise, LoseAttempt,
     UpdateBusy, PlanEnds, Deliver
<1>2. CASE CheckPlanning(w) /\ row[Mine(w)].state = "planning"
  <2>1. Go(w, "checked") /\ th[w].pc = "picked"
    BY <1>2 DEF CheckPlanning
  <2> QED
    BY <1>0, <1>1, <2>1, Goes DEF Edge
<1>3. CASE Begin(w)
  <2>1. CASE Go(w, "release")
    BY <1>0, <1>1, <1>3, <2>1, Goes DEF Edge, Begin
  <2>2. CASE th' = [th EXCEPT ![w].pc = "plan", ![w].steps = MaxSteps]
    <3>1. th'[w].pc = "plan" /\ Still(w) /\ Others(w)
      BY <1>0, <2>2 DEF Threads, ThreadRec, Still, Others
    <3> QED
      BY <1>1, <1>3, <3>1 DEF Edge, Begin
  <2> QED
    BY <1>3, <2>1, <2>2 DEF Begin
<1>4. CASE PlanFails(w)
  <2>1. /\ th[w].pc = "plan"
        /\ \/ Go(w, "raise")
           \/ th' = [th EXCEPT ![w].pc = "ending", ![w].goal = "cancelled"]
    BY <1>4 DEF PlanFails
  <2> QED
    BY <1>0, <1>1, <2>1, Goes, Heads DEF Edge
<1>5. CASE \/ PlanDone(w)
           \/ \E s \in {"complete", "needs_agent"} : PlanEnds(w, s)
  <2>1. th[w].pc = "plan" /\ \E p \in {"step", "raise", "release"} : Go(w, p)
    BY <1>5 DEF PlanDone, PlanEnds
  <2> QED
    BY <1>0, <1>1, <2>1, Goes DEF Edge
<1>6. CASE StartStep(w)
  <2>1. th[w].pc = "step"
    BY <1>6 DEF StartStep
  <2>2. CASE \E g : th' = [th EXCEPT ![w].pc = "rollback", ![w].goal = g]
    BY <1>0, <1>1, <2>1, <2>2, Heads DEF Edge
  <2>3. CASE th' = [th EXCEPT ![w].pc = "body", ![w].steps = @ - 1]
    <3>1. th'[w].pc = "body" /\ Still(w) /\ Others(w)
      BY <1>0, <2>3 DEF Threads, ThreadRec, Still, Others
    <3> QED
      BY <1>1, <2>1, <3>1 DEF Edge
  <2> QED
    BY <1>6, <2>2, <2>3 DEF StartStep
<1>7. CASE \/ StepDone(w) \/ ReviewAsks(w) \/ StartVerify(w) \/ StepFails(w)
           \/ ClearDeliveredBusy(w) \/ \E s \in {"complete", "needs_agent"} : Deliver(w, s)
  <2>1. /\ th[w].pc \in {"step", "body", "verify", "delivered"}
        /\ \/ \E p \in {"step", "verify", "delivered"} : Go(w, p)
           \/ \E g : th' = [th EXCEPT ![w].pc = "rollback", ![w].goal = g]
    BY <1>7 DEF StepDone, ReviewAsks, StartVerify, StepFails, ClearDeliveredBusy, Deliver
  <2> QED
    BY <1>0, <1>1, <2>1, Goes, Heads DEF Edge
<1>8. CASE RollbackRefused(w)
  <2>1. /\ th[w].pc = "rollback" /\ th' = AfterFailedRollback(w)
        /\ Busy(w) \/ (~KeepsEdits(w) /\ ~Restorable(th[w].journal))
    BY <1>8 DEF RollbackRefused
  <2>2. /\ \/ th'[w].pc = "raise"
           \/ th'[w].pc = "ending" /\ th'[w].goal \in {"failed", "cancelled"}
        /\ Still(w) /\ Others(w)
    BY <1>0, <2>1, FailedRollbackEdge
  <2> QED
    BY <1>1, <2>1, <2>2 DEF Edge
<1>9. CASE End(w)
  <2>1. /\ th[w].pc = "ending"
        /\ \/ Go(w, "release")
           \/ /\ th[w].goal \in {"partial", "needs_agent"}
              /\ th' = [th EXCEPT ![w].pc = "rollback", ![w].goal = "cancelled"]
    BY <1>9 DEF End
  <2> QED
    BY <1>0, <1>1, <2>1, Goes, Heads DEF Edge
<1>10. CASE Raise(w) \/ UpdateBusy(w)
  <2>1. /\ th[w].pc \in {"begin", "ending", "raise"}
        /\ \/ Go(w, "release") /\ th[w].pc = "raise"
           \/ Go(w, "raise")
    BY <1>10 DEF Raise, UpdateBusy
  <2> QED
    BY <1>0, <1>1, <2>1, Goes DEF Edge
<1>11. CASE LoseAttempt(w)
  <2>1. th[w].pc \in {"begin", "plan"} /\ Go(w, "release")
    BY <1>0, <1>11 DEF LoseAttempt, Owners, Holds
  <2> QED
    BY <1>0, <1>1, <2>1, Goes DEF Edge
<1> QED
  BY <1>2, <1>3, <1>4, <1>5, <1>6, <1>7, <1>8, <1>9, <1>10, <1>11 DEF Quiet

\* The steps in which a worker becomes idle and keeps nothing
Leaves(w) ==
    \/ CheckPlanning(w) /\ row[Mine(w)].state # "planning"
    \/ RowUnavailable(w) \/ ClaimBusy(w) \/ (ClaimAttempt(w) /\ attempt[Mine(w)].live)

\* A worker that is refused before its attempt leaves everything as it is.
LEMMA LeavesMoves ==
    ASSUME TInv, NEW w \in Worker, Leaves(w)
    PROVE  /\ UNCHANGED <<file, journal, attempt, lease, lock, patches>>
           /\ th[w].pc \in {"picked", "checked"} /\ th'[w] = IdleThread /\ Others(w)
<1>1. /\ UNCHANGED <<file, journal, attempt, lease, lock, patches>>
      /\ th[w].pc \in {"picked", "checked"} /\ th' = [th EXCEPT ![w] = IdleThread]
  BY DEF Leaves, CheckPlanning, RowUnavailable, ClaimBusy, ClaimAttempt, disk, fence, env
<1> QED
  BY <1>1, Rests DEF Thread

\* What a patch to the files P does
Patches(w, P) ==
    /\ \A f \in P : lease[f] \in {None, Working(Mine(w))}
    /\ lease' = [f \in File |-> IF f \in P THEN Working(Mine(w)) ELSE lease[f]]
    /\ journal' = [journal EXCEPT ![Mine(w)] = Extended(w, P)]
    /\ th'[w].pc = "apply" /\ th'[w].order = th[w].order /\ th'[w].token = th[w].token
    /\ th'[w].journal = Extended(w, P) /\ th'[w].start = Len(th[w].journal)
    /\ th'[w].todo = [f \in P |-> Patching(w)]

\* What a patch changes when it enters its guarded section
LEMMA PatchMoves ==
    ASSUME TInv, NEW w \in Worker, Patch(w)
    PROVE  /\ th[w].pc \in {"body", "verify"} /\ patches < MaxPatches /\ Guarded(w)
           /\ lock' = w /\ patches' = patches + 1
           /\ UNCHANGED <<row, file, attempt, up, retry, crashes>>
           /\ Others(w)
           /\ \E P \in (SUBSET File) \ {{}} : Patches(w, P)
<1>1. /\ th[w].pc \in {"body", "verify"} /\ patches < MaxPatches /\ Guarded(w)
      /\ lock' = w /\ patches' = patches + 1
      /\ UNCHANGED <<row, file, attempt, up, retry, crashes>>
  BY PatchStep
<1>2. PICK P \in (SUBSET File) \ {{}} :
          /\ \A f \in P : lease[f] \in {None, Working(Mine(w))}
          /\ lease' = [f \in File |-> IF f \in P THEN Working(Mine(w)) ELSE lease[f]]
          /\ journal' = [journal EXCEPT ![Mine(w)] = Extended(w, P)]
          /\ th' = [th EXCEPT ![w].pc = "apply", ![w].back = th[w].pc,
                              ![w].journal = Extended(w, P),
                              ![w].start = Len(th[w].journal),
                              ![w].todo = [f \in P |-> Patching(w)]]
  BY PatchStep
<1> DEFINE j == Extended(w, P)
           n == Len(th[w].journal)
           new == [f \in P |-> Patching(w)]
<1>3. th' = [th EXCEPT ![w].pc = "apply", ![w].back = th[w].pc, ![w].journal = j,
                       ![w].start = n, ![w].todo = new]
  BY <1>2
<1> HIDE DEF j, n, new
<1>4. /\ th'[w].pc = "apply" /\ th'[w].order = th[w].order /\ th'[w].token = th[w].token
      /\ th'[w].journal = j /\ th'[w].start = n /\ th'[w].todo = new /\ Others(w)
  BY <1>3 DEF TInv, Threads, ThreadRec, Others, Thread
<1> QED
  BY <1>1, <1>2, <1>4 DEF Patches, j, n, new

\* The other steps of a worker under its attempt
LEMMA WorkMoves ==
    ASSUME TInv, NEW w \in Worker,
           \/ Patch(w) \/ Patched(w) \/ ApplyFails(w) \/ Unapplied(w)
           \/ ClearDelivered(w) \/ DropJournal(w) \/ Rollback(w)
    PROVE  /\ UNCHANGED attempt
           /\ th[w].pc \notin {"idle", "picked", "checked"}
           /\ th'[w].order = th[w].order /\ th'[w].token = th[w].token /\ Others(w)
<1> USE DEF TInv, Threads, ThreadRec, Others, fence, env, disk
<1>0. w \in Thread
  BY DEF Thread
<1>1. CASE Patch(w)
  BY <1>1, PatchMoves DEF Patches
<1>2. CASE Patched(w)
  BY <1>0, <1>2 DEF Patched
<1>3. CASE ApplyFails(w)
  BY <1>0, <1>3 DEF ApplyFails
<1>4. CASE Unapplied(w)
  BY <1>0, <1>4 DEF Unapplied
<1>5. CASE ClearDelivered(w) \/ DropJournal(w)
  <2>1. /\ UNCHANGED attempt /\ th[w].pc \in {"delivered", "rollback"}
        /\ \E p : Go(w, p)
    BY <1>5 DEF ClearDelivered, DropJournal
  <2> QED
    BY <1>0, <2>1, Goes DEF Still
<1>6. CASE Rollback(w)
  BY <1>0, <1>6 DEF Rollback
<1> QED
  BY <1>1, <1>2, <1>3, <1>4, <1>5, <1>6

\* An attempt is claimed only when nobody works under the last one.
LEMMA OwnersClaim ==
    ASSUME TInv, Owners, NEW t \in Thread, Mine(t) \in Order, ~attempt[Mine(t)].live,
           attempt' = ClaimedBy(Mine(t)), Others(t),
           th'[t].order = th[t].order, th'[t].token = attempt[Mine(t)].token + 1
    PROVE  Owners'
<1> DEFINE o == Mine(t)
<1>1. /\ attempt'[o] = [token |-> attempt[o].token + 1, live |-> TRUE]
      /\ \A q \in Order \ {o} : attempt'[q] = attempt[q]
  BY DEF ClaimedBy, TInv, Tables
<1>2. ASSUME NEW u \in Thread \ {t}, Holds(u)'
      PROVE  /\ Holds(u) /\ Own(u) /\ Mine(u) # o /\ Mine(u)' = Mine(u)
             /\ Own(u)'
  <2>1. th'[u] = th[u]
    BY DEF Others
  <2>2. Holds(u) /\ Own(u) /\ Mine(u) # o
    BY <1>2, <2>1 DEF Holds, Owners, Own, Mine
  <2>3. Mine(u) \in Order
    <3>1. Placed(u, th[u])
      BY DEF TInv, Places
    <3> QED
      BY <2>2, <3>1 DEF Holds, Placed, Mine, Dealing
  <2> QED
    BY <1>1, <2>1, <2>2, <2>3 DEF Own, Mine
<1>3. Own(t)' /\ Mine(t)' = o
  BY <1>1 DEF Own, Mine
<1>4. \A u \in Thread : Holds(u)' => Own(u)'
  BY <1>2, <1>3
<1>5. ASSUME NEW u \in Thread, NEW v \in Thread, Holds(u)', Holds(v)', Mine(u)' = Mine(v)'
      PROVE  u = v
  BY <1>2, <1>3, <1>5 DEF Owners
<1> QED
  BY <1>4, <1>5 DEF Owners

\* An attempt ends when nobody works under it any more.
LEMMA OwnersFreed ==
    ASSUME TInv, Owners, NEW o \in Order,
           \A q \in Order \ {o} : attempt'[q] = attempt[q],
           \A t \in Thread : Holds(t)' => /\ Holds(t) /\ Mine(t) # o
                                          /\ th'[t].order = th[t].order
                                          /\ th'[t].token = th[t].token
    PROVE  Owners'
<1>1. ASSUME NEW t \in Thread, Holds(t)'
      PROVE  attempt'[Mine(t)] = attempt[Mine(t)]
  <2>1. Placed(t, th[t])
    BY DEF TInv, Places
  <2>2. Mine(t) \in Order
    BY <1>1, <2>1 DEF Holds, Placed, Mine, Dealing
  <2> QED
    BY <1>1, <2>2
<1> QED
  BY <1>1, OwnersKept

\* A worker that goes on under an attempt claimed it when nobody else worked on the order.
LEMMA OwnersWorker ==
    ASSUME TInv, Owners, NEW w \in Worker, WorkerStep(w)
    PROVE  Owners'
<1>0. w \in Thread /\ w \notin Recoverer
  BY ThreadAssumption DEF Thread
<1>a. ASSUME UNCHANGED attempt, Others(w),
             Holds(w)' => /\ Holds(w) /\ th'[w].order = th[w].order
                          /\ th'[w].token = th[w].token
      PROVE  Owners'
  BY <1>a, OwnersKept DEF Others, Holds
<1>1. CASE Quiet(w)
  <2>1. UNCHANGED attempt /\ Still(w) /\ Others(w) /\ Edge(w)
    BY <1>1, QuietMoves
  <2>2. Holds(w)' => Holds(w)
    BY <1>0, <2>1 DEF Holds, Edge
  <2> QED
    BY <1>a, <2>1, <2>2 DEF Still
<1>2. CASE Leaves(w)
  <2>1. UNCHANGED attempt /\ Others(w) /\ th'[w] = IdleThread
    BY <1>2, LeavesMoves
  <2>2. ~Holds(w)'
    BY <1>0, <2>1 DEF Holds, IdleThread
  <2> QED
    BY <1>a, <2>1, <2>2
<1>3. CASE Next_(w)
  <2>1. UNCHANGED attempt
    BY <1>3 DEF Next_, fence
  <2>2. Others(w) /\ th'[w].pc = "picked"
    BY <1>0, <1>3 DEF Next_, TInv, Threads, ThreadRec, Others
  <2>3. ~Holds(w)'
    BY <1>0, <2>2 DEF Holds
  <2> QED
    BY <1>a, <2>1, <2>2, <2>3
<1>4. CASE ClaimAttempt(w) /\ ~attempt[Mine(w)].live
  <2>1. /\ th[w].pc = "checked" /\ attempt' = ClaimedBy(Mine(w))
        /\ th' = [th EXCEPT ![w].pc = "begin", ![w].token = attempt[Mine(w)].token + 1]
    BY <1>4 DEF ClaimAttempt
  <2>2. /\ Others(w) /\ th'[w].order = th[w].order
        /\ th'[w].token = attempt[Mine(w)].token + 1
    BY <1>0, <2>1 DEF TInv, Threads, ThreadRec, Others
  <2>3. Mine(w) \in Order
    BY <1>0, <2>1 DEF TInv, Places, Placed, Mine
  <2> QED
    BY <1>0, <1>4, <2>1, <2>2, <2>3, OwnersClaim
<1>5. CASE \/ Patch(w) \/ Patched(w) \/ ApplyFails(w) \/ Unapplied(w)
           \/ ClearDelivered(w) \/ DropJournal(w) \/ Rollback(w)
  <2>1. Holds(w) /\ UNCHANGED attempt /\ Others(w)
    BY <1>5, WorkMoves DEF Holds
  <2> QED
    BY <1>5, <1>a, <2>1, WorkMoves
<1>6. CASE Release(w)
  <2>1. /\ th[w].pc = "release" /\ th'[w] = IdleThread /\ Others(w)
        /\ attempt' \in {attempt, Released(w)}
    BY <1>0, <1>6, Rests DEF Release
  <2>2. Mine(w) \in Order /\ Holds(w)
    BY <1>0, <2>1 DEF TInv, Places, Placed, Mine, Holds
  <2>3. \A q \in Order \ {Mine(w)} : attempt'[q] = attempt[q]
    BY <2>1, <2>2 DEF Released, TInv, Tables
  <2>4. ~Holds(w)'
    BY <1>0, <2>1 DEF Holds, IdleThread
  <2>5. ASSUME NEW t \in Thread, Holds(t)'
        PROVE  /\ Holds(t) /\ Mine(t) # Mine(w) /\ th'[t].order = th[t].order
               /\ th'[t].token = th[t].token
    <3>1. t # w /\ th'[t] = th[t]
      BY <2>1, <2>4, <2>5 DEF Others
    <3> QED
      BY <1>0, <2>2, <2>5, <3>1 DEF Holds, Owners
  <2> QED
    BY <2>2, <2>3, <2>5, OwnersFreed
<1> QED
  BY <1>1, <1>2, <1>3, <1>4, <1>5, <1>6 DEF WorkerStep, Quiet, Leaves

\* A rollback that failed under the guard
LEMMA FailedRestoreMoves ==
    ASSUME TInv, NEW t \in Thread, th' = AfterFailedRestore(t)
    PROVE  /\ t \in Worker => \/ th'[t].pc = "raise"
                              \/ th'[t].pc = "ending" /\ th'[t].goal \in {"failed", "cancelled"}
           /\ t \notin Worker => th'[t].pc = "update" /\ ~th'[t].ok
           /\ Still(t) /\ Others(t)
<1>1. CASE t \in Worker
  <2>1. th[t].goal \in Terminal
    BY DEF TInv, Threads, ThreadRec
  <2> QED
    BY <1>1, <2>1, FailedRollbackEdge DEF AfterFailedRestore
<1>2. CASE t \notin Worker
  BY <1>2 DEF AfterFailedRestore, TInv, Threads, ThreadRec, Still, Others
<1> QED
  BY <1>1, <1>2

\* What each step of a recovery pass does to its thread
LEMMA PassMoves ==
    ASSUME TInv, NEW r \in Recoverer
    PROVE  /\ StartPass(r) => th'[r].pc = "pass" /\ th[r].pc = "idle" /\ Others(r)
           /\ LoadJournal(r) => /\ th'[r].pc = "loaded" /\ th[r].pc = "pass" /\ Others(r)
           /\ RecoverBusy(r) => /\ th'[r].pc = "pass" /\ th[r].pc = "loaded" /\ Others(r)
           /\ RecoverRestore(r) => /\ th'[r].pc = "restore" /\ th[r].pc = "claimed"
                                   /\ th'[r].todo = RestorePlan(th[r].journal)
                                   /\ Still(r) /\ Others(r)
           /\ RecoverRefused(r) => /\ th'[r].pc = "update" /\ th[r].pc = "claimed"
                                   /\ ~th'[r].ok /\ Still(r) /\ Others(r)
           /\ RecoverUpdate(r) \/ RecoverLost(r) =>
                 th'[r].pc = "release" /\ th[r].pc = "update" /\ Still(r) /\ Others(r)
           /\ RecoverAborts(r) => th'[r] = IdleThread /\ th[r].pc = "update" /\ Others(r)
           /\ RecoverRelease(r) => th'[r].pc = "pass" /\ th[r].pc = "release" /\ Others(r)
           /\ StartCleanup(r) => th'[r].pc = "cleanup" /\ th[r].pc = "pass" /\ Others(r)
           /\ Cleanup(r) => th'[r].pc = "cleanup" /\ th[r].pc = "cleanup" /\ Others(r)
           /\ EndPass(r) => th'[r] = IdleThread /\ th[r].pc = "cleanup" /\ Others(r)
<1> USE DEF TInv, Threads, ThreadRec, Others, Still
<1>0. r \in Thread
  BY DEF Thread
<1>1. StartPass(r) => th'[r].pc = "pass" /\ th[r].pc = "idle" /\ Others(r)
  BY <1>0 DEF StartPass
<1>2. LoadJournal(r) => /\ th'[r].pc = "loaded" /\ th[r].pc = "pass" /\ Others(r)
  BY <1>0 DEF LoadJournal
<1>3. RecoverBusy(r) => /\ th'[r].pc = "pass" /\ th[r].pc = "loaded" /\ Others(r)
  BY <1>0 DEF RecoverBusy, Defer
<1>4. RecoverRestore(r) => /\ th'[r].pc = "restore" /\ th[r].pc = "claimed"
                           /\ th'[r].todo = RestorePlan(th[r].journal)
                           /\ Still(r) /\ Others(r)
  BY <1>0 DEF RecoverRestore
<1>5. RecoverRefused(r) => /\ th'[r].pc = "update" /\ th[r].pc = "claimed" /\ ~th'[r].ok
                           /\ Still(r) /\ Others(r)
  BY <1>0 DEF RecoverRefused
<1>6. RecoverUpdate(r) \/ RecoverLost(r) =>
          th'[r].pc = "release" /\ th[r].pc = "update" /\ Still(r) /\ Others(r)
  <2> SUFFICES ASSUME RecoverUpdate(r) \/ RecoverLost(r)
               PROVE  th'[r].pc = "release" /\ th[r].pc = "update" /\ Still(r) /\ Others(r)
    OBVIOUS
  <2>1. CASE Go(r, "release")
    BY <1>0, <2>1, Goes DEF RecoverUpdate, RecoverLost
  <2>2. CASE th' = [th EXCEPT ![r].pc = "release", ![r].late = TRUE]
    BY <1>0, <2>2 DEF RecoverUpdate, RecoverLost
  <2> QED
    BY <2>1, <2>2 DEF RecoverUpdate, RecoverLost
<1>7. RecoverAborts(r) => th'[r] = IdleThread /\ th[r].pc = "update" /\ Others(r)
  BY <1>0 DEF RecoverAborts
<1>8. RecoverRelease(r) => th'[r].pc = "pass" /\ th[r].pc = "release" /\ Others(r)
  BY <1>0 DEF RecoverRelease, IdleThread
<1>9. StartCleanup(r) => th'[r].pc = "cleanup" /\ th[r].pc = "pass" /\ Others(r)
  BY <1>0 DEF StartCleanup
<1>10. Cleanup(r) => th'[r].pc = "cleanup" /\ th[r].pc = "cleanup" /\ Others(r)
  BY <1>0 DEF Cleanup
<1>11. EndPass(r) => th'[r] = IdleThread /\ th[r].pc = "cleanup" /\ Others(r)
  BY <1>0 DEF EndPass
<1> QED
  BY <1>1, <1>2, <1>3, <1>4, <1>5, <1>6, <1>7, <1>8, <1>9, <1>10, <1>11

\* Nor does recovery take an order that somebody works on.
LEMMA OwnersPass ==
    ASSUME TInv, Owners, NEW r \in Recoverer, RecoveryStep(r)
    PROVE  Owners'
<1>0. r \in Thread /\ r \notin Worker
  BY ThreadAssumption DEF Thread
<1>a. ASSUME UNCHANGED attempt, Others(r),
             Holds(r)' => Holds(r) /\ th'[r].order = th[r].order /\ th'[r].token = th[r].token
      PROVE  Owners'
  BY <1>a, OwnersKept DEF Others, Holds
<1>b. ASSUME th[r].pc \in {"update", "release"}, attempt' \in {attempt, Released(r)},
             Others(r), ~Holds(r)'
      PROVE  Owners'
  <2>1. Mine(r) \in Order /\ Holds(r)
    BY <1>0, <1>b DEF TInv, Places, Placed, Mine, Holds, Dealing
  <2>2. \A q \in Order \ {Mine(r)} : attempt'[q] = attempt[q]
    BY <1>b, <2>1 DEF Released, TInv, Tables
  <2>3. ASSUME NEW t \in Thread, Holds(t)'
        PROVE  /\ Holds(t) /\ Mine(t) # Mine(r) /\ th'[t].order = th[t].order
               /\ th'[t].token = th[t].token
    <3>1. t # r /\ th'[t] = th[t]
      BY <1>b, <2>3 DEF Others
    <3> QED
      BY <1>0, <2>1, <2>3, <3>1 DEF Holds, Owners
  <2> QED
    BY <2>1, <2>2, <2>3, OwnersFreed
<1>1. CASE StartPass(r) \/ LoadJournal(r) \/ RecoverBusy(r) \/ StartCleanup(r) \/ EndPass(r)
  <2>1. UNCHANGED attempt
    BY <1>1 DEF StartPass, LoadJournal, RecoverBusy, StartCleanup, EndPass, fence
  <2>2. Others(r) /\ th'[r].pc \in {"pass", "loaded", "cleanup", "idle"}
    BY <1>1, PassMoves DEF IdleThread
  <2> QED
    BY <1>0, <1>a, <2>1, <2>2 DEF Holds
<1>2. CASE RecoverRestore(r) \/ RecoverRefused(r) \/ RecoverUpdate(r) \/ RecoverLost(r)
  <2>1. UNCHANGED attempt
    BY <1>2 DEF RecoverRestore, RecoverRefused, RecoverUpdate, RecoverLost, fence
  <2>2. Holds(r) /\ Still(r) /\ Others(r)
    BY <1>0, <1>2, PassMoves DEF Holds
  <2> QED
    BY <1>a, <2>1, <2>2 DEF Still
<1>3. CASE RecoverAborts(r) \/ RecoverRelease(r)
  <2>1. attempt' \in {attempt, Released(r)}
    BY <1>3 DEF RecoverAborts, RecoverRelease
  <2>2. th[r].pc \in {"update", "release"} /\ Others(r) /\ th'[r].pc \in {"pass", "idle"}
    BY <1>3, PassMoves DEF IdleThread
  <2> QED
    BY <1>0, <1>b, <2>1, <2>2 DEF Holds
<1>4. CASE RecoverClaim(r)
  <2>1. CASE Unavailable(Mine(r), th[r].journal)
    <3>1. Defer(r) /\ UNCHANGED attempt
      BY <1>4, <2>1 DEF RecoverClaim
    <3>2. Others(r) /\ th'[r].pc = "pass"
      BY <1>0, <3>1 DEF Defer, TInv, Threads, ThreadRec, Others
    <3> QED
      BY <1>0, <1>a, <3>1, <3>2 DEF Holds
  <2>2. CASE ~Unavailable(Mine(r), th[r].journal)
    <3> DEFINE p == IF th[r].journal = <<>> THEN "update" ELSE "claimed"
               good == ~(th[r].journal = <<>> /\ th[r].result.changed /\ ~th[r].result.checkpoint)
    <3>1. /\ attempt' = ClaimedBy(Mine(r)) /\ ~attempt[Mine(r)].live
          /\ th[r].pc = "loaded"
          /\ th' = [th EXCEPT ![r].token = attempt[Mine(r)].token + 1, ![r].pc = p,
                              ![r].ok = good]
      BY <1>4, <2>2 DEF RecoverClaim, Unavailable
    <3> HIDE DEF p, good
    <3>2. /\ Others(r) /\ th'[r].order = th[r].order
          /\ th'[r].token = attempt[Mine(r)].token + 1
      BY <1>0, <3>1 DEF TInv, Threads, ThreadRec, Others
    <3>3. Mine(r) \in Order
      BY <1>0, <3>1 DEF TInv, Places, Placed, Mine, Dealing
    <3> QED
      BY <1>0, <3>1, <3>2, <3>3, OwnersClaim
  <2> QED
    BY <2>1, <2>2
<1>5. CASE Cleanup(r)
  <2>1. /\ th[r].pc = "cleanup" /\ th'[r].pc = "cleanup" /\ Others(r)
    BY <1>5, PassMoves
  <2>2. ~Holds(r)'
    BY <1>0, <2>1 DEF Holds
  <2>3. PICK o \in th[r].rows :
           \/ UNCHANGED attempt
           \/ ~attempt[o].live /\ attempt' = [attempt EXCEPT ![o].token = @ + 1]
    BY <1>5 DEF Cleanup
  <2>4. CASE UNCHANGED attempt
    BY <1>a, <2>1, <2>2, <2>4
  <2>5. CASE ~attempt[o].live /\ attempt' = [attempt EXCEPT ![o].token = @ + 1]
    <3>1. o \in Order
      BY <1>0, <2>1 DEF TInv, Places, Placed
    <3>2. \A q \in Order \ {o} : attempt'[q] = attempt[q]
      BY <2>5, <3>1 DEF TInv, Tables
    <3>3. ASSUME NEW t \in Thread, Holds(t)'
          PROVE  /\ Holds(t) /\ Mine(t) # o /\ th'[t].order = th[t].order
                 /\ th'[t].token = th[t].token
      <4>1. t # r /\ th'[t] = th[t]
        BY <2>1, <2>2, <3>3 DEF Others
      <4>2. Holds(t)
        BY <3>3, <4>1 DEF Holds
      <4> QED
        BY <2>5, <4>1, <4>2 DEF Owners, Own
    <3> QED
      BY <3>1, <3>2, <3>3, OwnersFreed
  <2> QED
    BY <2>3, <2>4, <2>5
<1> QED
  BY <1>1, <1>2, <1>3, <1>4, <1>5 DEF RecoveryStep

\* The steps inside commit_guard
LEMMA RestoreMoves ==
    ASSUME TInv, NEW t \in Thread
    PROVE  /\ WriteFile(t) => /\ th'[t].pc = th[t].pc /\ th'[t].start = th[t].start
                              /\ th[t].pc \in {"apply", "unapply", "restore"}
                              /\ Still(t) /\ Others(t)
           /\ Checkpoint(t) => /\ th[t].pc = "restore" /\ th[t].todo = Nothing
                               /\ Still(t) /\ Others(t)
                               /\ \/ th'[t].pc = "clear" /\ th'[t].todo = Nothing
                                  \/ /\ t \in Worker
                                     /\ row[Mine(t)].state \notin Transient
                                     /\ \/ th'[t].pc = "raise"
                                        \/ th'[t].pc = "ending" /\
                                              th'[t].goal \in {"failed", "cancelled"}
                                  \/ t \notin Worker /\ th'[t].pc = "update" /\ ~th'[t].ok
           /\ ClearJournal(t) => /\ th[t].pc = "clear" /\ Others(t)
                                 /\ th'[t].pc = IF t \in Worker THEN "ending" ELSE "update"
                                 /\ th'[t].order = th[t].order /\ th'[t].token = th[t].token
                                 /\ th'[t].journal = <<>>
<1>1. WriteFile(t) => /\ th'[t].pc = th[t].pc /\ th'[t].start = th[t].start
                      /\ th[t].pc \in {"apply", "unapply", "restore"} /\ Still(t) /\ Others(t)
  <2> SUFFICES ASSUME WriteFile(t)
               PROVE  /\ th'[t].pc = th[t].pc /\ th'[t].start = th[t].start
                      /\ Still(t) /\ Others(t)
    BY DEF WriteFile
  <2>1. PICK new : th' = [th EXCEPT ![t].todo = new]
    BY DEF WriteFile
  <2> QED
    BY <2>1 DEF TInv, Threads, ThreadRec, Still, Others
<1>2. ASSUME Checkpoint(t)
      PROVE  /\ th[t].pc = "restore" /\ th[t].todo = Nothing /\ Still(t) /\ Others(t)
             /\ \/ th'[t].pc = "clear" /\ th'[t].todo = Nothing
                \/ /\ t \in Worker
                   /\ row[Mine(t)].state \notin Transient
                   /\ \/ th'[t].pc = "raise"
                      \/ th'[t].pc = "ending" /\ th'[t].goal \in {"failed", "cancelled"}
                \/ t \notin Worker /\ th'[t].pc = "update" /\ ~th'[t].ok
  <2>1. /\ th[t].pc = "restore" /\ th[t].todo = Nothing
        /\ \/ Go(t, "clear")
           \/ row[Mine(t)].state \notin Transient /\ th' = AfterFailedRestore(t)
    BY <1>2 DEF Checkpoint
  <2> QED
    BY <2>1, Goes, FailedRestoreMoves
<1>3. ASSUME ClearJournal(t)
      PROVE  /\ th[t].pc = "clear" /\ Others(t)
             /\ th'[t].pc = IF t \in Worker THEN "ending" ELSE "update"
             /\ th'[t].order = th[t].order /\ th'[t].token = th[t].token
             /\ th'[t].journal = <<>>
  <2> DEFINE p == IF t \in Worker THEN "ending" ELSE "update"
             e == th[t].edited /\ ~Own(t)
             k == Own(t)
  <2>1. th[t].pc = "clear"
    BY <1>3 DEF ClearJournal
  <2>2. th' = [th EXCEPT ![t].pc = p, ![t].journal = <<>>, ![t].edited = e, ![t].ok = k]
    BY <1>3 DEF ClearJournal, TInv, Threads
  <2> HIDE DEF p, e, k
  <2>3. /\ Others(t) /\ th'[t].pc = p /\ th'[t].order = th[t].order
        /\ th'[t].token = th[t].token /\ th'[t].journal = <<>>
    BY <2>2 DEF TInv, Threads, ThreadRec, Others
  <2> QED
    BY <2>1, <2>3 DEF p
<1> QED
  BY <1>1, <1>2, <1>3

\* Restoring files changes no claim.
LEMMA OwnersRestore ==
    ASSUME TInv, Owners, NEW t \in Thread, RestoreStep(t)
    PROVE  Owners'
<1>1. UNCHANGED attempt
  BY DEF RestoreStep, WriteFile, Checkpoint, ClearJournal, fence
<1>2. /\ th[t].pc \in Inside /\ Others(t)
      /\ th'[t].order = th[t].order /\ th'[t].token = th[t].token
  BY RestoreMoves DEF RestoreStep, Still, Inside
<1>3. Holds(t)
  <2>1. t \in Worker \/ (t \in Recoverer /\ th[t].pc \in PassPcs)
    BY DEF TInv, Places, Placed, Thread
  <2> QED
    BY <1>2, <2>1 DEF Holds, Inside, PassPcs
<1>4. ASSUME NEW u \in Thread, Holds(u)'
      PROVE  /\ Holds(u) /\ th'[u].order = th[u].order /\ th'[u].token = th[u].token
  BY <1>2, <1>3, <1>4 DEF Others, Holds
<1> QED
  BY <1>1, <1>4, OwnersKept

\* Under Prompt an attempt lapses only when nobody works under it.
LEMMA OwnersOutside ==
    ASSUME TInv, Owners, Prompt,
           \/ \E o \in Order : Submit(o) \/ Cancel(o) \/ Continue(o) \/ ExpireAttempt(o)
           \/ \E i \in Instance : Start(i) \/ Crash(i) \/ Close(i) \/ Stopped(i)
           \/ \E f \in File : ExpireLease(f)
           \/ UNCHANGED vars
    PROVE  Owners'
<1>1. ASSUME NEW o \in Order, ExpireAttempt(o)
      PROVE  Owners'
  <2>1. /\ UNCHANGED th /\ attempt' = [attempt EXCEPT ![o].live = FALSE]
        /\ \A t \in Thread : Mine(t) # o
    BY <1>1 DEF ExpireAttempt, Engaged
  <2>2. \A q \in Order \ {o} : attempt'[q] = attempt[q]
    BY <2>1 DEF TInv, Tables
  <2> QED
    BY <2>1, <2>2, OwnersFreed DEF Holds
<1>2. ASSUME NEW i \in Instance, Crash(i)
      PROVE  Owners'
  <2>1. /\ UNCHANGED attempt
        /\ \A t \in Thread : IF Host[t] = i THEN th'[t] = IdleThread ELSE th'[t] = th[t]
    BY <1>2 DEF Crash
  <2>2. \A t \in Thread : Holds(t)' => Holds(t) /\ th'[t] = th[t]
    BY <2>1 DEF Holds, IdleThread
  <2> QED
    BY <2>1, <2>2, OwnersKept
<1>3. ASSUME UNCHANGED <<attempt, th>>
      PROVE  Owners'
  BY <1>3, OwnersKept DEF Holds
<1> QED
  BY <1>1, <1>2, <1>3 DEF Submit, Cancel, Continue, Start, Close, Stopped, ExpireLease, vars,
     disk, env, fence

\* Owners is kept by every step.
LEMMA OwnersNext ==
    ASSUME TInv, Owners, Prompt, [Next]_vars
    PROVE  Owners'
BY OwnersWorker, OwnersPass, OwnersRestore, OwnersOutside DEF Next

-----------------------------------------------------------------------------
(* Advisory leases *)

Repairing == {"claimed", "restore", "clear"}

\* The files of a journal that may be restored are leased to its order.
WorkLeased(w) == \A f \in FilesOf(th[w].journal) : lease[f] = Working(Mine(w))
RepairLeased(r) ==
    th[r].pc \in Repairing => \A f \in FilesOf(th[r].journal) : lease[f] = Recovering(Mine(r))
Leased == (\A w \in Worker : WorkLeased(w)) /\ (\A r \in Recoverer : RepairLeased(r))

\* Holders are told apart.
LEMMA HoldersDiffer ==
    \A o, p \in Order : /\ Working(o) # None /\ Recovering(o) # None
                        /\ Working(o) # Recovering(p)
                        /\ Working(o) = Working(p) => o = p
                        /\ Recovering(o) = Recovering(p) => o = p
                        /\ Working(o)[1] = o /\ Recovering(o)[1] = o
<1> TAKE o, p \in Order
<1>1. Working(o) \in Order \X {"work", "recovery"} /\ Recovering(o) \in Order \X {"work", "recovery"}
  BY DEF Working, Recovering
<1>2. Working(o) # None /\ Recovering(o) # None
  BY <1>1, ThreadAssumption
<1>3. /\ Working(o) # Recovering(p)
      /\ Working(o) = Working(p) => o = p
      /\ Recovering(o) = Recovering(p) => o = p
      /\ Working(o)[1] = o /\ Recovering(o)[1] = o
  BY DEF Working, Recovering
<1> QED
  BY <1>2, <1>3

\* Files of journals are files, and the orders in progress are orders.
LEMMA ThreadFiles ==
    ASSUME TInv
    PROVE  /\ \A t \in Thread : FilesOf(th[t].journal) \subseteq File
           /\ \A w \in Worker : th[w].pc # "idle" => Mine(w) \in Order
           /\ \A r \in Recoverer : th[r].pc \in Dealing => Mine(r) \in Order
<1>1. ASSUME NEW t \in Thread
      PROVE  FilesOf(th[t].journal) \subseteq File
  <2>1. th[t].journal \in Journals
    BY DEF TInv, Threads, ThreadRec
  <2> QED
    BY <2>1, JournalIndices DEF FilesOf, Entry
<1>2. \A t \in Thread : Placed(t, th[t])
  BY DEF TInv, Places
<1> QED
  BY <1>1, <1>2 DEF Placed, Mine, Thread

\* An empty journal names no file.
LEMMA NoFiles == FilesOf(<<>>) = {}
BY DEF FilesOf

\* The part of the journal before the current patch, and the patch
LEMMA SplitFiles ==
    ASSUME NEW j \in Journals, NEW n \in 0..Len(j)
    PROVE  /\ FilesOf(SubSeq(j, 1, n)) \subseteq FilesOf(j)
           /\ FilesOf(SubSeq(j, n + 1, Len(j))) = {j[k].file : k \in n + 1..Len(j)}
<1> DEFINE a == SubSeq(j, 1, n)
           b == SubSeq(j, n + 1, Len(j))
<1>1. /\ a \in Journals /\ b \in Journals /\ Len(a) = n /\ Len(b) = Len(j) - n
      /\ \A k \in 1..n : a[k] = j[k]
      /\ \A k \in 1..(Len(j) - n) : b[k] = j[n + k]
  BY PartShape
<1>2. /\ DOMAIN a = 1..n /\ DOMAIN b = 1..(Len(j) - n)
      /\ Len(j) \in Nat /\ n \in Nat /\ DOMAIN j = 1..Len(j)
  BY <1>1, JournalIndices
<1> HIDE DEF a, b
<1>3. FilesOf(a) \subseteq FilesOf(j)
  BY <1>1, <1>2 DEF FilesOf
<1>4. ASSUME NEW k \in DOMAIN b
      PROVE  b[k].file \in {j[l].file : l \in n + 1..Len(j)}
  <2>1. n + k \in n + 1..Len(j) /\ b[k] = j[n + k]
    BY <1>1, <1>2
  <2> QED
    BY <2>1
<1>5. ASSUME NEW l \in n + 1..Len(j)
      PROVE  j[l].file \in {b[k].file : k \in DOMAIN b}
  <2>1. l - n \in DOMAIN b /\ n + (l - n) = l
    BY <1>2
  <2>2. b[l - n] = j[l]
    BY <1>1, <1>2, <2>1
  <2> QED
    BY <2>1, <2>2
<1>6. FilesOf(b) = {j[k].file : k \in n + 1..Len(j)}
  BY <1>4, <1>5 DEF FilesOf
<1> QED
  BY <1>3, <1>6 DEF a, b

\* A patch adds its files to the journal.
LEMMA PatchFiles ==
    ASSUME TInv, NEW w \in Worker, th[w].pc # "idle", patches < MaxPatches,
           NEW P \in SUBSET File
    PROVE  FilesOf(Extended(w, P)) \subseteq FilesOf(th[w].journal) \cup P
<1> DEFINE j == Extended(w, P)
           m == Len(th[w].journal)
<1>1. /\ m \in Nat /\ j \in Journals /\ Len(j) >= m
      /\ \A k \in 1..m : j[k] = th[w].journal[k]
      /\ \A k \in m + 1..Len(j) : j[k].file \in P
  BY PatchShape
<1>2. DOMAIN j = 1..Len(j) /\ Len(j) \in Nat
  BY <1>1, JournalIndices
<1>3. th[w].journal \in Journals
  BY DEF TInv, Threads, ThreadRec, Thread
<1>4. DOMAIN th[w].journal = 1..m
  BY <1>3, JournalIndices
<1> HIDE DEF j, m
<1>5. \A k \in DOMAIN j : k \in 1..m \/ k \in m + 1..Len(j)
  BY <1>1, <1>2
<1>6. FilesOf(j) \subseteq FilesOf(th[w].journal) \cup P
  BY <1>1, <1>4, <1>5 DEF FilesOf
<1> QED
  BY <1>6 DEF j

\* What the steps under commit_guard do
LEMMA CommitMoves ==
    ASSUME TInv, Owners, NEW w \in Worker
    PROVE  /\ Patched(w) => /\ th[w].pc = "apply" /\ th[w].todo = Nothing
                            /\ th'[w].pc \in {"body", "verify"} /\ Still(w) /\ Others(w)
                            /\ UNCHANGED <<row, file, journal, attempt, lease, patches>>
           /\ ApplyFails(w) => /\ th[w].pc = "apply" /\ th'[w].pc = "unapply"
                               /\ th'[w].todo = RestorePlan(Added(w))
                               /\ th'[w].start = th[w].start /\ Still(w) /\ Others(w)
                               /\ UNCHANGED <<row, file, journal, attempt, lease, patches>>
           /\ Unapplied(w) => /\ th[w].pc = "unapply" /\ th[w].todo = Nothing
                              /\ th'[w].pc \in {"body", "verify"} /\ Others(w)
                              /\ th'[w].order = th[w].order /\ th'[w].journal = Earlier(w)
                              /\ journal' = [journal EXCEPT ![Mine(w)] = Earlier(w)]
                              /\ lease' = WithoutPatch(w)
                              /\ UNCHANGED <<row, file, attempt, patches>>
           /\ Rollback(w) => /\ th[w].pc = "rollback" /\ th'[w].pc = "restore"
                             /\ th'[w].todo = RestorePlan(th[w].journal)
                             /\ Restorable(th[w].journal) /\ Still(w) /\ Others(w)
                             /\ UNCHANGED <<row, file, journal, attempt, lease, patches>>
           /\ ClearDelivered(w) => /\ th[w].pc = "delivered" /\ th'[w].pc = "release"
                                   /\ Still(w) /\ Others(w)
                                   /\ journal' \in {journal, [journal EXCEPT ![Mine(w)] = <<>>]}
                                   /\ UNCHANGED <<row, file, attempt, lease, patches>>
           /\ DropJournal(w) => /\ th[w].pc = "rollback" /\ th'[w].pc = "ending"
                                /\ th[w].journal = <<>> \/ Keeps(Mine(w))
                                /\ th'[w].goal = th[w].goal /\ Still(w) /\ Others(w)
                                /\ journal' = [journal EXCEPT ![Mine(w)] = <<>>]
                                /\ UNCHANGED <<row, file, attempt, lease, patches>>
<1> USE DEF TInv, Threads, ThreadRec, Others, Still, fence, env, disk
<1>0. w \in Thread
  BY DEF Thread
<1>1. ASSUME Patched(w)
      PROVE  /\ th[w].pc = "apply" /\ th[w].todo = Nothing
             /\ th'[w].pc \in {"body", "verify"} /\ Still(w) /\ Others(w)
             /\ UNCHANGED <<row, file, journal, attempt, lease, patches>>
  <2>1. Own(w)
    BY <1>0, <1>1 DEF Patched, Owners, Holds
  <2> QED
    BY <1>0, <1>1, <2>1 DEF Patched
<1>2. ASSUME ApplyFails(w)
      PROVE  /\ th[w].pc = "apply" /\ th'[w].pc = "unapply"
             /\ th'[w].todo = RestorePlan(Added(w))
             /\ th'[w].start = th[w].start /\ Still(w) /\ Others(w)
             /\ UNCHANGED <<row, file, journal, attempt, lease, patches>>
  BY <1>0, <1>2 DEF ApplyFails
<1>3. ASSUME Unapplied(w)
      PROVE  /\ th[w].pc = "unapply" /\ th[w].todo = Nothing
             /\ th'[w].pc \in {"body", "verify"} /\ Others(w)
             /\ th'[w].order = th[w].order /\ th'[w].journal = Earlier(w)
             /\ journal' = [journal EXCEPT ![Mine(w)] = Earlier(w)]
             /\ lease' = WithoutPatch(w)
             /\ UNCHANGED <<row, file, attempt, patches>>
  BY <1>0, <1>3 DEF Unapplied
<1>4. ASSUME Rollback(w)
      PROVE  /\ th[w].pc = "rollback" /\ th'[w].pc = "restore"
             /\ th'[w].todo = RestorePlan(th[w].journal)
             /\ Restorable(th[w].journal) /\ Still(w) /\ Others(w)
             /\ UNCHANGED <<row, file, journal, attempt, lease, patches>>
  BY <1>0, <1>4 DEF Rollback
<1>5. ASSUME ClearDelivered(w)
      PROVE  /\ th[w].pc = "delivered" /\ th'[w].pc = "release" /\ Still(w) /\ Others(w)
             /\ journal' \in {journal, [journal EXCEPT ![Mine(w)] = <<>>]}
             /\ UNCHANGED <<row, file, attempt, lease, patches>>
  BY <1>0, <1>5, Goes DEF ClearDelivered
<1>6. ASSUME DropJournal(w)
      PROVE  /\ th[w].pc = "rollback" /\ th'[w].pc = "ending"
             /\ th[w].journal = <<>> \/ Keeps(Mine(w))
             /\ th'[w].goal = th[w].goal /\ Still(w) /\ Others(w)
             /\ journal' = [journal EXCEPT ![Mine(w)] = <<>>]
             /\ UNCHANGED <<row, file, attempt, lease, patches>>
  BY <1>0, <1>6, Goes DEF DropJournal, KeepsEdits
<1> QED
  BY <1>1, <1>2, <1>3, <1>4, <1>5, <1>6

\* A worker leaves a file to others only when it needs it no more.
LEMMA LeasedWorker ==
    ASSUME TInv, History, Owners, Alone, Leased, NEW w \in Worker, WorkerStep(w)
    PROVE  Leased'
<1>0. /\ w \in Thread /\ \A v \in Worker : v = w
      /\ \A r \in Recoverer : r \in Thread \ {w}
  BY ThreadAssumption DEF Thread, Alone
<1>t. TInv'
  BY NextTypes DEF Next
<1>a. ASSUME Others(w), WorkLeased(w)',
             \A f \in File, o \in Order : lease[f] = Recovering(o) => lease'[f] = lease[f]
      PROVE  Leased'
  <2>1. ASSUME NEW r \in Recoverer
        PROVE  RepairLeased(r)'
    <3>1. th'[r] = th[r] /\ RepairLeased(r)
      BY <1>0, <1>a DEF Others, Leased
    <3>2. th[r].pc \in Repairing => FilesOf(th[r].journal) \subseteq File /\ Mine(r) \in Order
      BY <1>0, ThreadFiles DEF Repairing, Dealing
    <3> QED
      BY <1>a, <3>1, <3>2 DEF RepairLeased, Mine
  <2> QED
    BY <1>0, <1>a, <2>1 DEF Leased
<1>b. ASSUME Others(w), UNCHANGED lease, th'[w].order = th[w].order \/ th'[w].journal = <<>>,
             th'[w].journal \in {th[w].journal, <<>>}
      PROVE  Leased'
  <2>1. WorkLeased(w)'
    BY <1>b, NoFiles DEF WorkLeased, Leased, Mine
  <2> QED
    BY <1>a, <1>b, <2>1
<1>1. CASE Quiet(w)
  BY <1>1, <1>b, QuietMoves DEF Still
<1>2. CASE Leaves(w)
  BY <1>2, <1>b, LeavesMoves DEF IdleThread
<1>3. CASE Next_(w)
  <2>1. UNCHANGED lease /\ th[w].pc = "idle"
    BY <1>3 DEF Next_, fence
  <2>2. Others(w) /\ th'[w].journal = th[w].journal
    BY <1>0, <1>3 DEF Next_, TInv, Threads, ThreadRec, Others
  <2>3. th[w].journal = <<>>
    BY <1>0, <2>1 DEF History, Kept
  <2> QED
    BY <1>b, <2>1, <2>2, <2>3
<1>4. CASE ClaimAttempt(w) /\ ~attempt[Mine(w)].live
  <2>1. /\ UNCHANGED lease
        /\ th' = [th EXCEPT ![w].pc = "begin", ![w].token = attempt[Mine(w)].token + 1]
    BY <1>4 DEF ClaimAttempt
  <2>2. Others(w) /\ th'[w].order = th[w].order /\ th'[w].journal = th[w].journal
    BY <1>0, <2>1 DEF TInv, Threads, ThreadRec, Others
  <2> QED
    BY <1>b, <2>1, <2>2
<1>5. CASE Patch(w)
  <2>1. /\ th[w].pc \in {"body", "verify"} /\ patches < MaxPatches /\ Others(w)
    BY <1>5, PatchMoves
  <2>2. PICK P \in (SUBSET File) \ {{}} : Patches(w, P)
    BY <1>5, PatchMoves
  <2>3. Mine(w) \in Order /\ th'[w].order = th[w].order /\ th'[w].journal = Extended(w, P)
    BY <2>1, <2>2, ThreadFiles DEF Patches
  <2>4. /\ \A f \in P : lease[f] \in {None, Working(Mine(w))}
        /\ lease' = [f \in File |-> IF f \in P THEN Working(Mine(w)) ELSE lease[f]]
    BY <2>2 DEF Patches
  <2>5. \A f \in File, o \in Order : lease[f] = Recovering(o) => lease'[f] = lease[f]
    BY <2>3, <2>4, HoldersDiffer
  <2>6. FilesOf(Extended(w, P)) \subseteq FilesOf(th[w].journal) \cup P
    BY <2>1, PatchFiles
  <2>7. FilesOf(th[w].journal) \subseteq File
    BY <1>0, ThreadFiles
  <2>8. WorkLeased(w)'
    BY <2>3, <2>4, <2>6, <2>7 DEF WorkLeased, Leased, Mine
  <2> QED
    BY <1>a, <2>1, <2>5, <2>8
<1>6. CASE Patched(w) \/ ApplyFails(w) \/ ClearDelivered(w) \/ DropJournal(w) \/ Rollback(w)
  BY <1>6, <1>b, CommitMoves DEF Still
<1>7. CASE Unapplied(w)
  <2>1. /\ th[w].pc = "unapply" /\ Others(w) /\ th'[w].order = th[w].order
        /\ th'[w].journal = Earlier(w) /\ lease' = WithoutPatch(w)
    BY <1>7, CommitMoves
  <2>2. Mine(w) \in Order
    BY <2>1, ThreadFiles
  <2>3. \A f \in File, o \in Order : lease[f] = Recovering(o) => lease'[f] = lease[f]
    BY <2>1, <2>2, HoldersDiffer DEF WithoutPatch
  <2>4. FilesOf(Earlier(w)) \subseteq FilesOf(th[w].journal)
    <3>1. Placed(w, th[w]) /\ th[w].journal \in Journals
      BY <1>0 DEF TInv, Places, Threads, ThreadRec
    <3>2. th[w].start \in 0..Len(th[w].journal)
      BY <2>1, <3>1 DEF Placed
    <3> QED
      BY <3>1, <3>2, SplitFiles DEF Earlier
  <2>5. FilesOf(th[w].journal) \subseteq File
    BY <1>0, ThreadFiles
  <2>6. WorkLeased(w)'
    BY <2>1, <2>4, <2>5 DEF WorkLeased, Leased, Mine, WithoutPatch
  <2> QED
    BY <1>a, <2>1, <2>3, <2>6
<1>8. CASE Release(w)
  <2>1. /\ th[w].pc = "release" /\ Others(w) /\ th'[w] = IdleThread
        /\ lease' = Without(Working(Mine(w)))
    BY <1>0, <1>8, Rests DEF Release
  <2>2. Mine(w) \in Order
    BY <2>1, ThreadFiles
  <2>3. \A f \in File, o \in Order : lease[f] = Recovering(o) => lease'[f] = lease[f]
    BY <2>1, <2>2, HoldersDiffer DEF Without
  <2>4. WorkLeased(w)'
    BY <2>1, NoFiles DEF WorkLeased, IdleThread
  <2> QED
    BY <1>a, <2>1, <2>3, <2>4
<1> QED
  BY <1>1, <1>2, <1>3, <1>4, <1>5, <1>6, <1>7, <1>8 DEF WorkerStep, Quiet, Leaves

\* What a claim of a recovery pass does
LEMMA ClaimMoves ==
    ASSUME TInv, NEW r \in Recoverer, RecoverClaim(r)
    PROVE  /\ th[r].pc = "loaded" /\ Others(r) /\ th'[r].journal = th[r].journal
           /\ lock = None /\ UNCHANGED <<row, file, journal, patches, lock>>
           /\ \/ th'[r].pc = "pass" /\ UNCHANGED <<attempt, lease>>
              \/ /\ ~Unavailable(Mine(r), th[r].journal)
                 /\ attempt' = ClaimedBy(Mine(r))
                 /\ lease' = [f \in File |-> IF f \in FilesOf(th[r].journal)
                                             THEN Recovering(Mine(r)) ELSE lease[f]]
                 /\ th'[r].order = th[r].order
                 /\ th'[r].pc = IF th[r].journal = <<>> THEN "update" ELSE "claimed"
<1> USE DEF TInv, Threads, ThreadRec, Others, disk, env
<1>0. r \in Thread
  BY DEF Thread
<1>1. /\ th[r].pc = "loaded" /\ lock = None
      /\ UNCHANGED <<row, file, journal, patches, lock>>
  BY DEF RecoverClaim
<1>2. CASE Unavailable(Mine(r), th[r].journal)
  <2>1. Defer(r) /\ UNCHANGED <<attempt, lease>>
    BY <1>2 DEF RecoverClaim
  <2>2. th'[r].pc = "pass" /\ Others(r) /\ th'[r].journal = th[r].journal
    BY <1>0, <2>1 DEF Defer
  <2> QED
    BY <1>1, <2>1, <2>2
<1>3. CASE ~Unavailable(Mine(r), th[r].journal)
  <2> DEFINE p == IF th[r].journal = <<>> THEN "update" ELSE "claimed"
             good == ~(th[r].journal = <<>> /\ th[r].result.changed /\ ~th[r].result.checkpoint)
             n == attempt[Mine(r)].token + 1
  <2>1. /\ attempt' = ClaimedBy(Mine(r))
        /\ lease' = [f \in File |-> IF f \in FilesOf(th[r].journal)
                                    THEN Recovering(Mine(r)) ELSE lease[f]]
        /\ th' = [th EXCEPT ![r].token = n, ![r].pc = p, ![r].ok = good]
    BY <1>3 DEF RecoverClaim
  <2> HIDE DEF p, good, n
  <2>2. /\ Others(r) /\ th'[r].order = th[r].order /\ th'[r].pc = p
        /\ th'[r].journal = th[r].journal
    BY <1>0, <2>1
  <2> QED
    BY <1>1, <1>3, <2>1, <2>2 DEF p
<1> QED
  BY <1>2, <1>3

\* A worker with a journal has an order.
LEMMA WorkFiles ==
    ASSUME TInv, History, NEW w \in Worker, NEW f \in FilesOf(th[w].journal)
    PROVE  f \in File /\ Mine(w) \in Order
<1>1. w \in Thread
  BY DEF Thread
<1>2. th[w].pc # "idle"
  BY <1>1, NoFiles DEF History, Kept
<1> QED
  BY <1>1, <1>2, ThreadFiles

\* Recovery claims the files of the journal it found before it restores them.
LEMMA LeasedPass ==
    ASSUME TInv, History, Owners, Alone, Leased, NEW r \in Recoverer, RecoveryStep(r)
    PROVE  Leased'
<1>0. /\ r \in Thread /\ \A q \in Recoverer : q = r
      /\ \A w \in Worker : w \in Thread \ {r}
  BY ThreadAssumption DEF Thread, Alone
<1>a. ASSUME Others(r), RepairLeased(r)',
             \A w \in Worker : \A f \in FilesOf(th[w].journal) : lease'[f] = lease[f]
      PROVE  Leased'
  <2>1. ASSUME NEW w \in Worker
        PROVE  WorkLeased(w)'
    <3>1. th'[w] = th[w] /\ WorkLeased(w)
      BY <1>0, <1>a DEF Others, Leased
    <3> QED
      BY <1>a, <3>1 DEF WorkLeased, Mine
  <2> QED
    BY <1>0, <1>a, <2>1 DEF Leased
<1>b. ASSUME Others(r), UNCHANGED lease, th'[r].pc \notin Repairing
      PROVE  Leased'
  BY <1>a, <1>b DEF RepairLeased
<1>1. CASE \/ StartPass(r) \/ LoadJournal(r) \/ RecoverBusy(r) \/ StartCleanup(r) \/ EndPass(r)
           \/ RecoverUpdate(r) \/ RecoverLost(r) \/ RecoverAborts(r) \/ RecoverRelease(r)
           \/ Cleanup(r)
  <2>1. UNCHANGED lease
    BY <1>1 DEF StartPass, LoadJournal, RecoverBusy, StartCleanup, EndPass, RecoverUpdate,
       RecoverLost, RecoverAborts, RecoverRelease, Cleanup, fence
  <2>2. Others(r) /\ th'[r].pc \notin Repairing
    BY <1>1, PassMoves DEF IdleThread, Repairing
  <2> QED
    BY <1>b, <2>1, <2>2
<1>2. CASE RecoverClaim(r)
  <2>1. /\ th[r].pc = "loaded" /\ Others(r) /\ th'[r].journal = th[r].journal
        /\ \/ th'[r].pc = "pass" /\ UNCHANGED lease
           \/ /\ ~Unavailable(Mine(r), th[r].journal)
              /\ lease' = [f \in File |-> IF f \in FilesOf(th[r].journal)
                                          THEN Recovering(Mine(r)) ELSE lease[f]]
              /\ th'[r].order = th[r].order
    BY <1>2, ClaimMoves
  <2>2. CASE th'[r].pc = "pass" /\ UNCHANGED lease
    BY <1>b, <2>1, <2>2 DEF Repairing
  <2>3. CASE /\ ~Unavailable(Mine(r), th[r].journal)
             /\ lease' = [f \in File |-> IF f \in FilesOf(th[r].journal)
                                         THEN Recovering(Mine(r)) ELSE lease[f]]
             /\ th'[r].order = th[r].order
    <3>1. Mine(r) \in Order /\ FilesOf(th[r].journal) \subseteq File
      BY <1>0, <2>1, ThreadFiles DEF Dealing
    <3>2. RepairLeased(r)'
      BY <2>1, <2>3, <3>1 DEF RepairLeased, Mine
    <3>3. ASSUME NEW w \in Worker, NEW f \in FilesOf(th[w].journal)
          PROVE  lease'[f] = lease[f]
      <4>1. f \in File /\ Mine(w) \in Order /\ lease[f] = Working(Mine(w))
        BY WorkFiles DEF Leased, WorkLeased
      <4>2. f \notin FilesOf(th[r].journal)
        BY <2>3, <3>1, <4>1, HoldersDiffer DEF Unavailable
      <4> QED
        BY <2>3, <4>1, <4>2
    <3> QED
      BY <1>a, <2>1, <3>2, <3>3
  <2> QED
    BY <2>1, <2>2, <2>3
<1>3. CASE RecoverRestore(r)
  <2>1. UNCHANGED lease
    BY <1>3 DEF RecoverRestore
  <2>2. Others(r) /\ Still(r) /\ th[r].pc \in Repairing
    BY <1>3, PassMoves DEF Repairing
  <2>3. RepairLeased(r)'
    BY <2>1, <2>2 DEF RepairLeased, Leased, Still, Mine
  <2> QED
    BY <1>a, <2>1, <2>2, <2>3
<1>4. CASE RecoverRefused(r)
  <2>1. lease' = Without(Recovering(Mine(r)))
    BY <1>4 DEF RecoverRefused
  <2>2. Others(r) /\ th'[r].pc \notin Repairing /\ th[r].pc = "claimed"
    BY <1>4, PassMoves DEF Repairing
  <2>3. Mine(r) \in Order
    BY <2>2, ThreadFiles DEF Dealing
  <2>4. ASSUME NEW w \in Worker, NEW f \in FilesOf(th[w].journal)
        PROVE  lease'[f] = lease[f]
    <3>1. f \in File /\ Mine(w) \in Order /\ lease[f] = Working(Mine(w))
      BY WorkFiles DEF Leased, WorkLeased
    <3> QED
      BY <2>1, <2>3, <3>1, HoldersDiffer DEF Without
  <2> QED
    BY <1>a, <2>2, <2>4 DEF RepairLeased
<1> QED
  BY <1>1, <1>2, <1>3, <1>4 DEF RecoveryStep

\* Restoring files changes no advisory lease.
LEMMA LeasedRestore ==
    ASSUME TInv, History, Owners, Alone, Leased, NEW t \in Thread, RestoreStep(t)
    PROVE  Leased'
<1> USE DEF RestoreStep
<1>1. /\ th[t].pc \in Inside /\ Others(t) /\ th'[t].order = th[t].order
      /\ th'[t].journal \in {th[t].journal, <<>>}
  BY RestoreMoves DEF Still, Inside
<1>2. Mine(t) \in Order /\ Holds(t)
  <2>1. Placed(t, th[t]) /\ th[t].pc \in Inside
    BY <1>1 DEF TInv, Places
  <2> QED
    BY <2>1 DEF Placed, Mine, Holds, Inside, Dealing, Thread, PassPcs
<1>3. \/ UNCHANGED lease /\ th'[t].journal = th[t].journal /\ (WriteFile(t) \/ Checkpoint(t))
      \/ lease' = Without(Recovering(Mine(t))) /\ (t \notin Worker => th'[t].pc \notin Repairing)
  <2>1. CASE WriteFile(t)
    BY <2>1, RestoreMoves DEF WriteFile, fence, Still
  <2>2. CASE ClearJournal(t)
    <3>1. lease' = Without(Recovering(Mine(t)))
      BY <2>2 DEF ClearJournal
    <3>2. t \notin Worker => th'[t].pc = "update"
      BY <2>2, RestoreMoves
    <3> QED
      BY <3>1, <3>2 DEF Repairing
  <2>3. CASE Checkpoint(t) /\ row[Mine(t)].state \in Transient
    BY <2>3, RestoreMoves DEF Checkpoint, Still
  <2>4. CASE Checkpoint(t) /\ row[Mine(t)].state \notin Transient
    <3>1. lease' = Without(Recovering(Mine(t))) /\ th' = AfterFailedRestore(t)
      BY <2>4 DEF Checkpoint
    <3> QED
      BY <3>1, FailedRestoreMoves DEF Repairing
  <2> QED
    BY <2>1, <2>2, <2>3, <2>4
<1>4. \A f \in File, o \in Order : lease[f] = Working(o) => lease'[f] = lease[f]
  BY <1>2, <1>3, HoldersDiffer DEF Without
<1>5. ASSUME NEW w \in Worker
      PROVE  WorkLeased(w)'
  <2>1. th'[w].journal \in {th[w].journal, <<>>} /\ th'[w].order = th[w].order
    BY <1>1 DEF Others, Thread
  <2>2. \A f \in FilesOf(th[w].journal) : lease[f] = Working(Mine(w)) /\ lease'[f] = lease[f]
    BY <1>4, WorkFiles DEF Leased, WorkLeased
  <2> QED
    BY <2>1, <2>2, NoFiles DEF WorkLeased, Mine
<1>6. ASSUME NEW r \in Recoverer, r # t
      PROVE  RepairLeased(r)'
  <2>1. th'[r] = th[r] /\ RepairLeased(r)
    BY <1>1, <1>6 DEF Others, Leased, Thread
  <2>2. ASSUME th[r].pc \in Repairing, NEW f \in FilesOf(th[r].journal)
        PROVE  lease'[f] = lease[f]
    <3>1. Holds(r) /\ Mine(r) \in Order /\ f \in File
      BY <2>2, ThreadFiles DEF Holds, Repairing, Dealing, Thread
    <3>2. Mine(r) # Mine(t)
      BY <1>2, <1>6, <3>1 DEF Owners, Thread
    <3>3. lease[f] = Recovering(Mine(r))
      BY <2>1, <2>2 DEF RepairLeased
    <3> QED
      BY <1>2, <1>3, <3>1, <3>2, <3>3, HoldersDiffer DEF Without
  <2> QED
    BY <2>1, <2>2 DEF RepairLeased, Mine
<1>7. ASSUME t \in Recoverer
      PROVE  RepairLeased(t)'
  <2>1. t \notin Worker
    BY <1>7, ThreadAssumption
  <2>2. CASE th'[t].pc \notin Repairing
    BY <2>2 DEF RepairLeased
  <2>3. CASE UNCHANGED lease /\ th'[t].journal = th[t].journal /\ (WriteFile(t) \/ Checkpoint(t))
    <3>1. th[t].pc \in Repairing \/ th'[t].pc \notin Repairing
      BY <2>3, RestoreMoves DEF Repairing
    <3> QED
      BY <1>1, <1>7, <2>3, <3>1 DEF RepairLeased, Leased, Mine
  <2> QED
    BY <1>3, <2>1, <2>2, <2>3
<1> QED
  BY <1>5, <1>6, <1>7 DEF Leased

\* Under Prompt a lease lapses only when no thread relies on it.
LEMMA LeasedOutside ==
    ASSUME TInv, History, Alone, Leased,
           \/ \E o \in Order : Submit(o) \/ Cancel(o) \/ Continue(o) \/ ExpireAttempt(o)
           \/ \E i \in Instance : Start(i) \/ Crash(i) \/ Close(i) \/ Stopped(i)
           \/ \E f \in File : ExpireLease(f)
           \/ UNCHANGED vars
    PROVE  Leased'
<1>1. ASSUME UNCHANGED lease, \A t \in Thread : th'[t] \in {th[t], IdleThread}
      PROVE  Leased'
  <2>1. \A w \in Worker : WorkLeased(w)'
    BY <1>1, NoFiles DEF WorkLeased, Leased, Mine, IdleThread, Thread
  <2>2. \A r \in Recoverer : RepairLeased(r)'
    BY <1>1 DEF RepairLeased, Leased, Mine, IdleThread, Repairing, Thread
  <2> QED
    BY <2>1, <2>2 DEF Leased
<1>2. ASSUME NEW i \in Instance, Crash(i)
      PROVE  Leased'
  <2>1. UNCHANGED lease /\ \A t \in Thread : th'[t] \in {th[t], IdleThread}
    BY <1>2 DEF Crash
  <2> QED
    BY <1>1, <2>1
<1>3. ASSUME NEW g \in File, ExpireLease(g)
      PROVE  Leased'
  <2>1. /\ UNCHANGED th /\ lease' = [lease EXCEPT ![g] = None]
        /\ \A t \in Thread : Mine(t) # lease[g][1]
    BY <1>3 DEF ExpireLease, Engaged, Alone
  <2>2. ASSUME NEW w \in Worker, NEW f \in FilesOf(th[w].journal)
        PROVE  lease'[f] = lease[f]
    <3>1. f \in File /\ Mine(w) \in Order /\ lease[f] = Working(Mine(w))
      BY <2>2, WorkFiles DEF Leased, WorkLeased
    <3> QED
      BY <2>1, <3>1, HoldersDiffer DEF TInv, Tables, Thread
  <2>3. ASSUME NEW r \in Recoverer, th[r].pc \in Repairing, NEW f \in FilesOf(th[r].journal)
        PROVE  lease'[f] = lease[f]
    <3>1. f \in File /\ Mine(r) \in Order /\ lease[f] = Recovering(Mine(r))
      BY <2>3, ThreadFiles DEF Leased, RepairLeased, Repairing, Dealing, Thread
    <3> QED
      BY <2>1, <3>1, HoldersDiffer DEF TInv, Tables, Thread
  <2>4. \A w \in Worker : WorkLeased(w)'
    BY <2>1, <2>2 DEF WorkLeased, Leased, Mine
  <2>5. \A r \in Recoverer : RepairLeased(r)'
    BY <2>1, <2>3 DEF RepairLeased, Leased, Mine
  <2> QED
    BY <2>4, <2>5 DEF Leased
<1> QED
  BY <1>1, <1>2, <1>3 DEF Submit, Cancel, Continue, ExpireAttempt, Start, Close, Stopped, vars,
     disk, env, fence

\* Leased is kept by every step.
LEMMA LeasedNext ==
    ASSUME TInv, History, Owners, Alone, Leased, [Next]_vars
    PROVE  Leased'
BY LeasedWorker, LeasedPass, LeasedRestore, LeasedOutside DEF Next

-----------------------------------------------------------------------------
(* Journals and contents *)

\* What entry k of journal j finds in a workspace F
Finds(j, k, F) == IF Later(j, k) = {} THEN F[j[k].file] ELSE j[Min(Later(j, k))].pre

\* Nothing was written since the entries of j, except by themselves.
Intact(j, F) == \A k \in DOMAIN j : Finds(j, k, F) = j[k].post

\* The content that file f has in F, or gets when todo is written
Tip(todo, F, f) == IF f \in DOMAIN todo THEN todo[f] ELSE F[f]

\* The places at which the journal of a worker tells what is in its files
Matching(w) == \/ th[w].pc \in {"step", "body", "verify", "rollback", "delivered"}
               \/ th[w].pc = "ending" /\ th[w].goal \in {"partial", "needs_agent"}

\* A patch in progress: its entries come last, one for each file
Patchable(w) ==
    LET j == th[w].journal
        new == th[w].start + 1..Len(j)
    IN  /\ \A k \in 1..th[w].start : Finds(j, k, file) = j[k].post
        /\ \A k, l \in new : j[k].file = j[l].file => k = l
        /\ \A k \in new : Tip(th[w].todo, file, j[k].file) =
                             IF th[w].pc = "apply" THEN j[k].post ELSE j[k].pre
        /\ DOMAIN th[w].todo \subseteq {j[k].file : k \in new}

WorkLinked(w) ==
    /\ th[w].pc \in {"picked", "checked", "begin", "plan"} => th[w].journal = <<>>
    /\ Matching(w) => Intact(th[w].journal, file)
    /\ th[w].pc \in {"apply", "unapply"} => Patchable(w)

\* A rollback in progress: every file gets the content it had before the order.
RestLinked(t) ==
    th[t].pc \in {"restore", "clear"} =>
        /\ \A k \in DOMAIN th[t].journal : First(th[t].journal, k) =>
              Tip(th[t].todo, file, th[t].journal[k].file) = th[t].journal[k].pre
        /\ DOMAIN th[t].todo \subseteq FilesOf(th[t].journal)

Linked == (\A w \in Worker : WorkLinked(w)) /\ (\A t \in Thread : RestLinked(t))

\* Contents elsewhere do not matter to a journal.
LEMMA FindsLocal ==
    ASSUME NEW j, NEW F, NEW G, \A f \in FilesOf(j) : F[f] = G[f]
    PROVE  /\ \A k \in DOMAIN j : Finds(j, k, F) = Finds(j, k, G)
           /\ Intact(j, F) <=> Intact(j, G)
BY DEF Finds, Intact, FilesOf

\* Entries added over what is in their files hide nothing.
LEMMA FindsPrefix ==
    ASSUME NEW i \in Journals, NEW j \in Journals, NEW F, Len(i) <= Len(j),
           \A k \in 1..Len(i) : i[k] = j[k],
           \A k \in Len(i) + 1..Len(j) : j[k].pre = F[j[k].file],
           NEW k \in 1..Len(i)
    PROVE  Finds(j, k, F) = Finds(i, k, F)
<1> DEFINE n == Len(i)
           A == Later(i, k)
           B == Later(j, k)
<1>0. /\ n \in Nat /\ Len(j) \in Nat /\ DOMAIN i = 1..n /\ DOMAIN j = 1..Len(j)
      /\ k \in DOMAIN i /\ k \in DOMAIN j /\ i[k] = j[k]
  BY JournalIndices
<1>1. A \in SUBSET Nat /\ B \in SUBSET Nat
  BY <1>0 DEF Later
<1>2. A \subseteq B /\ \A l \in B : l <= n => l \in A
  BY <1>0 DEF Later
<1>3. \A l \in A : l <= n
  BY <1>0 DEF Later
<1>4. CASE A # {}
  <2>1. Min(A) \in A /\ \A m \in A : Min(A) <= m
    BY <1>1, <1>4, MinIndex
  <2>2. B # {}
    BY <1>2, <1>4
  <2>3. Min(B) \in B /\ \A m \in B : Min(B) <= m
    BY <1>1, <2>2, MinIndex
  <2>4. Min(A) \in B /\ Min(A) <= n
    BY <1>2, <1>3, <2>1
  <2>5. Min(B) <= Min(A) /\ Min(A) \in Nat /\ Min(B) \in Nat
    BY <1>1, <2>1, <2>3, <2>4
  <2>6. Min(B) \in A
    BY <1>0, <1>2, <2>3, <2>4, <2>5
  <2>7. Min(A) = Min(B)
    BY <2>1, <2>5, <2>6
  <2>8. i[Min(A)] = j[Min(A)]
    BY <1>0, <2>1 DEF Later
  <2> QED
    BY <1>4, <2>2, <2>7, <2>8 DEF Finds
<1>5. CASE A = {} /\ B = {}
  BY <1>0, <1>5 DEF Finds
<1>6. CASE A = {} /\ B # {}
  <2>1. Min(B) \in B
    BY <1>1, <1>6, MinIndex
  <2>2. Min(B) \in n + 1..Len(j) /\ j[Min(B)].file = j[k].file
    BY <1>0, <1>2, <1>6, <2>1 DEF Later
  <2> QED
    BY <1>0, <1>6, <2>2 DEF Finds
<1> QED
  BY <1>4, <1>5, <1>6

\* A rollback leads every file back to the preimage of its first entry: what it does
\* not write is there already.
LEMMA RestoreTips ==
    ASSUME NEW j \in Journals, NEW k \in DOMAIN j, First(j, k)
    PROVE  Tip(RestorePlan(j), file, j[k].file) = j[k].pre
<1> USE DEF Tip
<1> DEFINE f == j[k].file
<1>0. Len(j) \in Nat /\ DOMAIN j = 1..Len(j)
  BY JournalIndices
<1>1. CASE f \in DOMAIN RestorePlan(j)
  <2>1. PICK l \in DOMAIN j : j[l].file = f /\ First(j, l) /\ RestorePlan(j)[f] = j[l].pre
    BY <1>1, PlanFirst
  <2>2. l = k
    BY <1>0, <2>1 DEF First
  <2> QED
    BY <1>1, <2>1, <2>2
<1>2. CASE f \notin DOMAIN RestorePlan(j)
  <2> SUFFICES ASSUME file[f] # j[k].pre PROVE FALSE
    BY <1>2
  <2>0. DOMAIN RestorePlan(j) = {j[m].file : m \in Restored(j)}
    BY PlanFirst
  <2>1. ASSUME NEW l \in DOMAIN j, j[l].file = f
        PROVE  Found(j, l) = j[l].pre
    <3>1. l \notin Restored(j)
      BY <1>2, <2>0, <2>1
    <3> QED
      BY <3>1 DEF Restored
  <2> DEFINE B == {l \in DOMAIN j : j[l].file = f /\ j[l].pre # file[f]}
  <2>2. k \in B /\ B \in SUBSET (0..Len(j))
    BY <1>0
  <2>3. PICK m \in B : \A l \in B : l <= m
    BY <1>0, <2>2, MaxIndex
  <2>4. m \in DOMAIN j /\ j[m].file = f /\ Found(j, m) # file[f]
    BY <2>1
  <2>5. PICK l \in Later(j, m) : Found(j, m) = j[l].pre
    BY <2>4, FoundType
  <2>6. l \in B /\ l > m
    BY <2>4, <2>5 DEF Later
  <2> QED
    BY <1>0, <2>3, <2>4, <2>6
<1> QED
  BY <1>1, <1>2

\* An intact journal can be rolled back.
LEMMA IntactRestorable ==
    ASSUME NEW j, Intact(j, file)
    PROVE  Restorable(j)
BY DEF Intact, Finds, Restorable, Restored, Found

\* Steps of others that write no file of a thread's journal
LEMMA LinkedStays ==
    ASSUME TInv, NEW t \in Thread, th'[t] = th[t],
           \A f \in FilesOf(th[t].journal) : file'[f] = file[f]
    PROVE  /\ t \in Worker /\ WorkLinked(t) => WorkLinked(t)'
           /\ RestLinked(t) => RestLinked(t)'
<1> DEFINE j == th[t].journal
<1>0. th[t] \in ThreadRec /\ j \in Journals /\ Placed(t, th[t])
  BY DEF TInv, Threads, ThreadRec, Places
<1>1. DOMAIN j = 1..Len(j) /\ Len(j) \in Nat
  BY <1>0, JournalIndices
<1>2. /\ \A k \in DOMAIN j : Finds(j, k, file') = Finds(j, k, file)
      /\ Intact(j, file) => Intact(j, file')
  BY FindsLocal
<1>3. \A k \in DOMAIN j : Tip(th'[t].todo, file', j[k].file) = Tip(th[t].todo, file, j[k].file)
  <2> TAKE k \in DOMAIN j
  <2>1. j[k].file \in FilesOf(j)
    BY DEF FilesOf
  <2> QED
    BY <2>1 DEF Tip
<1>4. ASSUME th[t].pc \in {"apply", "unapply"}, Patchable(t)
      PROVE  Patchable(t)'
  <2>1. th[t].start \in 0..Len(j)
    BY <1>0, <1>4 DEF Placed
  <2>2. \A k \in 1..th[t].start : k \in DOMAIN j
    BY <1>1, <2>1
  <2>3. \A k \in th[t].start + 1..Len(j) : k \in DOMAIN j
    BY <1>1, <2>1
  <2> HIDE DEF j
  <2>4. \A k \in 1..th[t].start : Finds(j, k, file') = j[k].post
    BY <1>2, <1>4, <2>2 DEF Patchable, j
  <2>5. \A k \in th[t].start + 1..Len(j) :
            Tip(th'[t].todo, file', j[k].file) = IF th[t].pc = "apply" THEN j[k].post ELSE j[k].pre
    BY <1>3, <1>4, <2>3 DEF Patchable, j
  <2> QED
    BY <1>4, <2>4, <2>5 DEF Patchable, j
<1>5. ASSUME t \in Worker, WorkLinked(t)
      PROVE  WorkLinked(t)'
  <2>1. th[t].pc \in {"apply", "unapply"} => Patchable(t)'
    BY <1>4, <1>5 DEF WorkLinked
  <2>2. Matching(t)' = Matching(t)
    BY DEF Matching
  <2> QED
    BY <1>2, <1>5, <2>1, <2>2 DEF WorkLinked
<1>6. RestLinked(t) => RestLinked(t)'
  BY <1>3 DEF RestLinked
<1> QED
  BY <1>5, <1>6

\* A patch that starts
LEMMA PatchLinked ==
    ASSUME TInv, Linked, NEW w \in Worker, Patch(w)
    PROVE  UNCHANGED file /\ Others(w) /\ WorkLinked(w)' /\ RestLinked(w)'
<1>1. /\ th[w].pc \in {"body", "verify"} /\ patches < MaxPatches /\ UNCHANGED file /\ Others(w)
  BY PatchMoves
<1>2. PICK P \in (SUBSET File) \ {{}} : Patches(w, P)
  BY PatchMoves
<1> DEFINE i == th[w].journal
           j == Extended(w, P)
           m == Len(i)
<1>3. /\ th'[w].pc = "apply" /\ th'[w].journal = j /\ th'[w].start = m
      /\ th'[w].todo = [f \in P |-> Patching(w)]
  BY <1>2 DEF Patches
<1>4. /\ m \in Nat /\ j \in Journals /\ Len(j) >= m
      /\ \A k \in 1..m : j[k] = i[k]
      /\ \A k \in m + 1..Len(j) : /\ j[k].file \in P /\ j[k].post = Patching(w)
                                  /\ j[k].pre = file[j[k].file]
      /\ \A f \in P : \E k \in m + 1..Len(j) : j[k].file = f
      /\ \A k, l \in m + 1..Len(j) : j[k].file = j[l].file => k = l
  <2>1. th[w].pc # "idle" /\ patches < MaxPatches /\ P \in SUBSET File
    BY <1>1
  <2> QED
    BY <2>1, PatchShape, SMTT(60)
<1>5. i \in Journals /\ Intact(i, file)
  BY <1>1 DEF Linked, WorkLinked, Matching, TInv, Threads, ThreadRec, Thread
<1>6. Len(j) \in Nat /\ DOMAIN i = 1..m
  BY <1>4, <1>5, JournalIndices
<1> HIDE DEF i, j, m
<1>7. \A k \in 1..m : Finds(j, k, file) = j[k].post
  <2> TAKE k \in 1..m
  <2>1. Finds(j, k, file) = Finds(i, k, file)
    BY <1>4, <1>5, <1>6, FindsPrefix DEF m
  <2> QED
    BY <1>4, <1>5, <1>6, <2>1 DEF Intact
<1>8. \A k \in m + 1..Len(j) : Tip(th'[w].todo, file', j[k].file) = j[k].post
  BY <1>3, <1>4 DEF Tip
<1>9. DOMAIN th'[w].todo \subseteq {j[k].file : k \in m + 1..Len(j)}
  BY <1>3, <1>4
<1>10. \A k \in 1..m : Finds(j, k, file') = j[k].post
  BY <1>1, <1>7
<1>11. Patchable(w)'
  BY <1>3, <1>4, <1>8, <1>9, <1>10 DEF Patchable
<1>12. WorkLinked(w)'
  BY <1>3, <1>11 DEF WorkLinked, Matching
<1>13. RestLinked(w)'
  BY <1>3 DEF RestLinked
<1> QED
  BY <1>1, <1>12, <1>13

\* A patch that succeeded
LEMMA PatchedLinked ==
    ASSUME TInv, Owners, Linked, NEW w \in Worker, Patched(w)
    PROVE  UNCHANGED file /\ Others(w) /\ WorkLinked(w)' /\ RestLinked(w)'
<1>1. /\ th[w].pc = "apply" /\ th[w].todo = Nothing /\ th'[w].pc \in {"body", "verify"}
      /\ th'[w].journal = th[w].journal /\ Others(w) /\ UNCHANGED file
  BY CommitMoves DEF Still
<1> DEFINE j == th[w].journal
           n == th[w].start
<1>2. j \in Journals /\ n \in 0..Len(j) /\ DOMAIN j = 1..Len(j) /\ Len(j) \in Nat
  <2>1. j \in Journals /\ Placed(w, th[w])
    BY DEF TInv, Threads, ThreadRec, Thread, Places
  <2> QED
    BY <1>1, <2>1, JournalIndices DEF Placed
<1>3. Patchable(w)
  BY <1>1 DEF Linked, WorkLinked
<1>4. /\ \A k \in 1..n : Finds(j, k, file) = j[k].post
      /\ \A k, l \in n + 1..Len(j) : j[k].file = j[l].file => k = l
      /\ \A k \in n + 1..Len(j) : Tip(th[w].todo, file, j[k].file) = j[k].post
  BY <1>1, <1>3 DEF Patchable
<1>5. \A f : Tip(th[w].todo, file, f) = file[f]
  BY <1>1 DEF Tip, Nothing
<1> HIDE DEF j, n
<1>6. ASSUME NEW k \in n + 1..Len(j)
      PROVE  Finds(j, k, file) = j[k].post
  <2>1. \A l \in Later(j, k) : l \in n + 1..Len(j) /\ l > k /\ j[l].file = j[k].file
    BY <1>2 DEF Later
  <2>2. Later(j, k) = {}
    BY <1>2, <1>4, <2>1
  <2> QED
    BY <1>4, <1>5, <2>2 DEF Finds
<1>7. \A k \in DOMAIN j : k \in 1..n \/ k \in n + 1..Len(j)
  BY <1>2
<1>8. Intact(j, file)
  BY <1>4, <1>6, <1>7 DEF Intact
<1>9. WorkLinked(w)'
  BY <1>1, <1>8 DEF WorkLinked, j
<1> QED
  BY <1>1, <1>9 DEF RestLinked

\* A patch that failed is undone with its own entries.
LEMMA ApplyFailsLinked ==
    ASSUME TInv, Owners, Linked, NEW w \in Worker, ApplyFails(w)
    PROVE  UNCHANGED file /\ Others(w) /\ WorkLinked(w)' /\ RestLinked(w)'
<1> DEFINE j == th[w].journal
           n == th[w].start
           new == SubSeq(j, n + 1, Len(j))
<1>1. /\ th[w].pc = "apply" /\ th'[w].pc = "unapply" /\ th'[w].start = n
      /\ th'[w].journal = j /\ th'[w].todo = RestorePlan(new)
      /\ Others(w) /\ UNCHANGED file
  BY CommitMoves DEF Still, Added
<1>2. j \in Journals /\ n \in 0..Len(j) /\ DOMAIN j = 1..Len(j) /\ Len(j) \in Nat
  <2>1. j \in Journals /\ Placed(w, th[w])
    BY DEF TInv, Threads, ThreadRec, Thread, Places
  <2> QED
    BY <1>1, <2>1, JournalIndices DEF Placed
<1>3. Patchable(w)
  BY <1>1 DEF Linked, WorkLinked
<1>4. /\ \A k \in 1..n : Finds(j, k, file) = j[k].post
      /\ \A k, l \in n + 1..Len(j) : j[k].file = j[l].file => k = l
  BY <1>3 DEF Patchable
<1> HIDE DEF j, n
<1>5. /\ new \in Journals /\ Len(new) = Len(j) - n
      /\ \A k \in 1..(Len(j) - n) : new[k] = j[n + k]
      /\ FilesOf(new) = {j[k].file : k \in n + 1..Len(j)}
  BY <1>2, PartShape, SplitFiles
<1>6. DOMAIN new = 1..(Len(j) - n)
  BY <1>5, JournalIndices
<1>7. DOMAIN RestorePlan(new) \subseteq {j[k].file : k \in n + 1..Len(j)}
  BY <1>5, PlanShape
<1> HIDE DEF new
<1>8. ASSUME NEW k \in n + 1..Len(j)
      PROVE  Tip(th'[w].todo, file', j[k].file) = j[k].pre
  <2> DEFINE i == k - n
  <2>1. i \in DOMAIN new /\ new[i] = j[k]
    <3>1. i \in 1..(Len(j) - n) /\ n + i = k
      BY <1>2
    <3> QED
      BY <1>5, <1>6, <3>1
  <2>2. First(new, i)
    <3> SUFFICES ASSUME NEW l \in DOMAIN new, new[l].file = new[i].file PROVE i <= l
      BY DEF First
    <3>1. n + l \in n + 1..Len(j) /\ new[l] = j[n + l]
      BY <1>2, <1>5, <1>6
    <3>2. n + l = k
      BY <1>4, <2>1, <3>1
    <3> QED
      BY <1>2, <1>6, <3>2
  <2>3. Tip(RestorePlan(new), file, j[k].file) = j[k].pre
    BY <1>5, <2>1, <2>2, RestoreTips
  <2> QED
    BY <1>1, <2>3 DEF Tip
<1>9. \A k \in 1..n : Finds(j, k, file') = j[k].post
  BY <1>1, <1>4
<1>10. Patchable(w)'
  BY <1>1, <1>4, <1>7, <1>8, <1>9 DEF Patchable
<1>11. WorkLinked(w)'
  BY <1>1, <1>10 DEF WorkLinked, Matching
<1> QED
  BY <1>1, <1>11 DEF RestLinked

\* A patch that was undone leaves the journal of the patches before it.
LEMMA UnappliedLinked ==
    ASSUME TInv, Owners, Linked, NEW w \in Worker, Unapplied(w)
    PROVE  UNCHANGED file /\ Others(w) /\ WorkLinked(w)' /\ RestLinked(w)'
<1> DEFINE j == th[w].journal
           n == th[w].start
           i == SubSeq(j, 1, n)
<1>1. /\ th[w].pc = "unapply" /\ th[w].todo = Nothing /\ th'[w].pc \in {"body", "verify"}
      /\ th'[w].journal = i /\ Others(w) /\ UNCHANGED file
  BY CommitMoves DEF Earlier
<1>2. j \in Journals /\ n \in 0..Len(j) /\ DOMAIN j = 1..Len(j) /\ Len(j) \in Nat
  <2>1. j \in Journals /\ Placed(w, th[w])
    BY DEF TInv, Threads, ThreadRec, Thread, Places
  <2> QED
    BY <1>1, <2>1, JournalIndices DEF Placed
<1>3. Patchable(w)
  BY <1>1 DEF Linked, WorkLinked
<1>4. /\ \A k \in 1..n : Finds(j, k, file) = j[k].post
      /\ \A k \in n + 1..Len(j) : Tip(th[w].todo, file, j[k].file) = j[k].pre
  BY <1>1, <1>3 DEF Patchable
<1>5. \A f : Tip(th[w].todo, file, f) = file[f]
  BY <1>1 DEF Tip, Nothing
<1> HIDE DEF j, n
<1>6. i \in Journals /\ Len(i) = n /\ \A k \in 1..n : i[k] = j[k]
  BY <1>2, PartShape
<1>7. DOMAIN i = 1..n
  BY <1>6, JournalIndices
<1> HIDE DEF i
<1>8. \A k \in 1..n : Finds(i, k, file) = i[k].post
  <2> TAKE k \in 1..n
  <2>1. Finds(j, k, file) = Finds(i, k, file)
    BY <1>2, <1>4, <1>5, <1>6, FindsPrefix
  <2> QED
    BY <1>4, <1>6, <2>1
<1>9. Intact(i, file)
  BY <1>7, <1>8 DEF Intact
<1>10. WorkLinked(w)'
  BY <1>1, <1>9 DEF WorkLinked
<1> QED
  BY <1>1, <1>10 DEF RestLinked

\* A rollback that is decided
LEMMA PlanLinked ==
    ASSUME TInv, NEW t \in Thread, th'[t].pc = "restore", th'[t].journal = th[t].journal,
           th'[t].todo = RestorePlan(th[t].journal), UNCHANGED file
    PROVE  RestLinked(t)' /\ (t \in Worker => WorkLinked(t)')
<1> DEFINE j == th[t].journal
<1>1. j \in Journals
  BY DEF TInv, Threads, ThreadRec
<1>2. DOMAIN RestorePlan(j) \subseteq FilesOf(j)
  BY <1>1, PlanShape
<1>3. ASSUME NEW k \in DOMAIN j, First(j, k)
      PROVE  Tip(th'[t].todo, file', j[k].file) = j[k].pre
  <2>1. Tip(RestorePlan(j), file, j[k].file) = j[k].pre
    BY <1>1, <1>3, RestoreTips
  <2> QED
    BY <2>1 DEF Tip
<1> HIDE DEF j
<1>4. RestLinked(t)'
  BY <1>2, <1>3 DEF RestLinked, j
<1> QED
  BY <1>4 DEF WorkLinked, Matching

\* A worker that extends, drops or loads a journal keeps it in line with the files.
LEMMA LinkedWorker ==
    ASSUME TInv, History, Owners, Alone, Linked, NEW w \in Worker, WorkerStep(w)
    PROVE  Linked'
<1>0. w \in Thread /\ \A v \in Worker : v = w
  BY DEF Thread, Alone
<1>a. ASSUME UNCHANGED file, Others(w), WorkLinked(w)', RestLinked(w)'
      PROVE  Linked'
  <2>1. ASSUME NEW t \in Thread \ {w}
        PROVE  RestLinked(t)'
    BY <1>a, LinkedStays DEF Others, Linked
  <2> QED
    BY <1>0, <1>a, <2>1 DEF Linked
<1>b. ASSUME UNCHANGED file, Others(w), th'[w].journal = <<>>, th'[w].pc \notin Inside
      PROVE  Linked'
  <2>1. WorkLinked(w)'
    BY <1>b DEF WorkLinked, Intact, Inside
  <2> QED
    BY <1>a, <1>b, <2>1 DEF RestLinked, Inside
<1>1. CASE Quiet(w)
  <2>1. UNCHANGED file /\ Still(w) /\ Others(w) /\ Edge(w)
    BY <1>1, QuietMoves
  <2>2. WorkLinked(w) /\ th'[w].journal = th[w].journal
    BY <2>1 DEF Linked, Still
  <2>3. th'[w].pc \notin Inside
    BY <2>1 DEF Edge, Inside
  <2>4. CASE th[w].journal = <<>>
    BY <1>b, <2>1, <2>2, <2>3, <2>4
  <2>5. CASE th[w].journal # <<>>
    <3>1. th[w].pc \notin {"picked", "begin", "plan"}
      BY <2>2, <2>5 DEF WorkLinked
    <3>2. Matching(w)' => Matching(w)
      BY <2>1, <3>1 DEF Edge, Matching
    <3>3. th'[w].pc \notin {"picked", "checked", "begin", "plan"}
      BY <2>1, <3>1 DEF Edge
    <3>4. WorkLinked(w)'
      BY <2>1, <2>2, <2>3, <3>2, <3>3 DEF WorkLinked, Inside
    <3> QED
      BY <1>a, <2>1, <2>3, <3>4 DEF RestLinked, Inside
  <2> QED
    BY <2>4, <2>5
<1>2. CASE Leaves(w)
  BY <1>2, <1>b, LeavesMoves DEF IdleThread, Inside
<1>3. CASE Next_(w)
  <2>1. UNCHANGED file /\ th[w].pc = "idle"
    BY <1>3 DEF Next_, disk
  <2>2. Others(w) /\ th'[w].journal = th[w].journal /\ th'[w].pc = "picked"
    BY <1>0, <1>3 DEF Next_, TInv, Threads, ThreadRec, Others
  <2>3. th[w].journal = <<>>
    BY <1>0, <2>1 DEF History, Kept
  <2> QED
    BY <1>b, <2>1, <2>2, <2>3 DEF Inside
<1>4. CASE ClaimAttempt(w) /\ ~attempt[Mine(w)].live
  <2>1. /\ UNCHANGED file /\ th[w].pc = "checked"
        /\ th' = [th EXCEPT ![w].pc = "begin", ![w].token = attempt[Mine(w)].token + 1]
    BY <1>4 DEF ClaimAttempt, disk
  <2>2. Others(w) /\ th'[w].journal = th[w].journal /\ th'[w].pc = "begin"
    BY <1>0, <2>1 DEF TInv, Threads, ThreadRec, Others
  <2>3. th[w].journal = <<>>
    BY <2>1 DEF Linked, WorkLinked
  <2> QED
    BY <1>b, <2>1, <2>2, <2>3 DEF Inside
<1>5. CASE Patch(w)
  BY <1>5, <1>a, PatchLinked
<1>6. CASE Patched(w)
  BY <1>6, <1>a, PatchedLinked
<1>7. CASE ApplyFails(w)
  BY <1>7, <1>a, ApplyFailsLinked
<1>8. CASE Unapplied(w)
  BY <1>8, <1>a, UnappliedLinked
<1>9. CASE ClearDelivered(w)
  <2>1. UNCHANGED file /\ Others(w) /\ th'[w].pc = "release"
    BY <1>9, CommitMoves
  <2> QED
    BY <1>a, <2>1 DEF WorkLinked, RestLinked, Matching
<1>10. CASE DropJournal(w)
  <2>1. /\ UNCHANGED file /\ Others(w) /\ th[w].pc = "rollback" /\ th'[w].pc = "ending"
        /\ th'[w].journal = th[w].journal
    BY <1>10, CommitMoves DEF Still
  <2>2. Intact(th[w].journal, file)
    BY <2>1 DEF Linked, WorkLinked, Matching
  <2>3. WorkLinked(w)'
    BY <2>1, <2>2 DEF WorkLinked
  <2> QED
    BY <1>a, <2>1, <2>3 DEF RestLinked
<1>11. CASE Rollback(w)
  <2>1. /\ UNCHANGED file /\ Others(w) /\ th'[w].pc = "restore"
        /\ th'[w].journal = th[w].journal /\ th'[w].todo = RestorePlan(th[w].journal)
    BY <1>11, CommitMoves DEF Still
  <2>2. RestLinked(w)' /\ WorkLinked(w)'
    BY <1>0, <2>1, PlanLinked
  <2> QED
    BY <1>a, <2>1, <2>2
<1>12. CASE Release(w)
  <2>1. UNCHANGED file /\ Others(w) /\ th'[w] = IdleThread
    BY <1>0, <1>12, Rests DEF Release, disk
  <2> QED
    BY <1>b, <2>1 DEF IdleThread, Inside
<1> QED
  BY <1>1, <1>2, <1>3, <1>4, <1>5, <1>6, <1>7, <1>8, <1>9, <1>10, <1>11, <1>12
     DEF WorkerStep, Quiet, Leaves

\* So does recovery, which writes no file before it restores.
LEMMA LinkedPass ==
    ASSUME TInv, Linked, NEW r \in Recoverer, RecoveryStep(r)
    PROVE  Linked'
<1>0. r \in Thread /\ r \notin Worker
  BY ThreadAssumption DEF Thread
<1>a. ASSUME UNCHANGED file, Others(r), RestLinked(r)'
      PROVE  Linked'
  <2>1. ASSUME NEW t \in Thread \ {r}
        PROVE  RestLinked(t)' /\ (t \in Worker => WorkLinked(t)')
    BY <1>a, LinkedStays DEF Others, Linked
  <2> QED
    BY <1>0, <1>a, <2>1 DEF Linked, Thread
<1>1. UNCHANGED file
  BY DEF RecoveryStep, StartPass, LoadJournal, RecoverClaim, RecoverBusy, RecoverRestore,
     RecoverRefused, RecoverUpdate, RecoverLost, RecoverAborts, RecoverRelease, StartCleanup,
     Cleanup, EndPass, disk
<1>2. CASE RecoverRestore(r)
  <2>1. /\ Others(r) /\ th'[r].pc = "restore" /\ th'[r].journal = th[r].journal
        /\ th'[r].todo = RestorePlan(th[r].journal)
    BY <1>2, PassMoves DEF Still
  <2> QED
    BY <1>0, <1>1, <1>a, <2>1, PlanLinked
<1>3. CASE RecoverClaim(r)
  <2>1. Others(r) /\ th'[r].pc \in {"pass", "update", "claimed"}
    BY <1>3, ClaimMoves
  <2> QED
    BY <1>1, <1>a, <2>1 DEF RestLinked
<1>4. CASE ~(RecoverRestore(r) \/ RecoverClaim(r))
  <2>1. Others(r) /\ th'[r].pc \notin {"restore", "clear"}
    BY <1>4, PassMoves DEF RecoveryStep, IdleThread
  <2> QED
    BY <1>1, <1>a, <2>1 DEF RestLinked
<1> QED
  BY <1>2, <1>3, <1>4

\* A restore of a recovery pass leaves the files of the worker's journal alone.
LEMMA ApartFiles ==
    ASSUME TInv, History, Leased, Linked, NEW w \in Worker, NEW r \in Recoverer,
           th[r].pc \in {"restore", "clear"}, NEW f \in DOMAIN th[r].todo
    PROVE  f \notin FilesOf(th[w].journal)
<1>1. f \in FilesOf(th[r].journal)
  BY DEF Linked, RestLinked, Thread
<1>2. lease[f] = Recovering(Mine(r)) /\ Mine(r) \in Order
  BY <1>1, ThreadFiles DEF Leased, RepairLeased, Repairing, Dealing
<1> QED
  BY <1>2, WorkFiles, HoldersDiffer DEF Leased, WorkLeased

\* A file that is written gets the content its journal entry names.
LEMMA WriteLinked ==
    ASSUME TInv, History, Alone, Leased, Linked, NEW t \in Thread, WriteFile(t)
    PROVE  Linked'
<1>0. /\ th[t] \in ThreadRec /\ th \in [Thread -> ThreadRec] /\ file \in [File -> Version]
      /\ Placed(t, th[t])
  BY DEF TInv, Threads, Tables, Places
<1>1. PICK f \in DOMAIN th[t].todo :
          /\ file' = [file EXCEPT ![f] = th[t].todo[f]]
          /\ th' = [th EXCEPT ![t].todo = [g \in DOMAIN th[t].todo \ {f} |-> th[t].todo[g]]]
  BY DEF WriteFile
<1> DEFINE rest == [g \in DOMAIN th[t].todo \ {f} |-> th[t].todo[g]]
           j == th[t].journal
           n == th[t].start
<1>2. DOMAIN th[t].todo \subseteq File
  BY <1>0 DEF ThreadRec, Todos
<1>3. /\ th'[t].todo = rest /\ th'[t].pc = th[t].pc /\ th'[t].journal = j /\ th'[t].start = n
      /\ Others(t) /\ th[t].pc \in {"apply", "unapply", "restore"}
  BY <1>0, <1>1, RestoreMoves DEF ThreadRec, Still
<1>4. f \in File /\ file'[f] = th[t].todo[f] /\ \A g \in File \ {f} : file'[g] = file[g]
  BY <1>0, <1>1, <1>2
<1>5. \A g \in File : Tip(th'[t].todo, file', g) = Tip(th[t].todo, file, g)
  BY <1>3, <1>4 DEF Tip
<1>6. j \in Journals /\ DOMAIN j = 1..Len(j) /\ Len(j) \in Nat /\ FilesOf(j) \subseteq File
  BY <1>0, JournalIndices, ThreadFiles DEF ThreadRec
<1>7. \A k \in DOMAIN j : j[k].file \in File
  BY <1>6 DEF FilesOf
<1>8. DOMAIN th'[t].todo \subseteq DOMAIN th[t].todo
  BY <1>3
<1> HIDE DEF rest, j, n
<1>9. ASSUME t \in Worker
      PROVE  WorkLinked(t)'
  <2>1. CASE th[t].pc = "restore"
    BY <1>3, <2>1 DEF WorkLinked, Matching
  <2>2. CASE th[t].pc \in {"apply", "unapply"}
    <3>1. Patchable(t) /\ n \in 0..Len(j)
      BY <1>0, <1>9, <2>2 DEF Linked, WorkLinked, Placed, j, n
    <3>2. /\ \A k \in 1..n : Finds(j, k, file) = j[k].post
          /\ \A k, l \in n + 1..Len(j) : j[k].file = j[l].file => k = l
          /\ \A k \in n + 1..Len(j) : Tip(th[t].todo, file, j[k].file) =
                IF th[t].pc = "apply" THEN j[k].post ELSE j[k].pre
          /\ DOMAIN th[t].todo \subseteq {j[k].file : k \in n + 1..Len(j)}
      BY <3>1 DEF Patchable, j, n
    <3>3. ASSUME NEW k \in 1..n
          PROVE  Finds(j, k, file') = j[k].post
      <4>1. PICK l \in n + 1..Len(j) : j[l].file = f
        BY <3>2
      <4>2. k \in DOMAIN j /\ l \in DOMAIN j /\ l > k
        BY <1>6, <3>1
      <4>3. Later(j, k) = {} => j[k].file # f
        BY <4>1, <4>2 DEF Later
      <4>4. Finds(j, k, file') = Finds(j, k, file)
        BY <1>4, <1>7, <4>2, <4>3 DEF Finds
      <4> QED
        BY <3>2, <4>4
    <3>4. ASSUME NEW k \in n + 1..Len(j)
          PROVE  Tip(th'[t].todo, file', j[k].file) =
                    IF th[t].pc = "apply" THEN j[k].post ELSE j[k].pre
      <4>1. k \in DOMAIN j
        BY <1>6, <3>1
      <4> QED
        BY <1>5, <1>7, <3>2, <4>1
    <3>5. Patchable(t)'
      BY <1>3, <1>8, <3>2, <3>3, <3>4 DEF Patchable
    <3> QED
      BY <1>3, <2>2, <3>5 DEF WorkLinked, Matching
  <2> QED
    BY <1>3, <2>1, <2>2
<1>10. RestLinked(t)'
  <2> SUFFICES ASSUME th[t].pc = "restore" PROVE RestLinked(t)'
    BY <1>3 DEF RestLinked
  <2>1. /\ \A k \in DOMAIN j : First(j, k) => Tip(th[t].todo, file, j[k].file) = j[k].pre
        /\ DOMAIN th[t].todo \subseteq FilesOf(j)
    BY DEF Linked, RestLinked, j
  <2>2. \A k \in DOMAIN j : First(j, k) => Tip(th'[t].todo, file', j[k].file) = j[k].pre
    BY <1>5, <1>7, <2>1
  <2> QED
    BY <1>3, <1>8, <2>1, <2>2 DEF RestLinked
<1>11. ASSUME NEW u \in Thread \ {t}
       PROVE  RestLinked(u)'
  <2>1. th'[u] = th[u] /\ th[u].pc \notin Inside
    BY <1>3 DEF Others, TInv, Locks, Inside
  <2> QED
    BY <2>1 DEF RestLinked, Inside
<1>12. ASSUME NEW w \in Worker, w # t
       PROVE  WorkLinked(w)'
  <2>1. t \in Recoverer /\ t \notin Worker /\ w \in Thread
    BY <1>12 DEF Alone, Thread
  <2>2. th[t].pc = "restore"
    BY <1>0, <1>3, <2>1 DEF Placed, PassPcs
  <2>3. f \notin FilesOf(th[w].journal)
    BY <2>1, <2>2, ApartFiles
  <2>4. \A g \in FilesOf(th[w].journal) : file'[g] = file[g]
    BY <1>4, <2>1, <2>3, ThreadFiles
  <2>5. th'[w] = th[w]
    BY <1>3, <1>12, <2>1 DEF Others
  <2> QED
    BY <2>1, <2>4, <2>5, LinkedStays DEF Linked
<1> QED
  BY <1>9, <1>10, <1>11, <1>12 DEF Linked

\* Restoring keeps journals and files in line.
LEMMA LinkedRestore ==
    ASSUME TInv, History, Alone, Leased, Linked, NEW t \in Thread, RestoreStep(t)
    PROVE  Linked'
<1>a. ASSUME UNCHANGED file, Others(t), RestLinked(t)', t \in Worker => WorkLinked(t)'
      PROVE  Linked'
  <2>1. ASSUME NEW u \in Thread \ {t}
        PROVE  RestLinked(u)' /\ (u \in Worker => WorkLinked(u)')
    BY <1>a, LinkedStays DEF Others, Linked
  <2> QED
    BY <1>a, <2>1 DEF Linked, Thread
<1>1. CASE Checkpoint(t)
  <2>1. /\ UNCHANGED file /\ Others(t) /\ th[t].pc = "restore" /\ th[t].todo = Nothing
        /\ th'[t].journal = th[t].journal
    BY <1>1, RestoreMoves DEF Checkpoint, disk, Still
  <2>2. \/ th'[t].pc = "clear" /\ th'[t].todo = Nothing
        \/ th'[t].pc \in {"raise", "update"}
        \/ th'[t].pc = "ending" /\ th'[t].goal \in {"failed", "cancelled"}
    BY <1>1, RestoreMoves
  <2>3. RestLinked(t)'
    BY <2>1, <2>2 DEF RestLinked, Linked
  <2>4. WorkLinked(t)'
    BY <2>2 DEF WorkLinked, Matching
  <2> QED
    BY <1>a, <2>1, <2>3, <2>4
<1>2. CASE ClearJournal(t)
  <2>1. UNCHANGED file
    BY <1>2 DEF ClearJournal
  <2>2. Others(t) /\ th'[t].pc \in {"ending", "update"} /\ th'[t].journal = <<>>
    BY <1>2, RestoreMoves
  <2>3. WorkLinked(t)' /\ RestLinked(t)'
    BY <2>2 DEF WorkLinked, RestLinked, Intact
  <2> QED
    BY <1>a, <2>1, <2>2, <2>3
<1> QED
  BY <1>1, <1>2, WriteLinked DEF RestoreStep

\* A crash may tear the file being written, which nobody then relies on.
LEMMA LinkedCrash ==
    ASSUME TInv, History, Alone, Leased, Linked, NEW i \in Instance, Crash(i)
    PROVE  Linked'
<1>0. \A t \in Thread : IF Host[t] = i THEN th'[t] = IdleThread ELSE th'[t] = th[t]
  BY DEF Crash
<1>1. ASSUME NEW t \in Thread, Host[t] = i
      PROVE  RestLinked(t)' /\ WorkLinked(t)'
  BY <1>0, <1>1 DEF RestLinked, WorkLinked, Matching, IdleThread
<1>2. CASE file' = file
  <2>1. ASSUME NEW t \in Thread, Host[t] # i
        PROVE  RestLinked(t)' /\ (t \in Worker => WorkLinked(t)')
    BY <1>0, <1>2, <2>1, LinkedStays DEF Linked
  <2> QED
    BY <1>1, <2>1 DEF Linked, Thread
<1>3. CASE /\ lock # None /\ Host[lock] = i
           /\ \E f \in DOMAIN th[lock].todo :
                 file' = [file EXCEPT ![f] = [th[lock].todo[f] EXCEPT !.torn = TRUE]]
  <2>1. PICK f \in DOMAIN th[lock].todo :
                 file' = [file EXCEPT ![f] = [th[lock].todo[f] EXCEPT !.torn = TRUE]]
    BY <1>3
  <2>2. lock \in Thread /\ th[lock].pc \in Inside
    BY <1>3 DEF TInv, Threads, Locks
  <2>3. ASSUME NEW t \in Thread, Host[t] # i
        PROVE  RestLinked(t)' /\ (t \in Worker => WorkLinked(t)')
    <3>1. t # lock /\ th[t].pc \notin Inside /\ th'[t] = th[t]
      BY <1>0, <1>3, <2>3 DEF TInv, Locks
    <3>2. RestLinked(t)'
      BY <3>1 DEF RestLinked, Inside
    <3>3. ASSUME t \in Worker
          PROVE  WorkLinked(t)'
      <4>1. lock \in Recoverer
        BY <2>2, <3>1, <3>3 DEF Thread, Alone
      <4>2. th[lock].pc \in {"restore", "clear"}
        BY <2>2, <4>1 DEF TInv, Places, Placed, PassPcs, Inside
      <4>3. f \notin FilesOf(th[t].journal)
        BY <2>1, <3>3, <4>1, <4>2, ApartFiles
      <4>4. \A g \in FilesOf(th[t].journal) : g \in File /\ file'[g] = file[g]
        BY <2>1, <4>3, ThreadFiles DEF TInv, Tables
      <4> QED
        BY <3>1, <3>3, <4>4, LinkedStays DEF Linked
    <3> QED
      BY <3>2, <3>3
  <2> QED
    BY <1>1, <2>3 DEF Linked, Thread
<1> QED
  BY <1>2, <1>3 DEF Crash

\* Calls, clocks and restarts touch neither files nor journals in memory.
LEMMA LinkedOutside ==
    ASSUME TInv, Linked,
           \/ \E o \in Order : Submit(o) \/ Cancel(o) \/ Continue(o) \/ ExpireAttempt(o)
           \/ \E i \in Instance : Start(i) \/ Close(i) \/ Stopped(i)
           \/ \E f \in File : ExpireLease(f)
           \/ UNCHANGED vars
    PROVE  Linked'
<1>1. UNCHANGED <<file, th>>
  BY CalmOutside
<1>2. \A t \in Thread : RestLinked(t)' /\ (t \in Worker => WorkLinked(t)')
  BY <1>1, LinkedStays DEF Linked
<1> QED
  BY <1>2 DEF Linked, Thread

\* Linked is kept by every step.
LEMMA LinkedNext ==
    ASSUME TInv, History, Owners, Alone, Leased, Linked, [Next]_vars
    PROVE  Linked'
BY LinkedWorker, LinkedPass, LinkedRestore, LinkedCrash, LinkedOutside DEF Next
=============================================================================
