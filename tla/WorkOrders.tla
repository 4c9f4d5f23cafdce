----------------------------- MODULE WorkOrders -----------------------------
(***************************************************************************)
(* Durable work orders (work_orchestrator.py): worker threads that take    *)
(* queued orders, patch the workspace under a rollback journal and finish  *)
(* or undo the order, and the recovery passes that repair what a dead      *)
(* worker left behind.  One repository root.                               *)
(*                                                                         *)
(* The writer fence (module WriterFence) appears as what it provides here: *)
(* one attempt token per order, and one lock, the SQLite write transaction *)
(* that commit_guard and attempt_guard keep open around a guarded section. *)
(* The advisory leases (module ScopeLease) appear as one holder per file.  *)
(* A section under attempt_guard is one step; one under commit_guard is    *)
(* several, so that the process can die between them.                      *)
(***************************************************************************)
EXTENDS Integers, Sequences, FiniteSets, SequencesExt

CONSTANTS
    Order,       \* work_ids
    File,        \* files of the workspace
    Instance,    \* hub processes that share the state directory
    Worker,      \* worker threads
    Recoverer,   \* threads that run _recover: start-up or retry timer
    Host,        \* the process of each thread
    None,        \* no thread, order or holder
    Requests,    \* what callers submit: a mode and keep_failed_workspace
    Prompt,      \* no thread is delayed past the lifetime of an attempt
    MaxPatches,  \* bound on patches
    MaxSteps,    \* bound on plan steps of one execution
    MaxAttempts, \* bound on attempts at one order
    MaxCalls,    \* bound on cancellations and answers
    MaxCrashes   \* bound on crashes and shutdowns

Thread == Worker \cup Recoverer

ASSUME ThreadAssumption == /\ Worker \cap Recoverer = {}
                           /\ Host \in [Thread -> Instance]
                           /\ None \notin Order \cup Thread
                           /\ None \notin Order \X {"work", "recovery"}
ASSUME FileAssumption == IsFiniteSet(File)
ASSUME RequestAssumption ==
    Requests \subseteq [mode : {"execute", "bounded", "plan"}, keep : BOOLEAN]
ASSUME PromptAssumption == Prompt \in BOOLEAN
ASSUME BoundAssumption ==
    {MaxPatches, MaxSteps, MaxAttempts, MaxCalls, MaxCrashes} \subseteq Nat

VARIABLES
    row,       \* table work_orders
    file,      \* the version of each file in the workspace
    journal,   \* the journal file of each order, <<>> when it is absent
    attempt,   \* the newest attempt of each order
    lease,     \* the holder of the advisory lease on each file
    lock,      \* the thread inside commit_guard
    th,        \* the threads
    up,        \* "down", "starting", "up" or "stopping" for each process
    retry,     \* processes whose recovery timer is set
    patches,   \* patches made so far
    crashes    \* crashes and shutdowns so far

disk == <<file, journal>>
fence == <<attempt, lease, lock>>
env == <<up, retry, patches, crashes>>
vars == <<row, disk, fence, th, env>>

Transient == {"planning", "executing", "verifying"}
Terminal == {"complete", "failed", "cancelled", "needs_agent", "partial"}
State == {"absent", "queued"} \cup Transient \cup Terminal

\* Contents are told apart by the patch that made them; a torn file was being
\* written when its process died.
Version == [by : Order \cup {None}, n : 0..MaxPatches, torn : BOOLEAN]
Original == [by |-> None, n |-> 0, torn |-> FALSE]

Entry == [file : File, pre : Version, post : Version]

\* result_json is reduced to what later code reads back: changed_files, the
\* recovery checkpoint, handoff_id and outcome_unknown/rollback_status.
NoResult == [changed |-> FALSE, checkpoint |-> FALSE, handoff |-> FALSE,
             unsafe |-> FALSE]
Changed(b) == [NoResult EXCEPT !.changed = b]

Nothing == [f \in {} |-> Original]

IdleThread ==
    [pc |-> "idle", order |-> None, token |-> 0, journal |-> <<>>,
     start |-> 0, todo |-> Nothing, steps |-> 0, edited |-> FALSE,
     back |-> "body", goal |-> "failed", rows |-> {}, seen |-> "absent", result |-> NoResult,
     ok |-> TRUE, late |-> FALSE]

-----------------------------------------------------------------------------
(* Guards *)

Mine(t) == th[t].order
Mode(o) == row[o].request.mode
Keeps(o) == row[o].request.keep

Own(t) == /\ attempt[Mine(t)].token = th[t].token
          /\ attempt[Mine(t)].live

\* attempt_guard, and commit_guard with a fence the attempt acquires first
Guarded(t) == lock = None /\ Own(t)

\* The store stays busy past the connection timeout of a guarded call.
Busy(t) == lock \notin {None, t}

Cancelled(t) == row[Mine(t)].cancel \/ up[Host[t]] = "stopping"

Go(t, pc) == th' = [th EXCEPT ![t].pc = pc]

Released(t) == IF th[t].token = attempt[Mine(t)].token
               THEN [attempt EXCEPT ![Mine(t)].live = FALSE]
               ELSE attempt

ClaimedBy(o) == [attempt EXCEPT ![o] = [token |-> @.token + 1, live |-> TRUE]]

Without(h) == [f \in File |-> IF lease[f] = h THEN None ELSE lease[f]]

Working(o) == <<o, "work">>
Recovering(o) == <<o, "recovery">>

WithState(o, s, res) ==
    [row EXCEPT ![o].state = s, ![o].result = res]

FilesOf(j) == {j[k].file : k \in DOMAIN j}

-----------------------------------------------------------------------------
(* Rollback: the journal is walked backwards; an entry is undone when the   *)
(* file holds its postimage, skipped when it holds its preimage, and        *)
(* otherwise the whole rollback is refused before anything is written.  The *)
(* walk leaves a file, on paper, with the preimage of each entry it has     *)
(* passed, so an entry finds the preimage of the next later entry of its    *)
(* file, and the last entry of a file finds what is on disk.                *)

Later(j, k) == {l \in DOMAIN j : l > k /\ j[l].file = j[k].file}

Found(j, k) ==
    IF Later(j, k) = {} THEN file[j[k].file] ELSE j[Min(Later(j, k))].pre

\* The entries that are undone
Restored(j) == {k \in DOMAIN j : Found(j, k) # j[k].pre}

\* (faulty) the content on disk is not compared with the postimage
RestorableBlind(j) == TRUE

Restorable(j) == \A k \in Restored(j) : Found(j, k) = j[k].post

\* Each file is written once, with the preimage of its first entry that is undone;
\* the entries before that one were skipped because they have the same preimage.
RestorePlan(j) ==
    [f \in {j[k].file : k \in Restored(j)} |->
        j[Min({k \in DOMAIN j : j[k].file = f})].pre]

-----------------------------------------------------------------------------
(* Callers *)

Submit(o) ==
    /\ row[o].state = "absent"
    /\ \E i \in Instance : up[i] = "up"
    /\ \E q \in Requests :
          row' = [row EXCEPT ![o].state = "queued", ![o].request = q]
    /\ UNCHANGED <<disk, fence, env, th>>

Calls == Cardinality({o \in Order : row[o].cancel})
             + Cardinality({o \in Order : row[o].answered})

\* cancel: one UPDATE ... WHERE state NOT IN (terminal)
Cancel(o) ==
    /\ row[o].state \notin Terminal \cup {"absent"}
    /\ ~row[o].cancel
    /\ Calls < MaxCalls
    /\ row' = [row EXCEPT ![o].cancel = TRUE]
    /\ UNCHANGED <<disk, fence, env, th>>

Continue(o) ==
    /\ row[o].state = "needs_agent"
    /\ ~row[o].cancel
    /\ ~row[o].answered          \* bound: one answer per order
    /\ Calls < MaxCalls
    /\ Mode(o) = "bounded" => ~row[o].result.unsafe /\ ~row[o].result.handoff
    /\ row' = [row EXCEPT ![o].state = "queued", ![o].answered = TRUE]
    /\ UNCHANGED <<disk, fence, env, th>>

-----------------------------------------------------------------------------
(* A worker takes an order *)

\* _next: queued -> planning in one transaction; the oldest order by created_at,
\* wall-clock times that the model leaves open
Next_(w) ==
    /\ up[Host[w]] = "up"
    /\ th[w].pc = "idle"
    /\ \E o \in Order :
          /\ row[o].state = "queued"
          /\ row' = [row EXCEPT ![o].state = "planning"]
          /\ th' = [th EXCEPT ![w].pc = "picked", ![w].order = o]
    /\ UNCHANGED <<disk, fence, env>>

\* _execute reads the row again before it claims the attempt
CheckPlanning(w) ==
    /\ th[w].pc = "picked"
    /\ IF row[Mine(w)].state = "planning"
       THEN Go(w, "checked")
       ELSE th' = [th EXCEPT ![w] = IdleThread]
    /\ UNCHANGED <<row, disk, fence, env>>

\* claim_attempt; LeaseUnavailableError returns and leaves the row as it is
ClaimAttempt(w) ==
    /\ th[w].pc = "checked"
    /\ lock = None
    /\ IF attempt[Mine(w)].live
       THEN th' = [th EXCEPT ![w] = IdleThread] /\ UNCHANGED attempt
       ELSE /\ attempt[Mine(w)].token < MaxAttempts
            /\ attempt' = ClaimedBy(Mine(w))
            /\ th' = [th EXCEPT ![w].pc = "begin",
                                ![w].token = attempt[Mine(w)].token + 1]
    /\ UNCHANGED <<row, disk, env, lease, lock>>

\* The store stayed busy through every retry of claim_attempt.
ClaimBusy(w) ==
    /\ th[w].pc = "checked"
    /\ Busy(w)
    /\ retry' = retry \cup {Host[w]}
    /\ th' = [th EXCEPT ![w] = IdleThread]
    /\ UNCHANGED <<row, disk, fence, up, patches, crashes>>

\* The start of _execute_fenced: cancelled, or _set_state("planning")
Begin(w) ==
    /\ th[w].pc = "begin"
    /\ Guarded(w)
    /\ row[Mine(w)].state \notin Terminal
    /\ IF Cancelled(w)
       THEN /\ row' = WithState(Mine(w), "cancelled", NoResult)
            /\ Go(w, "release")
       ELSE /\ row' = WithState(Mine(w), "planning", NoResult)
            /\ th' = [th EXCEPT ![w].pc = "plan", ![w].steps = MaxSteps]
    /\ UNCHANGED <<disk, fence, env>>

\* The plan asks the agent, or completes an order that only wanted a plan.
PlanEnds(w, s) ==
    /\ th[w].pc = "plan"
    /\ Guarded(w)
    /\ s = "complete" => Mode(Mine(w)) = "plan"
    /\ row[Mine(w)].state \notin Terminal
    /\ IF row[Mine(w)].cancel
       THEN Go(w, "raise") /\ UNCHANGED row
       ELSE row' = WithState(Mine(w), s, NoResult) /\ Go(w, "release")
    /\ UNCHANGED <<disk, fence, env>>

\* Planning failed before any mutation; a cancelled bounded order without a
\* journal is finished at once.
PlanFails(w) ==
    /\ th[w].pc = "plan"
    /\ IF Mode(Mine(w)) = "bounded" /\ Cancelled(w) /\ journal[Mine(w)] = <<>>
       THEN th' = [th EXCEPT ![w].pc = "ending", ![w].goal = "cancelled"]
       ELSE Go(w, "raise")
    /\ UNCHANGED <<row, disk, fence, env>>

\* _set_state("executing") with the plan, with no changed_files
PlanDone(w) ==
    /\ th[w].pc = "plan"
    /\ Guarded(w)
    /\ Mode(Mine(w)) # "plan"
    /\ row[Mine(w)].state \notin Terminal
    /\ row' = WithState(Mine(w), "executing", NoResult)
    /\ Go(w, "step")
    /\ UNCHANGED <<disk, fence, env>>

-----------------------------------------------------------------------------
(* Executing the plan.  At "step" the worker is at the top of the loop, at  *)
(* "body" inside a step, at "verify" in the whole-task verification.        *)

\* renew_attempt, then the cancellation and budget checks of one step
StartStep(w) ==
    /\ th[w].pc = "step"
    /\ Guarded(w)
    /\ th[w].steps > 0
    /\ IF Cancelled(w)
       THEN th' = [th EXCEPT ![w].pc = "rollback", ![w].goal = "cancelled"]
       ELSE \E over \in BOOLEAN :
              th' = IF over THEN [th EXCEPT ![w].pc = "rollback", ![w].goal = "partial"]
                            ELSE [th EXCEPT ![w].pc = "body", ![w].steps = @ - 1]
    /\ UNCHANGED <<row, disk, fence, env>>

\* _apply_patch up to the persisted journal: advisory leases on the paths,
\* fence, commit_guard, preimages and previewed postimages of the patch
Patch(w) ==
    /\ th[w].pc \in {"body", "verify"}
    /\ patches < MaxPatches
    /\ Guarded(w)
    /\ \E P \in (SUBSET File) \ {{}} :
          LET o == Mine(w)
              v == [by |-> o, n |-> patches + 1, torn |-> FALSE]
              new == SetToSeq({[file |-> f, pre |-> file[f], post |-> v] : f \in P})
              j == th[w].journal \o new
          IN /\ \A f \in P : lease[f] \in {None, Working(o)}
             /\ lease' = [f \in File |-> IF f \in P THEN Working(o) ELSE lease[f]]
             /\ journal' = [journal EXCEPT ![o] = j]
             /\ th' = [th EXCEPT ![w].pc = "apply", ![w].back = th[w].pc,
                                 ![w].journal = j,
                                 ![w].start = Len(th[w].journal),
                                 ![w].todo = [f \in P |-> v]]
    /\ lock' = w
    /\ patches' = patches + 1
    /\ UNCHANGED <<row, file, attempt, up, retry, crashes>>

\* One file of git apply, of the undo of a failed apply, or of _rollback
WriteFile(t) ==
    /\ th[t].pc \in {"apply", "unapply", "restore"}
    /\ \E f \in DOMAIN th[t].todo :
          /\ file' = [file EXCEPT ![f] = th[t].todo[f]]
          /\ th' = [th EXCEPT ![t].todo =
                      [g \in DOMAIN th[t].todo \ {f} |-> th[t].todo[g]]]
    /\ UNCHANGED <<row, fence, env, journal>>

\* The entries of the current patch and those of the patches before it
Added(w) == SubSeq(th[w].journal, th[w].start + 1, Len(th[w].journal))

\* (faulty) the whole journal is forgotten
NoEntries(w) == <<>>

Earlier(w) == SubSeq(th[w].journal, 1, th[w].start)

\* The advisory lease this patch claimed is released.
WithoutPatch(w) ==
    [f \in File |-> IF /\ f \in FilesOf(Added(w)) \ FilesOf(Earlier(w))
                      /\ lease[f] = Working(Mine(w))
                   THEN None ELSE lease[f]]

\* commit_guard checks again on exit; when the attempt has expired the patch
\* stays and the exception sends the worker to its rollback.
Patched(w) ==
    /\ th[w].pc = "apply"
    /\ th[w].todo = Nothing
    /\ lock' = None
    /\ th' = IF Own(w)
             THEN [th EXCEPT ![w].pc = th[w].back, ![w].edited = TRUE]
             ELSE [th EXCEPT ![w].pc = "rollback", ![w].goal = "failed"]
    /\ lease' = IF Own(w) THEN lease ELSE WithoutPatch(w)
    /\ UNCHANGED <<row, disk, env, attempt>>

\* git apply failed: this patch alone is rolled back under the same guard.  A patch
\* that applies always leaves its postimage here.
ApplyFails(w) ==
    /\ th[w].pc = "apply"
    /\ th' = [th EXCEPT ![w].pc = "unapply", ![w].todo = RestorePlan(Added(w))]
    /\ UNCHANGED <<row, disk, fence, env>>

\* del journal[journal_start:] and _persist_journal; the step retries or fails.
Unapplied(w) ==
    /\ th[w].pc = "unapply"
    /\ th[w].todo = Nothing
    /\ journal' = [journal EXCEPT ![Mine(w)] = Earlier(w)]
    /\ lease' = WithoutPatch(w)
    /\ th' = [th EXCEPT ![w].pc = th[w].back, ![w].journal = Earlier(w)]
    /\ lock' = None
    /\ UNCHANGED <<row, env, file, attempt>>

\* A step is done: _set_state("executing") with the files changed so far
StepDone(w) ==
    /\ th[w].pc = "body"
    /\ Guarded(w)
    /\ row[Mine(w)].state \notin Terminal
    /\ row' = WithState(Mine(w), "executing", Changed(th[w].edited))
    /\ Go(w, "step")
    /\ UNCHANGED <<disk, fence, env>>

\* A review asks for the agent: roll back, then needs_agent
ReviewAsks(w) ==
    /\ th[w].pc = "body"
    /\ th' = [th EXCEPT ![w].pc = "rollback", ![w].goal = "needs_agent"]
    /\ UNCHANGED <<row, disk, fence, env>>

\* All steps done: _set_state("verifying")
StartVerify(w) ==
    /\ th[w].pc = "step"
    /\ Guarded(w)
    /\ row[Mine(w)].state \notin Terminal
    /\ row' = WithState(Mine(w), "verifying", Changed(th[w].edited))
    /\ Go(w, "verify")
    /\ UNCHANGED <<disk, fence, env>>

\* Any exception in the body of a step or in verification, the busy store's
\* included; in bounded mode assert_active raises for a cancellation too.
StepFails(w) ==
    /\ \/ th[w].pc \in {"body", "verify"}
       \/ th[w].pc = "step" /\ (row[Mine(w)].state \in Terminal \/ Busy(w))
    /\ th' = [th EXCEPT ![w].pc = "rollback",
                        ![w].goal = IF Mode(Mine(w)) = "bounded" /\ Cancelled(w)
                                    THEN "cancelled" ELSE "failed"]
    /\ UNCHANGED <<row, disk, fence, env>>

-----------------------------------------------------------------------------
(* Finishing *)

\* _complete_if_not_cancelled, or needs_agent with a handoff: bounded orders,
\* and orders whose verification receipts are incomplete
Deliver(w, s) ==
    /\ th[w].pc = "verify"
    /\ Guarded(w)
    /\ s = "complete" => Mode(Mine(w)) = "execute"
    /\ IF row[Mine(w)].cancel \/ row[Mine(w)].state # "verifying"
       THEN /\ th' = [th EXCEPT ![w].pc = "rollback", ![w].goal = "cancelled"]
            /\ UNCHANGED row
       ELSE /\ row' = WithState(Mine(w), s,
                        [Changed(th[w].edited) EXCEPT !.handoff = TRUE])
            /\ Go(w, "delivered")
    /\ UNCHANGED <<disk, fence, env>>

\* _clear_journal after the terminal write; an OSError is ignored
ClearDelivered(w) ==
    /\ th[w].pc = "delivered"
    /\ Guarded(w)
    /\ journal' \in {journal, [journal EXCEPT ![Mine(w)] = <<>>]}
    /\ Go(w, "release")
    /\ UNCHANGED <<row, fence, env, file>>

\* attempt_guard has no retry: while another thread keeps the store busy past
\* the connection timeout it raises sqlite3.OperationalError, which is no
\* OSError, and the failure handler rolls back.
ClearDeliveredBusy(w) ==
    /\ th[w].pc = "delivered"
    /\ Busy(w)
    /\ th' = [th EXCEPT ![w].pc = "rollback", ![w].goal = "failed"]
    /\ UNCHANGED <<row, disk, fence, env>>

\* keep_failed_workspace, except for a review that asks the agent
KeepsEdits(w) == Keeps(Mine(w)) /\ th[w].goal # "needs_agent"

\* _rollback_transaction: nothing to undo, or the workspace is to be kept
DropJournal(w) ==
    /\ th[w].pc = "rollback"
    /\ Guarded(w)
    /\ th[w].journal = <<>> \/ KeepsEdits(w)
    /\ journal' = [journal EXCEPT ![Mine(w)] = <<>>]
    /\ Go(w, "ending")
    /\ UNCHANGED <<row, fence, env, file>>

\* (faulty) the files are restored outside commit_guard
RollbackUnguarded(w) ==
    /\ th[w].pc = "rollback"
    /\ th[w].journal # <<>>
    /\ ~KeepsEdits(w)
    /\ Restorable(th[w].journal)
    /\ th' = [th EXCEPT ![w].pc = "restore", ![w].todo = RestorePlan(th[w].journal)]
    /\ UNCHANGED <<row, disk, env, fence>>

Rollback(w) ==
    /\ th[w].pc = "rollback"
    /\ Guarded(w)
    /\ th[w].journal # <<>>
    /\ ~KeepsEdits(w)
    /\ Restorable(th[w].journal)
    /\ th' = [th EXCEPT ![w].pc = "restore", ![w].todo = RestorePlan(th[w].journal)]
    /\ lock' = w
    /\ UNCHANGED <<row, disk, env, attempt, lease>>

\* A rollback raised.  The handler of InterruptedError re-raises it unless the
\* order is bounded; every other handler goes on to record a failure.
AfterFailedRollback(w) ==
    IF th[w].goal = "cancelled" /\ Mode(Mine(w)) # "bounded"
    THEN [th EXCEPT ![w].pc = "raise"]
    ELSE [th EXCEPT ![w].pc = "ending", ![w].ok = FALSE,
                    ![w].goal = IF @ = "cancelled" THEN @ ELSE "failed"]

\* (faulty) the journal of a rollback that was not made is dropped
RollbackRefusedDrops(w) ==
    /\ th[w].pc = "rollback"
    /\ Busy(w)
    /\ th' = AfterFailedRollback(w)
    /\ journal' = [journal EXCEPT ![Mine(w)] = <<>>]
    /\ UNCHANGED <<row, file, fence, env>>

RollbackRefused(w) ==
    /\ th[w].pc = "rollback"
    /\ \/ Busy(w)
       \/ /\ Guarded(w)
          /\ ~KeepsEdits(w)
          /\ ~Restorable(th[w].journal)
    /\ th' = AfterFailedRollback(w)
    /\ UNCHANGED <<row, disk, fence, env>>

\* What a thread does when restore_journal raises under the guard
AfterFailedRestore(t) ==
    IF t \in Worker THEN AfterFailedRollback(t)
    ELSE [th EXCEPT ![t].pc = "update", ![t].ok = FALSE]

\* _record_recovery_checkpoint: only while the order is transient
Checkpoint(t) ==
    /\ th[t].pc = "restore"
    /\ th[t].todo = Nothing
    /\ IF row[Mine(t)].state \in Transient
       THEN /\ row' = [row EXCEPT ![Mine(t)].result.checkpoint = TRUE]
            /\ Go(t, "clear")
            /\ UNCHANGED <<lock, lease>>
       ELSE /\ lock' = None
            /\ lease' = Without(Recovering(Mine(t)))
            /\ th' = AfterFailedRestore(t)
            /\ UNCHANGED row
    /\ UNCHANGED <<disk, env, attempt>>

\* _clear_journal and the end of commit_guard, which checks the fence again
ClearJournal(t) ==
    /\ th[t].pc = "clear"
    /\ journal' = [journal EXCEPT ![Mine(t)] = <<>>]
    /\ lock' = None
    /\ lease' = Without(Recovering(Mine(t)))
    /\ th' = [th EXCEPT ![t].pc = IF t \in Worker THEN "ending" ELSE "update",
                        ![t].journal = <<>>,
                        ![t].edited = @ /\ ~Own(t),
                        ![t].ok = Own(t)]
    /\ UNCHANGED <<row, env, file, attempt>>

\* The terminal write of a handler, conditional on cancel_requested
End(w) ==
    /\ th[w].pc = "ending"
    /\ Guarded(w)
    /\ LET o == Mine(w)
           g == IF th[w].goal = "failed" /\ row[o].cancel
                THEN "cancelled" ELSE th[w].goal
           res == [Changed(th[w].edited) EXCEPT !.unsafe = ~th[w].ok]
       IN IF row[o].state \in Terminal THEN UNCHANGED row /\ Go(w, "release")
          ELSE IF g \in {"partial", "needs_agent"} /\ row[o].cancel
          THEN /\ th' = [th EXCEPT ![w].pc = "rollback", ![w].goal = "cancelled"]
               /\ UNCHANGED row
          ELSE row' = WithState(o, g, res) /\ Go(w, "release")
    /\ UNCHANGED <<disk, fence, env>>

\* (faulty) recovery is not scheduled for what could not be recorded
RaiseSilently(w) ==
    /\ th[w].pc = "raise"
    /\ Guarded(w)
    /\ row' = IF row[Mine(w)].state \notin Terminal /\ ~row[Mine(w)].cancel
              THEN WithState(Mine(w), "failed", NoResult) ELSE row
    /\ Go(w, "release")
    /\ UNCHANGED <<disk, fence, env>>

\* An exception that left _execute_fenced: _fail_if_not_cancelled, or recovery
Raise(w) ==
    /\ th[w].pc = "raise"
    /\ Guarded(w)
    /\ IF row[Mine(w)].state \notin Terminal /\ ~row[Mine(w)].cancel
       THEN row' = WithState(Mine(w), "failed", NoResult) /\ UNCHANGED retry
       ELSE retry' = retry \cup {Host[w]} /\ UNCHANGED row
    /\ Go(w, "release")
    /\ UNCHANGED <<disk, fence, up, patches, crashes>>

\* LeaseLostError: the attempt expired or was superseded, or a state update
\* found the order terminal; recovery is scheduled.
LoseAttempt(w) ==
    /\ lock = None
    /\ \/ /\ th[w].pc \in {"begin", "plan", "step", "rollback", "ending",
                            "delivered", "raise"}
          /\ ~Own(w)
       \/ th[w].pc \in {"begin", "plan"} /\ row[Mine(w)].state \in Terminal
    /\ retry' = retry \cup {Host[w]}
    /\ Go(w, "release")
    /\ UNCHANGED <<row, disk, fence, up, patches, crashes>>

\* A guarded state update finds the store busy: the exception leaves
\* _execute_fenced, and when _execute cannot record it either, recovery is
\* scheduled.
UpdateBusy(w) ==
    /\ th[w].pc \in {"begin", "ending", "raise"}
    /\ Busy(w)
    /\ IF th[w].pc = "raise"
       THEN retry' = retry \cup {Host[w]} /\ Go(w, "release")
       ELSE Go(w, "raise") /\ UNCHANGED retry
    /\ UNCHANGED <<row, disk, fence, up, patches, crashes>>

\* The finally blocks: advisory leases, then the attempt; an error of a busy
\* store is swallowed and leaves the attempt to expire.
Release(w) ==
    /\ th[w].pc = "release"
    /\ lease' = Without(Working(Mine(w)))
    /\ attempt' = IF lock = None THEN Released(w) ELSE attempt
    /\ th' = [th EXCEPT ![w] = IdleThread]
    /\ UNCHANGED <<row, disk, env, lock>>

\* _row failed before the attempt was claimed: _loop records the failure
\* without a fence.
RowUnavailable(w) ==
    /\ th[w].pc = "picked"
    /\ LET o == Mine(w)
       IN row' = IF row[o].state \in Terminal THEN row
                 ELSE WithState(o, IF row[o].cancel THEN "cancelled" ELSE "failed",
                                NoResult)
    /\ th' = [th EXCEPT ![w] = IdleThread]
    /\ UNCHANGED <<disk, fence, env>>

-----------------------------------------------------------------------------
(* A recovery pass.  The rows are selected first, then each journal is read *)
(* and only then is the attempt of its order claimed.                       *)

StartPass(r) ==
    /\ th[r].pc = "idle"
    /\ \/ up[Host[r]] = "starting"
       \/ up[Host[r]] = "up" /\ Host[r] \in retry
    /\ retry' = retry \ {Host[r]}
    /\ th' = [th EXCEPT ![r].pc = "pass",
                        ![r].rows = {[order |-> o, state |-> row[o].state,
                                      result |-> row[o].result] :
                                       o \in {p \in Order : row[p].state \in Transient}}]
    /\ UNCHANGED <<row, disk, fence, up, patches, crashes>>

LoadJournal(r) ==
    /\ th[r].pc = "pass"
    /\ \E q \in th[r].rows :
          th' = [th EXCEPT ![r].pc = "loaded", ![r].rows = @ \ {q},
                           ![r].order = q.order, ![r].seen = q.state,
                           ![r].result = q.result,
                           ![r].journal = journal[q.order]]
    /\ UNCHANGED <<row, disk, fence, env>>

\* The row is left for a later pass.
Defer(r) == th' = [th EXCEPT ![r].pc = "pass", ![r].order = None, ![r].late = TRUE]

Unavailable(o, j) ==
    attempt[o].live \/ \E f \in FilesOf(j) : lease[f] \notin {None, Recovering(o)}

\* claim_batch (for a journal), then claim_attempt; either may be unavailable.
\* Without a journal the row is safe unless it says that files were changed.
RecoverClaim(r) ==
    /\ th[r].pc = "loaded"
    /\ lock = None
    /\ LET o == Mine(r)
           j == th[r].journal
       IN IF Unavailable(o, j)
          THEN Defer(r) /\ UNCHANGED <<attempt, lease>>
          ELSE /\ attempt[o].token < MaxAttempts
               /\ attempt' = ClaimedBy(o)
               /\ lease' = [f \in File |-> IF f \in FilesOf(j) THEN Recovering(o)
                                            ELSE lease[f]]
               /\ th' = [th EXCEPT
                    ![r].token = attempt[o].token + 1,
                    ![r].pc = IF j = <<>> THEN "update" ELSE "claimed",
                    ![r].ok = ~(j = <<>> /\ th[r].result.changed
                                         /\ ~th[r].result.checkpoint)]
    /\ UNCHANGED <<row, disk, env, lock>>

RecoverBusy(r) ==
    /\ th[r].pc = "loaded"
    /\ Busy(r)
    /\ Defer(r)
    /\ UNCHANGED <<row, disk, fence, env>>

RecoverRestore(r) ==
    /\ th[r].pc = "claimed"
    /\ Guarded(r)
    /\ Restorable(th[r].journal)
    /\ th' = [th EXCEPT ![r].pc = "restore", ![r].todo = RestorePlan(th[r].journal)]
    /\ lock' = r
    /\ UNCHANGED <<row, disk, env, attempt, lease>>

\* (faulty) a refused restore counts as done
RecoverRefusedSafe(r) ==
    /\ th[r].pc = "claimed"
    /\ lock = None /\ ~Restorable(th[r].journal)
    /\ lease' = Without(Recovering(Mine(r)))
    /\ Go(r, "update")
    /\ UNCHANGED <<row, disk, env, attempt, lock>>

\* The fence is lost or unavailable, or the rollback is refused.
RecoverRefused(r) ==
    /\ th[r].pc = "claimed"
    /\ \/ Busy(r)
       \/ lock = None /\ ~Own(r)
       \/ lock = None /\ ~Restorable(th[r].journal)
    /\ lease' = Without(Recovering(Mine(r)))
    /\ th' = [th EXCEPT ![r].pc = "update", ![r].ok = FALSE]
    /\ UNCHANGED <<row, disk, env, attempt, lock>>

\* (faulty) a cancelled order is closed whether or not it was undone
RecoverUpdateCancels(r) ==
    /\ th[r].pc = "update"
    /\ Guarded(r)
    /\ row[Mine(r)].state = th[r].seen
    /\ row' = WithState(Mine(r), IF row[Mine(r)].cancel THEN "cancelled" ELSE "needs_agent",
                        NoResult)
    /\ Go(r, "release")
    /\ UNCHANGED <<disk, fence, env>>

\* The row moves on only from the state the pass selected it in.
RecoverUpdate(r) ==
    /\ th[r].pc = "update"
    /\ Guarded(r)
    /\ LET o == Mine(r)
           bounded == Mode(o) = "bounded"
           unsafe == [NoResult EXCEPT !.unsafe = bounded]
       IN row' = IF row[o].state # th[r].seen THEN row
                 ELSE IF ~th[r].ok THEN WithState(o, "needs_agent", unsafe)
                 ELSE IF ~bounded THEN WithState(o, "queued", NoResult)
                 ELSE WithState(o, IF row[o].cancel THEN "cancelled"
                                   ELSE "needs_agent", unsafe)
    /\ Go(r, "release")
    /\ UNCHANGED <<disk, fence, env>>

RecoverLost(r) ==
    /\ th[r].pc = "update"
    /\ lock = None
    /\ ~Own(r)
    /\ th' = [th EXCEPT ![r].pc = "release", ![r].late = TRUE]
    /\ UNCHANGED <<row, disk, fence, env>>

\* sqlite3.OperationalError is caught nowhere in _recover: the pass ends, and
\* a start-up pass takes its process with it.
RecoverAborts(r) ==
    /\ th[r].pc = "update"
    /\ Busy(r)
    /\ attempt' \in {attempt, Released(r)}
    /\ th' = [th EXCEPT ![r] = IdleThread]
    /\ up' = [up EXCEPT ![Host[r]] = IF @ = "starting" THEN "down" ELSE @]
    /\ UNCHANGED <<row, disk, lease, lock, retry, patches, crashes>>

RecoverRelease(r) ==
    /\ th[r].pc = "release"
    /\ attempt' = IF lock = None THEN Released(r) ELSE attempt
    /\ th' = [th EXCEPT ![r] = [IdleThread EXCEPT !.pc = "pass",
                                  !.rows = th[r].rows, !.late = th[r].late]]
    /\ UNCHANGED <<row, disk, env, lease, lock>>

\* Complete orders whose journal was not removed
StartCleanup(r) ==
    /\ th[r].pc = "pass"
    /\ th[r].rows = {}
    /\ th' = [th EXCEPT ![r].pc = "cleanup",
                        ![r].rows = {o \in Order : row[o].state = "complete"}]
    /\ UNCHANGED <<row, disk, fence, env>>

\* claim_attempt and, under attempt_guard, the state and the journal again
Cleanup(r) ==
    /\ th[r].pc = "cleanup"
    /\ lock = None
    /\ \E o \in th[r].rows :
          LET clear == /\ journal[o] # <<>>
                       /\ ~attempt[o].live
                       /\ row[o].state = "complete"
          IN /\ journal' = IF clear THEN [journal EXCEPT ![o] = <<>>] ELSE journal
             /\ attempt' = IF clear THEN [attempt EXCEPT ![o].token = @ + 1] ELSE attempt
             /\ th' = [th EXCEPT ![r].rows = @ \ {o},
                                 ![r].late = @ \/ (journal[o] # <<>> /\ attempt[o].live)]
    /\ UNCHANGED <<row, env, file, lease, lock>>

EndPass(r) ==
    /\ th[r].pc = "cleanup"
    /\ th[r].rows = {}
    /\ retry' = IF th[r].late /\ up[Host[r]] # "stopping"
                THEN retry \cup {Host[r]} ELSE retry
    /\ up' = [up EXCEPT ![Host[r]] = IF @ = "starting" THEN "up" ELSE @]
    /\ th' = [th EXCEPT ![r] = IdleThread]
    /\ UNCHANGED <<row, disk, fence, patches, crashes>>

-----------------------------------------------------------------------------
(* Processes and time *)

Start(i) ==
    /\ up[i] = "down"
    /\ up' = [up EXCEPT ![i] = "starting"]
    /\ UNCHANGED <<row, disk, fence, th, retry, patches, crashes>>

\* A file that was being written may be torn.
Crash(i) ==
    /\ up[i] # "down"
    /\ crashes < MaxCrashes
    /\ crashes' = crashes + 1
    /\ up' = [up EXCEPT ![i] = "down"]
    /\ retry' = retry \ {i}
    /\ th' = [t \in Thread |-> IF Host[t] = i THEN IdleThread ELSE th[t]]
    /\ lock' = IF lock # None /\ Host[lock] = i THEN None ELSE lock
    /\ \/ file' = file
       \/ /\ lock # None /\ Host[lock] = i
          /\ \E f \in DOMAIN th[lock].todo :
                file' = [file EXCEPT ![f] = [th[lock].todo[f] EXCEPT !.torn = TRUE]]
    /\ UNCHANGED <<row, journal, attempt, lease, patches>>

\* close: workers see _stop as a cancellation, the timer is cancelled
Close(i) ==
    /\ up[i] = "up"
    /\ crashes < MaxCrashes
    /\ crashes' = crashes + 1
    /\ up' = [up EXCEPT ![i] = "stopping"]
    /\ retry' = retry \ {i}
    /\ UNCHANGED <<row, disk, fence, th, patches>>

Stopped(i) ==
    /\ up[i] = "stopping"
    /\ \A t \in Thread : Host[t] = i => th[t].pc = "idle"
    /\ up' = [up EXCEPT ![i] = "down"]
    /\ retry' = retry \ {i}
    /\ UNCHANGED <<row, disk, fence, th, patches, crashes>>

\* Some thread has read state of o that it will act on.
Engaged(o) ==
    \E t \in Thread :
        \/ Mine(t) = o
        \/ th[t].pc = "pass" /\ (\E q \in th[t].rows : q.order = o)

ExpireAttempt(o) ==
    /\ attempt[o].live
    /\ Prompt => ~Engaged(o)
    /\ attempt' = [attempt EXCEPT ![o].live = FALSE]
    /\ UNCHANGED <<row, disk, env, lease, lock, th>>

ExpireLease(f) ==
    /\ lease[f] # None
    /\ Prompt => ~Engaged(lease[f][1])
    /\ lease' = [lease EXCEPT ![f] = None]
    /\ UNCHANGED <<row, disk, env, attempt, lock, th>>

-----------------------------------------------------------------------------

Init ==
    /\ row = [o \in Order |-> [state |-> "absent", cancel |-> FALSE,
                               answered |-> FALSE, result |-> NoResult,
                               request |-> [mode |-> "execute", keep |-> FALSE]]]
    /\ file = [f \in File |-> Original]
    /\ journal = [o \in Order |-> <<>>]
    /\ attempt = [o \in Order |-> [token |-> 0, live |-> FALSE]]
    /\ lease = [f \in File |-> None]
    /\ lock = None
    /\ th = [t \in Thread |-> IdleThread]
    /\ up = [i \in Instance |-> "down"]
    /\ retry = {}
    /\ patches = 0
    /\ crashes = 0

WorkerStep(w) ==
    \/ Next_(w) \/ CheckPlanning(w) \/ RowUnavailable(w)
    \/ ClaimAttempt(w) \/ ClaimBusy(w) \/ Begin(w)
    \/ \E s \in {"complete", "needs_agent"} : PlanEnds(w, s) \/ Deliver(w, s)
    \/ PlanFails(w) \/ PlanDone(w)
    \/ StartStep(w) \/ Patch(w) \/ Patched(w) \/ ApplyFails(w) \/ Unapplied(w)
    \/ StepDone(w) \/ ReviewAsks(w) \/ StartVerify(w) \/ StepFails(w)
    \/ ClearDelivered(w) \/ ClearDeliveredBusy(w)
    \/ DropJournal(w) \/ Rollback(w) \/ RollbackRefused(w)
    \/ End(w) \/ Raise(w) \/ LoseAttempt(w) \/ UpdateBusy(w) \/ Release(w)

RecoveryStep(r) ==
    \/ StartPass(r) \/ LoadJournal(r) \/ RecoverClaim(r) \/ RecoverBusy(r)
    \/ RecoverRestore(r) \/ RecoverRefused(r) \/ RecoverUpdate(r)
    \/ RecoverLost(r) \/ RecoverAborts(r) \/ RecoverRelease(r)
    \/ StartCleanup(r) \/ Cleanup(r) \/ EndPass(r)

RestoreStep(t) == WriteFile(t) \/ Checkpoint(t) \/ ClearJournal(t)

Next ==
    \/ \E o \in Order : Submit(o) \/ Cancel(o) \/ Continue(o) \/ ExpireAttempt(o)
    \/ \E w \in Worker : WorkerStep(w)
    \/ \E r \in Recoverer : RecoveryStep(r)
    \/ \E t \in Thread : RestoreStep(t)
    \/ \E i \in Instance : Start(i) \/ Crash(i) \/ Close(i) \/ Stopped(i)
    \/ \E f \in File : ExpireLease(f)

Spec == Init /\ [][Next]_vars

\* Threads run and a dead process is started again by the supervisor.  Lifetimes
\* pass however often a recovery pass looks at the order in the meantime (strong
\* fairness; Prompt disables expiry during a look).  Nothing forces a caller, a
\* crash or a shutdown.
Fairness ==
    /\ \A w \in Worker : WF_vars(WorkerStep(w) \/ RestoreStep(w))
    /\ \A r \in Recoverer : WF_vars(RecoveryStep(r) \/ RestoreStep(r))
    /\ \A i \in Instance : WF_vars(Start(i) \/ Stopped(i))
    /\ \A o \in Order : SF_vars(ExpireAttempt(o))
    /\ \A f \in File : SF_vars(ExpireLease(f))

FairSpec == Spec /\ Fairness

-----------------------------------------------------------------------------
(* Properties *)

\* The type invariant; the write lock belongs to exactly the thread that is
\* inside a guarded section of _apply_patch, _rollback_transaction or _recover.
TypeOK ==
    /\ row \in [Order -> [state : State, cancel : BOOLEAN, answered : BOOLEAN,
                          request : [mode : {"execute", "bounded", "plan"},
                                     keep : BOOLEAN],
                          result : [changed : BOOLEAN, checkpoint : BOOLEAN,
                                    handoff : BOOLEAN, unsafe : BOOLEAN]]]
    /\ file \in [File -> Version]
    /\ \A o \in Order : journal[o] \in Seq(Entry)
    /\ attempt \in [Order -> [token : Nat, live : BOOLEAN]]
    /\ lease \in [File -> {None} \cup (Order \X {"work", "recovery"})]
    /\ lock \in {None} \cup Thread
    /\ \A t \in Thread :
          lock = t <=> th[t].pc \in {"apply", "unapply", "restore", "clear"}
    /\ up \in [Instance -> {"down", "starting", "up", "stopping"}]
    /\ retry \subseteq Instance

Delivered(o) == row[o].state = "complete" \/ row[o].result.handoff

\* What the properties below say of an order whose caller wants failed edits
\* undone.  An answered order starts with an empty journal over whatever its
\* earlier execution left, which the caller has seen.
Undoable(o) == ~Keeps(o) /\ ~row[o].answered

\* Write-ahead journal (_persist_journal before git apply, _clear_journal after
\* the restore or the terminal write): at every instant, whatever dies, an edit
\* that is not delivered is covered by the journal on disk.
EditsJournaled ==
    \A o \in Order, f \in File :
        file[f].by = o /\ Undoable(o) /\ ~Delivered(o) => f \in FilesOf(journal[o])

\* _recover puts an interrupted order back in the queue only with its edits
\* undone, so that the next execution starts from the original workspace.
CleanRequeue ==
    \A o \in Order, f \in File :
        row[o].state = "queued" /\ Undoable(o) => file[f].by # o

\* An order that ended without delivering, whose worker is gone, either left
\* nothing in the workspace or says that reconciliation is required.
HonestFailure ==
    \A o \in Order, f \in File :
        /\ row[o].state \in {"failed", "cancelled", "partial"}
        /\ ~row[o].result.unsafe /\ Undoable(o)
        /\ \A t \in Thread : Mine(t) # o
        => file[f].by # o

\* A rollback of one order (_preflight_rollback compares postimages) never
\* takes back what a later patch of another order wrote.
RollbackSparesOthers ==
    [][\A f \in File :
          file'[f] # file[f] /\ file'[f].n < file[f].n
          => lock # None /\ file[f].by = Mine(lock)]_vars

\* A submitted order reaches a final state, through crashes, shutdowns and
\* cancellations that meet a plan or a delivery half-way: what the worker can
\* not record the recovery timer picks up (_execute, _schedule_recovery_retry).
\* Checked for bounded orders, which recovery never puts back in the queue.
Settles ==
    \A o \in Order :
        row[o].state = "queued" /\ ~row[o].answered ~> row[o].state \in Terminal

\* The files of a complete order are only ever replaced by newer patches: no
\* recovery pass takes committed work back (_recover, "keep committed workspace
\* and discard only the now-obsolete rollback snapshot").
CompletedWorkKept ==
    [][\A o \in Order, f \in File :
          row[o].state = "complete" /\ file[f].by = o /\ file'[f] # file[f]
          => file'[f].n > file[f].n]_vars

\* A worker that recorded completion restores nothing afterwards ("Completion
\* is already durable; never roll it back for cleanup failure").
CompletionFinal ==
    \A w \in Worker :
        th[w].pc # "idle" /\ row[Mine(w)].state = "complete" => th[w].todo = Nothing

\* Work orders are resumable: no order stays for ever in a state in which some
\* worker is supposed to be busy with it.
Resumable ==
    \A o \in Order : row[o].state \in Transient ~> row[o].state \notin Transient
=============================================================================
