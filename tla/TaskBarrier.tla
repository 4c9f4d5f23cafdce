---------------------------- MODULE TaskBarrier ----------------------------
(***************************************************************************)
(* A task of the agent task store (agent_tasks.py) with one bounded work   *)
(* order bound to it (work_orchestrator.py).  The order edits the          *)
(* workspace of the task; the task must not be completed on receipts that  *)
(* do not see those edits, nor while they may still be undone.  Two things *)
(* in the task's row see to it: the mutation generation and the marker     *)
(* `_pending_fenced_work`, the barrier, which names the attempt at work.   *)
(* The row, the order's row, its journal file and the workspace are four   *)
(* stores without a common transaction.                                    *)
(*                                                                         *)
(* The row of the task is written by compare-and-swap of the whole row     *)
(* (_commit_update): `reads` holds the threads whose copy is still the     *)
(* row.  A call that reads and commits at once is one step.  One hub       *)
(* process; what the order does besides this is module WorkOrders.         *)
(***************************************************************************)
EXTENDS Naturals, Sequences, FiniteSets, SequencesExt

CONSTANTS
    Agents,         \* callers that may own the task
    Resets,         \* a checkpoint may reset the generation once there is a receipt
    Interrupted,    \* a recovery pass may look at an order that is being worked on
    LongRuns,       \* the workspace may change during a test run
    MaxPatches,     \* bound on the patches of the order
    MaxEvents,      \* bound on calls of agents, failures of a store and crashes
    None

ASSUME BarrierAssumption ==
    /\ {Resets, Interrupted, LongRuns} \subseteq BOOLEAN
    /\ {MaxPatches, MaxEvents} \subseteq Nat
    /\ Agents # {} /\ {"system", None} \cap Agents = {}
    /\ None \notin {"system", "worker", "recover", "dead"}

VARIABLES
    task,     \* the row: status, owner, generation, barrier, mapped receipt
    rcpt,     \* the latest receipt of its criterion, or None
    order,    \* the row of the work order
    journal,  \* the journal file: pre- and postimage of each patch
    tree,     \* the workspace: the last patch and the last outside edit in it
    attempt,  \* the newest attempt of the order and who holds it
    final,    \* the last "fenced_work_finalized" event that was no rollback
    th,       \* the worker thread and the recovery thread
    comp,     \* an agent's call to complete the task
    run,      \* a test run of the command broker
    reads,    \* the threads whose copy of the task's row is current
    env       \* up, recovery scheduled, a pass cut short, patches made, events left

agents == <<rcpt, comp, run>>
work == <<order, journal, tree, attempt, final>>
vars == <<task, agents, work, th, reads, env>>

Threads == {"worker", "recover"}

Off == [pc |-> "off", doing |-> "none", owner |-> None, list |-> <<>>, copy |-> None,
        bar |-> FALSE, keep |-> FALSE, guard |-> TRUE, ok |-> FALSE]
NoCall == [pc |-> "off", actor |-> None, rev |-> None, snap |-> None]

Closed == {"completed", "cancelled", "failed", "abandoned"}

\* VALID_TRANSITIONS, for the statuses after activation; blocked is as waiting
Valid(s) ==
    CASE s = "active" -> {"verifying", "waiting", "failed", "cancelled", "abandoned"}
      [] s = "verifying" -> {"completed", "active", "failed", "cancelled", "abandoned"}
      [] s = "waiting" -> {"active", "cancelled", "abandoned", "failed"}
      [] s = "abandoned" -> {"active", "cancelled", "failed"}
      [] s = "failed" -> {"active", "cancelled"}
      [] OTHER -> {}

\* What _expected_completion_content compares, the owner apart.
Content(t) == <<t.gen, t.mark, t.mapped>>

(* evaluate_completion_receipts for the task's one criterion *)
Satisfied(t, rev) ==
    /\ rcpt # None
    /\ rcpt.owner = t.owner
    /\ rcpt.id = t.mapped
    /\ rcpt.rev = rev
    /\ rcpt.gen = t.gen

Torn == [patch |-> MaxPatches + 1, edit |-> 0]

(* _rollback: from the last entry back, each image must be one of the entry's *)
Undone(list, now) ==
    LET found(i) == IF i = Len(list) THEN now ELSE list[i + 1].pre IN
    IF list = <<>> THEN now
    ELSE IF \A i \in 1..Len(list) : found(i) \in {list[i].pre, list[i].post}
         THEN list[1].pre ELSE Torn

Init ==
    /\ task = [status |-> "active", owner |-> CHOOSE a \in Agents : TRUE, gen |-> 0,
               mark |-> 0, mapped |-> 0]
    /\ rcpt = None
    /\ order = [state |-> "none", bar |-> "clear", ckpt |-> FALSE, post |-> None,
                tok |-> 0, gen |-> 0, keep |-> FALSE, cancel |-> FALSE]
    /\ journal = <<>>
    /\ tree = [patch |-> 0, edit |-> 0]
    /\ attempt = [tok |-> 0, by |-> None]
    /\ final = None
    /\ th = [t \in Threads |-> Off]
    /\ comp = NoCall
    /\ run = [pc |-> "off", rev |-> None]
    /\ reads = {}
    /\ env = [up |-> TRUE, retry |-> FALSE, missed |-> FALSE, patches |-> 0, left |-> MaxEvents]

At(t, pc) == env.up /\ th[t].pc = pc
Goto(t, pc) == th' = [th EXCEPT ![t].pc = pc]

\* One of the bounded events: a call of an agent, a failure of a store.
Event == env.left > 0 /\ env' = [env EXCEPT !.left = @ - 1]

\* _commit_update of a row read in the same step: every other copy is stale.
Write(row, readers) == task' = row /\ reads' = readers

-----------------------------------------------------------------------------
(* The order before its end *)

(* submit, for a request that names the task *)
Submit(keep) ==
    /\ env.up /\ order.state = "none" /\ task.status = "active"
    /\ order' = [order EXCEPT !.state = "queued", !.keep = keep]
    /\ UNCHANGED <<task, agents, journal, tree, attempt, final, th, reads, env>>

(* cancel *)
Cancel ==
    /\ env.up /\ order.state \in {"queued", "active"} /\ ~order.cancel /\ Event
    /\ order' = IF order.state = "queued" THEN [order EXCEPT !.state = "ended"]
                ELSE [order EXCEPT !.cancel = TRUE]
    /\ UNCHANGED <<task, agents, journal, tree, attempt, final, th, reads>>

(* _next, _execute, _execute_fenced: the attempt and the owner of the task *)
Take ==
    /\ At("worker", "off") /\ order.state = "queued" /\ attempt.by = None
    /\ order' = [order EXCEPT !.state = "active"]
    /\ attempt' = [tok |-> attempt.tok + 1, by |-> "worker"]
    /\ th' = [th EXCEPT !["worker"] = [Off EXCEPT !.pc = "work", !.owner = task.owner]]
    /\ UNCHANGED <<task, agents, journal, tree, final, reads, env>>

\* (faulty) the status of the task is not looked at
MayBeginAnyStatus ==
    /\ task.owner = th["worker"].owner
    /\ task.mark \in {0, attempt.tok}

MayBegin ==
    /\ task.status = "active"
    /\ task.owner = th["worker"].owner
    /\ task.mark \in {0, attempt.tok}

\* (faulty) the generation is left as it is
BeginWorkQuiet ==
    /\ \E pc \in {"work", "retry"} : At("worker", pc)
    /\ env.patches < MaxPatches /\ MayBegin
    /\ Write([task EXCEPT !.mark = attempt.tok], {})
    /\ \/ Goto("worker", "persist") /\ UNCHANGED env
       \/ Goto("worker", "retry") /\ Event
    /\ UNCHANGED <<agents, work>>

(* _begin_fenced_work_mutation; its commit may be followed by an error *)
BeginWork ==
    /\ \E pc \in {"work", "retry"} : At("worker", pc)
    /\ env.patches < MaxPatches /\ MayBegin
    /\ Write([task EXCEPT !.gen = @ + 1, !.mark = attempt.tok], {})
    /\ \/ Goto("worker", "persist") /\ UNCHANGED env
       \/ Goto("worker", "retry") /\ Event
    /\ UNCHANGED <<agents, work>>

BeginRefused ==
    /\ At("worker", "work") /\ ~MayBegin
    /\ Goto("worker", "retry")
    /\ UNCHANGED <<task, agents, work, reads, env>>

(* _apply_patch: both images are on disk before the file is written *)
Persist ==
    LET entry == [pre |-> tree, post |-> [tree EXCEPT !.patch = env.patches + 1]] IN
    /\ At("worker", "persist")
    /\ journal' = Append(th["worker"].list, entry)
    /\ th' = [th EXCEPT !["worker"].list = journal', !["worker"].pc = "apply"]
    /\ env' = [env EXCEPT !.patches = @ + 1]
    /\ UNCHANGED <<task, agents, order, tree, attempt, final, reads>>

Apply ==
    /\ At("worker", "apply") /\ tree = Last(th["worker"].list).pre
    /\ tree' = Last(th["worker"].list).post
    /\ Goto("worker", "work")
    /\ UNCHANGED <<task, agents, order, journal, attempt, final, reads, env>>

(* git refuses: this patch is undone, unless the file is not the one it was; the
   model is asked for another one *)
PatchFails ==
    LET list == th["worker"].list IN
    /\ At("worker", "apply")
    /\ \/ /\ tree = Last(list).pre /\ env.left > 0
          /\ journal' = Front(list)
          /\ env' = [env EXCEPT !.patches = @ - 1, !.left = @ - 1]
       \/ /\ tree # Last(list).pre
          /\ UNCHANGED <<journal, env>>
    /\ th' = [th EXCEPT !["worker"].list = journal', !["worker"].pc = "retry"]
    /\ UNCHANGED <<task, agents, order, tree, attempt, final, reads>>

(* the last steps of _execute_fenced, with and without edits *)
Deliver ==
    /\ At("worker", "work") /\ th["worker"].list # <<>>
    /\ th' = [th EXCEPT
          !["worker"].doing = IF task.mark = attempt.tok THEN "deliver" ELSE "undo",
          !["worker"].pc = IF task.mark = attempt.tok THEN "finish" ELSE "rollback",
          !["worker"].keep = order.keep]
    /\ UNCHANGED <<task, agents, work, reads, env>>

DeliverNothing ==
    /\ At("worker", "work") /\ th["worker"].list = <<>> /\ ~order.cancel
    /\ order' = [order EXCEPT !.state = "ended"]
    /\ journal' = <<>>
    /\ Goto("worker", "release")
    /\ UNCHANGED <<task, agents, tree, attempt, final, reads, env>>

(* a failure or a cancellation reaches the handlers of _execute_fenced *)
Fail ==
    /\ \E pc \in {"work", "retry"} : At("worker", pc)
    /\ th' = [th EXCEPT !["worker"].pc = "rollback", !["worker"].doing = "undo",
                        !["worker"].keep = order.keep]
    /\ UNCHANGED <<task, agents, work, reads, env>>

(* a review asks the agent, or the budget is spent: rollback outside the handlers *)
Ask(keep) ==
    /\ At("worker", "work") /\ keep \in {FALSE, order.keep}
    /\ th' = [th EXCEPT !["worker"].pc = "rollback", !["worker"].doing = "ask",
                        !["worker"].keep = keep]
    /\ UNCHANGED <<task, agents, work, reads, env>>

(* _rollback_transaction: with the barrier, without it, or with nothing to do *)
RollbackTransaction ==
    LET w == th["worker"] IN
    /\ At("worker", "rollback")
    /\ \/ /\ task.mark # 0
          /\ th' = [th EXCEPT !["worker"].pc = "finish", !["worker"].guard = TRUE]
       \/ /\ task.mark = 0
          /\ th' = [th EXCEPT !["worker"].guard = FALSE,
                  !["worker"].pc = IF w.list = <<>> \/ w.keep THEN "clear" ELSE "restore"]
    /\ UNCHANGED <<task, agents, work, reads, env>>

-----------------------------------------------------------------------------
(* _finish_fenced_work_mutation and the `finalize` it is given *)

RollsBack(t) == \/ th[t].doing = "restore"
                \/ th[t].doing \in {"undo", "ask"} /\ ~th[t].keep

\* where the caller goes on after the call returned, and after it raised
Succeeded(t) == CASE th[t].doing = "deliver" -> "status"
                  [] th[t].doing \in {"undo", "ask"} -> "end"
                  [] th[t].doing = "handoff" -> "report"
                  [] OTHER -> "update"

\* (faulty) an error after the handover is handled like one before it
AfterErrorUndoes(t) ==
    LET me == th[t] IN
    IF me.doing \in {"deliver", "ask"}
    THEN [me EXCEPT !.pc = "rollback", !.doing = "undo", !.keep = order.keep]
    ELSE [me EXCEPT !.pc = Succeeded(t), !.ok = FALSE]

AfterError(t) ==
    LET me == th[t] IN
    CASE me.doing = "deliver" /\ order.state = "ended" -> [me EXCEPT !.pc = "release"]
      [] \/ me.doing = "deliver" /\ order.state # "ended"
         \/ me.doing = "ask" ->
            [me EXCEPT !.pc = "rollback", !.doing = "undo", !.keep = order.keep]
      [] OTHER -> [me EXCEPT !.pc = Succeeded(t), !.ok = FALSE]

(* the row is read; a rollback commits a new generation first *)
FinishRead(t) ==
    LET me == th[t] IN
    /\ At(t, "finish") /\ task.owner = me.owner /\ task.mark = attempt.tok
    /\ IF RollsBack(t) THEN Write([task EXCEPT !.gen = @ + 1], {t})
       ELSE reads' = reads \cup {t} /\ UNCHANGED task
    /\ Goto(t, CASE me.doing = "deliver" -> "publish"
                 [] me.doing = "handoff" -> "verify"
                 [] me.doing = "lift" -> "commit"
                 [] OTHER -> IF me.list = <<>> \/ me.keep THEN "clear" ELSE "restore")
    /\ UNCHANGED <<agents, work, env>>

(* publish_handoff *)
Publish(t) ==
    /\ At(t, "publish") /\ tree = Last(th[t].list).post /\ ~order.cancel
    /\ order' = [order EXCEPT !.state = "ended", !.bar = "pending", !.post = tree,
                              !.tok = attempt.tok, !.gen = task.gen]
    /\ Goto(t, "clear")
    /\ UNCHANGED <<task, agents, journal, tree, attempt, final, reads, env>>

(* _verify_handoff_postimages *)
Verify(t) ==
    /\ At(t, "verify") /\ tree = th[t].copy.post
    /\ Goto(t, "clear")
    /\ UNCHANGED <<task, agents, work, reads, env>>

\* (faulty) the images are not compared before the first one is restored
RestoreBlind(t) ==
    /\ At(t, "restore")
    /\ tree' = Undone(th[t].list, tree)
    /\ Goto(t, "checkpoint")
    /\ UNCHANGED <<task, agents, order, journal, attempt, final, reads, env>>

Restore(t) ==
    /\ At(t, "restore") /\ Undone(th[t].list, tree) # Torn
    /\ tree' = Undone(th[t].list, tree)
    /\ Goto(t, "checkpoint")
    /\ UNCHANGED <<task, agents, order, journal, attempt, final, reads, env>>

(* _record_recovery_checkpoint *)
RecordCheckpoint(t) ==
    /\ At(t, "checkpoint") /\ order.state = "active"
    /\ order' = [order EXCEPT !.ckpt = TRUE]
    /\ th' = [th EXCEPT ![t].pc = "clear", ![t].list = <<>>]
    /\ UNCHANGED <<task, agents, journal, tree, attempt, final, reads, env>>

\* (faulty) the order's edits can still be undone when the barrier is lifted
ClearJournalLater(t) ==
    /\ At(t, "clear")
    /\ Goto(t, IF th[t].guard THEN "commit" ELSE Succeeded(t))
    /\ UNCHANGED <<task, agents, work, reads, env>>

(* _clear_journal *)
ClearJournal(t) ==
    /\ At(t, "clear")
    /\ journal' = <<>>
    /\ Goto(t, IF th[t].guard THEN "commit" ELSE Succeeded(t))
    /\ UNCHANGED <<task, agents, order, tree, attempt, final, reads, env>>

(* the barrier is lifted, if the row is still the one that was read *)
CommitFinish(t) ==
    /\ At(t, "commit") /\ t \in reads
    /\ Write([task EXCEPT !.mark = 0], {t})
    /\ final' = IF RollsBack(t) THEN final ELSE [tok |-> attempt.tok, owner |-> th[t].owner]
    /\ \/ /\ th' = [th EXCEPT ![t].pc = Succeeded(t), ![t].bar = FALSE, ![t].ok = TRUE]
          /\ UNCHANGED env
       \/ Event /\ th' = [th EXCEPT ![t] = AfterError(t)]
    /\ UNCHANGED <<agents, order, journal, tree, attempt>>

Refused(t) ==
    CASE th[t].pc = "finish" -> task.owner # th[t].owner \/ task.mark # attempt.tok
      [] th[t].pc = "publish" -> tree # Last(th[t].list).post \/ order.cancel
      [] th[t].pc = "verify" -> tree # th[t].copy.post
      [] th[t].pc = "restore" -> Undone(th[t].list, tree) = Torn
      [] th[t].pc = "checkpoint" -> order.state # "active"
      [] th[t].pc = "commit" -> t \notin reads
      [] OTHER -> FALSE

FinishFails(t) ==
    /\ \E pc \in {"finish", "publish", "verify", "restore", "checkpoint", "clear", "commit"} :
          At(t, pc)
    /\ \/ Refused(t) /\ UNCHANGED env
       \/ ~Refused(t) /\ Event
    /\ th' = [th EXCEPT ![t] = AfterError(t)]
    /\ UNCHANGED <<task, agents, work, reads>>

-----------------------------------------------------------------------------
(* The end of the order *)

(* after the call: the order says that the barrier is gone, if that write succeeds *)
SetStatus ==
    /\ At("worker", "status")
    /\ \/ order' = [order EXCEPT !.bar = "released"] /\ UNCHANGED env
       \/ Event /\ UNCHANGED order
    /\ Goto("worker", "release")
    /\ UNCHANGED <<task, agents, journal, tree, attempt, final, reads>>

Ended(unresolved) ==
    [order EXCEPT !.state = "ended", !.ckpt = FALSE,
                  !.bar = IF unresolved THEN "reconcile" ELSE "clear"]

\* (faulty) the barrier is left out of the result
EndSilently ==
    /\ At("worker", "end")
    /\ order' = Ended(FALSE)
    /\ Goto("worker", "release")
    /\ UNCHANGED <<task, agents, journal, tree, attempt, final, reads, env>>

(* _set_terminal_*, _fail_if_not_cancelled, with unresolved_task_barrier *)
End ==
    /\ At("worker", "end")
    /\ order' = Ended(task.mark # 0)
    /\ Goto("worker", "release")
    /\ UNCHANGED <<task, agents, journal, tree, attempt, final, reads, env>>

(* that write raises.  A rollback outside the handlers goes to them; after a handler,
   _execute records a plain failure, which does not look at the barrier, unless the
   order was cancelled or the store fails again: then recovery is scheduled *)
EndFails ==
    /\ At("worker", "end") /\ env.left > 0
    /\ \/ /\ th["worker"].doing = "ask"
          /\ th' = [th EXCEPT !["worker"] = AfterError("worker")]
          /\ env' = [env EXCEPT !.left = @ - 1]
          /\ UNCHANGED order
       \/ /\ th["worker"].doing # "ask" /\ ~order.cancel
          /\ order' = [Ended(FALSE) EXCEPT !.bar = "unseen"]
          /\ env' = [env EXCEPT !.left = @ - 1]
          /\ Goto("worker", "release")
       \/ /\ th["worker"].doing # "ask"
          /\ env' = [env EXCEPT !.left = @ - 1, !.retry = TRUE]
          /\ Goto("worker", "release")
          /\ UNCHANGED order
    /\ UNCHANGED <<task, agents, journal, tree, attempt, final, reads>>

(* release_attempt; the recovery thread goes on with its pass *)
Release(t) ==
    /\ At(t, "release")
    /\ attempt' = [attempt EXCEPT !.by = None]
    /\ th' = [th EXCEPT ![t] = IF th[t].doing \in {"status", "handoff"}
                               THEN [Off EXCEPT !.pc = "rows"] ELSE Off]
    /\ UNCHANGED <<task, agents, order, journal, tree, final, reads, env>>

-----------------------------------------------------------------------------
(* Recovery *)

StartPass ==
    /\ At("recover", "off") /\ env.retry
    /\ env' = [env EXCEPT !.retry = FALSE]
    /\ Goto("recover", "scan")
    /\ UNCHANGED <<task, agents, work, reads>>

(* _report_terminal_task_barriers: which ended order needs a look *)
ScanTerminal ==
    LET doing == CASE order.state = "ended" /\ task.mark = 0 /\ order.bar = "pending" -> "status"
                   [] order.state = "ended" /\ task.mark # 0 /\ order.bar # "reconcile" -> "handoff"
                   [] OTHER -> "none" IN
    /\ At("recover", "scan")
    /\ th' = [th EXCEPT !["recover"] =
          [Off EXCEPT !.copy = order, !.owner = task.owner, !.doing = doing,
                      !.pc = IF doing = "none" THEN "rows" ELSE "claim"]]
    /\ UNCHANGED <<task, agents, work, reads, env>>

(* _recover: the row and the barrier, then the journal, all before the claim *)
ReadRow ==
    /\ At("recover", "rows") /\ order.state = "active"
    /\ Interrupted \/ attempt.by # "worker"
    /\ th' = [th EXCEPT !["recover"] = [Off EXCEPT !.pc = "journal", !.copy = order,
                                                   !.bar = task.mark # 0]]
    /\ UNCHANGED <<task, agents, work, reads, env>>

ReadJournal ==
    LET r == th["recover"] IN
    /\ At("recover", "journal")
    /\ th' = [th EXCEPT !["recover"] = [r EXCEPT !.pc = "claim", !.list = journal,
          !.doing = CASE journal # <<>> -> "restore"
                      [] journal = <<>> /\ r.bar /\ r.copy.ckpt -> "lift"
                      [] OTHER -> "none"]]
    /\ UNCHANGED <<task, agents, work, reads, env>>

EndPass ==
    /\ At("recover", "rows")
    /\ order.state # "active" \/ (~Interrupted /\ attempt.by = "worker")
    /\ env' = [env EXCEPT !.retry = @ \/ order.state = "active"]
    /\ th' = [th EXCEPT !["recover"] = Off]
    /\ UNCHANGED <<task, agents, work, reads>>

(* claim_attempt; the owner of an unfinished order's task is read after it *)
ClaimAttempt ==
    LET r == th["recover"] IN
    /\ At("recover", "claim") /\ attempt.by = None
    /\ attempt' = [tok |-> attempt.tok + 1, by |-> "recover"]
    /\ th' = [th EXCEPT !["recover"] = [r EXCEPT
          !.owner = IF r.doing \in {"restore", "lift"} THEN task.owner ELSE @,
          !.guard = r.doing # "restore" \/ r.bar,
          !.pc = CASE r.doing = "status" -> "confirm"
                   [] r.doing = "none" -> "update"
                   [] r.doing = "restore" /\ ~r.bar -> "restore"
                   [] OTHER -> "adopt"]]
    /\ UNCHANGED <<task, agents, order, journal, tree, final, reads, env>>

ClaimRefused ==
    /\ At("recover", "claim") /\ attempt.by # None
    /\ env' = [env EXCEPT !.retry = TRUE]
    /\ th' = [th EXCEPT !["recover"] = [Off EXCEPT
          !.pc = IF th["recover"].doing \in {"status", "handoff"} THEN "rows" ELSE "off"]]
    /\ UNCHANGED <<task, agents, work, reads>>

MayAdopt ==
    LET r == th["recover"] IN
    /\ task.owner = r.owner /\ task.mark # 0
    /\ r.doing = "handoff" =>
          /\ r.copy.bar = "pending"
          /\ journal # <<>> => Last(journal).post = r.copy.post

(* _adopt_fenced_work_mutation *)
Adopt ==
    /\ At("recover", "adopt") /\ MayAdopt
    /\ Write([task EXCEPT !.gen = @ + 1, !.mark = attempt.tok], {})
    /\ Goto("recover", "finish")
    /\ UNCHANGED <<agents, work, env>>

AdoptFails ==
    /\ At("recover", "adopt")
    /\ \/ ~MayAdopt /\ UNCHANGED env
       \/ MayAdopt /\ Event
    /\ th' = [th EXCEPT !["recover"] = AfterError("recover")]
    /\ UNCHANGED <<task, agents, work, reads>>

(* _recover_finalized_handoff_status *)
Confirm ==
    LET r == th["recover"] IN
    /\ At("recover", "confirm")
    /\ th' = [th EXCEPT !["recover"].pc = "report", !["recover"].ok =
          /\ final = [tok |-> r.copy.tok, owner |-> r.owner]
          /\ task.owner = r.owner /\ task.mark = 0 /\ task.gen = r.copy.gen
          /\ journal = <<>> /\ tree = r.copy.post]
    /\ UNCHANGED <<task, agents, work, reads, env>>

(* the event could not be looked up in time: the next pass tries again *)
ConfirmTimeout ==
    /\ At("recover", "confirm") /\ env.left > 0
    /\ env' = [env EXCEPT !.left = @ - 1, !.retry = TRUE]
    /\ Goto("recover", "release")
    /\ UNCHANGED <<task, agents, work, reads>>

(* the conditional update at the end of _report_terminal_task_barriers *)
Report ==
    LET r == th["recover"] IN
    /\ At("recover", "report")
    /\ order' = IF order # r.copy THEN order
                ELSE [order EXCEPT !.bar = IF r.ok THEN "released" ELSE "reconcile"]
    /\ Goto("recover", "release")
    /\ UNCHANGED <<task, agents, journal, tree, attempt, final, reads, env>>

(* the final update of _recover for a bounded order *)
Update ==
    /\ At("recover", "update")
    /\ order' = IF order.state = "active" THEN Ended(th["recover"].bar) ELSE order
    /\ Goto("recover", "release")
    /\ UNCHANGED <<task, agents, journal, tree, attempt, final, reads, env>>

(* the write of Report or of Update raises.  The one is passed over; the other ends
   the pass of the timer (that of the start ends the hub too, as Crash does).  Neither
   schedules another pass *)
RecordFails ==
    /\ \E pc \in {"report", "update"} : At("recover", pc)
    /\ env.left > 0
    /\ env' = [env EXCEPT !.left = @ - 1, !.missed = TRUE]
    /\ Goto("recover", "release")
    /\ UNCHANGED <<task, agents, work, reads>>

-----------------------------------------------------------------------------
(* The hub process *)

Crash ==
    /\ env.up /\ env.left > 0
    /\ env' = [env EXCEPT !.up = FALSE, !.retry = FALSE, !.left = @ - 1]
    /\ th' = [t \in Threads |-> Off]
    /\ attempt' = [attempt EXCEPT !.by = IF @ = None THEN None ELSE "dead"]
    /\ comp' = NoCall
    /\ run' = [pc |-> "off", rev |-> None]
    /\ reads' = {}
    /\ UNCHANGED <<task, rcpt, order, journal, tree, final>>

\* (faulty) the hub starts without a recovery pass
StartWithoutRecovery ==
    /\ ~env.up
    /\ env' = [env EXCEPT !.up = TRUE, !.missed = FALSE]
    /\ UNCHANGED <<task, agents, work, th, reads>>

Start ==
    /\ ~env.up
    /\ env' = [env EXCEPT !.up = TRUE, !.retry = TRUE, !.missed = FALSE]
    /\ UNCHANGED <<task, agents, work, th, reads>>

(* the lifetime of a dead holder's attempt passes *)
Expire ==
    /\ attempt.by = "dead"
    /\ attempt' = [attempt EXCEPT !.by = None]
    /\ UNCHANGED <<task, agents, order, journal, tree, final, th, reads, env>>

-----------------------------------------------------------------------------
(* Agents *)

\* a call of an agent that commits the row
Move(row) == env.up /\ Event /\ Write(row, {})

(* claim, with _rebind_verification_receipts_owner, which may fail silently *)
Claim(a) ==
    /\ task.status \notin Closed /\ task.owner # a
    /\ Move([task EXCEPT !.owner = a])
    /\ \/ rcpt' = rcpt
       \/ rcpt # None /\ rcpt' = [rcpt EXCEPT !.owner = a]
    /\ UNCHANGED <<work, th, comp, run>>

(* transition, fail *)
Transition(a, s) ==
    /\ s \in Valid(task.status) \ {"completed"}
    /\ Move([task EXCEPT !.status = s, !.owner = a])
    /\ UNCHANGED <<agents, work, th>>

(* reap_expired_heartbeats *)
Reap(s) ==
    /\ task.status \in {"active", "verifying", "waiting"}
    /\ s \in Valid(task.status) \cap {"abandoned", "waiting"}
    /\ Move([task EXCEPT !.status = s, !.owner = "system"])
    /\ UNCHANGED <<agents, work, th>>

(* heartbeat, and any checkpoint that keeps the generation *)
Heartbeat ==
    /\ Move(task)
    /\ UNCHANGED <<agents, work, th>>

(* checkpoint with state data of the agent's: while work is pending the server
   keeps the generation, otherwise one that is left out counts as 0 *)
CheckpointResets ==
    /\ Resets \/ rcpt = None
    /\ task.mark = 0 /\ task.gen # 0
    /\ Move([task EXCEPT !.gen = 0])
    /\ UNCHANGED <<agents, work, th>>

(* advance_mutation_generation *)
AdvanceGeneration ==
    /\ task.mark = 0
    /\ Move([task EXCEPT !.gen = @ + 1])
    /\ UNCHANGED <<agents, work, th>>

Edit ==
    /\ Event
    /\ tree' = [tree EXCEPT !.edit = env.left]
    /\ UNCHANGED <<task, agents, order, journal, attempt, final, th, reads>>

(* a command that counts as evidence: the revision is taken before it runs *)
RunStart ==
    /\ env.up /\ run.pc = "off" /\ Event
    /\ run' = [pc |-> "running", rev |-> tree]
    /\ UNCHANGED <<task, rcpt, comp, work, th, reads>>

(* owner and generation are taken after it; a receipt made while work is pending
   is recorded but not mapped to the criterion *)
RunEnd ==
    /\ env.up /\ run.pc = "running"
    /\ LongRuns \/ tree = run.rev
    /\ rcpt' = [id |-> env.left + 1, rev |-> run.rev, gen |-> task.gen, owner |-> task.owner]
    /\ IF task.mark = 0 THEN Write([task EXCEPT !.mapped = rcpt'.id], {})
       ELSE UNCHANGED <<task, reads>>
    /\ run' = [pc |-> "off", rev |-> None]
    /\ UNCHANGED <<comp, work, th, env>>

(* action complete: the owner is checked and the workspace fingerprinted *)
CompleteCall(a) ==
    /\ env.up /\ comp.pc = "off" /\ a = task.owner /\ Event
    /\ comp' = [pc |-> "check", actor |-> a, rev |-> tree, snap |-> None]
    /\ UNCHANGED <<task, rcpt, run, work, th, reads>>

(* complete_task_with_project_rules: receipts are judged for one reading of the row *)
CompleteCheck ==
    /\ env.up /\ comp.pc = "check" /\ Satisfied(task, comp.rev)
    /\ comp' = [comp EXCEPT !.pc = "move", !.snap = task]
    /\ UNCHANGED <<task, rcpt, run, work, th, reads, env>>

SameContent ==
    /\ Content(task) = Content(comp.snap)
    /\ task.owner \in {comp.snap.owner, comp.actor}

(* complete: the transitions on the way *)
CompleteMove ==
    /\ env.up /\ comp.pc = "move" /\ SameContent /\ task.status \in {"active", "waiting"}
    /\ Write([task EXCEPT !.status = IF @ = "waiting" THEN "active" ELSE "verifying",
                          !.owner = comp.actor], {})
    /\ UNCHANGED <<agents, work, th, env>>

(* _verify_completion *)
Gate(row, rev) == row.mark = 0 /\ Satisfied(row, rev)

CompleteCommit ==
    LET row == [task EXCEPT !.status = "completed", !.owner = comp.actor] IN
    /\ env.up /\ comp.pc = "move" /\ SameContent /\ task.status = "verifying"
    /\ Gate(row, comp.rev)
    /\ Write(row, {})
    /\ comp' = NoCall
    /\ UNCHANGED <<rcpt, run, work, th, env>>

CompleteRefused ==
    /\ env.up /\ comp.pc # "off"
    /\ comp' = NoCall
    /\ UNCHANGED <<task, rcpt, run, work, th, reads, env>>

(* action transition with status completed: the revision is the row's own, which
   is what an agent's checkpoint says *)
TransitionCompleted(a) ==
    LET row == [task EXCEPT !.status = "completed", !.owner = a] IN
    /\ task.status = "verifying"
    /\ rcpt # None /\ Gate(row, rcpt.rev)
    /\ Move(row)
    /\ UNCHANGED <<agents, work, th>>

-----------------------------------------------------------------------------
WorkerStep == \/ Take \/ BeginWork \/ BeginRefused \/ Persist \/ Apply \/ PatchFails
              \/ Deliver \/ DeliverNothing \/ Fail \/ RollbackTransaction \/ SetStatus \/ End
              \/ EndFails
              \/ \E keep \in BOOLEAN : Ask(keep)

RecoverStep == \/ StartPass \/ ScanTerminal \/ ReadRow \/ ReadJournal \/ EndPass
               \/ ClaimAttempt \/ ClaimRefused \/ Adopt \/ AdoptFails
               \/ Confirm \/ ConfirmTimeout \/ Report \/ Update \/ RecordFails

FinishStep(t) == \/ FinishRead(t) \/ Publish(t) \/ Verify(t) \/ Restore(t)
                 \/ RecordCheckpoint(t) \/ ClearJournal(t) \/ CommitFinish(t)
                 \/ FinishFails(t) \/ Release(t)

AgentStep == \/ \E a \in Agents : Claim(a) \/ CompleteCall(a) \/ TransitionCompleted(a)
             \/ \E a \in Agents, s \in {"active", "verifying", "waiting", "failed",
                                        "cancelled", "abandoned"} : Transition(a, s)
             \/ \E s \in {"abandoned", "waiting"} : Reap(s)
             \/ Heartbeat \/ CheckpointResets \/ AdvanceGeneration \/ Edit
             \/ RunStart \/ RunEnd
             \/ CompleteCheck \/ CompleteMove \/ CompleteCommit \/ CompleteRefused

Next == \/ \E keep \in BOOLEAN : Submit(keep)
        \/ Cancel \/ WorkerStep \/ RecoverStep
        \/ \E t \in Threads : FinishStep(t)
        \/ Crash \/ Start \/ Expire \/ AgentStep

Spec == Init /\ [][Next]_vars

\* Threads run, attempts age, and the supervisor starts a hub that died.
FairSpec == /\ Spec
            /\ WF_vars(WorkerStep \/ FinishStep("worker"))
            /\ WF_vars(RecoverStep \/ FinishStep("recover"))
            /\ WF_vars(Start) /\ WF_vars(Expire)

-----------------------------------------------------------------------------
(* Properties *)

Trees == [patch : 0..(MaxPatches + 1), edit : 0..MaxEvents]
Entries == [pre : Trees, post : Trees]
Pcs == {"off", "work", "retry", "persist", "apply", "rollback", "finish", "publish",
        "verify", "restore", "checkpoint", "clear", "commit", "status", "end", "release",
        "scan", "rows", "journal", "claim", "adopt", "confirm", "report", "update"}

\* Rows, journal and threads keep their shapes; in particular a barrier names a
\* granted attempt and a finished rollback never leaves a torn workspace.
TypeOK ==
    /\ task.status \in {"active", "verifying", "waiting", "failed", "cancelled",
                        "abandoned", "completed"}
    /\ task.owner \in Agents \cup {"system"}
    /\ task.gen \in Nat /\ task.mark \in 0..attempt.tok /\ task.mapped \in 0..MaxEvents
    /\ order.state \in {"none", "queued", "active", "ended"}
    /\ order.bar \in {"clear", "pending", "released", "reconcile", "unseen"}
    /\ journal \in Seq(Entries) /\ tree \in Trees \ {Torn}
    /\ attempt.by \in Threads \cup {"dead", None}
    /\ \A t \in Threads : th[t].pc \in Pcs /\ th[t].list \in Seq(Entries)
    /\ reads \subseteq Threads

\* While the journal of the order can still be used to undo its edits, the task
\* shows the barrier: finalize comes before the marker is removed, in every order of
\* crashes, failed commits, recovery and changes of owner
\* (_finish_fenced_work_mutation, "Finalize the journal under its fence before
\* removing the completion barrier").
JournaledUnderBarrier == journal # <<>> => task.mark # 0

\* A task that is completed has no barrier, and neither the worker nor a recovery
\* pass changes the workspace under it any more, provided that a pass keeps away from
\* an order its worker still has (Interrupted = FALSE; a pass that read the order
\* before its worker delivered may undo it later) (_verify_completion,
\* _begin_fenced_work_mutation).
CompletedUntouched ==
    [][task.status = "completed" => task'.mark = 0 /\ tree'.patch = tree.patch]_vars

\* An order that has been handed over or reported is not undone afterwards by its
\* worker, whatever fails after the handover, nor by a pass that finds it ended,
\* however late its barrier is lifted.  It is claimed for Interrupted = FALSE only: a
\* pass that read the order while it was active, and claims the attempt after its
\* worker released it, undoes it all the same (_recover_terminal_handoff, _recover).
EndedUntouched == [][order.state = "ended" => tree'.patch = tree.patch]_vars

\* complete() accepts a task only when the order's patches in the workspace are the
\* ones that were fingerprinted at the beginning of the call and that the receipt saw:
\* a whole order, or its rollback, in the middle of the call is noticed.  It is claimed
\* for test runs during which the workspace does not change (LongRuns = FALSE) and for
\* generations that no checkpoint resets under a receipt (Resets = FALSE): the receipt
\* of a run that an order overtook, and one whose generation comes back, are accepted
\* (complete_task_with_project_rules, _expected_completion_content).
CompletionCurrent ==
    [][(comp.pc = "move" /\ comp'.pc = "off" /\ task.status # task'.status
        /\ task'.status = "completed")
       => tree.patch = comp.rev.patch /\ tree.patch = rcpt.rev.patch]_vars

\* An order that has ended while the task still shows its barrier says so in its
\* result: the agent that reads the order learns why the task cannot be completed
\* (unresolved_task_barrier, task_barrier_status).  Only the plain failure that
\* _execute records when the write of that result raised says nothing about the
\* barrier; a result that says "released", or that was written after looking at the
\* barrier and finding none, is never wrong.
BarrierReported ==
    order.state = "ended" /\ task.mark # 0
        => order.bar \in {"pending", "reconcile", "unseen"}

\* A barrier that stands when the hub died, also one whose order ended without saying
\* so, is lifted by the next starts, or reported as in need of reconciliation, unless
\* a write of the recovery pass itself raises: nothing schedules another pass then
\* before the next start (_recover, _report_terminal_task_barriers).
BarrierSettles ==
    (~env.up /\ task.mark # 0)
        ~> (task.mark = 0 \/ order.bar = "reconcile" \/ env.missed)
=============================================================================
