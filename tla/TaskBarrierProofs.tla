------------------------- MODULE TaskBarrierProofs -------------------------
(***************************************************************************)
(* Theorems about TaskBarrier, for every set of agents and every bound on  *)
(* patches and events.  Where a theorem needs that no recovery pass looks  *)
(* at an order its worker still has, that generations are not reset or     *)
(* that no order edits the workspace during a test run, it says so.        *)
(***************************************************************************)
EXTENDS TaskBarrier, SequenceTheorems, TLAPS

-----------------------------------------------------------------------------
(* Shapes *)

Statuses == {"active", "verifying", "waiting", "failed", "cancelled", "abandoned", "completed"}
Owners == Agents \cup {"system"}
Images == [patch : 0..MaxPatches, edit : 0..MaxEvents]
Journals == Seq([pre : Images, post : Images])
Doings == {"none", "deliver", "undo", "ask", "status", "handoff", "restore", "lift"}

TaskRec == [status : Statuses, owner : Owners, gen : Nat, mark : Nat, mapped : 0..MaxEvents]
OrderRec == [state : {"none", "queued", "active", "ended"},
             bar : {"clear", "pending", "released", "reconcile", "unseen"},
             ckpt : BOOLEAN, post : Images \cup {None}, tok : Nat, gen : Nat,
             keep : BOOLEAN, cancel : BOOLEAN]
ThreadRec == [pc : Pcs, doing : Doings, owner : Owners \cup {None}, list : Journals,
              copy : OrderRec \cup {None}, bar : BOOLEAN, keep : BOOLEAN, guard : BOOLEAN,
              ok : BOOLEAN]
ReceiptRec == [id : 1..MaxEvents, rev : Images, gen : Nat, owner : Owners]
CallRec == [pc : {"off", "check", "move"}, actor : Agents \cup {None},
            rev : Images \cup {None}, snap : TaskRec \cup {None}]

Shape ==
    /\ task \in TaskRec
    /\ rcpt \in ReceiptRec \cup {None}
    /\ order \in OrderRec
    /\ journal \in Journals
    /\ tree \in Images
    /\ attempt \in [tok : Nat, by : Threads \cup {"dead", None}]
    /\ th \in [Threads -> ThreadRec]
    /\ comp \in CallRec
    /\ run \in [pc : {"off", "running"}, rev : Images \cup {None}]
    /\ reads \subseteq Threads
    /\ env \in [up : BOOLEAN, retry : BOOLEAN, missed : BOOLEAN,
               patches : 0..MaxPatches, left : 0..MaxEvents]

\* What the shapes of single variables need from each other.
Calls ==
    /\ task.mark <= attempt.tok
    /\ comp.pc # "off" => comp.actor \in Agents /\ comp.rev \in Images
    /\ run.pc = "running" => run.rev \in Images /\ env.left < MaxEvents
    /\ th["worker"].pc = "persist" => env.patches < MaxPatches
    /\ th["worker"].pc = "apply" => env.patches > 0 /\ th["worker"].list # <<>>

-----------------------------------------------------------------------------
(* Who holds the attempt *)

Working == {"work", "retry", "persist", "apply"}
Finishing == {"finish", "restore", "checkpoint", "clear", "commit"}
Looking == {"off", "scan", "rows", "journal", "claim"}

\* A thread past its claim holds the attempt of the order.
Owned ==
    /\ th["worker"].pc # "off" => attempt.by = "worker" /\ attempt.tok > 0
    /\ th["recover"].pc \notin Looking => attempt.by = "recover" /\ attempt.tok > 0
    /\ th["worker"].pc \in {"off", "rollback", "publish", "status", "end", "release"}
                             \cup Working \cup Finishing
    /\ th["recover"].pc \in {"adopt", "verify", "confirm", "report", "update", "release"}
                              \cup Looking \cup Finishing
    /\ th["worker"].doing \in {"none", "deliver", "undo", "ask"}
    /\ th["worker"].doing = "none" => th["worker"].pc \in {"off", "release"} \cup Working
    /\ th["recover"].doing \in {"none", "status", "handoff", "restore", "lift"}

-----------------------------------------------------------------------------
(* The journal *)

\* The worker makes no further patch: not now, and not after another Take.
Past == th["worker"].pc \notin Working /\ order.state \notin {"none", "queued"}

JournalInv ==
    /\ th["worker"].pc \in {"persist", "apply"} => task.mark # 0
    /\ \A t \in Threads : th[t].pc = "commit" => journal = <<>>
    /\ order.ckpt => Past
    /\ th["recover"].pc = "journal" => /\ th["recover"].copy \in OrderRec
                                       /\ th["recover"].copy.ckpt => Past
    /\ th["recover"].doing = "lift" => Past /\ journal = <<>>
    /\ JournaledUnderBarrier

-----------------------------------------------------------------------------
(* The state of the order, when recovery keeps away from one that is worked on *)

\* The worker has handed the order over or reported it.
Over == \/ th["worker"].pc = "release"
        \/ th["worker"].doing = "deliver" /\ th["worker"].pc \in {"clear", "commit", "status"}

\* Recovery deals with an unfinished order.
Unfinished == /\ th["recover"].pc \in {"journal", "claim", "adopt", "update"} \cup Finishing
              /\ th["recover"].doing \notin {"status", "handoff"}

OrderInv ==
    /\ th["worker"].pc # "off" => /\ order.state \in {"active", "ended"}
                                  /\ order.state = "ended" => Over
                                  /\ Over /\ th["worker"].pc # "release" => order.state = "ended"
    /\ th["worker"].pc \in {"publish", "status"} => th["worker"].doing = "deliver"
    /\ th["worker"].pc = "status" => task.mark = 0
    /\ th["worker"].doing = "deliver" =>
         /\ th["worker"].guard
         /\ th["worker"].pc \in {"finish", "publish", "clear", "commit", "status", "release"}
    /\ th["worker"].pc = "work" /\ th["worker"].list = <<>> => task.mark = 0
    /\ order.state \in {"none", "queued"} => task.mark = 0
    /\ Unfinished => /\ order.state = "active" /\ th["worker"].pc = "off"
                     /\ ~th["recover"].bar => task.mark = 0
    /\ th["recover"].doing = "status" =>
         th["recover"].pc \in {"claim", "confirm", "report", "release"}
    /\ th["recover"].doing = "handoff" =>
         th["recover"].pc \in {"claim", "adopt", "finish", "verify", "clear", "commit",
                               "report", "release"}
    /\ th["recover"].pc = "verify" => th["recover"].doing = "handoff"
    /\ th["recover"].ok => th["recover"].pc \in {"report", "update", "release"}
    /\ th["recover"].pc = "report" /\ th["recover"].ok => task.mark = 0
    /\ BarrierReported

-----------------------------------------------------------------------------
(* The workspace changes under the barrier only *)

TreeInv ==
    /\ task.status = "completed" => task.mark = 0
    /\ th["worker"].pc \in {"work", "retry", "apply"} /\ th["worker"].list # <<>> =>
         task.mark # 0
    /\ th["worker"].pc = "rollback" /\ th["worker"].list # <<>> /\ ~th["worker"].keep =>
         task.mark # 0
    /\ th["worker"].pc \in {"finish", "publish", "restore", "checkpoint"} => task.mark # 0
    /\ th["worker"].pc \in {"clear", "commit"} /\ th["worker"].doing # "deliver" =>
         th["worker"].list = <<>> \/ th["worker"].keep
    /\ th["worker"].pc = "end" /\ th["worker"].doing = "ask" =>
         th["worker"].list = <<>> \/ th["worker"].keep
    /\ th["worker"].pc # "off" /\ th["worker"].doing \in {"ask", "undo"} /\ th["worker"].keep =>
         order.keep
    /\ th["recover"].pc \in {"finish", "restore", "checkpoint"} => task.mark # 0
    /\ th["recover"].doing = "restore" /\ th["recover"].pc \in {"claim", "adopt"} \cup Finishing =>
         th["recover"].bar

\* A receipt that is mapped to the criterion is older than the task's generation, or
\* saw the patches that are in the workspace.
Fresh == rcpt # None /\ rcpt.id = task.mapped =>
           \/ rcpt.gen < task.gen
           \/ rcpt.gen = task.gen /\ task.mark = 0 /\ rcpt.rev.patch = tree.patch

ReceiptInv ==
    /\ Fresh
    /\ task.mapped # 0 => task.mapped > env.left
    /\ task.mapped # 0 /\ run.pc = "running" => task.mapped > env.left + 1

JInv == Shape /\ Calls /\ Owned /\ JournalInv
BInv == JInv /\ OrderInv /\ TreeInv

\* A step of one thread leaves the other one as it is.
LEMMA OneThread ==
    ASSUME Shape, NEW t \in Threads, NEW x \in ThreadRec, th' = [th EXCEPT ![t] = x]
    PROVE  /\ th' \in [Threads -> ThreadRec] /\ th'[t] = x
           /\ \A u \in Threads \ {t} : th'[u] = th[u]
BY DEF Shape

\* The record of a thread that is off is well formed.
LEMMA Idle == ASSUME Shape PROVE Off \in ThreadRec
<1>1. <<>> \in Journals
  BY DEF Journals
<1> QED
  BY <1>1 DEF Off, ThreadRec, Pcs, Doings

-----------------------------------------------------------------------------
(* Threads keep their shape *)

\* Where the handlers go on after an exception is well formed.
LEMMA AfterErrorShape ==
    ASSUME Shape, NEW t \in Threads
    PROVE  AfterError(t) \in ThreadRec
<1>1. th[t] \in ThreadRec /\ order.keep \in BOOLEAN
  BY DEF Shape, OrderRec
<1>2. Succeeded(t) \in {"status", "end", "report", "update"}
  BY DEF Succeeded
<1>3. [th[t] EXCEPT !.pc = "release"] \in ThreadRec
  BY <1>1 DEF ThreadRec, Pcs
<1>4. [th[t] EXCEPT !.pc = "rollback", !.doing = "undo", !.keep = order.keep] \in ThreadRec
  BY <1>1 DEF ThreadRec, Pcs, Doings
<1>5. [th[t] EXCEPT !.pc = Succeeded(t), !.ok = FALSE] \in ThreadRec
  BY <1>1, <1>2 DEF ThreadRec, Pcs
<1> QED
  BY <1>3, <1>4, <1>5 DEF AfterError

\* So is the record of a thread that goes on.
LEMMA GotoShape ==
    ASSUME Shape, NEW t \in Threads, NEW pc \in Pcs, Goto(t, pc)
    PROVE  th' \in [Threads -> ThreadRec]
BY DEF Goto, Shape, ThreadRec

\* What a finish that commits leaves in the record of its thread.
LEMMA Committed ==
    ASSUME Shape, NEW t \in Threads,
           th' = [th EXCEPT ![t].pc = Succeeded(t), ![t].bar = FALSE, ![t].ok = TRUE]
    PROVE  /\ th'[t].pc = Succeeded(t) /\ th'[t].bar = FALSE /\ th'[t].ok = TRUE
           /\ th'[t].doing = th[t].doing /\ th'[t].list = th[t].list
           /\ th'[t].keep = th[t].keep /\ th'[t].guard = th[t].guard
           /\ th'[t].copy = th[t].copy
           /\ \A u \in Threads : u # t => th'[u] = th[u]
<1> DEFINE new == [th[t] EXCEPT !.pc = Succeeded(t), !.bar = FALSE, !.ok = TRUE]
<1>1. th' = [th EXCEPT ![t] = new]
  OBVIOUS
<1>2. th \in [Threads -> ThreadRec] /\ th[t] \in ThreadRec
  BY DEF Shape
<1> HIDE DEF new
<1>3. th'[t] = new /\ \A u \in Threads : u # t => th'[u] = th[u]
  BY <1>1, <1>2
<1>4. /\ new.pc = Succeeded(t) /\ new.bar = FALSE /\ new.ok = TRUE
      /\ new.doing = th[t].doing /\ new.list = th[t].list /\ new.keep = th[t].keep
      /\ new.guard = th[t].guard /\ new.copy = th[t].copy
  BY <1>2, ZenonT(60) DEF new, ThreadRec
<1> QED
  BY <1>3, <1>4

\* A journal without its last entry is a journal.
LEMMA FrontShape == ASSUME NEW l \in Journals, l # <<>> PROVE Front(l) \in Journals
<1> DEFINE E == [pre : Images, post : Images]
<1>1. l \in Seq(E) /\ Len(l) \in Nat /\ Len(l) > 0
  BY DEF Journals
<1> HIDE DEF E
<1>2. \A i \in 1..(Len(l) - 1) : l[i] \in E
  BY <1>1
<1>3. SubSeq(l, 1, Len(l) - 1) \in Seq(E)
  BY <1>1, <1>2, SubSeqProperties
<1> QED
  BY <1>3 DEF Front, Journals, E

\* So is a journal with the entry of a patch.
LEMMA NewEntry ==
    ASSUME JInv, Persist
    PROVE  [pre |-> tree, post |-> [tree EXCEPT !.patch = env.patches + 1]]
             \in [pre : Images, post : Images]
<1>1. tree \in Images /\ env.patches + 1 \in 0..MaxPatches
  BY BarrierAssumption DEF JInv, Shape, Calls, Persist, At
<1> QED
  BY <1>1 DEF Images

\* What a terminal write that raises leaves behind.
LEMMA EndFailed ==
    ASSUME JInv, EndFails
    PROVE  /\ th["worker"].pc = "end" /\ th'["recover"] = th["recover"]
           /\ UNCHANGED <<task, journal, tree, attempt>>
           /\ th'["worker"].list = th["worker"].list
           /\ \/ /\ th["worker"].doing = "ask" /\ order' = order
                 /\ th'["worker"].pc = "rollback" /\ th'["worker"].doing = "undo"
                 /\ th'["worker"].keep = order.keep
              \/ /\ th["worker"].doing # "ask" /\ th'["worker"].pc = "release"
                 /\ th'["worker"].doing = th["worker"].doing
                 /\ th'["worker"].keep = th["worker"].keep
                 /\ \/ order' = order
                    \/ /\ order'.state = "ended" /\ order'.bar = "unseen" /\ ~order'.ckpt
                       /\ order'.keep = order.keep
<1>1. /\ th \in [Threads -> ThreadRec] /\ th["worker"] \in ThreadRec /\ order \in OrderRec
      /\ "worker" \in Threads /\ "recover" \in Threads
  BY DEF JInv, Shape, Threads
<1>2. th["worker"].pc = "end" /\ UNCHANGED <<task, journal, tree, attempt>>
  BY DEF EndFails, At
<1>3. CASE th["worker"].doing = "ask"
  <2> DEFINE new == [th["worker"] EXCEPT !.pc = "rollback", !.doing = "undo", !.keep = order.keep]
  <2>1. AfterError("worker") = new
    BY <1>3 DEF AfterError
  <2>2. order' = order /\ th' = [th EXCEPT !["worker"] = new]
    BY <1>3, <2>1 DEF EndFails
  <2>3. /\ new.pc = "rollback" /\ new.doing = "undo" /\ new.keep = order.keep
        /\ new.list = th["worker"].list
    BY <1>1 DEF ThreadRec
  <2> HIDE DEF new
  <2>4. th'["worker"] = new /\ th'["recover"] = th["recover"]
    BY <1>1, <2>2
  <2> QED
    BY <1>2, <1>3, <2>2, <2>3, <2>4
<1>4. CASE th["worker"].doing # "ask"
  <2>1. th' = [th EXCEPT !["worker"].pc = "release"]
    BY <1>4 DEF EndFails, Goto
  <2>2. /\ th'["worker"].pc = "release" /\ th'["worker"].doing = th["worker"].doing
        /\ th'["worker"].keep = th["worker"].keep /\ th'["worker"].list = th["worker"].list
        /\ th'["recover"] = th["recover"]
    BY <1>1, <2>1 DEF ThreadRec
  <2>3. order' = order \/ order' = [Ended(FALSE) EXCEPT !.bar = "unseen"]
    BY <1>4 DEF EndFails
  <2>4. order' # order => /\ order'.state = "ended" /\ order'.bar = "unseen" /\ ~order'.ckpt
                          /\ order'.keep = order.keep
    BY <1>1, <2>3 DEF Ended, OrderRec
  <2> QED
    BY <1>2, <1>4, <2>2, <2>4
<1> QED
  BY <1>3, <1>4

\* Steps of the worker keep the threads well formed.
LEMMA WorkerShape == ASSUME JInv, WorkerStep PROVE th' \in [Threads -> ThreadRec]
<1> DEFINE w == th["worker"]
<1>1. /\ Shape /\ w \in ThreadRec /\ w.list \in Journals /\ order.keep \in BOOLEAN
      /\ task.owner \in Owners /\ "worker" \in Threads
  BY DEF JInv, Shape, OrderRec, TaskRec, ThreadRec, Threads
<1>2. CASE Take
  <2>1. [Off EXCEPT !.pc = "work", !.owner = task.owner] \in ThreadRec
    BY <1>1, Idle DEF ThreadRec, Pcs
  <2> QED
    BY <1>1, <1>2, <2>1, OneThread DEF Take
<1>3. CASE BeginWork \/ BeginRefused \/ Apply \/ DeliverNothing \/ SetStatus \/ End
  <2>1. \E pc \in {"persist", "retry", "work", "release"} : Goto("worker", pc)
    BY <1>3 DEF BeginWork, BeginRefused, Apply, DeliverNothing, SetStatus, End
  <2> QED
    BY <1>1, <2>1, GotoShape DEF Pcs
<1>4. CASE Persist
  <2> DEFINE e == [pre |-> tree, post |-> [tree EXCEPT !.patch = env.patches + 1]]
  <2>2. e \in [pre : Images, post : Images]
    BY <1>4, NewEntry
  <2>3. journal' = Append(w.list, e)
    BY <1>4 DEF Persist
  <2> HIDE DEF e
  <2>4. journal' \in Journals
    BY <1>1, <2>2, <2>3 DEF Journals
  <2>5. [w EXCEPT !.list = journal', !.pc = "apply"] \in ThreadRec
    BY <1>1, <2>4 DEF ThreadRec, Pcs
  <2>6. th' = [th EXCEPT !["worker"] = [w EXCEPT !.list = journal', !.pc = "apply"]]
    BY <1>4 DEF Persist
  <2> QED
    BY <1>1, <2>5, <2>6, OneThread
<1>5. CASE PatchFails
  <2>0. w.list # <<>> /\ journal' \in {Front(w.list), journal}
    BY <1>5 DEF PatchFails, JInv, Calls, At
  <2>1. journal' \in Journals
    BY <1>1, <2>0, FrontShape DEF JInv, Shape
  <2>2. [w EXCEPT !.list = journal', !.pc = "retry"] \in ThreadRec
    BY <1>1, <2>1 DEF ThreadRec, Pcs
  <2>3. th' = [th EXCEPT !["worker"] = [w EXCEPT !.list = journal', !.pc = "retry"]]
    BY <1>5 DEF PatchFails
  <2> QED
    BY <1>1, <2>2, <2>3, OneThread
<1>6. CASE Deliver \/ Fail \/ \E keep \in BOOLEAN : Ask(keep)
  <2>1. \A pc \in {"finish", "rollback"}, d \in {"deliver", "undo", "ask"}, k \in BOOLEAN :
          [w EXCEPT !.doing = d, !.pc = pc, !.keep = k] \in ThreadRec
    BY <1>1, ZenonT(60) DEF ThreadRec, Pcs, Doings
  <2>2. CASE Deliver
    <3>1. th' = [th EXCEPT !["worker"] = [w EXCEPT
                  !.doing = IF task.mark = attempt.tok THEN "deliver" ELSE "undo",
                  !.pc = IF task.mark = attempt.tok THEN "finish" ELSE "rollback",
                  !.keep = order.keep]]
      BY <2>2 DEF Deliver
    <3> QED
      BY <1>1, <2>1, <3>1, OneThread
  <2>3. CASE Fail
    <3>1. th' = [th EXCEPT !["worker"] = [w EXCEPT !.doing = "undo", !.pc = "rollback",
                                                  !.keep = order.keep]]
      BY <1>1, <2>3 DEF Fail, ThreadRec
    <3> QED
      BY <1>1, <2>1, <3>1, OneThread
  <2>4. ASSUME NEW keep \in BOOLEAN, Ask(keep) PROVE th' \in [Threads -> ThreadRec]
    <3>1. th' = [th EXCEPT !["worker"] = [w EXCEPT !.doing = "ask", !.pc = "rollback",
                                                  !.keep = keep]]
      BY <1>1, <2>4 DEF Ask, ThreadRec
    <3> QED
      BY <1>1, <2>1, <3>1, OneThread
  <2> QED
    BY <1>6, <2>2, <2>3, <2>4
<1>7. CASE RollbackTransaction
  <2>1. PICK pc \in {"finish", "clear", "restore"}, g \in BOOLEAN :
          th' = [th EXCEPT !["worker"] = [w EXCEPT !.pc = pc, !.guard = g]]
    BY <1>7 DEF RollbackTransaction
  <2>2. [w EXCEPT !.pc = pc, !.guard = g] \in ThreadRec
    BY <1>1 DEF ThreadRec, Pcs
  <2> QED
    BY <1>1, <2>1, <2>2, OneThread
<1>8. CASE EndFails
  <2>1. th' = [th EXCEPT !["worker"] = AfterError("worker")] \/ Goto("worker", "release")
    BY <1>8 DEF EndFails
  <2>2. "release" \in Pcs
    BY DEF Pcs
  <2> QED
    BY <1>1, <2>1, <2>2, GotoShape, AfterErrorShape, OneThread
<1> QED
  BY <1>2, <1>3, <1>4, <1>5, <1>6, <1>7, <1>8 DEF WorkerStep

\* Steps of recovery keep the threads well formed.
LEMMA RecoverShape == ASSUME JInv, RecoverStep PROVE th' \in [Threads -> ThreadRec]
<1> DEFINE r == th["recover"]
<1>1. /\ Shape /\ r \in ThreadRec /\ order \in OrderRec /\ journal \in Journals
      /\ task.owner \in Owners /\ "recover" \in Threads /\ Off \in ThreadRec
  BY Idle DEF JInv, Shape, TaskRec, Threads
<1>2. CASE StartPass \/ Adopt \/ ConfirmTimeout \/ Report \/ Update \/ RecordFails
  <2>1. \E pc \in {"scan", "finish", "release"} : Goto("recover", pc)
    BY <1>2 DEF StartPass, Adopt, ConfirmTimeout, Report, Update, RecordFails
  <2> QED
    BY <1>1, <2>1, GotoShape DEF Pcs
<1>3. CASE ScanTerminal
  <2>1. PICK pc \in {"rows", "claim"}, d \in {"status", "handoff", "none"} :
          th' = [th EXCEPT !["recover"] = [Off EXCEPT !.copy = order, !.owner = task.owner,
                                                      !.doing = d, !.pc = pc]]
    BY <1>3 DEF ScanTerminal
  <2>2. [Off EXCEPT !.copy = order, !.owner = task.owner, !.doing = d, !.pc = pc] \in ThreadRec
    BY <1>1 DEF ThreadRec, Pcs, Doings
  <2> QED
    BY <1>1, <2>1, <2>2, OneThread
<1>4. CASE ReadRow
  <2>1. [Off EXCEPT !.pc = "journal", !.copy = order, !.bar = task.mark # 0] \in ThreadRec
    BY <1>1 DEF ThreadRec, Pcs
  <2> QED
    BY <1>1, <1>4, <2>1, OneThread DEF ReadRow
<1>5. CASE ReadJournal
  <2>1. PICK d \in {"restore", "lift", "none"} :
          th' = [th EXCEPT !["recover"] = [r EXCEPT !.pc = "claim", !.list = journal, !.doing = d]]
    BY <1>5 DEF ReadJournal
  <2>2. [r EXCEPT !.pc = "claim", !.list = journal, !.doing = d] \in ThreadRec
    BY <1>1 DEF ThreadRec, Pcs, Doings
  <2> QED
    BY <1>1, <2>1, <2>2, OneThread
<1>6. CASE EndPass
  BY <1>1, <1>6, OneThread DEF EndPass
<1>7. CASE ClaimAttempt
  <2>1. PICK pc \in {"confirm", "update", "restore", "adopt"}, g \in BOOLEAN,
             o \in {task.owner, r.owner} :
          th' = [th EXCEPT !["recover"] = [r EXCEPT !.owner = o, !.guard = g, !.pc = pc]]
    BY <1>1, <1>7 DEF ClaimAttempt, ThreadRec
  <2>2. [r EXCEPT !.owner = o, !.guard = g, !.pc = pc] \in ThreadRec
    BY <1>1 DEF ThreadRec, Pcs
  <2> QED
    BY <1>1, <2>1, <2>2, OneThread
<1>8. CASE ClaimRefused
  <2>1. PICK pc \in {"rows", "off"} :
          th' = [th EXCEPT !["recover"] = [Off EXCEPT !.pc = pc]]
    BY <1>8 DEF ClaimRefused
  <2>2. [Off EXCEPT !.pc = pc] \in ThreadRec
    BY <1>1 DEF ThreadRec, Pcs
  <2> QED
    BY <1>1, <2>1, <2>2, OneThread
<1>9. CASE AdoptFails
  BY <1>1, <1>9, AfterErrorShape, OneThread DEF AdoptFails
<1>10. CASE Confirm
  <2>1. PICK b \in BOOLEAN :
          th' = [th EXCEPT !["recover"] = [r EXCEPT !.pc = "report", !.ok = b]]
    BY <1>10 DEF Confirm
  <2>2. [r EXCEPT !.pc = "report", !.ok = b] \in ThreadRec
    BY <1>1 DEF ThreadRec, Pcs
  <2> QED
    BY <1>1, <2>1, <2>2, OneThread
<1> QED
  BY <1>2, <1>3, <1>4, <1>5, <1>6, <1>7, <1>8, <1>9, <1>10 DEF RecoverStep

\* Steps of _finish_fenced_work_mutation keep the threads well formed.
LEMMA FinishShape ==
    ASSUME JInv, NEW t \in Threads, FinishStep(t)
    PROVE  th' \in [Threads -> ThreadRec]
<1>1. Shape /\ th[t] \in ThreadRec /\ Off \in ThreadRec
  BY Idle DEF JInv, Shape
<1>2. CASE FinishRead(t) \/ Publish(t) \/ Verify(t) \/ Restore(t) \/ ClearJournal(t)
  <2>1. \E pc \in {"publish", "verify", "commit", "clear", "restore", "checkpoint", "status",
                    "end", "report", "update"} : Goto(t, pc)
    BY <1>2 DEF FinishRead, Publish, Verify, Restore, ClearJournal, Succeeded
  <2> QED
    BY <1>1, <2>1, GotoShape DEF Pcs
<1>3. CASE RecordCheckpoint(t)
  <2>1. <<>> \in Journals
    BY DEF Journals
  <2>2. [th[t] EXCEPT !.pc = "clear", !.list = <<>>] \in ThreadRec
    BY <1>1, <2>1 DEF ThreadRec, Pcs
  <2>3. th' = [th EXCEPT ![t] = [th[t] EXCEPT !.pc = "clear", !.list = <<>>]]
    BY <1>3 DEF RecordCheckpoint
  <2> QED
    BY <1>1, <2>2, <2>3, OneThread
<1>4. CASE CommitFinish(t)
  <2>1. [th[t] EXCEPT !.pc = Succeeded(t), !.bar = FALSE, !.ok = TRUE] \in ThreadRec
    BY <1>1 DEF ThreadRec, Pcs, Succeeded
  <2>2. \/ th' = [th EXCEPT ![t] = [th[t] EXCEPT !.pc = Succeeded(t), !.bar = FALSE, !.ok = TRUE]]
        \/ th' = [th EXCEPT ![t] = AfterError(t)]
    BY <1>4 DEF CommitFinish
  <2> QED
    BY <1>1, <2>1, <2>2, OneThread, AfterErrorShape
<1>5. CASE FinishFails(t)
  BY <1>1, <1>5, AfterErrorShape, OneThread DEF FinishFails
<1>6. CASE Release(t)
  <2>1. [Off EXCEPT !.pc = "rows"] \in ThreadRec
    BY <1>1 DEF ThreadRec, Pcs
  <2> QED
    BY <1>1, <1>6, <2>1, OneThread DEF Release
<1> QED
  BY <1>2, <1>3, <1>4, <1>5, <1>6 DEF FinishStep

\* Every step keeps the threads well formed.
LEMMA ThreadsShape == ASSUME JInv, Next PROVE th' \in [Threads -> ThreadRec]
<1>1. CASE WorkerStep
  BY <1>1, WorkerShape
<1>2. CASE RecoverStep
  BY <1>2, RecoverShape
<1>3. CASE \E t \in Threads : FinishStep(t)
  BY <1>3, FinishShape
<1>4. CASE Crash
  BY <1>4, Idle DEF Crash, JInv
<1>5. CASE AgentStep
  BY <1>5 DEF AgentStep, Claim, CompleteCall, TransitionCompleted, Transition, Reap, Heartbeat,
    CheckpointResets, AdvanceGeneration, Edit, RunStart, RunEnd, CompleteCheck, CompleteMove,
    CompleteCommit, CompleteRefused, JInv, Shape
<1>6. CASE Cancel \/ Start \/ Expire \/ \E keep \in BOOLEAN : Submit(keep)
  BY <1>6 DEF Cancel, Start, Expire, Submit, JInv, Shape
<1> QED
  BY <1>1, <1>2, <1>3, <1>4, <1>5, <1>6 DEF Next

-----------------------------------------------------------------------------
(* The stores keep their shape *)

\* Every step keeps the attempt well formed, and tokens do not fall.
LEMMA AttemptShape ==
    ASSUME JInv, Next
    PROVE  /\ attempt' \in [tok : Nat, by : Threads \cup {"dead", None}]
           /\ attempt'.tok >= attempt.tok
<1>1. attempt \in [tok : Nat, by : Threads \cup {"dead", None}]
  BY DEF JInv, Shape
<1>2. CASE UNCHANGED attempt
  BY <1>1, <1>2
<1>3. CASE Take
  BY <1>1, <1>3 DEF Take, Threads
<1>4. CASE ClaimAttempt
  BY <1>1, <1>4 DEF ClaimAttempt, Threads
<1>5. CASE Crash
  BY <1>1, <1>5 DEF Crash
<1>6. CASE Expire
  BY <1>1, <1>6 DEF Expire
<1>7. CASE \E t \in Threads : Release(t)
  BY <1>1, <1>7 DEF Release
<1>8. \/ UNCHANGED attempt \/ Take \/ ClaimAttempt \/ Crash \/ Expire
      \/ \E t \in Threads : Release(t)
  <2>1. CASE WorkerStep
    BY <2>1 DEF WorkerStep, work, BeginWork, BeginRefused, Persist, Apply, PatchFails, Deliver,
      DeliverNothing, Fail, RollbackTransaction, SetStatus, End, EndFails, Ask
  <2>2. CASE RecoverStep
    BY <2>2 DEF RecoverStep, work, StartPass, ScanTerminal, ReadRow, ReadJournal, EndPass,
      ClaimRefused, Adopt, AdoptFails, Confirm, ConfirmTimeout, Report, Update,
      RecordFails
  <2>3. CASE \E t \in Threads : FinishStep(t)
    BY <2>3 DEF FinishStep, work, FinishRead, Publish, Verify, Restore, RecordCheckpoint,
      ClearJournal, CommitFinish, FinishFails
  <2>4. CASE AgentStep
    BY <2>4 DEF AgentStep, work, Claim, CompleteCall, TransitionCompleted, Transition, Reap,
      Heartbeat, CheckpointResets, AdvanceGeneration, Edit, RunStart, RunEnd, CompleteCheck,
      CompleteMove, CompleteCommit, CompleteRefused
  <2>5. CASE Cancel \/ Start \/ Expire \/ Crash \/ \E keep \in BOOLEAN : Submit(keep)
    BY <2>5 DEF Cancel, Start, work, Submit
  <2> QED
    BY <2>1, <2>2, <2>3, <2>4, <2>5 DEF Next
<1> QED
  BY <1>2, <1>3, <1>4, <1>5, <1>6, <1>7, <1>8

\* The steps that write the task row.
LEMMA TaskChanges ==
    ASSUME Next
    PROVE  \/ UNCHANGED task \/ BeginWork \/ Adopt
           \/ \E t \in Threads : FinishRead(t) \/ CommitFinish(t)
           \/ \E a \in Agents : Claim(a) \/ TransitionCompleted(a)
           \/ \E a \in Agents, s \in Statuses : Transition(a, s)
           \/ \E s \in Statuses : Reap(s)
           \/ CheckpointResets \/ AdvanceGeneration \/ RunEnd \/ CompleteMove \/ CompleteCommit
<1>1. CASE WorkerStep
  BY <1>1 DEF WorkerStep, agents, Take, BeginRefused, Persist, Apply, PatchFails, Deliver,
    DeliverNothing, Fail, RollbackTransaction, SetStatus, End, EndFails, Ask
<1>2. CASE RecoverStep
  BY <1>2 DEF RecoverStep, agents, StartPass, ScanTerminal, ReadRow, ReadJournal, EndPass,
    ClaimAttempt, ClaimRefused, AdoptFails, Confirm, ConfirmTimeout, Report, Update,
      RecordFails
<1>3. CASE \E t \in Threads : FinishStep(t)
  BY <1>3 DEF FinishStep, agents, Publish, Verify, Restore, RecordCheckpoint, ClearJournal,
    FinishFails, Release
<1>4. CASE AgentStep
  BY <1>4 DEF AgentStep, agents, CompleteCall, Heartbeat, Edit, RunStart, CompleteCheck,
    CompleteRefused, Move, Write, Statuses
<1>5. CASE Cancel \/ Start \/ Expire \/ Crash \/ \E keep \in BOOLEAN : Submit(keep)
  BY <1>5 DEF agents, Cancel, Start, Expire, Crash, Submit
<1> QED
  BY <1>1, <1>2, <1>3, <1>4, <1>5 DEF Next

\* A row with the barrier and the next generation is a task row.
LEMMA Marked ==
    ASSUME task \in TaskRec, attempt.tok \in Nat
    PROVE  [task EXCEPT !.gen = @ + 1, !.mark = attempt.tok] \in TaskRec
<1> DEFINE g == task.gen + 1
<1>1. g \in Nat
  BY DEF TaskRec
<1>2. [task EXCEPT !.gen = @ + 1, !.mark = attempt.tok]
        = [task EXCEPT !.gen = g, !.mark = attempt.tok]
  BY DEF TaskRec
<1> HIDE DEF g
<1>3. [task EXCEPT !.gen = g, !.mark = attempt.tok] \in TaskRec
  BY <1>1 DEF TaskRec
<1> QED
  BY <1>2, <1>3

\* Every step keeps the task row well formed.
LEMMA TaskShape == ASSUME JInv, Next PROVE task' \in TaskRec /\ task'.mark <= attempt'.tok
<1>1. /\ task \in TaskRec /\ attempt.tok \in Nat /\ task.mark <= attempt.tok
      /\ attempt'.tok \in Nat /\ attempt'.tok >= attempt.tok
  BY AttemptShape DEF JInv, Shape, Calls
<1>2. /\ task.gen \in Nat /\ task.mark \in Nat
      /\ \A a \in Agents : a \in Owners
      /\ "system" \in Owners
  BY <1>1 DEF TaskRec, Owners
<1>3. CASE BeginWork
  <2>1. task' = [task EXCEPT !.gen = @ + 1, !.mark = attempt.tok]
    BY <1>3 DEF BeginWork, Write
  <2>2. task' \in TaskRec
    BY <1>1, <2>1, Marked
  <2>3. task'.mark = attempt.tok
    BY <1>1, <2>1 DEF TaskRec
  <2> QED
    BY <1>1, <2>2, <2>3
<1>4. CASE Adopt
  <2>1. task' = [task EXCEPT !.gen = @ + 1, !.mark = attempt.tok]
    BY <1>4 DEF Adopt, Write
  <2>2. task' \in TaskRec
    BY <1>1, <2>1, Marked
  <2>3. task'.mark = attempt.tok
    BY <1>1, <2>1 DEF TaskRec
  <2> QED
    BY <1>1, <2>2, <2>3
<1>5. CASE AdvanceGeneration \/ \E t \in Threads : FinishRead(t)
  <2>1. UNCHANGED task \/ task' = [task EXCEPT !.gen = @ + 1]
    BY <1>5 DEF FinishRead, AdvanceGeneration, Move, Write
  <2> QED
    BY <1>1, <1>2, <2>1 DEF TaskRec
<1>6. CASE CheckpointResets \/ \E t \in Threads : CommitFinish(t)
  <2>1. task' = [task EXCEPT !.gen = 0] \/ task' = [task EXCEPT !.mark = 0]
    BY <1>6 DEF CommitFinish, CheckpointResets, Move, Write
  <2> QED
    BY <1>1, <1>2, <2>1 DEF TaskRec
<1>7. CASE \E a \in Agents : Claim(a)
  <2>1. PICK a \in Agents : task' = [task EXCEPT !.owner = a]
    BY <1>7 DEF Claim, Move, Write
  <2> QED
    BY <1>1, <1>2, <2>1 DEF TaskRec
<1>8. CASE \/ \E a \in Agents : TransitionCompleted(a)
           \/ \E a \in Agents, s \in Statuses : Transition(a, s)
           \/ \E s \in Statuses : Reap(s)
           \/ CompleteMove \/ CompleteCommit
  <2>1. comp.pc = "move" => comp.actor \in Agents
    BY DEF JInv, Calls
  <2>2. \E a \in Owners, s \in Statuses : task' = [task EXCEPT !.status = s, !.owner = a]
    <3>1. CASE \E a \in Agents : TransitionCompleted(a)
      BY <1>2, <3>1 DEF TransitionCompleted, Move, Write, Statuses
    <3>2. CASE \E a \in Agents, s \in Statuses : Transition(a, s)
      BY <1>2, <3>2 DEF Transition, Move, Write
    <3>3. CASE \E s \in Statuses : Reap(s)
      BY <1>2, <3>3 DEF Reap, Move, Write
    <3>4. CASE CompleteMove
      BY <1>2, <2>1, <3>4 DEF CompleteMove, Write, Statuses
    <3>5. CASE CompleteCommit
      BY <1>2, <2>1, <3>5 DEF CompleteCommit, Write, Statuses
    <3> QED
      BY <1>8, <3>1, <3>2, <3>3, <3>4, <3>5
  <2>3. task' \in TaskRec
    BY <1>1, <2>2 DEF TaskRec
  <2>4. task'.mark = task.mark
    BY <1>1, <2>2 DEF TaskRec
  <2> QED
    BY <1>1, <1>2, <2>3, <2>4
<1>9. CASE RunEnd
  <2>1. env.left + 1 \in 1..MaxEvents
    BY <1>9, BarrierAssumption DEF RunEnd, JInv, Calls, Shape
  <2>2. UNCHANGED task \/ task' = [task EXCEPT !.mapped = env.left + 1]
    BY <1>9 DEF RunEnd, Write
  <2> QED
    BY <1>1, <1>2, <2>1, <2>2 DEF TaskRec
<1>10. CASE UNCHANGED task
  BY <1>1, <1>2, <1>10
<1> QED
  BY <1>10, <1>3, <1>4, <1>5, <1>6, <1>7, <1>8, <1>9, TaskChanges

\* Every step keeps the order row well formed.
LEMMA OrderShape == ASSUME JInv, Next PROVE order' \in OrderRec
<1>1. /\ order \in OrderRec /\ task.gen \in Nat /\ attempt.tok \in Nat /\ tree \in Images
  BY DEF JInv, Shape, TaskRec
<1>2. CASE UNCHANGED order
  BY <1>1, <1>2
<1>3. CASE \E keep \in BOOLEAN : Submit(keep)
  BY <1>1, <1>3 DEF Submit, OrderRec
<1>4. CASE Cancel
  BY <1>1, <1>4 DEF Cancel, OrderRec
<1>5. CASE Take \/ DeliverNothing
  BY <1>1, <1>5 DEF Take, DeliverNothing, OrderRec
<1>6. CASE \E t \in Threads : Publish(t)
  BY <1>1, <1>6 DEF Publish, OrderRec
<1>7. CASE \E t \in Threads : RecordCheckpoint(t)
  BY <1>1, <1>7 DEF RecordCheckpoint, OrderRec
<1>8. CASE SetStatus \/ Report
  BY <1>1, <1>8 DEF SetStatus, Report, OrderRec
<1>9. CASE End \/ Update
  BY <1>1, <1>9 DEF End, Update, Ended, OrderRec
<1>11. CASE EndFails
  <2>1. CASE UNCHANGED order
    BY <1>1, <2>1
  <2>2. CASE order' = [Ended(FALSE) EXCEPT !.bar = "unseen"]
    BY <1>1, <2>2 DEF Ended, OrderRec
  <2> QED
    BY <1>11, <2>1, <2>2 DEF EndFails
<1>10. \/ UNCHANGED order \/ Cancel \/ Take \/ DeliverNothing \/ SetStatus \/ End \/ EndFails
       \/ Report \/ Update
       \/ \E keep \in BOOLEAN : Submit(keep)
       \/ \E t \in Threads : Publish(t) \/ RecordCheckpoint(t)
  <2>1. CASE WorkerStep
    BY <2>1 DEF WorkerStep, work, BeginWork, BeginRefused, Persist, Apply, PatchFails,
      Deliver, Fail, RollbackTransaction, Ask
  <2>2. CASE RecoverStep
    BY <2>2 DEF RecoverStep, work, StartPass, ScanTerminal, ReadRow, ReadJournal, EndPass,
      ClaimAttempt, ClaimRefused, Adopt, AdoptFails, Confirm, ConfirmTimeout, RecordFails
  <2>3. CASE \E t \in Threads : FinishStep(t)
    BY <2>3 DEF FinishStep, work, FinishRead, Verify, Restore, ClearJournal, CommitFinish,
      FinishFails, Release
  <2>4. CASE AgentStep
    BY <2>4 DEF AgentStep, work, Claim, CompleteCall, TransitionCompleted, Transition, Reap,
      Heartbeat, CheckpointResets, AdvanceGeneration, Edit, RunStart, RunEnd, CompleteCheck,
      CompleteMove, CompleteCommit, CompleteRefused
  <2>5. CASE Cancel \/ Start \/ Expire \/ Crash \/ \E keep \in BOOLEAN : Submit(keep)
    BY <2>5 DEF work, Start, Expire, Crash
  <2> QED
    BY <2>1, <2>2, <2>3, <2>4, <2>5 DEF Next
<1> QED
  BY <1>2, <1>3, <1>4, <1>5, <1>6, <1>7, <1>8, <1>9, <1>10, <1>11

\* Every step keeps the journal well formed.
LEMMA JournalShape == ASSUME JInv, Next PROVE journal' \in Journals
<1>1. journal \in Journals /\ <<>> \in Journals
  BY DEF JInv, Shape, Journals
<1>2. CASE Persist \/ PatchFails
  <2>1. th'["worker"] \in ThreadRec
    BY ThreadsShape DEF Threads
  <2>2. th'["worker"].list = journal'
    BY <1>2 DEF Persist, PatchFails, JInv, Shape, Threads, ThreadRec
  <2> QED
    BY <2>1, <2>2 DEF ThreadRec
<1>3. CASE DeliverNothing \/ \E t \in Threads : ClearJournal(t)
  BY <1>1, <1>3 DEF DeliverNothing, ClearJournal
<1>4. \/ UNCHANGED journal \/ Persist \/ PatchFails \/ DeliverNothing
      \/ \E t \in Threads : ClearJournal(t)
  <2>1. CASE WorkerStep
    BY <2>1 DEF WorkerStep, work, Take, BeginWork, BeginRefused, Apply, Deliver, Fail,
      RollbackTransaction, SetStatus, End, EndFails, Ask
  <2>2. CASE RecoverStep
    BY <2>2 DEF RecoverStep, work, StartPass, ScanTerminal, ReadRow, ReadJournal, EndPass,
      ClaimAttempt, ClaimRefused, Adopt, AdoptFails, Confirm, ConfirmTimeout, Report, Update,
      RecordFails
  <2>3. CASE \E t \in Threads : FinishStep(t)
    BY <2>3 DEF FinishStep, work, FinishRead, Publish, Verify, Restore, RecordCheckpoint,
      CommitFinish, FinishFails, Release
  <2>4. CASE AgentStep
    BY <2>4 DEF AgentStep, work, Claim, CompleteCall, TransitionCompleted, Transition, Reap,
      Heartbeat, CheckpointResets, AdvanceGeneration, Edit, RunStart, RunEnd, CompleteCheck,
      CompleteMove, CompleteCommit, CompleteRefused
  <2>5. CASE Cancel \/ Start \/ Expire \/ Crash \/ \E keep \in BOOLEAN : Submit(keep)
    BY <2>5 DEF work, Cancel, Start, Expire, Crash, Submit
  <2> QED
    BY <2>1, <2>2, <2>3, <2>4, <2>5 DEF Next
<1> QED
  BY <1>1, <1>2, <1>3, <1>4

\* An entry of a journal is well formed.
LEMMA EntryShape ==
    ASSUME NEW l \in Journals, NEW i \in 1..Len(l)
    PROVE  l[i].pre \in Images /\ l[i].post \in Images
<1> DEFINE E == [pre : Images, post : Images]
<1>1. l \in Seq(E)
  BY DEF Journals
<1> HIDE DEF E
<1>2. l[i] \in E
  BY <1>1
<1> QED
  BY <1>2 DEF E

\* So is the last one.
LEMMA LastShape ==
    ASSUME NEW l \in Journals, l # <<>>
    PROVE  Last(l).pre \in Images /\ Last(l).post \in Images
<1>1. Len(l) \in Nat /\ Len(l) # 0
  BY DEF Journals
<1>2. Len(l) \in 1..Len(l)
  BY <1>1
<1> QED
  BY <1>2, EntryShape DEF Last

\* Undoing journal entries leaves a well formed workspace.
LEMMA UndoneShape ==
    ASSUME NEW l \in Journals, NEW now \in Images
    PROVE  Undone(l, now) \in Images \cup {Torn}
<1>1. Len(l) \in Nat /\ (l # <<>> => Len(l) # 0)
  BY DEF Journals
<1>2. l # <<>> => 1 \in 1..Len(l)
  BY <1>1
<1> QED
  BY <1>2, EntryShape DEF Undone

\* Every step keeps the workspace well formed.
LEMMA TreeShape == ASSUME JInv, Next PROVE tree' \in Images
<1>1. tree \in Images /\ \A t \in Threads : th[t].list \in Journals
  BY DEF JInv, Shape, ThreadRec
<1>2. CASE Apply
  BY <1>1, <1>2, LastShape DEF Apply, At, JInv, Calls, Threads
<1>3. CASE \E t \in Threads : Restore(t)
  BY <1>1, <1>3, UndoneShape DEF Restore
<1>4. CASE Edit
  BY <1>1, <1>4 DEF Edit, Event, Images, JInv, Shape
<1>5. UNCHANGED tree \/ Apply \/ Edit \/ \E t \in Threads : Restore(t)
  <2>1. CASE WorkerStep
    BY <2>1 DEF WorkerStep, work, Take, BeginWork, BeginRefused, Persist, PatchFails, Deliver,
      DeliverNothing, Fail, RollbackTransaction, SetStatus, End, EndFails, Ask
  <2>2. CASE RecoverStep
    BY <2>2 DEF RecoverStep, work, StartPass, ScanTerminal, ReadRow, ReadJournal, EndPass,
      ClaimAttempt, ClaimRefused, Adopt, AdoptFails, Confirm, ConfirmTimeout, Report, Update,
      RecordFails
  <2>3. CASE \E t \in Threads : FinishStep(t)
    BY <2>3 DEF FinishStep, work, FinishRead, Publish, Verify, RecordCheckpoint, ClearJournal,
      CommitFinish, FinishFails, Release
  <2>4. CASE AgentStep
    BY <2>4 DEF AgentStep, work, Claim, CompleteCall, TransitionCompleted, Transition, Reap,
      Heartbeat, CheckpointResets, AdvanceGeneration, RunStart, RunEnd, CompleteCheck,
      CompleteMove, CompleteCommit, CompleteRefused
  <2>5. CASE Cancel \/ Start \/ Expire \/ Crash \/ \E keep \in BOOLEAN : Submit(keep)
    BY <2>5 DEF work, Cancel, Start, Expire, Crash, Submit
  <2> QED
    BY <2>1, <2>2, <2>3, <2>4, <2>5 DEF Next
<1> QED
  BY <1>1, <1>2, <1>3, <1>4, <1>5

\* The steps that change the process and the counters.
LEMMA EnvChanges ==
    ASSUME Next
    PROVE  \/ UNCHANGED env \/ Event \/ Persist \/ PatchFails \/ StartPass \/ EndPass
           \/ ClaimRefused \/ ConfirmTimeout \/ Start \/ Crash \/ EndFails \/ RecordFails
<1>1. CASE WorkerStep
  BY <1>1 DEF WorkerStep, Take, BeginWork, BeginRefused, Apply, Deliver, DeliverNothing, Fail,
    RollbackTransaction, SetStatus, End, Ask
<1>2. CASE RecoverStep
  BY <1>2 DEF RecoverStep, ScanTerminal, ReadRow, ReadJournal, ClaimAttempt, Adopt,
    AdoptFails, Confirm, Report, Update
<1>3. CASE \E t \in Threads : FinishStep(t)
  BY <1>3 DEF FinishStep, FinishRead, Publish, Verify, Restore, RecordCheckpoint,
    ClearJournal, CommitFinish, FinishFails, Release
<1>4. CASE AgentStep
  BY <1>4 DEF AgentStep, Claim, CompleteCall, TransitionCompleted, Transition, Reap,
    Heartbeat, CheckpointResets, AdvanceGeneration, Edit, RunStart, RunEnd, CompleteCheck,
    CompleteMove, CompleteCommit, CompleteRefused, Move
<1>5. CASE Cancel \/ Start \/ Expire \/ Crash \/ \E keep \in BOOLEAN : Submit(keep)
  BY <1>5 DEF Cancel, Expire, Submit
<1> QED
  BY <1>1, <1>2, <1>3, <1>4, <1>5 DEF Next

\* Every step keeps the bounds well formed.
LEMMA EnvShape ==
    ASSUME JInv, Next
    PROVE  env' \in [up : BOOLEAN, retry : BOOLEAN, missed : BOOLEAN,
                   patches : 0..MaxPatches, left : 0..MaxEvents]
<1> DEFINE E == [up : BOOLEAN, retry : BOOLEAN, missed : BOOLEAN,
                 patches : 0..MaxPatches, left : 0..MaxEvents]
<1>1. env \in E
  BY DEF JInv, Shape
<1>2. CASE UNCHANGED env
  BY <1>1, <1>2
<1>3. CASE Event
  BY <1>1, <1>3, BarrierAssumption DEF Event
<1>4. CASE Persist
  <2>1. env.patches < MaxPatches /\ env' = [env EXCEPT !.patches = @ + 1]
    BY <1>4 DEF Persist, At, JInv, Calls
  <2> QED
    BY <1>1, <2>1, BarrierAssumption
<1>5. CASE PatchFails
  <2>1. \/ UNCHANGED env
        \/ /\ env.patches > 0 /\ env.left > 0
           /\ env' = [env EXCEPT !.patches = @ - 1, !.left = @ - 1]
    BY <1>5 DEF PatchFails, At, JInv, Calls
  <2> DEFINE n == env.left - 1
             k == env.patches - 1
  <2>2. CASE UNCHANGED env
    BY <1>1, <2>2
  <2>3. CASE ~UNCHANGED env
    <3>1. n \in 0..MaxEvents /\ k \in 0..MaxPatches
      BY <1>1, <2>1, <2>3, BarrierAssumption
    <3>2. env' = [env EXCEPT !.patches = k, !.left = n]
      BY <2>1, <2>3
    <3> HIDE DEF n, k
    <3> QED
      BY <1>1, <3>1, <3>2
  <2> QED
    BY <2>2, <2>3
<1>6. CASE StartPass \/ EndPass \/ ClaimRefused \/ Start
  <2>1. \A u, r, m \in BOOLEAN : [env EXCEPT !.up = u, !.retry = r, !.missed = m] \in E
    BY <1>1
  <2>2. \A r \in BOOLEAN : [env EXCEPT !.retry = r] \in E
    BY <1>1
  <2>3. CASE StartPass
    BY <2>2, <2>3 DEF StartPass
  <2>4. CASE EndPass
    <3>1. env' = [env EXCEPT !.retry = env.retry \/ order.state = "active"]
      BY <2>4 DEF EndPass
    <3> QED
      BY <2>2, <3>1
  <2>5. CASE ClaimRefused
    BY <2>2, <2>5 DEF ClaimRefused
  <2>6. CASE Start
    BY <2>1, <2>6 DEF Start
  <2> QED
    BY <1>6, <2>3, <2>4, <2>5, <2>6
<1>7. CASE ConfirmTimeout \/ Crash \/ EndFails \/ RecordFails
  <2> DEFINE n == env.left - 1
  <2>1. env.left > 0
    BY <1>7 DEF ConfirmTimeout, Crash, EndFails, RecordFails
  <2>2. n \in 0..MaxEvents
    BY <1>1, <2>1, BarrierAssumption
  <2>3. \/ env' = [env EXCEPT !.left = n, !.retry = TRUE]
        \/ env' = [env EXCEPT !.up = FALSE, !.retry = FALSE, !.left = n]
        \/ env' = [env EXCEPT !.left = n]
        \/ env' = [env EXCEPT !.left = n, !.missed = TRUE]
    BY <1>7 DEF ConfirmTimeout, Crash, EndFails, RecordFails
  <2> HIDE DEF n
  <2>4. CASE env' = [env EXCEPT !.left = n, !.retry = TRUE]
    BY <1>1, <2>2, <2>4
  <2>5. CASE env' = [env EXCEPT !.up = FALSE, !.retry = FALSE, !.left = n]
    BY <1>1, <2>2, <2>5
  <2>6. CASE env' = [env EXCEPT !.left = n]
    BY <1>1, <2>2, <2>6
  <2>7. CASE env' = [env EXCEPT !.left = n, !.missed = TRUE]
    BY <1>1, <2>2, <2>7
  <2> QED
    BY <2>3, <2>4, <2>5, <2>6, <2>7
<1> QED
  BY <1>2, <1>3, <1>4, <1>5, <1>6, <1>7, EnvChanges

\* The steps that change receipts, calls of agents and test runs.
LEMMA AgentsChange ==
    ASSUME Next
    PROVE  \/ UNCHANGED agents \/ Crash \/ RunStart \/ RunEnd \/ CompleteCheck \/ CompleteCommit
           \/ CompleteRefused \/ \E a \in Agents : Claim(a) \/ CompleteCall(a)
<1>1. CASE WorkerStep
  BY <1>1 DEF WorkerStep, agents, Take, BeginWork, BeginRefused, Persist, Apply, PatchFails,
    Deliver, DeliverNothing, Fail, RollbackTransaction, SetStatus, End, EndFails, Ask
<1>2. CASE RecoverStep
  BY <1>2 DEF RecoverStep, agents, StartPass, ScanTerminal, ReadRow, ReadJournal, EndPass,
    ClaimAttempt, ClaimRefused, Adopt, AdoptFails, Confirm, ConfirmTimeout, Report, Update,
      RecordFails
<1>3. CASE \E t \in Threads : FinishStep(t)
  BY <1>3 DEF FinishStep, agents, FinishRead, Publish, Verify, Restore, RecordCheckpoint,
    ClearJournal, CommitFinish, FinishFails, Release
<1>4. CASE AgentStep
  BY <1>4 DEF AgentStep, agents, TransitionCompleted, Transition, Reap, Heartbeat,
    CheckpointResets, AdvanceGeneration, Edit, CompleteMove
<1>5. CASE Cancel \/ Start \/ Expire \/ Crash \/ \E keep \in BOOLEAN : Submit(keep)
  BY <1>5 DEF agents, Cancel, Start, Expire, Submit
<1> QED
  BY <1>1, <1>2, <1>3, <1>4, <1>5 DEF Next

\* Every step keeps them well formed.
LEMMA CallShape ==
    ASSUME JInv, Next
    PROVE  /\ rcpt' \in ReceiptRec \cup {None}
           /\ comp' \in CallRec
           /\ run' \in [pc : {"off", "running"}, rev : Images \cup {None}]
<1> DEFINE R == [pc : {"off", "running"}, rev : Images \cup {None}]
<1>1. /\ rcpt \in ReceiptRec \cup {None} /\ comp \in CallRec /\ run \in R
      /\ task \in TaskRec /\ tree \in Images
  BY DEF JInv, Shape
<1>2. NoCall \in CallRec /\ [pc |-> "off", rev |-> None] \in R
  BY DEF NoCall, CallRec
<1>3. CASE UNCHANGED agents
  BY <1>1, <1>3 DEF agents
<1>4. CASE Crash
  BY <1>1, <1>2, <1>4 DEF Crash
<1>5. CASE \E a \in Agents : Claim(a)
  <2>1. \E a \in Agents : rcpt' = rcpt \/ (rcpt # None /\ rcpt' = [rcpt EXCEPT !.owner = a])
    <3>1. PICK a \in Agents : Claim(a)
      BY <1>5
    <3> QED
      BY <3>1 DEF Claim
  <2>2. rcpt' \in ReceiptRec \cup {None}
    BY <1>1, <2>1 DEF ReceiptRec, Owners
  <2> QED
    BY <1>1, <1>5, <2>2 DEF Claim
<1>6. CASE RunStart
  BY <1>1, <1>6 DEF RunStart
<1>7. CASE RunEnd
  <2>1. env.left + 1 \in 1..MaxEvents
    BY <1>7, BarrierAssumption DEF RunEnd, JInv, Calls, Shape
  <2>2. run.rev \in Images /\ task.gen \in Nat /\ task.owner \in Owners
    BY <1>1, <1>7 DEF RunEnd, JInv, Calls, TaskRec
  <2>3. rcpt' \in ReceiptRec
    BY <1>7, <2>1, <2>2 DEF RunEnd, ReceiptRec
  <2> QED
    BY <1>1, <1>2, <1>7, <2>3 DEF RunEnd
<1>8. CASE \E a \in Agents : CompleteCall(a)
  <2>1. comp' \in CallRec
    BY <1>1, <1>8 DEF CompleteCall, CallRec
  <2> QED
    BY <1>1, <1>8, <2>1 DEF CompleteCall
<1>9. CASE CompleteCheck
  <2>1. comp' \in CallRec
    BY <1>1, <1>9 DEF CompleteCheck, CallRec
  <2> QED
    BY <1>1, <1>9, <2>1 DEF CompleteCheck
<1>10. CASE CompleteCommit \/ CompleteRefused
  BY <1>1, <1>2, <1>10 DEF CompleteCommit, CompleteRefused
<1> QED
  BY <1>3, <1>4, <1>5, <1>6, <1>7, <1>8, <1>9, <1>10, AgentsChange

\* Every step keeps the set of current readers well formed.
LEMMA ReadsShape == ASSUME JInv, Next PROVE reads' \subseteq Threads
<1>1. CASE WorkerStep
  BY <1>1 DEF WorkerStep, Take, BeginWork, BeginRefused, Persist, Apply, PatchFails, Deliver,
    DeliverNothing, Fail, RollbackTransaction, SetStatus, End, EndFails, Ask, Write, JInv, Shape
<1>2. CASE RecoverStep
  BY <1>2 DEF RecoverStep, StartPass, ScanTerminal, ReadRow, ReadJournal, EndPass,
    ClaimAttempt, ClaimRefused, Adopt, AdoptFails, Confirm, ConfirmTimeout, Report, Update,
      RecordFails,
    Write, JInv, Shape
<1>3. CASE \E t \in Threads : FinishStep(t)
  BY <1>3 DEF FinishStep, FinishRead, Publish, Verify, Restore, RecordCheckpoint,
    ClearJournal, CommitFinish, FinishFails, Release, Write, JInv, Shape
<1>4. CASE AgentStep
  BY <1>4 DEF AgentStep, Claim, CompleteCall, TransitionCompleted, Transition, Reap,
    Heartbeat, CheckpointResets, AdvanceGeneration, Edit, RunStart, RunEnd, CompleteCheck,
    CompleteMove, CompleteCommit, CompleteRefused, Move, Write, JInv, Shape
<1>5. CASE Cancel \/ Start \/ Expire \/ Crash \/ \E keep \in BOOLEAN : Submit(keep)
  BY <1>5 DEF Cancel, Start, Expire, Crash, Submit, JInv, Shape
<1> QED
  BY <1>1, <1>2, <1>3, <1>4, <1>5 DEF Next

\* Every step keeps every part well formed.
LEMMA ShapeKept == ASSUME JInv, Next PROVE Shape'
BY ThreadsShape, AttemptShape, TaskShape, OrderShape, JournalShape, TreeShape, EnvShape, CallShape,
  ReadsShape DEF Shape

-----------------------------------------------------------------------------
(* Who holds the attempt *)

\* Steps of the worker keep the attempt with its owner.
LEMMA OwnedWorker == ASSUME JInv, WorkerStep PROVE Owned'
<1>1. CASE Take
  BY <1>1, BarrierAssumption DEF Take, At, Goto, agents, work, JInv, Shape, Owned, Off,
    ThreadRec, OrderRec, Threads, Working, Looking, Finishing
<1>2. CASE BeginWork
  BY <1>2, BarrierAssumption DEF BeginWork, At, Goto, agents, work, JInv, Shape, Owned, Off,
    ThreadRec, OrderRec, Threads, Working, Looking, Finishing
<1>3. CASE BeginRefused
  BY <1>3, BarrierAssumption DEF BeginRefused, At, Goto, agents, work, JInv, Shape, Owned,
    Off, ThreadRec, OrderRec, Threads, Working, Looking, Finishing
<1>4. CASE Persist
  <2>1. /\ th'["worker"].pc = "apply" /\ th'["worker"].doing = th["worker"].doing
        /\ th'["recover"] = th["recover"] /\ UNCHANGED attempt
    BY <1>4 DEF Persist, JInv, Shape, ThreadRec, Threads
  <2> QED
    BY <1>4, <2>1 DEF Persist, At, JInv, Owned, Working
<1>5. CASE Apply
  BY <1>5, BarrierAssumption DEF Apply, At, Goto, agents, work, JInv, Shape, Owned, Off,
    ThreadRec, OrderRec, Threads, Working, Looking, Finishing
<1>6. CASE PatchFails
  BY <1>6, BarrierAssumption DEF PatchFails, At, Goto, agents, work, JInv, Shape, Owned, Off,
    ThreadRec, OrderRec, Threads, Working, Looking, Finishing
<1>7. CASE Deliver
  BY <1>7, BarrierAssumption DEF Deliver, At, Goto, agents, work, JInv, Shape, Owned, Off,
    ThreadRec, OrderRec, Threads, Working, Looking, Finishing
<1>8. CASE DeliverNothing
  BY <1>8, BarrierAssumption DEF DeliverNothing, At, Goto, agents, work, JInv, Shape, Owned,
    Off, ThreadRec, OrderRec, Threads, Working, Looking, Finishing
<1>9. CASE Fail
  BY <1>9, BarrierAssumption DEF Fail, At, Goto, agents, work, JInv, Shape, Owned, Off,
    ThreadRec, OrderRec, Threads, Working, Looking, Finishing
<1>10. CASE RollbackTransaction
  BY <1>10, BarrierAssumption DEF RollbackTransaction, At, Goto, agents, work, JInv, Shape,
    Owned, Off, ThreadRec, OrderRec, Threads, Working, Looking, Finishing
<1>11. CASE SetStatus
  BY <1>11, BarrierAssumption DEF SetStatus, At, Goto, agents, work, JInv, Shape, Owned, Off,
    ThreadRec, OrderRec, Threads, Working, Looking, Finishing
<1>12. CASE End
  BY <1>12, BarrierAssumption DEF End, At, Goto, agents, work, JInv, Shape, Owned, Off,
    ThreadRec, OrderRec, Threads, Working, Looking, Finishing
<1>13. CASE \E keep \in BOOLEAN : Ask(keep)
  BY <1>13, BarrierAssumption DEF Ask, At, Goto, agents, work, JInv, Shape, Owned, Off,
    ThreadRec, OrderRec, Threads, Working, Looking, Finishing
<1>14. CASE EndFails
  BY <1>14, EndFailed DEF Owned, Working, Looking, JInv
<1> QED
  BY <1>1, <1>2, <1>3, <1>4, <1>5, <1>6, <1>7, <1>8, <1>9, <1>10, <1>11, <1>12, <1>13,
    <1>14 DEF WorkerStep

\* Steps of recovery keep the attempt with its owner.
LEMMA OwnedRecover == ASSUME JInv, RecoverStep PROVE Owned'
<1>1. CASE StartPass
  BY <1>1, BarrierAssumption DEF StartPass, At, Goto, agents, work, JInv, Shape, Owned, Off,
    ThreadRec, OrderRec, Threads, Working, Looking, Finishing
<1>2. CASE ScanTerminal
  BY <1>2, BarrierAssumption DEF ScanTerminal, At, Goto, agents, work, JInv, Shape, Owned,
    Off, ThreadRec, OrderRec, Threads, Working, Looking, Finishing
<1>3. CASE ReadRow
  BY <1>3, BarrierAssumption DEF ReadRow, At, Goto, agents, work, JInv, Shape, Owned, Off,
    ThreadRec, OrderRec, Threads, Working, Looking, Finishing
<1>4. CASE ReadJournal
  BY <1>4, BarrierAssumption DEF ReadJournal, At, Goto, agents, work, JInv, Shape, Owned, Off,
    ThreadRec, OrderRec, Threads, Working, Looking, Finishing
<1>5. CASE EndPass
  BY <1>5, BarrierAssumption DEF EndPass, At, Goto, agents, work, JInv, Shape, Owned, Off,
    ThreadRec, OrderRec, Threads, Working, Looking, Finishing
<1>6. CASE ClaimAttempt
  BY <1>6, BarrierAssumption DEF ClaimAttempt, At, Goto, agents, work, JInv, Shape, Owned,
    Off, ThreadRec, OrderRec, Threads, Working, Looking, Finishing
<1>7. CASE ClaimRefused
  BY <1>7, BarrierAssumption DEF ClaimRefused, At, Goto, agents, work, JInv, Shape, Owned,
    Off, ThreadRec, OrderRec, Threads, Working, Looking, Finishing
<1>8. CASE Adopt
  BY <1>8, BarrierAssumption DEF Adopt, At, Goto, agents, work, JInv, Shape, Owned, Off,
    ThreadRec, OrderRec, Threads, Working, Looking, Finishing
<1>9. CASE AdoptFails
  BY <1>9, BarrierAssumption DEF AdoptFails, At, Goto, agents, work, JInv, Shape, Owned, Off,
    ThreadRec, OrderRec, Threads, Working, Looking, Finishing, AfterError, Succeeded
<1>10. CASE Confirm
  BY <1>10, BarrierAssumption DEF Confirm, At, Goto, agents, work, JInv, Shape, Owned, Off,
    ThreadRec, OrderRec, Threads, Working, Looking, Finishing
<1>11. CASE ConfirmTimeout
  BY <1>11, BarrierAssumption DEF ConfirmTimeout, At, Goto, agents, work, JInv, Shape, Owned,
    Off, ThreadRec, OrderRec, Threads, Working, Looking, Finishing
<1>12. CASE Report
  BY <1>12, BarrierAssumption DEF Report, At, Goto, agents, work, JInv, Shape, Owned, Off,
    ThreadRec, OrderRec, Threads, Working, Looking, Finishing
<1>13. CASE Update
  BY <1>13, BarrierAssumption DEF Update, At, Goto, agents, work, JInv, Shape, Owned, Off,
    ThreadRec, OrderRec, Threads, Working, Looking, Finishing
<1>14. CASE RecordFails
  BY <1>14, BarrierAssumption DEF RecordFails, At, Goto, agents, work, JInv, Shape, Owned, Off,
    ThreadRec, OrderRec, Threads, Working, Looking, Finishing
<1> QED
  BY <1>1, <1>2, <1>3, <1>4, <1>5, <1>6, <1>7, <1>8, <1>9, <1>10, <1>11, <1>12, <1>13,
    <1>14 DEF RecoverStep

\* So do the steps of the worker in _finish_fenced_work_mutation.
LEMMA OwnedFinishWorker == ASSUME JInv, FinishStep("worker") PROVE Owned'
<1>1. CASE FinishRead("worker")
  BY <1>1, BarrierAssumption DEF FinishRead, At, Goto, agents, work, JInv, Shape, Owned, Off,
    ThreadRec, OrderRec, Threads, Working, Looking, Finishing
<1>2. CASE Publish("worker")
  BY <1>2, BarrierAssumption DEF Publish, At, Goto, agents, work, JInv, Shape, Owned, Off,
    ThreadRec, OrderRec, Threads, Working, Looking, Finishing
<1>3. CASE Verify("worker")
  BY <1>3, BarrierAssumption DEF Verify, At, Goto, agents, work, JInv, Shape, Owned, Off,
    ThreadRec, OrderRec, Threads, Working, Looking, Finishing
<1>4. CASE Restore("worker")
  BY <1>4, BarrierAssumption DEF Restore, At, Goto, agents, work, JInv, Shape, Owned, Off,
    ThreadRec, OrderRec, Threads, Working, Looking, Finishing
<1>5. CASE RecordCheckpoint("worker")
  BY <1>5, BarrierAssumption DEF RecordCheckpoint, At, Goto, agents, work, JInv, Shape, Owned,
    Off, ThreadRec, OrderRec, Threads, Working, Looking, Finishing
<1>6. CASE ClearJournal("worker")
  BY <1>6, BarrierAssumption DEF ClearJournal, At, Goto, agents, work, JInv, Shape, Owned,
    Off, ThreadRec, OrderRec, Threads, Working, Looking, Finishing, Succeeded
<1>7. CASE CommitFinish("worker")
  <2>1. At("worker", "commit") /\ UNCHANGED attempt
    BY <1>7 DEF CommitFinish
  <2>2. CASE th' = [th EXCEPT !["worker"].pc = Succeeded("worker"), !["worker"].bar = FALSE, !["worker"].ok = TRUE]
    <3>1. /\ th'["worker"].pc = Succeeded("worker") /\ th'["worker"].bar = FALSE /\ th'["worker"].ok = TRUE
          /\ th'["worker"].doing = th["worker"].doing /\ th'["worker"].list = th["worker"].list
          /\ th'["worker"].keep = th["worker"].keep /\ th'["worker"].guard = th["worker"].guard
          /\ th'["worker"].copy = th["worker"].copy
          /\ \A u \in Threads : u # "worker" => th'[u] = th[u]
      BY <2>2, Committed DEF JInv, Threads
    <3> QED
      BY <2>1, <3>1 DEF At, agents, work, JInv, Shape, Owned, ThreadRec, OrderRec, Threads,
        Working, Looking, Finishing, Succeeded
  <2>3. CASE th' = [th EXCEPT !["worker"] = AfterError("worker")]
    BY <2>1, <2>3 DEF At, AfterError, agents, work, JInv, Shape, Owned, ThreadRec, OrderRec,
      Threads, Working, Looking, Finishing, Succeeded
  <2> QED
    BY <1>7, <2>2, <2>3 DEF CommitFinish
<1>8. CASE FinishFails("worker")
  BY <1>8, BarrierAssumption DEF FinishFails, At, Goto, agents, work, JInv, Shape, Owned, Off,
    ThreadRec, OrderRec, Threads, Working, Looking, Finishing, AfterError, Succeeded
<1>9. CASE Release("worker")
  BY <1>9, BarrierAssumption DEF Release, At, Goto, agents, work, JInv, Shape, Owned, Off,
    ThreadRec, OrderRec, Threads, Working, Looking, Finishing
<1> QED
  BY <1>1, <1>2, <1>3, <1>4, <1>5, <1>6, <1>7, <1>8, <1>9 DEF FinishStep

\* So do those of recovery.
LEMMA OwnedFinishRecover == ASSUME JInv, FinishStep("recover") PROVE Owned'
<1>1. CASE FinishRead("recover")
  BY <1>1, BarrierAssumption DEF FinishRead, At, Goto, agents, work, JInv, Shape, Owned, Off,
    ThreadRec, OrderRec, Threads, Working, Looking, Finishing
<1>2. CASE Publish("recover")
  BY <1>2, BarrierAssumption DEF Publish, At, Goto, agents, work, JInv, Shape, Owned, Off,
    ThreadRec, OrderRec, Threads, Working, Looking, Finishing
<1>3. CASE Verify("recover")
  BY <1>3, BarrierAssumption DEF Verify, At, Goto, agents, work, JInv, Shape, Owned, Off,
    ThreadRec, OrderRec, Threads, Working, Looking, Finishing
<1>4. CASE Restore("recover")
  BY <1>4, BarrierAssumption DEF Restore, At, Goto, agents, work, JInv, Shape, Owned, Off,
    ThreadRec, OrderRec, Threads, Working, Looking, Finishing
<1>5. CASE RecordCheckpoint("recover")
  BY <1>5, BarrierAssumption DEF RecordCheckpoint, At, Goto, agents, work, JInv, Shape, Owned,
    Off, ThreadRec, OrderRec, Threads, Working, Looking, Finishing
<1>6. CASE ClearJournal("recover")
  BY <1>6, BarrierAssumption DEF ClearJournal, At, Goto, agents, work, JInv, Shape, Owned,
    Off, ThreadRec, OrderRec, Threads, Working, Looking, Finishing, Succeeded
<1>7. CASE CommitFinish("recover")
  <2>1. At("recover", "commit") /\ UNCHANGED attempt
    BY <1>7 DEF CommitFinish
  <2>2. CASE th' = [th EXCEPT !["recover"].pc = Succeeded("recover"), !["recover"].bar = FALSE, !["recover"].ok = TRUE]
    <3>1. /\ th'["recover"].pc = Succeeded("recover") /\ th'["recover"].bar = FALSE /\ th'["recover"].ok = TRUE
          /\ th'["recover"].doing = th["recover"].doing /\ th'["recover"].list = th["recover"].list
          /\ th'["recover"].keep = th["recover"].keep /\ th'["recover"].guard = th["recover"].guard
          /\ th'["recover"].copy = th["recover"].copy
          /\ \A u \in Threads : u # "recover" => th'[u] = th[u]
      BY <2>2, Committed DEF JInv, Threads
    <3> QED
      BY <2>1, <3>1 DEF At, agents, work, JInv, Shape, Owned, ThreadRec, OrderRec, Threads,
        Working, Looking, Finishing, Succeeded
  <2>3. CASE th' = [th EXCEPT !["recover"] = AfterError("recover")]
    BY <2>1, <2>3 DEF At, AfterError, agents, work, JInv, Shape, Owned, ThreadRec, OrderRec,
      Threads, Working, Looking, Finishing, Succeeded
  <2> QED
    BY <1>7, <2>2, <2>3 DEF CommitFinish
<1>8. CASE FinishFails("recover")
  BY <1>8, BarrierAssumption DEF FinishFails, At, Goto, agents, work, JInv, Shape, Owned, Off,
    ThreadRec, OrderRec, Threads, Working, Looking, Finishing, AfterError, Succeeded
<1>9. CASE Release("recover")
  BY <1>9, BarrierAssumption DEF Release, At, Goto, agents, work, JInv, Shape, Owned, Off,
    ThreadRec, OrderRec, Threads, Working, Looking, Finishing
<1> QED
  BY <1>1, <1>2, <1>3, <1>4, <1>5, <1>6, <1>7, <1>8, <1>9 DEF FinishStep

\* The events that are left only become fewer.
LEMMA LeftFalls ==
    ASSUME JInv, Next
    PROVE  /\ env'.left <= env.left
           /\ env'.patches = env.patches \/ Persist \/ PatchFails
<1>1. env.left \in Nat
  BY BarrierAssumption DEF JInv, Shape
<1>2. CASE UNCHANGED env
  BY <1>1, <1>2
<1>3. CASE Event
  BY <1>1, <1>3 DEF Event, JInv, Shape
<1>4. CASE Persist \/ PatchFails \/ StartPass \/ EndPass \/ ClaimRefused \/ ConfirmTimeout
           \/ Start \/ Crash \/ EndFails \/ RecordFails
  <2>1. CASE Persist \/ PatchFails
    <3>1. env'.left \in {env.left, env.left - 1}
      BY <2>1 DEF Persist, PatchFails, JInv, Shape
    <3> QED
      BY <1>1, <2>1, <3>1
  <2>2. CASE StartPass \/ EndPass \/ ClaimRefused \/ Start
    <3>1. CASE StartPass
      BY <1>1, <3>1 DEF StartPass, JInv, Shape
    <3>2. CASE EndPass
      BY <1>1, <3>2 DEF EndPass, JInv, Shape
    <3>3. CASE ClaimRefused
      BY <1>1, <3>3 DEF ClaimRefused, JInv, Shape
    <3>4. CASE Start
      BY <1>1, <3>4 DEF Start, JInv, Shape
    <3> QED
      BY <2>2, <3>1, <3>2, <3>3, <3>4
  <2>3. CASE ConfirmTimeout
    BY <1>1, <2>3 DEF ConfirmTimeout, JInv, Shape
  <2>4. CASE Crash
    BY <1>1, <2>4 DEF Crash, JInv, Shape
  <2>5. CASE EndFails \/ RecordFails
    <3>1. env'.left = env.left - 1 /\ env'.patches = env.patches
      BY <2>5 DEF EndFails, RecordFails, JInv, Shape
    <3> QED
      BY <1>1, <3>1
  <2> QED
    BY <1>4, <2>1, <2>2, <2>3, <2>4, <2>5
<1> QED
  BY <1>2, <1>3, <1>4, EnvChanges

\* A completion call and a test run have fixed the revision they look at.
LEMMA CallKept ==
    ASSUME JInv, Next
    PROVE  /\ comp'.pc # "off" => comp'.actor \in Agents /\ comp'.rev \in Images
           /\ run'.pc = "running" => run'.rev \in Images /\ env'.left < MaxEvents
<1>1. /\ env'.left \in Nat /\ env.left \in Nat /\ env'.left <= env.left /\ tree \in Images
      /\ env.left <= MaxEvents /\ MaxEvents \in Nat
      /\ comp.pc # "off" => comp.actor \in Agents /\ comp.rev \in Images
      /\ run.pc = "running" => run.rev \in Images /\ env.left < MaxEvents
  BY LeftFalls, EnvShape, BarrierAssumption DEF JInv, Shape, Calls
<1>2. CASE UNCHANGED agents
  BY <1>1, <1>2 DEF agents
<1>3. CASE Crash \/ CompleteCommit \/ CompleteRefused \/ RunEnd \/ \E a \in Agents : Claim(a)
  <2>1. UNCHANGED comp \/ comp' = NoCall
    BY <1>3 DEF Crash, CompleteCommit, CompleteRefused, RunEnd, Claim
  <2>2. UNCHANGED run \/ run' = [pc |-> "off", rev |-> None]
    BY <1>3 DEF Crash, CompleteCommit, CompleteRefused, RunEnd, Claim
  <2> QED
    BY <1>1, <2>1, <2>2 DEF NoCall
<1>4. CASE RunStart
  BY <1>1, <1>4 DEF RunStart, Event, JInv, Shape
<1>5. CASE CompleteCheck \/ \E a \in Agents : CompleteCall(a)
  <2>1. comp'.actor \in Agents /\ comp'.rev \in Images
    <3>1. CASE CompleteCheck
      BY <1>1, <3>1 DEF CompleteCheck, JInv, Shape, CallRec
    <3>2. CASE \E a \in Agents : CompleteCall(a)
      BY <1>1, <3>2 DEF CompleteCall
    <3> QED
      BY <1>5, <3>1, <3>2
  <2>2. UNCHANGED run
    BY <1>5 DEF CompleteCheck, CompleteCall
  <2> QED
    BY <1>1, <2>1, <2>2
<1> QED
  BY <1>2, <1>3, <1>4, <1>5, AgentsChange

\* Other steps leave the worker alone.
LEMMA WorkerAlone ==
    ASSUME JInv, Next
    PROVE  WorkerStep \/ FinishStep("worker") \/ Crash \/ UNCHANGED th["worker"]
<1>1. CASE RecoverStep
  BY <1>1 DEF RecoverStep, JInv, Shape, Threads, Goto, StartPass, ScanTerminal, ReadRow,
    ReadJournal, EndPass, ClaimAttempt, ClaimRefused, Adopt, AdoptFails, Confirm,
    ConfirmTimeout, Report, Update, RecordFails
<1>2. CASE FinishStep("recover")
  BY <1>2 DEF FinishStep, JInv, Shape, Threads, Goto, FinishRead, Publish, Verify, Restore,
    RecordCheckpoint, ClearJournal, CommitFinish, FinishFails, Release
<1>3. CASE AgentStep
  BY <1>3 DEF AgentStep, Claim, CompleteCall, TransitionCompleted, Transition, Reap,
    Heartbeat, CheckpointResets, AdvanceGeneration, Edit, RunStart, RunEnd, CompleteCheck,
    CompleteMove, CompleteCommit, CompleteRefused
<1>4. CASE Cancel \/ Start \/ Expire \/ \E keep \in BOOLEAN : Submit(keep)
  BY <1>4 DEF Cancel, Start, Expire, Submit
<1> QED
  BY <1>1, <1>2, <1>3, <1>4 DEF Next, Threads

\* The patch at work is within the bound, and on the list of its thread.
LEMMA PatchKept ==
    ASSUME JInv, Next
    PROVE  /\ th'["worker"].pc = "persist" => env'.patches < MaxPatches
           /\ th'["worker"].pc = "apply" => env'.patches > 0 /\ th'["worker"].list # <<>>
<1>1. /\ th["worker"].pc = "persist" => env.patches < MaxPatches
      /\ th["worker"].pc = "apply" => env.patches > 0 /\ th["worker"].list # <<>>
      /\ th["worker"] \in ThreadRec /\ th["worker"].list \in Journals
  BY DEF JInv, Calls, Shape, ThreadRec, Threads
<1>2. CASE th'["worker"] = th["worker"] /\ env'.patches = env.patches
  BY <1>1, <1>2
<1>3. CASE BeginWork
  BY <1>1, <1>3 DEF BeginWork, Goto, Event, JInv, Shape, ThreadRec, Threads
<1>4. CASE Persist
  <2> DEFINE e == [pre |-> tree, post |-> [tree EXCEPT !.patch = env.patches + 1]]
  <2>1. /\ th'["worker"].pc = "apply" /\ th'["worker"].list = Append(th["worker"].list, e)
        /\ env'.patches = env.patches + 1 /\ env.patches \in Nat
    BY <1>4 DEF Persist, JInv, Shape, ThreadRec, Threads
  <2> HIDE DEF e
  <2>2. Append(th["worker"].list, e) # <<>>
    <3>1. e \in [pre : Images, post : Images]
      BY <1>4, NewEntry DEF e
    <3> DEFINE S == [pre : Images, post : Images]
    <3>2. th["worker"].list \in Seq(S)
      BY <1>1 DEF Journals
    <3> HIDE DEF S
    <3> QED
      BY <3>1, <3>2, AppendProperties DEF S
  <2> QED
    BY <2>1, <2>2
<1>5. CASE th'["worker"].pc \notin {"persist", "apply"}
  BY <1>5
<1>6. CASE WorkerStep
  <2>1. CASE BeginRefused \/ Apply \/ DeliverNothing \/ SetStatus \/ End
    <3>1. \E pc \in {"retry", "work", "release"} : Goto("worker", pc)
      BY <2>1 DEF BeginRefused, Apply, DeliverNothing, SetStatus, End
    <3> QED
      BY <1>5, <3>1 DEF Goto, JInv, Shape, ThreadRec, Threads
  <2>2. CASE Take
    BY <2>2 DEF Take, Off, JInv, Shape, Threads
  <2>3. CASE PatchFails
    BY <2>3 DEF PatchFails, JInv, Shape, ThreadRec, Threads
  <2>4. CASE Deliver \/ Fail \/ \E keep \in BOOLEAN : Ask(keep)
    <3>1. CASE Deliver
      BY <3>1 DEF Deliver, JInv, Shape, ThreadRec, Threads
    <3>2. CASE Fail
      BY <3>2 DEF Fail, JInv, Shape, ThreadRec, Threads
    <3>3. CASE \E keep \in BOOLEAN : Ask(keep)
      BY <3>3 DEF Ask, JInv, Shape, ThreadRec, Threads
    <3> QED
      BY <2>4, <3>1, <3>2, <3>3
  <2>5. CASE RollbackTransaction
    BY <2>5 DEF RollbackTransaction, JInv, Shape, ThreadRec, Threads
  <2>6. CASE EndFails
    BY <1>5, <2>6, EndFailed
  <2> QED
    BY <1>3, <1>4, <1>6, <2>1, <2>2, <2>3, <2>4, <2>5, <2>6 DEF WorkerStep
<1>7. CASE FinishStep("worker")
  <2>1. CASE FinishRead("worker") \/ Publish("worker") \/ Verify("worker") \/ Restore("worker")
             \/ ClearJournal("worker")
    <3>1. \E pc \in {"publish", "verify", "commit", "clear", "restore", "checkpoint", "status",
                      "end", "report", "update"} : Goto("worker", pc)
      BY <2>1 DEF FinishRead, Publish, Verify, Restore, ClearJournal, Succeeded
    <3> QED
      BY <1>5, <3>1 DEF Goto, JInv, Shape, ThreadRec, Threads
  <2>2. CASE RecordCheckpoint("worker") \/ Release("worker")
    BY <2>2 DEF RecordCheckpoint, Release, Off, JInv, Shape, ThreadRec, Threads
  <2>3. CASE CommitFinish("worker") \/ FinishFails("worker")
    <3>1. AfterError("worker").pc \notin {"persist", "apply"}
      BY DEF AfterError, Succeeded, JInv, Shape, ThreadRec, Threads
    <3>2. Succeeded("worker") \notin {"persist", "apply"}
      BY DEF Succeeded
    <3>3. th'["worker"].pc \in {AfterError("worker").pc, Succeeded("worker")}
      BY <2>3 DEF CommitFinish, FinishFails, JInv, Shape, ThreadRec, Threads
    <3> QED
      BY <1>5, <3>1, <3>2, <3>3
  <2> QED
    BY <1>7, <2>1, <2>2, <2>3 DEF FinishStep
<1>8. CASE Crash
  BY <1>8 DEF Crash, Off, Threads
<1>9. CASE UNCHANGED th["worker"]
  <2>1. PatchFails => th'["worker"].pc = "retry"
    BY DEF PatchFails, JInv, Shape, ThreadRec, Threads
  <2> QED
    BY <1>2, <1>4, <1>5, <1>9, <2>1, LeftFalls
<1> QED
  BY <1>6, <1>7, <1>8, <1>9, WorkerAlone

\* Every step keeps what the shapes need from each other.
LEMMA CallsKept == ASSUME JInv, Next PROVE Calls'
BY TaskShape, CallKept, PatchKept DEF Calls

-----------------------------------------------------------------------------
(* The journal is undone under the barrier only *)

\* Steps of the worker keep the journal under the barrier.
LEMMA JournalWorker == ASSUME JInv, WorkerStep PROVE JournalInv'
<1>1. CASE Take
  BY <1>1, BarrierAssumption DEF Take, At, Goto, agents, work, JInv, Shape, Owned, Off,
    ThreadRec, OrderRec, Threads, Working, Looking, Finishing, JournalInv, Past,
    JournaledUnderBarrier, Write
<1>2. CASE BeginWork
  BY <1>2, BarrierAssumption DEF BeginWork, At, Goto, agents, work, JInv, Shape, Owned, Off,
    ThreadRec, OrderRec, Threads, Working, Looking, Finishing, JournalInv, Past,
    JournaledUnderBarrier, Write, TaskRec, Event
<1>3. CASE BeginRefused
  BY <1>3, BarrierAssumption DEF BeginRefused, At, Goto, agents, work, JInv, Shape, Owned,
    Off, ThreadRec, OrderRec, Threads, Working, Looking, Finishing, JournalInv, Past,
    JournaledUnderBarrier, Write
<1>4. CASE Persist
  BY <1>4, BarrierAssumption DEF Persist, At, Goto, agents, work, JInv, Shape, Owned, Off,
    ThreadRec, OrderRec, Threads, Working, Looking, Finishing, JournalInv, Past,
    JournaledUnderBarrier, Write
<1>5. CASE Apply
  BY <1>5, BarrierAssumption DEF Apply, At, Goto, agents, work, JInv, Shape, Owned, Off,
    ThreadRec, OrderRec, Threads, Working, Looking, Finishing, JournalInv, Past,
    JournaledUnderBarrier, Write
<1>6. CASE PatchFails
  BY <1>6, BarrierAssumption DEF PatchFails, At, Goto, agents, work, JInv, Shape, Owned, Off,
    ThreadRec, OrderRec, Threads, Working, Looking, Finishing, JournalInv, Past,
    JournaledUnderBarrier, Write
<1>7. CASE Deliver
  BY <1>7, BarrierAssumption DEF Deliver, At, Goto, agents, work, JInv, Shape, Owned, Off,
    ThreadRec, OrderRec, Threads, Working, Looking, Finishing, JournalInv, Past,
    JournaledUnderBarrier, Write
<1>8. CASE DeliverNothing
  BY <1>8, BarrierAssumption DEF DeliverNothing, At, Goto, agents, work, JInv, Shape, Owned,
    Off, ThreadRec, OrderRec, Threads, Working, Looking, Finishing, JournalInv, Past,
    JournaledUnderBarrier, Write
<1>9. CASE Fail
  BY <1>9, BarrierAssumption DEF Fail, At, Goto, agents, work, JInv, Shape, Owned, Off,
    ThreadRec, OrderRec, Threads, Working, Looking, Finishing, JournalInv, Past,
    JournaledUnderBarrier, Write
<1>10. CASE RollbackTransaction
  BY <1>10, BarrierAssumption DEF RollbackTransaction, At, Goto, agents, work, JInv, Shape,
    Owned, Off, ThreadRec, OrderRec, Threads, Working, Looking, Finishing, JournalInv, Past,
    JournaledUnderBarrier, Write
<1>11. CASE SetStatus
  BY <1>11, BarrierAssumption DEF SetStatus, At, Goto, agents, work, JInv, Shape, Owned, Off,
    ThreadRec, OrderRec, Threads, Working, Looking, Finishing, JournalInv, Past,
    JournaledUnderBarrier, Write, Event
<1>12. CASE End
  BY <1>12, BarrierAssumption DEF End, At, Goto, agents, work, JInv, Shape, Owned, Off,
    ThreadRec, OrderRec, Threads, Working, Looking, Finishing, JournalInv, Past,
    JournaledUnderBarrier, Write, Ended
<1>13. CASE \E keep \in BOOLEAN : Ask(keep)
  BY <1>13, BarrierAssumption DEF Ask, At, Goto, agents, work, JInv, Shape, Owned, Off,
    ThreadRec, OrderRec, Threads, Working, Looking, Finishing, JournalInv, Past,
    JournaledUnderBarrier, Write
<1>14. CASE EndFails
  BY <1>14, EndFailed DEF JInv, Owned, JournalInv, Past, JournaledUnderBarrier, Working,
    Finishing, Looking, Threads
<1> QED
  BY <1>1, <1>2, <1>3, <1>4, <1>5, <1>6, <1>7, <1>8, <1>9, <1>10, <1>11, <1>12, <1>13,
    <1>14 DEF WorkerStep

\* Steps of recovery keep the journal under the barrier.
LEMMA JournalRecover == ASSUME JInv, RecoverStep PROVE JournalInv'
<1>1. CASE StartPass
  BY <1>1, BarrierAssumption DEF StartPass, At, Goto, agents, work, JInv, Shape, Owned, Off,
    ThreadRec, OrderRec, Threads, Working, Looking, Finishing, JournalInv, Past,
    JournaledUnderBarrier, Write
<1>2. CASE ScanTerminal
  BY <1>2, BarrierAssumption DEF ScanTerminal, At, Goto, agents, work, JInv, Shape, Owned,
    Off, ThreadRec, OrderRec, Threads, Working, Looking, Finishing, JournalInv, Past,
    JournaledUnderBarrier, Write
<1>3. CASE ReadRow
  BY <1>3, BarrierAssumption DEF ReadRow, At, Goto, agents, work, JInv, Shape, Owned, Off,
    ThreadRec, OrderRec, Threads, Working, Looking, Finishing, JournalInv, Past,
    JournaledUnderBarrier, Write
<1>4. CASE ReadJournal
  BY <1>4, BarrierAssumption DEF ReadJournal, At, Goto, agents, work, JInv, Shape, Owned, Off,
    ThreadRec, OrderRec, Threads, Working, Looking, Finishing, JournalInv, Past,
    JournaledUnderBarrier, Write
<1>5. CASE EndPass
  BY <1>5, BarrierAssumption DEF EndPass, At, Goto, agents, work, JInv, Shape, Owned, Off,
    ThreadRec, OrderRec, Threads, Working, Looking, Finishing, JournalInv, Past,
    JournaledUnderBarrier, Write
<1>6. CASE ClaimAttempt
  BY <1>6, BarrierAssumption DEF ClaimAttempt, At, Goto, agents, work, JInv, Shape, Owned,
    Off, ThreadRec, OrderRec, Threads, Working, Looking, Finishing, JournalInv, Past,
    JournaledUnderBarrier, Write
<1>7. CASE ClaimRefused
  BY <1>7, BarrierAssumption DEF ClaimRefused, At, Goto, agents, work, JInv, Shape, Owned,
    Off, ThreadRec, OrderRec, Threads, Working, Looking, Finishing, JournalInv, Past,
    JournaledUnderBarrier, Write
<1>8. CASE Adopt
  BY <1>8, BarrierAssumption DEF Adopt, At, Goto, agents, work, JInv, Shape, Owned, Off,
    ThreadRec, OrderRec, Threads, Working, Looking, Finishing, JournalInv, Past,
    JournaledUnderBarrier, Write, TaskRec
<1>9. CASE AdoptFails
  BY <1>9, BarrierAssumption DEF AdoptFails, At, Goto, agents, work, JInv, Shape, Owned, Off,
    ThreadRec, OrderRec, Threads, Working, Looking, Finishing, JournalInv, Past,
    JournaledUnderBarrier, Write, AfterError, Succeeded
<1>10. CASE Confirm
  BY <1>10, BarrierAssumption DEF Confirm, At, Goto, agents, work, JInv, Shape, Owned, Off,
    ThreadRec, OrderRec, Threads, Working, Looking, Finishing, JournalInv, Past,
    JournaledUnderBarrier, Write
<1>11. CASE ConfirmTimeout
  BY <1>11, BarrierAssumption DEF ConfirmTimeout, At, Goto, agents, work, JInv, Shape, Owned,
    Off, ThreadRec, OrderRec, Threads, Working, Looking, Finishing, JournalInv, Past,
    JournaledUnderBarrier, Write
<1>12. CASE Report
  BY <1>12, BarrierAssumption DEF Report, At, Goto, agents, work, JInv, Shape, Owned, Off,
    ThreadRec, OrderRec, Threads, Working, Looking, Finishing, JournalInv, Past,
    JournaledUnderBarrier, Write
<1>13. CASE Update
  BY <1>13, BarrierAssumption DEF Update, At, Goto, agents, work, JInv, Shape, Owned, Off,
    ThreadRec, OrderRec, Threads, Working, Looking, Finishing, JournalInv, Past,
    JournaledUnderBarrier, Write, Ended
<1>14. CASE RecordFails
  BY <1>14, BarrierAssumption DEF RecordFails, At, Goto, agents, work, JInv, Shape, Owned, Off,
    ThreadRec, OrderRec, Threads, Working, Looking, Finishing,
    JournalInv, Past, JournaledUnderBarrier
<1> QED
  BY <1>1, <1>2, <1>3, <1>4, <1>5, <1>6, <1>7, <1>8, <1>9, <1>10, <1>11, <1>12, <1>13,
    <1>14 DEF RecoverStep

\* So do the steps of the worker in _finish_fenced_work_mutation.
LEMMA JournalFinishWorker == ASSUME JInv, FinishStep("worker") PROVE JournalInv'
<1>1. CASE FinishRead("worker")
  <2>1. task'.mark = task.mark
    BY <1>1 DEF FinishRead, Write, JInv, Shape, TaskRec
  <2>2. /\ At("worker", "finish") /\ UNCHANGED <<attempt, journal, order>>
        /\ \/ \E pc \in {"publish", "verify", "clear", "restore"} : Goto("worker", pc)
           \/ th["worker"].doing = "lift" /\ Goto("worker", "commit")
    BY <1>1 DEF FinishRead, work
  <2>3. PICK pc \in {"publish", "verify", "clear", "restore", "commit"} :
          Goto("worker", pc) /\ (pc = "commit" => th["worker"].doing = "lift")
    BY <2>2
  <2> QED
    BY <2>1, <2>2, <2>3 DEF At, agents, work, JInv, Shape, Owned, ThreadRec, OrderRec,
      Threads, Working, Looking, Finishing, JournalInv, Past, JournaledUnderBarrier, Goto
<1>2. CASE Publish("worker")
  BY <1>2, BarrierAssumption DEF Publish, At, Goto, agents, work, JInv, Shape, Owned, Off,
    ThreadRec, OrderRec, Threads, Working, Looking, Finishing, JournalInv, Past,
    JournaledUnderBarrier, Write
<1>3. CASE Verify("worker")
  BY <1>3, BarrierAssumption DEF Verify, At, Goto, agents, work, JInv, Shape, Owned, Off,
    ThreadRec, OrderRec, Threads, Working, Looking, Finishing, JournalInv, Past,
    JournaledUnderBarrier, Write
<1>4. CASE Restore("worker")
  BY <1>4, BarrierAssumption DEF Restore, At, Goto, agents, work, JInv, Shape, Owned, Off,
    ThreadRec, OrderRec, Threads, Working, Looking, Finishing, JournalInv, Past,
    JournaledUnderBarrier, Write
<1>5. CASE RecordCheckpoint("worker")
  BY <1>5, BarrierAssumption DEF RecordCheckpoint, At, Goto, agents, work, JInv, Shape, Owned,
    Off, ThreadRec, OrderRec, Threads, Working, Looking, Finishing, JournalInv, Past,
    JournaledUnderBarrier, Write
<1>6. CASE ClearJournal("worker")
  BY <1>6, BarrierAssumption DEF ClearJournal, At, Goto, agents, work, JInv, Shape, Owned,
    Off, ThreadRec, OrderRec, Threads, Working, Looking, Finishing, JournalInv, Past,
    JournaledUnderBarrier, Write, Succeeded
<1>7. CASE CommitFinish("worker")
  <2>1. At("worker", "commit") /\ UNCHANGED <<attempt, journal, order>>
    BY <1>7 DEF CommitFinish
  <2>2. CASE th' = [th EXCEPT !["worker"].pc = Succeeded("worker"), !["worker"].bar = FALSE, !["worker"].ok = TRUE]
    <3>1. /\ th'["worker"].pc = Succeeded("worker") /\ th'["worker"].bar = FALSE /\ th'["worker"].ok = TRUE
          /\ th'["worker"].doing = th["worker"].doing /\ th'["worker"].list = th["worker"].list
          /\ th'["worker"].keep = th["worker"].keep /\ th'["worker"].guard = th["worker"].guard
          /\ th'["worker"].copy = th["worker"].copy
          /\ \A u \in Threads : u # "worker" => th'[u] = th[u]
      BY <2>2, Committed DEF JInv, Threads
    <3> QED
      BY <2>1, <3>1 DEF At, agents, work, JInv, Shape, Owned, ThreadRec, OrderRec, Threads,
        Working, Looking, Finishing, Succeeded, JournalInv, Past, JournaledUnderBarrier
  <2>3. CASE th' = [th EXCEPT !["worker"] = AfterError("worker")]
    BY <2>1, <2>3 DEF At, AfterError, agents, work, JInv, Shape, Owned, ThreadRec, OrderRec,
      Threads, Working, Looking, Finishing, Succeeded, JournalInv, Past, JournaledUnderBarrier
  <2> QED
    BY <1>7, <2>2, <2>3 DEF CommitFinish
<1>8. CASE FinishFails("worker")
  BY <1>8, BarrierAssumption DEF FinishFails, At, Goto, agents, work, JInv, Shape, Owned, Off,
    ThreadRec, OrderRec, Threads, Working, Looking, Finishing, JournalInv, Past,
    JournaledUnderBarrier, Write, AfterError, Succeeded
<1>9. CASE Release("worker")
  BY <1>9, BarrierAssumption DEF Release, At, Goto, agents, work, JInv, Shape, Owned, Off,
    ThreadRec, OrderRec, Threads, Working, Looking, Finishing, JournalInv, Past,
    JournaledUnderBarrier, Write
<1> QED
  BY <1>1, <1>2, <1>3, <1>4, <1>5, <1>6, <1>7, <1>8, <1>9 DEF FinishStep

\* So do those of recovery.
LEMMA JournalFinishRecover == ASSUME JInv, FinishStep("recover") PROVE JournalInv'
<1>1. CASE FinishRead("recover")
  <2>1. task'.mark = task.mark
    BY <1>1 DEF FinishRead, Write, JInv, Shape, TaskRec
  <2>2. /\ At("recover", "finish") /\ UNCHANGED <<attempt, journal, order>>
        /\ \/ \E pc \in {"publish", "verify", "clear", "restore"} : Goto("recover", pc)
           \/ th["recover"].doing = "lift" /\ Goto("recover", "commit")
    BY <1>1 DEF FinishRead, work
  <2>3. PICK pc \in {"publish", "verify", "clear", "restore", "commit"} :
          Goto("recover", pc) /\ (pc = "commit" => th["recover"].doing = "lift")
    BY <2>2
  <2> QED
    BY <2>1, <2>2, <2>3 DEF At, agents, work, JInv, Shape, Owned, ThreadRec, OrderRec,
      Threads, Working, Looking, Finishing, JournalInv, Past, JournaledUnderBarrier, Goto
<1>2. CASE Publish("recover")
  BY <1>2, BarrierAssumption DEF Publish, At, Goto, agents, work, JInv, Shape, Owned, Off,
    ThreadRec, OrderRec, Threads, Working, Looking, Finishing, JournalInv, Past,
    JournaledUnderBarrier, Write
<1>3. CASE Verify("recover")
  BY <1>3, BarrierAssumption DEF Verify, At, Goto, agents, work, JInv, Shape, Owned, Off,
    ThreadRec, OrderRec, Threads, Working, Looking, Finishing, JournalInv, Past,
    JournaledUnderBarrier, Write
<1>4. CASE Restore("recover")
  BY <1>4, BarrierAssumption DEF Restore, At, Goto, agents, work, JInv, Shape, Owned, Off,
    ThreadRec, OrderRec, Threads, Working, Looking, Finishing, JournalInv, Past,
    JournaledUnderBarrier, Write
<1>5. CASE RecordCheckpoint("recover")
  BY <1>5, BarrierAssumption DEF RecordCheckpoint, At, Goto, agents, work, JInv, Shape, Owned,
    Off, ThreadRec, OrderRec, Threads, Working, Looking, Finishing, JournalInv, Past,
    JournaledUnderBarrier, Write
<1>6. CASE ClearJournal("recover")
  BY <1>6, BarrierAssumption DEF ClearJournal, At, Goto, agents, work, JInv, Shape, Owned,
    Off, ThreadRec, OrderRec, Threads, Working, Looking, Finishing, JournalInv, Past,
    JournaledUnderBarrier, Write, Succeeded
<1>7. CASE CommitFinish("recover")
  <2>1. At("recover", "commit") /\ UNCHANGED <<attempt, journal, order>>
    BY <1>7 DEF CommitFinish
  <2>2. CASE th' = [th EXCEPT !["recover"].pc = Succeeded("recover"), !["recover"].bar = FALSE, !["recover"].ok = TRUE]
    <3>1. /\ th'["recover"].pc = Succeeded("recover") /\ th'["recover"].bar = FALSE /\ th'["recover"].ok = TRUE
          /\ th'["recover"].doing = th["recover"].doing /\ th'["recover"].list = th["recover"].list
          /\ th'["recover"].keep = th["recover"].keep /\ th'["recover"].guard = th["recover"].guard
          /\ th'["recover"].copy = th["recover"].copy
          /\ \A u \in Threads : u # "recover" => th'[u] = th[u]
      BY <2>2, Committed DEF JInv, Threads
    <3> QED
      BY <2>1, <3>1 DEF At, agents, work, JInv, Shape, Owned, ThreadRec, OrderRec, Threads,
        Working, Looking, Finishing, Succeeded, JournalInv, Past, JournaledUnderBarrier
  <2>3. CASE th' = [th EXCEPT !["recover"] = AfterError("recover")]
    BY <2>1, <2>3 DEF At, AfterError, agents, work, JInv, Shape, Owned, ThreadRec, OrderRec,
      Threads, Working, Looking, Finishing, Succeeded, JournalInv, Past, JournaledUnderBarrier
  <2> QED
    BY <1>7, <2>2, <2>3 DEF CommitFinish
<1>8. CASE FinishFails("recover")
  BY <1>8, BarrierAssumption DEF FinishFails, At, Goto, agents, work, JInv, Shape, Owned, Off,
    ThreadRec, OrderRec, Threads, Working, Looking, Finishing, JournalInv, Past,
    JournaledUnderBarrier, Write, AfterError, Succeeded
<1>9. CASE Release("recover")
  BY <1>9, BarrierAssumption DEF Release, At, Goto, agents, work, JInv, Shape, Owned, Off,
    ThreadRec, OrderRec, Threads, Working, Looking, Finishing, JournalInv, Past,
    JournaledUnderBarrier, Write
<1> QED
  BY <1>1, <1>2, <1>3, <1>4, <1>5, <1>6, <1>7, <1>8, <1>9 DEF FinishStep

-----------------------------------------------------------------------------
(* What agents and the process do to both *)

\* Steps of agents leave order, journal, attempt and threads alone.
LEMMA AgentFrame ==
    ASSUME JInv, AgentStep
    PROVE  /\ UNCHANGED <<th, order, journal, attempt, final>>
           /\ task'.mark = task.mark /\ tree'.patch = tree.patch
<1>1. UNCHANGED <<th, order, journal, attempt, final>>
  BY DEF AgentStep, work, Claim, CompleteCall, TransitionCompleted, Transition, Reap,
    Heartbeat, CheckpointResets, AdvanceGeneration, Edit, RunStart, RunEnd, CompleteCheck,
    CompleteMove, CompleteCommit, CompleteRefused
<1>2. tree'.patch = tree.patch
  <2>1. UNCHANGED tree \/ Edit
    BY DEF AgentStep, work, Claim, CompleteCall, TransitionCompleted, Transition, Reap,
      Heartbeat, CheckpointResets, AdvanceGeneration, RunStart, RunEnd, CompleteCheck,
      CompleteMove, CompleteCommit, CompleteRefused
  <2> QED
    BY <2>1 DEF Edit, JInv, Shape, Images
<1>3. task'.mark = task.mark
  <2>1. CASE \E a \in Agents : Claim(a) \/ CompleteCall(a) \/ TransitionCompleted(a)
    BY <2>1 DEF Claim, CompleteCall, TransitionCompleted, Move, Write, JInv, Shape, TaskRec
  <2>2. CASE \/ \E a \in Agents, s \in Statuses : Transition(a, s)
             \/ \E s \in Statuses : Reap(s)
    BY <2>2 DEF Transition, Reap, Move, Write, JInv, Shape, TaskRec
  <2>3. CASE Heartbeat \/ CheckpointResets \/ AdvanceGeneration
    BY <2>3 DEF Heartbeat, CheckpointResets, AdvanceGeneration, Move, Write, JInv, Shape, TaskRec
  <2>4. CASE Edit \/ RunStart \/ CompleteCheck \/ CompleteRefused
    BY <2>4 DEF Edit, RunStart, CompleteCheck, CompleteRefused
  <2>5. CASE RunEnd \/ CompleteMove \/ CompleteCommit
    BY <2>5 DEF RunEnd, CompleteMove, CompleteCommit, Write, JInv, Shape, TaskRec
  <2> QED
    BY <2>1, <2>2, <2>3, <2>4, <2>5 DEF AgentStep, Statuses
<1> QED
  BY <1>1, <1>2, <1>3

\* All other steps keep the owner of the attempt, and the journal barred.
LEMMA OwnedOthers ==
    ASSUME JInv, AgentStep \/ Cancel \/ Crash \/ Start \/ Expire \/ \E keep \in BOOLEAN : Submit(keep)
    PROVE  Owned' /\ JournalInv'
<1>1. CASE AgentStep
  <2>1. UNCHANGED <<th, order, journal, attempt>> /\ task'.mark = task.mark
    BY <1>1, AgentFrame
  <2> QED
    BY <2>1 DEF JInv, Owned, JournalInv, Past, JournaledUnderBarrier
<1>2. CASE Crash
  BY <1>2 DEF Crash, JInv, Owned, Off, Threads, Working, Finishing, Looking, JournalInv, Past,
    JournaledUnderBarrier
<1>3. CASE Expire
  BY <1>3, BarrierAssumption DEF Expire, agents, JInv, Shape, Owned, Threads, JournalInv, Past,
    JournaledUnderBarrier
<1>4. CASE Start
  BY <1>4 DEF Start, work, JInv, Owned, JournalInv, Past, JournaledUnderBarrier
<1>5. CASE Cancel
  BY <1>5 DEF Cancel, JInv, Shape, OrderRec, Owned, JournalInv, Past, JournaledUnderBarrier
<1>6. CASE \E keep \in BOOLEAN : Submit(keep)
  <2>1. /\ order.state = "none" /\ order'.ckpt = order.ckpt
        /\ UNCHANGED <<th, task, journal, attempt>>
    BY <1>6 DEF Submit, JInv, Shape, OrderRec
  <2>2. ~Past
    BY <2>1 DEF Past
  <2> QED
    BY <2>1, <2>2 DEF JInv, Owned, JournalInv, JournaledUnderBarrier
<1> QED
  BY <1>1, <1>2, <1>3, <1>4, <1>5, <1>6

-----------------------------------------------------------------------------
(* The theorems that need no assumption on recovery *)

\* The initial state satisfies the first invariant.
LEMMA InitJ == Init => JInv
<1> SUFFICES ASSUME Init PROVE JInv
  OBVIOUS
<1>1. Off \in ThreadRec
  <2>1. <<>> \in Journals
    BY DEF Journals
  <2> QED
    BY <2>1 DEF Off, ThreadRec, Pcs, Doings
<1>2. Shape
  <2>1. (CHOOSE a \in Agents : TRUE) \in Agents
    BY BarrierAssumption
  <2>2. task \in TaskRec
    BY <2>1, BarrierAssumption DEF Init, TaskRec, Statuses, Owners
  <2>3. order \in OrderRec
    BY DEF Init, OrderRec
  <2>4. journal \in Journals /\ tree \in Images
    BY BarrierAssumption DEF Init, Journals, Images
  <2>5. th \in [Threads -> ThreadRec]
    BY <1>1 DEF Init
  <2>6. comp \in CallRec
    BY DEF Init, NoCall, CallRec
  <2>7. env \in [up : BOOLEAN, retry : BOOLEAN, missed : BOOLEAN,
                 patches : 0..MaxPatches, left : 0..MaxEvents]
    BY BarrierAssumption DEF Init
  <2> QED
    BY <2>2, <2>3, <2>4, <2>5, <2>6, <2>7 DEF Init, Shape
<1>3. Calls
  BY DEF Init, Calls, NoCall, Off, Threads
<1>4. Owned
  BY DEF Init, Owned, Off, Threads, Looking, Working, Finishing
<1>5. JournalInv
  BY DEF Init, JournalInv, JournaledUnderBarrier, Past, Off, Threads
<1> QED
  BY <1>2, <1>3, <1>4, <1>5 DEF JInv

\* Every step preserves the first invariant.
LEMMA NextJ == JInv /\ [Next]_vars => JInv'
<1> SUFFICES ASSUME JInv, [Next]_vars PROVE JInv'
  OBVIOUS
<1>1. CASE UNCHANGED vars
  BY <1>1 DEF vars, agents, work, JInv, Shape, Calls, Owned, JournalInv, JournaledUnderBarrier, Past
<1>2. CASE Next
  <2>1. Shape' /\ Calls'
    BY <1>2, ShapeKept, CallsKept
  <2>2. CASE WorkerStep
    BY <2>1, <2>2, OwnedWorker, JournalWorker DEF JInv
  <2>3. CASE RecoverStep
    BY <2>1, <2>3, OwnedRecover, JournalRecover DEF JInv
  <2>4. CASE \E t \in Threads : FinishStep(t)
    BY <2>1, <2>4, OwnedFinishWorker, JournalFinishWorker, OwnedFinishRecover,
      JournalFinishRecover DEF JInv, Threads
  <2>5. CASE AgentStep \/ Cancel \/ Crash \/ Start \/ Expire \/ \E keep \in BOOLEAN : Submit(keep)
    BY <2>1, <2>5, OwnedOthers DEF JInv
  <2> QED
    BY <1>2, <2>2, <2>3, <2>4, <2>5 DEF Next
<1> QED
  BY <1>1, <1>2

\* The inductive invariant of every setting of the constants.
THEOREM JournalInvariance == Spec => []JInv
<1> QED
  BY InitJ, NextJ, PTL DEF Spec

\* Images are workspaces, and journals sequences of entries.
LEMMA ImagesInTrees == Images \subseteq Trees \ {Torn} /\ Journals \subseteq Seq(Entries)
<1>1. Images \subseteq Trees \ {Torn}
  BY BarrierAssumption DEF Images, Trees, Torn
<1>2. [pre : Images, post : Images] \subseteq Entries
  BY <1>1 DEF Entries
<1> HIDE DEF Entries
<1>3. ASSUME NEW l \in Journals PROVE l \in Seq(Entries)
  <2> DEFINE E == [pre : Images, post : Images]
  <2>1. l \in Seq(E) /\ E \subseteq Entries
    BY <1>2 DEF Journals
  <2> HIDE DEF E
  <2> QED
    BY <2>1
<1> QED
  BY <1>1, <1>3

\* Rows, journal, workspace and threads keep their shapes: the barrier names an attempt
\* that was granted, and no rollback, by the worker or by recovery, leaves a workspace
\* that is neither before nor after a patch (_rollback compares before it restores).
THEOREM TypeCorrect == Spec => []TypeOK
<1>1. JInv => TypeOK
  <2> SUFFICES ASSUME JInv PROVE TypeOK
    OBVIOUS
  <2>1. task.mark \in 0..attempt.tok
    BY DEF JInv, Shape, Calls, TaskRec
  <2>2. journal \in Seq(Entries) /\ tree \in Trees \ {Torn}
    BY ImagesInTrees DEF JInv, Shape
  <2>3. \A t \in Threads : th[t].pc \in Pcs /\ th[t].list \in Seq(Entries)
    BY ImagesInTrees DEF JInv, Shape, ThreadRec
  <2> QED
    BY <2>1, <2>2, <2>3 DEF TypeOK, JInv, Shape, TaskRec, OrderRec, Statuses, Owners
<1> QED
  BY <1>1, JournalInvariance, PTL

\* For any number of agents, patches, failures and crashes, and whatever a recovery pass
\* looks at: while the journal can still undo edits of the order, the task shows the
\* barrier (_finish_fenced_work_mutation finalizes before it removes the marker).
THEOREM JournalBarred == Spec => []JournaledUnderBarrier
<1>1. JInv => JournaledUnderBarrier
  BY DEF JInv, JournalInv
<1> QED
  BY <1>1, JournalInvariance, PTL

-----------------------------------------------------------------------------
(* The state of the order and the result it reports *)

\* Steps of the worker keep the state of the order in step with the barrier.
LEMMA OrderWorker == ASSUME ~Interrupted, BInv, WorkerStep PROVE OrderInv'
<1>1. CASE Take
  BY <1>1, BarrierAssumption DEF Take, At, Goto, agents, work, BInv, JInv, Shape, Owned, Off,
    ThreadRec, OrderRec, Threads, Working, Looking, Finishing, OrderInv, Over, Unfinished,
    BarrierReported, JournalInv
<1>2. CASE BeginWork
  BY <1>2, BarrierAssumption DEF BeginWork, At, Goto, agents, work, BInv, JInv, Shape, Owned,
    Off, ThreadRec, OrderRec, Threads, Working, Looking, Finishing, OrderInv, Over,
    Unfinished, BarrierReported, JournalInv, TaskRec, Event, Write
<1>3. CASE BeginRefused
  BY <1>3, BarrierAssumption DEF BeginRefused, At, Goto, agents, work, BInv, JInv, Shape,
    Owned, Off, ThreadRec, OrderRec, Threads, Working, Looking, Finishing, OrderInv, Over,
    Unfinished, BarrierReported, JournalInv
<1>4. CASE Persist
  BY <1>4, BarrierAssumption, SMTT(60) DEF Persist, At, Goto, agents, work, BInv, JInv, Shape, Owned,
    Off, ThreadRec, OrderRec, Threads, Working, Looking, Finishing, OrderInv, Over,
    Unfinished, BarrierReported, JournalInv
<1>5. CASE Apply
  <2>1. /\ th["worker"].pc = "apply" /\ th["worker"].list # <<>>
        /\ th'["worker"] = [th["worker"] EXCEPT !.pc = "work"] /\ th'["recover"] = th["recover"]
        /\ UNCHANGED <<task, order>>
    BY <1>5 DEF Apply, At, Goto, BInv, JInv, Shape, Calls, Threads
  <2>2. th["worker"] \in ThreadRec
    BY DEF BInv, JInv, Shape, Threads
  <2> QED
    BY <2>1, <2>2 DEF ThreadRec, BInv, JInv, OrderInv, Over, Unfinished, BarrierReported, Owned, Working, Looking, Finishing
<1>6. CASE PatchFails
  BY <1>6, BarrierAssumption DEF PatchFails, At, Goto, agents, work, BInv, JInv, Shape, Owned,
    Off, ThreadRec, OrderRec, Threads, Working, Looking, Finishing, OrderInv, Over,
    Unfinished, BarrierReported, JournalInv
<1>7. CASE Deliver
  BY <1>7, BarrierAssumption DEF Deliver, At, Goto, agents, work, BInv, JInv, Shape, Owned,
    Off, ThreadRec, OrderRec, Threads, Working, Looking, Finishing, OrderInv, Over,
    Unfinished, BarrierReported, JournalInv
<1>8. CASE DeliverNothing
  BY <1>8, BarrierAssumption DEF DeliverNothing, At, Goto, agents, work, BInv, JInv, Shape,
    Owned, Off, ThreadRec, OrderRec, Threads, Working, Looking, Finishing, OrderInv, Over,
    Unfinished, BarrierReported, JournalInv
<1>9. CASE Fail
  BY <1>9, BarrierAssumption DEF Fail, At, Goto, agents, work, BInv, JInv, Shape, Owned, Off,
    ThreadRec, OrderRec, Threads, Working, Looking, Finishing, OrderInv, Over, Unfinished,
    BarrierReported, JournalInv
<1>10. CASE RollbackTransaction
  BY <1>10, BarrierAssumption DEF RollbackTransaction, At, Goto, agents, work, BInv, JInv,
    Shape, Owned, Off, ThreadRec, OrderRec, Threads, Working, Looking, Finishing, OrderInv,
    Over, Unfinished, BarrierReported, JournalInv
<1>11. CASE SetStatus
  BY <1>11, BarrierAssumption DEF SetStatus, At, Goto, agents, work, BInv, JInv, Shape, Owned,
    Off, ThreadRec, OrderRec, Threads, Working, Looking, Finishing, OrderInv, Over,
    Unfinished, BarrierReported, JournalInv, Event
<1>12. CASE End
  BY <1>12, BarrierAssumption DEF End, At, Goto, agents, work, BInv, JInv, Shape, Owned, Off,
    ThreadRec, OrderRec, Threads, Working, Looking, Finishing, OrderInv, Over, Unfinished,
    BarrierReported, JournalInv, Ended
<1>13. CASE \E keep \in BOOLEAN : Ask(keep)
  BY <1>13, BarrierAssumption DEF Ask, At, Goto, agents, work, BInv, JInv, Shape, Owned, Off,
    ThreadRec, OrderRec, Threads, Working, Looking, Finishing, OrderInv, Over, Unfinished,
    BarrierReported, JournalInv
<1>14. CASE EndFails
  <2>1. JInv
    BY DEF BInv
  <2> QED
    BY <1>14, <2>1, EndFailed DEF BInv, JInv, Owned, OrderInv, Over, Unfinished, BarrierReported, Working,
    Finishing, Looking
<1> QED
  BY <1>1, <1>2, <1>3, <1>4, <1>5, <1>6, <1>7, <1>8, <1>9, <1>10, <1>11, <1>12, <1>13,
    <1>14 DEF WorkerStep

\* Steps of recovery keep the state of the order in step with the barrier.
LEMMA OrderRecover == ASSUME ~Interrupted, BInv, RecoverStep PROVE OrderInv'
<1>1. CASE StartPass
  BY <1>1, BarrierAssumption DEF StartPass, At, Goto, agents, work, BInv, JInv, Shape, Owned,
    Off, ThreadRec, OrderRec, Threads, Working, Looking, Finishing, OrderInv, Over,
    Unfinished, BarrierReported, JournalInv
<1>2. CASE ScanTerminal
  BY <1>2, BarrierAssumption DEF ScanTerminal, At, Goto, agents, work, BInv, JInv, Shape,
    Owned, Off, ThreadRec, OrderRec, Threads, Working, Looking, Finishing, OrderInv, Over,
    Unfinished, BarrierReported, JournalInv
<1>3. CASE ReadRow
  BY <1>3, BarrierAssumption DEF ReadRow, At, Goto, agents, work, BInv, JInv, Shape, Owned,
    Off, ThreadRec, OrderRec, Threads, Working, Looking, Finishing, OrderInv, Over,
    Unfinished, BarrierReported, JournalInv
<1>4. CASE ReadJournal
  BY <1>4, BarrierAssumption DEF ReadJournal, At, Goto, agents, work, BInv, JInv, Shape,
    Owned, Off, ThreadRec, OrderRec, Threads, Working, Looking, Finishing, OrderInv, Over,
    Unfinished, BarrierReported, JournalInv
<1>5. CASE EndPass
  BY <1>5, BarrierAssumption DEF EndPass, At, Goto, agents, work, BInv, JInv, Shape, Owned,
    Off, ThreadRec, OrderRec, Threads, Working, Looking, Finishing, OrderInv, Over,
    Unfinished, BarrierReported, JournalInv
<1>6. CASE ClaimAttempt
  BY <1>6, BarrierAssumption DEF ClaimAttempt, At, Goto, agents, work, BInv, JInv, Shape,
    Owned, Off, ThreadRec, OrderRec, Threads, Working, Looking, Finishing, OrderInv, Over,
    Unfinished, BarrierReported, JournalInv
<1>7. CASE ClaimRefused
  BY <1>7, BarrierAssumption DEF ClaimRefused, At, Goto, agents, work, BInv, JInv, Shape,
    Owned, Off, ThreadRec, OrderRec, Threads, Working, Looking, Finishing, OrderInv, Over,
    Unfinished, BarrierReported, JournalInv
<1>8. CASE Adopt
  <2>1. task'.mark = attempt.tok
    BY <1>8 DEF Adopt, Write, BInv, JInv, Shape, TaskRec
  <2>2. /\ th["recover"].pc = "adopt" /\ task.mark # 0 /\ UNCHANGED order
        /\ th' = [th EXCEPT !["recover"].pc = "finish"]
    BY <1>8 DEF Adopt, At, MayAdopt, Goto, work
  <2> QED
    BY <2>1, <2>2, BarrierAssumption DEF BInv, JInv, Shape, ThreadRec, Threads, OrderInv,
      Over, Unfinished, BarrierReported, Owned, Working, Looking, Finishing
<1>9. CASE AdoptFails
  BY <1>9, BarrierAssumption DEF AdoptFails, At, Goto, agents, work, BInv, JInv, Shape, Owned,
    Off, ThreadRec, OrderRec, Threads, Working, Looking, Finishing, OrderInv, Over,
    Unfinished, BarrierReported, JournalInv, AfterError, Succeeded
<1>10. CASE Confirm
  BY <1>10, BarrierAssumption DEF Confirm, At, Goto, agents, work, BInv, JInv, Shape, Owned,
    Off, ThreadRec, OrderRec, Threads, Working, Looking, Finishing, OrderInv, Over,
    Unfinished, BarrierReported, JournalInv
<1>11. CASE ConfirmTimeout
  BY <1>11, BarrierAssumption DEF ConfirmTimeout, At, Goto, agents, work, BInv, JInv, Shape,
    Owned, Off, ThreadRec, OrderRec, Threads, Working, Looking, Finishing, OrderInv, Over,
    Unfinished, BarrierReported, JournalInv
<1>12. CASE Report
  BY <1>12, BarrierAssumption DEF Report, At, Goto, agents, work, BInv, JInv, Shape, Owned,
    Off, ThreadRec, OrderRec, Threads, Working, Looking, Finishing, OrderInv, Over,
    Unfinished, BarrierReported, JournalInv
<1>13. CASE Update
  BY <1>13, BarrierAssumption DEF Update, At, Goto, agents, work, BInv, JInv, Shape, Owned,
    Off, ThreadRec, OrderRec, Threads, Working, Looking, Finishing, OrderInv, Over,
    Unfinished, BarrierReported, JournalInv, Ended
<1>14. CASE RecordFails
  BY <1>14, BarrierAssumption DEF RecordFails, At, Goto, agents, work, BInv, JInv, Shape, Owned, Off,
    ThreadRec, OrderRec, Threads, Working, Looking, Finishing,
    OrderInv, Over, Unfinished, BarrierReported, JournalInv
<1> QED
  BY <1>1, <1>2, <1>3, <1>4, <1>5, <1>6, <1>7, <1>8, <1>9, <1>10, <1>11, <1>12, <1>13,
    <1>14 DEF RecoverStep

\* So do the steps of the worker in _finish_fenced_work_mutation.
LEMMA OrderFinishWorker == ASSUME ~Interrupted, BInv, FinishStep("worker") PROVE OrderInv'
<1>1. CASE FinishRead("worker")
  BY <1>1, BarrierAssumption DEF FinishRead, At, Goto, agents, work, BInv, JInv, Shape, Owned,
    Off, ThreadRec, OrderRec, Threads, Working, Looking, Finishing, OrderInv, Over,
    Unfinished, BarrierReported, JournalInv, Write
<1>2. CASE Publish("worker")
  BY <1>2, BarrierAssumption DEF Publish, At, Goto, agents, work, BInv, JInv, Shape, Owned,
    Off, ThreadRec, OrderRec, Threads, Working, Looking, Finishing, OrderInv, Over,
    Unfinished, BarrierReported, JournalInv
<1>3. CASE Verify("worker")
  BY <1>3, BarrierAssumption DEF Verify, At, Goto, agents, work, BInv, JInv, Shape, Owned,
    Off, ThreadRec, OrderRec, Threads, Working, Looking, Finishing, OrderInv, Over,
    Unfinished, BarrierReported, JournalInv
<1>4. CASE Restore("worker")
  BY <1>4, BarrierAssumption DEF Restore, At, Goto, agents, work, BInv, JInv, Shape, Owned,
    Off, ThreadRec, OrderRec, Threads, Working, Looking, Finishing, OrderInv, Over,
    Unfinished, BarrierReported, JournalInv
<1>5. CASE RecordCheckpoint("worker")
  BY <1>5, BarrierAssumption DEF RecordCheckpoint, At, Goto, agents, work, BInv, JInv, Shape,
    Owned, Off, ThreadRec, OrderRec, Threads, Working, Looking, Finishing, OrderInv, Over,
    Unfinished, BarrierReported, JournalInv
<1>6. CASE ClearJournal("worker")
  BY <1>6, BarrierAssumption DEF ClearJournal, At, Goto, agents, work, BInv, JInv, Shape,
    Owned, Off, ThreadRec, OrderRec, Threads, Working, Looking, Finishing, OrderInv, Over,
    Unfinished, BarrierReported, JournalInv, Succeeded
<1>7. CASE CommitFinish("worker")
  <2>1. At("worker", "commit") /\ UNCHANGED order
    BY <1>7 DEF CommitFinish
  <2>2. task'.mark = 0
    BY <1>7 DEF CommitFinish, Write, BInv, JInv, Shape, TaskRec
  <2>3. CASE th' = [th EXCEPT !["worker"].pc = Succeeded("worker"), !["worker"].bar = FALSE, !["worker"].ok = TRUE]
    <3>1. /\ th'["worker"].pc = Succeeded("worker") /\ th'["worker"].bar = FALSE /\ th'["worker"].ok = TRUE
          /\ th'["worker"].doing = th["worker"].doing /\ th'["worker"].list = th["worker"].list
          /\ th'["worker"].keep = th["worker"].keep /\ th'["worker"].guard = th["worker"].guard
          /\ th'["worker"].copy = th["worker"].copy
          /\ \A u \in Threads : u # "worker" => th'[u] = th[u]
      BY <2>3, Committed DEF BInv, JInv, Threads
    <3> QED
      BY <2>1, <2>2, <3>1 DEF At, BInv, JInv, Shape, ThreadRec, Threads, Succeeded, OrderInv,
        Over, Unfinished, BarrierReported, Owned, Working, Looking, Finishing
  <2>4. CASE th' = [th EXCEPT !["worker"] = AfterError("worker")]
    BY <2>1, <2>2, <2>4 DEF At, AfterError, BInv, JInv, Shape, ThreadRec, OrderRec, Threads,
      Succeeded, OrderInv, Over, Unfinished, BarrierReported, Owned, Working, Looking,
      Finishing
  <2> QED
    BY <1>7, <2>3, <2>4 DEF CommitFinish
<1>8. CASE FinishFails("worker")
  BY <1>8, BarrierAssumption DEF FinishFails, At, Goto, agents, work, BInv, JInv, Shape,
    Owned, Off, ThreadRec, OrderRec, Threads, Working, Looking, Finishing, OrderInv, Over,
    Unfinished, BarrierReported, JournalInv, AfterError, Succeeded
<1>9. CASE Release("worker")
  BY <1>9, BarrierAssumption DEF Release, At, Goto, agents, work, BInv, JInv, Shape, Owned,
    Off, ThreadRec, OrderRec, Threads, Working, Looking, Finishing, OrderInv, Over,
    Unfinished, BarrierReported, JournalInv
<1> QED
  BY <1>1, <1>2, <1>3, <1>4, <1>5, <1>6, <1>7, <1>8, <1>9 DEF FinishStep

\* So do those of recovery.
LEMMA OrderFinishRecover == ASSUME ~Interrupted, BInv, FinishStep("recover") PROVE OrderInv'
<1>1. CASE FinishRead("recover")
  BY <1>1, BarrierAssumption DEF FinishRead, At, Goto, agents, work, BInv, JInv, Shape, Owned,
    Off, ThreadRec, OrderRec, Threads, Working, Looking, Finishing, OrderInv, Over,
    Unfinished, BarrierReported, JournalInv, Write
<1>2. CASE Publish("recover")
  BY <1>2, BarrierAssumption DEF Publish, At, Goto, agents, work, BInv, JInv, Shape, Owned,
    Off, ThreadRec, OrderRec, Threads, Working, Looking, Finishing, OrderInv, Over,
    Unfinished, BarrierReported, JournalInv
<1>3. CASE Verify("recover")
  BY <1>3, BarrierAssumption DEF Verify, At, Goto, agents, work, BInv, JInv, Shape, Owned,
    Off, ThreadRec, OrderRec, Threads, Working, Looking, Finishing, OrderInv, Over,
    Unfinished, BarrierReported, JournalInv
<1>4. CASE Restore("recover")
  BY <1>4, BarrierAssumption DEF Restore, At, Goto, agents, work, BInv, JInv, Shape, Owned,
    Off, ThreadRec, OrderRec, Threads, Working, Looking, Finishing, OrderInv, Over,
    Unfinished, BarrierReported, JournalInv
<1>5. CASE RecordCheckpoint("recover")
  BY <1>5, BarrierAssumption DEF RecordCheckpoint, At, Goto, agents, work, BInv, JInv, Shape,
    Owned, Off, ThreadRec, OrderRec, Threads, Working, Looking, Finishing, OrderInv, Over,
    Unfinished, BarrierReported, JournalInv
<1>6. CASE ClearJournal("recover")
  BY <1>6, BarrierAssumption DEF ClearJournal, At, Goto, agents, work, BInv, JInv, Shape,
    Owned, Off, ThreadRec, OrderRec, Threads, Working, Looking, Finishing, OrderInv, Over,
    Unfinished, BarrierReported, JournalInv, Succeeded
<1>7. CASE CommitFinish("recover")
  <2>1. At("recover", "commit") /\ UNCHANGED order
    BY <1>7 DEF CommitFinish
  <2>2. task'.mark = 0
    BY <1>7 DEF CommitFinish, Write, BInv, JInv, Shape, TaskRec
  <2>3. CASE th' = [th EXCEPT !["recover"].pc = Succeeded("recover"), !["recover"].bar = FALSE, !["recover"].ok = TRUE]
    <3>1. /\ th'["recover"].pc = Succeeded("recover") /\ th'["recover"].bar = FALSE /\ th'["recover"].ok = TRUE
          /\ th'["recover"].doing = th["recover"].doing /\ th'["recover"].list = th["recover"].list
          /\ th'["recover"].keep = th["recover"].keep /\ th'["recover"].guard = th["recover"].guard
          /\ th'["recover"].copy = th["recover"].copy
          /\ \A u \in Threads : u # "recover" => th'[u] = th[u]
      BY <2>3, Committed DEF BInv, JInv, Threads
    <3> QED
      BY <2>1, <2>2, <3>1 DEF At, BInv, JInv, Shape, ThreadRec, Threads, Succeeded, OrderInv,
        Over, Unfinished, BarrierReported, Owned, Working, Looking, Finishing
  <2>4. CASE th' = [th EXCEPT !["recover"] = AfterError("recover")]
    BY <2>1, <2>2, <2>4 DEF At, AfterError, BInv, JInv, Shape, ThreadRec, OrderRec, Threads,
      Succeeded, OrderInv, Over, Unfinished, BarrierReported, Owned, Working, Looking,
      Finishing
  <2> QED
    BY <1>7, <2>3, <2>4 DEF CommitFinish
<1>8. CASE FinishFails("recover")
  BY <1>8, BarrierAssumption DEF FinishFails, At, Goto, agents, work, BInv, JInv, Shape,
    Owned, Off, ThreadRec, OrderRec, Threads, Working, Looking, Finishing, OrderInv, Over,
    Unfinished, BarrierReported, JournalInv, AfterError, Succeeded
<1>9. CASE Release("recover")
  BY <1>9, BarrierAssumption DEF Release, At, Goto, agents, work, BInv, JInv, Shape, Owned,
    Off, ThreadRec, OrderRec, Threads, Working, Looking, Finishing, OrderInv, Over,
    Unfinished, BarrierReported, JournalInv
<1> QED
  BY <1>1, <1>2, <1>3, <1>4, <1>5, <1>6, <1>7, <1>8, <1>9 DEF FinishStep

-----------------------------------------------------------------------------
(* The workspace changes under the barrier only *)

\* The worker touches the workspace under the barrier only.
LEMMA TreeWorker == ASSUME ~Interrupted, BInv, WorkerStep PROVE TreeInv'
<1>1. CASE Take
  BY <1>1, BarrierAssumption DEF Take, At, Goto, agents, work, BInv, JInv, Shape, Owned, Off,
    ThreadRec, OrderRec, Threads, Working, Looking, Finishing, TreeInv
<1>2. CASE BeginWork
  <2>1. /\ task'.mark # 0 /\ task'.status # "completed"
        /\ th["worker"].pc # "off"
    BY <1>2 DEF BeginWork, At, BInv, JInv, Shape, Owned, TaskRec, Write, MayBegin
  <2>2. /\ \E pc \in {"persist", "retry"} : th'["worker"] = [th["worker"] EXCEPT !.pc = pc]
        /\ th["worker"] \in ThreadRec
        /\ th'["recover"] = th["recover"] /\ order' = order
    BY <1>2 DEF BeginWork, Goto, work, BInv, JInv, Shape, Threads
  <2> QED
    BY <2>1, <2>2 DEF BInv, TreeInv, ThreadRec, Finishing
<1>3. CASE BeginRefused
  BY <1>3, BarrierAssumption DEF BeginRefused, At, Goto, agents, work, BInv, JInv, Shape,
    Owned, Off, ThreadRec, OrderRec, Threads, Working, Looking, Finishing, TreeInv
<1>4. CASE Persist
  <2>1. task.mark # 0 /\ task' = task /\ order' = order /\ th["worker"].pc = "persist"
    BY <1>4 DEF Persist, At, BInv, JInv, JournalInv
  <2>2. th' = [th EXCEPT !["worker"].list = journal', !["worker"].pc = "apply"]
    BY <1>4 DEF Persist
  <2>3. /\ th'["worker"].pc = "apply" /\ th'["worker"].doing = th["worker"].doing
        /\ th'["worker"].keep = th["worker"].keep /\ th'["recover"] = th["recover"]
    BY <2>2 DEF BInv, JInv, Shape, ThreadRec, Threads
  <2> QED
    BY <2>1, <2>3 DEF BInv, TreeInv
<1>5. CASE Apply
  BY <1>5, BarrierAssumption DEF Apply, At, Goto, agents, work, BInv, JInv, Shape, Owned, Off,
    ThreadRec, OrderRec, Threads, Working, Looking, Finishing, TreeInv, Calls
<1>6. CASE PatchFails
  BY <1>6, BarrierAssumption DEF PatchFails, At, Goto, agents, work, BInv, JInv, Shape, Owned,
    Off, ThreadRec, OrderRec, Threads, Working, Looking, Finishing, TreeInv
<1>7. CASE Deliver
  BY <1>7, BarrierAssumption DEF Deliver, At, Goto, agents, work, BInv, JInv, Shape, Owned,
    Off, ThreadRec, OrderRec, Threads, Working, Looking, Finishing, TreeInv
<1>8. CASE DeliverNothing
  BY <1>8, BarrierAssumption DEF DeliverNothing, At, Goto, agents, work, BInv, JInv, Shape,
    Owned, Off, ThreadRec, OrderRec, Threads, Working, Looking, Finishing, TreeInv
<1>9. CASE Fail
  BY <1>9, BarrierAssumption DEF Fail, At, Goto, agents, work, BInv, JInv, Shape, Owned, Off,
    ThreadRec, OrderRec, Threads, Working, Looking, Finishing, TreeInv
<1>10. CASE RollbackTransaction
  BY <1>10, BarrierAssumption DEF RollbackTransaction, At, Goto, agents, work, BInv, JInv,
    Shape, Owned, Off, ThreadRec, OrderRec, Threads, Working, Looking, Finishing, TreeInv
<1>11. CASE SetStatus
  BY <1>11, BarrierAssumption DEF SetStatus, At, Goto, agents, work, BInv, JInv, Shape, Owned,
    Off, ThreadRec, OrderRec, Threads, Working, Looking, Finishing, TreeInv, Event
<1>12. CASE End
  BY <1>12, BarrierAssumption DEF End, At, Goto, agents, work, BInv, JInv, Shape, Owned, Off,
    ThreadRec, OrderRec, Threads, Working, Looking, Finishing, TreeInv, Ended, OrderInv, Over,
    Unfinished
<1>13. CASE \E keep \in BOOLEAN : Ask(keep)
  BY <1>13, BarrierAssumption DEF Ask, At, Goto, agents, work, BInv, JInv, Shape, Owned, Off,
    ThreadRec, OrderRec, Threads, Working, Looking, Finishing, TreeInv
<1>14. CASE EndFails
  <2>1. JInv
    BY DEF BInv
  <2> QED
    BY <1>14, <2>1, EndFailed DEF BInv, JInv, Owned, TreeInv, OrderInv, Over, Finishing
<1> QED
  BY <1>1, <1>2, <1>3, <1>4, <1>5, <1>6, <1>7, <1>8, <1>9, <1>10, <1>11, <1>12, <1>13,
    <1>14 DEF WorkerStep

\* So does recovery.
LEMMA TreeRecover == ASSUME ~Interrupted, BInv, RecoverStep PROVE TreeInv'
<1>1. CASE StartPass
  BY <1>1, BarrierAssumption DEF StartPass, At, Goto, agents, work, BInv, JInv, Shape, Owned,
    Off, ThreadRec, OrderRec, Threads, Working, Looking, Finishing, TreeInv
<1>2. CASE ScanTerminal
  BY <1>2, BarrierAssumption DEF ScanTerminal, At, Goto, agents, work, BInv, JInv, Shape,
    Owned, Off, ThreadRec, OrderRec, Threads, Working, Looking, Finishing, TreeInv
<1>3. CASE ReadRow
  BY <1>3, BarrierAssumption DEF ReadRow, At, Goto, agents, work, BInv, JInv, Shape, Owned,
    Off, ThreadRec, OrderRec, Threads, Working, Looking, Finishing, TreeInv
<1>4. CASE ReadJournal
  BY <1>4, BarrierAssumption DEF ReadJournal, At, Goto, agents, work, BInv, JInv, Shape,
    Owned, Off, ThreadRec, OrderRec, Threads, Working, Looking, Finishing, TreeInv,
    JournalInv, JournaledUnderBarrier, OrderInv, Over, Unfinished
<1>5. CASE EndPass
  BY <1>5, BarrierAssumption DEF EndPass, At, Goto, agents, work, BInv, JInv, Shape, Owned,
    Off, ThreadRec, OrderRec, Threads, Working, Looking, Finishing, TreeInv
<1>6. CASE ClaimAttempt
  BY <1>6, BarrierAssumption DEF ClaimAttempt, At, Goto, agents, work, BInv, JInv, Shape,
    Owned, Off, ThreadRec, OrderRec, Threads, Working, Looking, Finishing, TreeInv
<1>7. CASE ClaimRefused
  BY <1>7, BarrierAssumption DEF ClaimRefused, At, Goto, agents, work, BInv, JInv, Shape,
    Owned, Off, ThreadRec, OrderRec, Threads, Working, Looking, Finishing, TreeInv
<1>8. CASE Adopt
  BY <1>8, BarrierAssumption DEF Adopt, At, Goto, agents, work, BInv, JInv, Shape, Owned, Off,
    ThreadRec, OrderRec, Threads, Working, Looking, Finishing, TreeInv, TaskRec, Write,
    MayAdopt
<1>9. CASE AdoptFails
  BY <1>9, BarrierAssumption DEF AdoptFails, At, Goto, agents, work, BInv, JInv, Shape, Owned,
    Off, ThreadRec, OrderRec, Threads, Working, Looking, Finishing, TreeInv, AfterError,
    Succeeded
<1>10. CASE Confirm
  BY <1>10, BarrierAssumption DEF Confirm, At, Goto, agents, work, BInv, JInv, Shape, Owned,
    Off, ThreadRec, OrderRec, Threads, Working, Looking, Finishing, TreeInv
<1>11. CASE ConfirmTimeout
  BY <1>11, BarrierAssumption DEF ConfirmTimeout, At, Goto, agents, work, BInv, JInv, Shape,
    Owned, Off, ThreadRec, OrderRec, Threads, Working, Looking, Finishing, TreeInv
<1>12. CASE Report
  BY <1>12, BarrierAssumption DEF Report, At, Goto, agents, work, BInv, JInv, Shape, Owned,
    Off, ThreadRec, OrderRec, Threads, Working, Looking, Finishing, TreeInv
<1>13. CASE Update
  BY <1>13, BarrierAssumption DEF Update, At, Goto, agents, work, BInv, JInv, Shape, Owned,
    Off, ThreadRec, OrderRec, Threads, Working, Looking, Finishing, TreeInv, Ended, OrderInv,
    Over, Unfinished
<1>14. CASE RecordFails
  BY <1>14, BarrierAssumption DEF RecordFails, At, Goto, agents, work, BInv, JInv, Shape, Owned, Off,
    ThreadRec, OrderRec, Threads, Working, Looking, Finishing,
    TreeInv, OrderInv, Over, Unfinished
<1> QED
  BY <1>1, <1>2, <1>3, <1>4, <1>5, <1>6, <1>7, <1>8, <1>9, <1>10, <1>11, <1>12, <1>13,
    <1>14 DEF RecoverStep

\* So does the worker in _finish_fenced_work_mutation.
LEMMA TreeFinishWorker == ASSUME ~Interrupted, BInv, FinishStep("worker") PROVE TreeInv'
<1>1. CASE FinishRead("worker")
  <2>1. task'.mark = task.mark /\ task'.status = task.status
    BY <1>1 DEF FinishRead, Write, BInv, JInv, Shape, TaskRec
  <2>2. /\ At("worker", "finish") /\ UNCHANGED <<attempt, order>>
        /\ \E pc \in {"publish", "verify", "clear", "restore", "commit"} :
             /\ Goto("worker", pc)
             /\ pc = "commit" => th["worker"].doing = "lift"
             /\ pc = "clear" => th["worker"].list = <<>> \/ th["worker"].keep
    BY <1>1 DEF FinishRead, work
  <2> QED
    BY <2>1, <2>2 DEF At, Goto, BInv, JInv, Shape, ThreadRec, Threads, TreeInv, Owned,
      Working, Looking, Finishing
<1>2. CASE Publish("worker")
  BY <1>2, BarrierAssumption DEF Publish, At, Goto, agents, work, BInv, JInv, Shape, Owned,
    Off, ThreadRec, OrderRec, Threads, Working, Looking, Finishing, TreeInv, OrderInv, Over,
    Unfinished
<1>3. CASE Verify("worker")
  BY <1>3, BarrierAssumption DEF Verify, At, Goto, agents, work, BInv, JInv, Shape, Owned,
    Off, ThreadRec, OrderRec, Threads, Working, Looking, Finishing, TreeInv
<1>4. CASE Restore("worker")
  BY <1>4, BarrierAssumption DEF Restore, At, Goto, agents, work, BInv, JInv, Shape, Owned,
    Off, ThreadRec, OrderRec, Threads, Working, Looking, Finishing, TreeInv
<1>5. CASE RecordCheckpoint("worker")
  BY <1>5, BarrierAssumption DEF RecordCheckpoint, At, Goto, agents, work, BInv, JInv, Shape,
    Owned, Off, ThreadRec, OrderRec, Threads, Working, Looking, Finishing, TreeInv
<1>6. CASE ClearJournal("worker")
  BY <1>6, BarrierAssumption DEF ClearJournal, At, Goto, agents, work, BInv, JInv, Shape,
    Owned, Off, ThreadRec, OrderRec, Threads, Working, Looking, Finishing, TreeInv, Succeeded
<1>7. CASE CommitFinish("worker")
  <2>1. At("worker", "commit") /\ UNCHANGED <<order, attempt>>
    BY <1>7 DEF CommitFinish
  <2>2. task'.mark = 0 /\ task'.status = task.status
    BY <1>7 DEF CommitFinish, Write, BInv, JInv, Shape, TaskRec
  <2>3. CASE th' = [th EXCEPT !["worker"].pc = Succeeded("worker"), !["worker"].bar = FALSE, !["worker"].ok = TRUE]
    <3>1. /\ th'["worker"].pc = Succeeded("worker") /\ th'["worker"].bar = FALSE /\ th'["worker"].ok = TRUE
          /\ th'["worker"].doing = th["worker"].doing /\ th'["worker"].list = th["worker"].list
          /\ th'["worker"].keep = th["worker"].keep /\ th'["worker"].guard = th["worker"].guard
          /\ th'["worker"].copy = th["worker"].copy
          /\ \A u \in Threads : u # "worker" => th'[u] = th[u]
      BY <2>3, Committed DEF BInv, JInv, Threads
    <3> QED
      BY <2>1, <2>2, <3>1 DEF At, BInv, JInv, Shape, ThreadRec, Threads, Succeeded, TreeInv,
        Owned, Working, Looking, Finishing
  <2>4. CASE th' = [th EXCEPT !["worker"] = AfterError("worker")]
    BY <2>1, <2>2, <2>4 DEF At, AfterError, BInv, JInv, Shape, ThreadRec, OrderRec, Threads,
      Succeeded, OrderInv, Over, TreeInv, Owned, Working, Looking, Finishing
  <2> QED
    BY <1>7, <2>3, <2>4 DEF CommitFinish
<1>8. CASE FinishFails("worker")
  BY <1>8, BarrierAssumption DEF FinishFails, At, Goto, agents, work, BInv, JInv, Shape,
    Owned, Off, ThreadRec, OrderRec, Threads, Working, Looking, Finishing, TreeInv,
    AfterError, Succeeded, OrderInv, Over, Unfinished
<1>9. CASE Release("worker")
  BY <1>9, BarrierAssumption DEF Release, At, Goto, agents, work, BInv, JInv, Shape, Owned,
    Off, ThreadRec, OrderRec, Threads, Working, Looking, Finishing, TreeInv
<1> QED
  BY <1>1, <1>2, <1>3, <1>4, <1>5, <1>6, <1>7, <1>8, <1>9 DEF FinishStep

\* So does recovery there.
LEMMA TreeFinishRecover == ASSUME ~Interrupted, BInv, FinishStep("recover") PROVE TreeInv'
<1>1. CASE FinishRead("recover")
  <2>1. task'.mark = task.mark /\ task'.status = task.status
    BY <1>1 DEF FinishRead, Write, BInv, JInv, Shape, TaskRec
  <2>2. /\ At("recover", "finish") /\ UNCHANGED <<attempt, order>>
        /\ \E pc \in {"publish", "verify", "clear", "restore", "commit"} :
             /\ Goto("recover", pc)
             /\ pc = "commit" => th["recover"].doing = "lift"
             /\ pc = "clear" => th["recover"].list = <<>> \/ th["recover"].keep
    BY <1>1 DEF FinishRead, work
  <2> QED
    BY <2>1, <2>2 DEF At, Goto, BInv, JInv, Shape, ThreadRec, Threads, TreeInv, Owned,
      Working, Looking, Finishing
<1>2. CASE Publish("recover")
  BY <1>2, BarrierAssumption DEF Publish, At, Goto, agents, work, BInv, JInv, Shape, Owned,
    Off, ThreadRec, OrderRec, Threads, Working, Looking, Finishing, TreeInv, OrderInv, Over,
    Unfinished
<1>3. CASE Verify("recover")
  BY <1>3, BarrierAssumption DEF Verify, At, Goto, agents, work, BInv, JInv, Shape, Owned,
    Off, ThreadRec, OrderRec, Threads, Working, Looking, Finishing, TreeInv, OrderInv
<1>4. CASE Restore("recover")
  BY <1>4, BarrierAssumption DEF Restore, At, Goto, agents, work, BInv, JInv, Shape, Owned,
    Off, ThreadRec, OrderRec, Threads, Working, Looking, Finishing, TreeInv
<1>5. CASE RecordCheckpoint("recover")
  BY <1>5, BarrierAssumption DEF RecordCheckpoint, At, Goto, agents, work, BInv, JInv, Shape,
    Owned, Off, ThreadRec, OrderRec, Threads, Working, Looking, Finishing, TreeInv
<1>6. CASE ClearJournal("recover")
  BY <1>6, BarrierAssumption DEF ClearJournal, At, Goto, agents, work, BInv, JInv, Shape,
    Owned, Off, ThreadRec, OrderRec, Threads, Working, Looking, Finishing, TreeInv, Succeeded
<1>7. CASE CommitFinish("recover")
  <2>1. At("recover", "commit") /\ UNCHANGED <<order, attempt>>
    BY <1>7 DEF CommitFinish
  <2>2. task'.mark = 0 /\ task'.status = task.status
    BY <1>7 DEF CommitFinish, Write, BInv, JInv, Shape, TaskRec
  <2>3. CASE th' = [th EXCEPT !["recover"].pc = Succeeded("recover"), !["recover"].bar = FALSE, !["recover"].ok = TRUE]
    <3>1. /\ th'["recover"].pc = Succeeded("recover") /\ th'["recover"].bar = FALSE /\ th'["recover"].ok = TRUE
          /\ th'["recover"].doing = th["recover"].doing /\ th'["recover"].list = th["recover"].list
          /\ th'["recover"].keep = th["recover"].keep /\ th'["recover"].guard = th["recover"].guard
          /\ th'["recover"].copy = th["recover"].copy
          /\ \A u \in Threads : u # "recover" => th'[u] = th[u]
      BY <2>3, Committed DEF BInv, JInv, Threads
    <3> QED
      BY <2>1, <2>2, <3>1 DEF At, BInv, JInv, Shape, ThreadRec, Threads, Succeeded, TreeInv,
        Owned, Working, Looking, Finishing
  <2>4. CASE th' = [th EXCEPT !["recover"] = AfterError("recover")]
    BY <2>1, <2>2, <2>4 DEF At, AfterError, BInv, JInv, Shape, ThreadRec, OrderRec, Threads,
      Succeeded, OrderInv, Over, TreeInv, Owned, Working, Looking, Finishing
  <2> QED
    BY <1>7, <2>3, <2>4 DEF CommitFinish
<1>8. CASE FinishFails("recover")
  BY <1>8, BarrierAssumption DEF FinishFails, At, Goto, agents, work, BInv, JInv, Shape,
    Owned, Off, ThreadRec, OrderRec, Threads, Working, Looking, Finishing, TreeInv,
    AfterError, Succeeded, OrderInv, Over, Unfinished
<1>9. CASE Release("recover")
  BY <1>9, BarrierAssumption DEF Release, At, Goto, agents, work, BInv, JInv, Shape, Owned,
    Off, ThreadRec, OrderRec, Threads, Working, Looking, Finishing, TreeInv
<1> QED
  BY <1>1, <1>2, <1>3, <1>4, <1>5, <1>6, <1>7, <1>8, <1>9 DEF FinishStep

\* Agents complete a task without a barrier only.
LEMMA AgentCompletes ==
    ASSUME BInv, AgentStep
    PROVE  task'.status = "completed" => task'.mark = 0
<1>1. task'.mark = task.mark
  BY AgentFrame DEF BInv
<1>2. task.status = "completed" => task.mark = 0
  BY DEF BInv, TreeInv
<1>3. CASE task'.status = task.status
  BY <1>1, <1>2, <1>3
<1>4. CASE CompleteCommit \/ \E a \in Agents : TransitionCompleted(a)
  BY <1>1, <1>4 DEF CompleteCommit, TransitionCompleted, Gate, BInv, JInv, Shape, TaskRec
<1>5. CASE CompleteMove
  BY <1>5 DEF CompleteMove, Write, BInv, JInv, Shape, TaskRec
<1>6. CASE \/ \E a \in Agents, s \in Statuses : Transition(a, s)
           \/ \E s \in {"abandoned", "waiting"} : Reap(s)
  BY <1>6 DEF Transition, Reap, Move, Write, BInv, JInv, Shape, TaskRec
<1>7. \/ task'.status = task.status \/ CompleteCommit \/ CompleteMove
      \/ \E a \in Agents : TransitionCompleted(a)
      \/ \E a \in Agents, s \in Statuses : Transition(a, s)
      \/ \E s \in {"abandoned", "waiting"} : Reap(s)
  <2>1. task \in TaskRec
    BY DEF BInv, JInv, Shape
  <2>2. CASE \E a \in Agents : Claim(a)
    BY <2>1, <2>2 DEF Claim, Move, Write, TaskRec
  <2>3. CASE Heartbeat \/ CheckpointResets \/ AdvanceGeneration
    BY <2>1, <2>3 DEF Heartbeat, CheckpointResets, AdvanceGeneration, Move, Write, TaskRec
  <2>4. CASE RunEnd
    BY <2>1, <2>4 DEF RunEnd, Write, TaskRec
  <2>5. CASE \/ Edit \/ RunStart \/ CompleteCheck \/ CompleteRefused
             \/ \E a \in Agents : CompleteCall(a)
    BY <2>5 DEF Edit, RunStart, CompleteCheck, CompleteRefused, CompleteCall
  <2> QED
    BY <2>2, <2>3, <2>4, <2>5 DEF AgentStep, Statuses
<1> QED
  BY <1>3, <1>4, <1>5, <1>6, <1>7

\* All other steps keep both.
LEMMA OrderTreeOthers ==
    ASSUME BInv, AgentStep \/ Cancel \/ Crash \/ Start \/ Expire \/ \E keep \in BOOLEAN : Submit(keep)
    PROVE  OrderInv' /\ TreeInv'
<1>1. CASE AgentStep
  <2>1. UNCHANGED <<th, order, journal, attempt>> /\ task'.mark = task.mark
    BY <1>1, AgentFrame DEF BInv
  <2> QED
    BY <1>1, <2>1, AgentCompletes DEF BInv, OrderInv, Over, Unfinished, BarrierReported, TreeInv
<1>2. CASE Crash
  BY <1>2 DEF Crash, BInv, Off, Threads, Finishing, Working, OrderInv, Over, Unfinished,
    BarrierReported, TreeInv
<1>3. CASE Start \/ Expire
  BY <1>3 DEF Start, Expire, work, BInv, OrderInv, Over, Unfinished, BarrierReported, TreeInv
<1>4. CASE Cancel
  <2>1. /\ UNCHANGED <<th, task>> /\ order'.keep = order.keep /\ order'.bar = order.bar
        /\ \/ order'.state = order.state
           \/ order.state = "queued" /\ order'.state = "ended"
    BY <1>4 DEF Cancel, BInv, JInv, Shape, OrderRec
  <2> QED
    BY <2>1 DEF BInv, OrderInv, Over, Unfinished, BarrierReported, TreeInv
<1>5. CASE \E keep \in BOOLEAN : Submit(keep)
  <2>1. /\ UNCHANGED <<th, task>> /\ order.state = "none" /\ order'.state = "queued"
        /\ order'.bar = order.bar
    BY <1>5 DEF Submit, BInv, JInv, Shape, OrderRec
  <2> QED
    BY <2>1 DEF BInv, OrderInv, Over, Unfinished, BarrierReported, TreeInv
<1> QED
  BY <1>1, <1>2, <1>3, <1>4, <1>5

-----------------------------------------------------------------------------
(* The theorems about recovery that keeps away from an order at work *)

\* The initial state satisfies the second invariant.
LEMMA InitB == Init => BInv
<1> SUFFICES ASSUME Init PROVE BInv
  OBVIOUS
<1>1. OrderInv
  BY DEF Init, OrderInv, Over, Unfinished, BarrierReported, Off, Threads, Finishing
<1>2. TreeInv
  BY DEF Init, TreeInv, Off, Threads, Finishing
<1> QED
  BY <1>1, <1>2, InitJ DEF BInv

\* Every step preserves the second invariant.
LEMMA NextB == ~Interrupted /\ BInv /\ [Next]_vars => BInv'
<1> SUFFICES ASSUME ~Interrupted, BInv, [Next]_vars PROVE BInv'
  OBVIOUS
<1>1. JInv'
  BY NextJ DEF BInv
<1>2. CASE UNCHANGED vars
  BY <1>1, <1>2 DEF vars, agents, work, BInv, OrderInv, Over, Unfinished, BarrierReported, TreeInv
<1>3. CASE WorkerStep
  BY <1>1, <1>3, OrderWorker, TreeWorker DEF BInv
<1>4. CASE RecoverStep
  BY <1>1, <1>4, OrderRecover, TreeRecover DEF BInv
<1>5. CASE \E t \in Threads : FinishStep(t)
  BY <1>1, <1>5, OrderFinishWorker, TreeFinishWorker, OrderFinishRecover, TreeFinishRecover
    DEF BInv, Threads
<1>6. CASE AgentStep \/ Cancel \/ Crash \/ Start \/ Expire \/ \E keep \in BOOLEAN : Submit(keep)
  BY <1>1, <1>6, OrderTreeOthers DEF BInv
<1> QED
  BY <1>2, <1>3, <1>4, <1>5, <1>6 DEF Next

\* The inductive invariant when a pass leaves an order to its worker.
THEOREM BarrierInvariance == ASSUME ~Interrupted PROVE Spec => []BInv
<1>1. Init => BInv
  BY InitB
<1>2. BInv /\ [Next]_vars => BInv'
  BY NextB
<1> QED
  BY <1>1, <1>2, PTL DEF Spec

\* An order that has ended while the task still shows its barrier says so in its
\* result, at every crash, failed write and change of owner, unless it ended with the
\* plain failure that _execute records after the write of the result raised; no other
\* result is silent about the barrier or calls it released (unresolved_task_barrier,
\* task_barrier_status).
THEOREM BarrierShown == ASSUME ~Interrupted PROVE Spec => []BarrierReported
<1>1. BInv => BarrierReported
  BY DEF BInv, OrderInv
<1> QED
  BY <1>1, BarrierInvariance, PTL

\* The steps that change the order's patches in the workspace.
LEMMA PatchSteps ==
    ASSUME BInv, [Next]_vars
    PROVE  tree'.patch = tree.patch \/ Apply \/ \E t \in Threads : Restore(t)
<1>1. CASE UNCHANGED vars
  BY <1>1 DEF vars, work
<1>2. CASE AgentStep
  BY <1>2, AgentFrame DEF BInv
<1>3. CASE WorkerStep
  BY <1>3 DEF WorkerStep, work, Take, BeginWork, BeginRefused, Persist, PatchFails, Deliver,
    DeliverNothing, Fail, RollbackTransaction, SetStatus, End, EndFails, Ask
<1>4. CASE RecoverStep
  BY <1>4 DEF RecoverStep, work, StartPass, ScanTerminal, ReadRow, ReadJournal, EndPass,
    ClaimAttempt, ClaimRefused, Adopt, AdoptFails, Confirm, ConfirmTimeout, Report, Update,
      RecordFails
<1>5. CASE \E t \in Threads : FinishStep(t)
  BY <1>5 DEF FinishStep, work, FinishRead, Publish, Verify, RecordCheckpoint, ClearJournal,
    CommitFinish, FinishFails, Release
<1>6. CASE Cancel \/ Crash \/ Start \/ Expire \/ \E keep \in BOOLEAN : Submit(keep)
  BY <1>6 DEF Cancel, Crash, Start, Expire, Submit, work
<1> QED
  BY <1>1, <1>2, <1>3, <1>4, <1>5, <1>6 DEF Next

\* An order that was handed over or reported is not undone afterwards, however late
\* its barrier is lifted (_recover_terminal_handoff, _recover).
THEOREM EndedStays == ASSUME ~Interrupted PROVE Spec => EndedUntouched
<1>1. BInv /\ [Next]_vars => (order.state = "ended" => tree'.patch = tree.patch)
  <2> SUFFICES ASSUME BInv, [Next]_vars, order.state = "ended" PROVE tree'.patch = tree.patch
    OBVIOUS
  <2>1. ~Apply
    BY DEF Apply, At, BInv, OrderInv, Over
  <2>2. ~Restore("worker")
    BY DEF Restore, At, BInv, OrderInv, Over
  <2>3. ~Restore("recover")
    BY DEF Restore, At, BInv, OrderInv, Unfinished, Finishing
  <2> QED
    BY <2>1, <2>2, <2>3, PatchSteps DEF Threads
<1> QED
  BY <1>1, BarrierInvariance, PTL DEF Spec, EndedUntouched

\* A completed task gets no barrier, and neither the worker nor recovery changes the
\* workspace under it (_verify_completion, _begin_fenced_work_mutation).
THEOREM CompletedStays == ASSUME ~Interrupted PROVE Spec => CompletedUntouched
<1>1. BInv /\ [Next]_vars =>
        (task.status = "completed" => task'.mark = 0 /\ tree'.patch = tree.patch)
  <2> SUFFICES ASSUME BInv, [Next]_vars, task.status = "completed"
               PROVE  task'.mark = 0 /\ tree'.patch = tree.patch
    OBVIOUS
  <2>1. task.mark = 0 /\ task \in TaskRec
    BY DEF BInv, TreeInv, JInv, Shape
  <2>2. ~Apply
    BY <2>1 DEF Apply, At, BInv, JInv, Calls, TreeInv
  <2>3. ~Restore("worker") /\ ~Restore("recover")
    BY <2>1 DEF Restore, At, BInv, TreeInv
  <2>4. task'.mark = 0
    <3>1. CASE UNCHANGED vars
      BY <2>1, <3>1 DEF vars
    <3>2. CASE AgentStep
      BY <2>1, <3>2, AgentFrame DEF BInv
    <3>3. CASE Next /\ ~AgentStep
      <4>1. ~BeginWork /\ ~Adopt
        BY <2>1 DEF BeginWork, MayBegin, Adopt, MayAdopt
      <4>2. CASE UNCHANGED task
        BY <2>1, <4>2
      <4>3. CASE \E t \in Threads : FinishRead(t) \/ CommitFinish(t)
        BY <2>1, <4>3 DEF FinishRead, CommitFinish, Write, TaskRec
      <4>4. UNCHANGED task \/ \E t \in Threads : FinishRead(t) \/ CommitFinish(t)
        <5>1. CASE WorkerStep
          BY <5>1, <3>3, <4>1 DEF WorkerStep, agents, Take, BeginRefused, Persist, Apply,
            PatchFails, Deliver, DeliverNothing, Fail, RollbackTransaction, SetStatus, End,
            EndFails, Ask
        <5>2. CASE RecoverStep
          BY <5>2, <3>3, <4>1 DEF RecoverStep, agents, StartPass, ScanTerminal, ReadRow,
            ReadJournal, EndPass, ClaimAttempt, ClaimRefused, AdoptFails, Confirm,
            ConfirmTimeout, Report, Update, RecordFails
        <5>3. CASE \E t \in Threads : FinishStep(t)
          BY <5>3, <3>3, <4>1 DEF FinishStep, agents, Publish, Verify, Restore,
            RecordCheckpoint, ClearJournal, FinishFails, Release
        <5>4. CASE AgentStep
          BY <3>3, <5>4
        <5>5. CASE Cancel \/ Start \/ Expire \/ Crash \/ \E keep \in BOOLEAN : Submit(keep)
          BY <5>5, <3>3, <4>1 DEF agents, Cancel, Start, Expire, Crash, Submit
        <5> QED
          BY <3>3, <5>1, <5>2, <5>3, <5>4, <5>5 DEF Next
      <4> QED
        BY <4>2, <4>3, <4>4
    <3> QED
      BY <3>1, <3>2, <3>3
  <2> QED
    BY <2>2, <2>3, <2>4, PatchSteps DEF Threads
<1> QED
  BY <1>1, BarrierInvariance, PTL DEF Spec, CompletedUntouched

-----------------------------------------------------------------------------
(* Receipts *)

\* A step other than a checkpoint and the end of a run keeps or raises the generation,
\* and sets the barrier only when it raises it.
LEMMA GenerationRises ==
    ASSUME BInv, [Next]_vars, ~CheckpointResets, ~RunEnd
    PROVE  /\ task'.mapped = task.mapped
           /\ \/ task'.gen > task.gen
              \/ task'.gen = task.gen /\ (task.mark = 0 => task'.mark = 0)
<1>1. task \in TaskRec /\ task.gen \in Nat
  BY DEF BInv, JInv, Shape, TaskRec
<1>2. CASE UNCHANGED task
  BY <1>2
<1>3. CASE BeginWork
  BY <1>1, <1>3 DEF BeginWork, Write, TaskRec
<1>4. CASE Adopt
  BY <1>1, <1>4 DEF Adopt, Write, TaskRec
<1>5. CASE \E t \in Threads : FinishRead(t) \/ CommitFinish(t)
  BY <1>1, <1>5 DEF FinishRead, CommitFinish, Write, TaskRec
<1>6. CASE AdvanceGeneration
  BY <1>1, <1>6 DEF AdvanceGeneration, Move, Write, TaskRec
<1>7. CASE \/ \E a \in Agents : Claim(a) \/ TransitionCompleted(a)
           \/ \E a \in Agents, s \in Statuses : Transition(a, s)
           \/ \E s \in Statuses : Reap(s)
  BY <1>1, <1>7 DEF Claim, TransitionCompleted, Transition, Reap, Move, Write, TaskRec
<1>8. CASE CompleteMove \/ CompleteCommit
  BY <1>1, <1>8 DEF CompleteMove, CompleteCommit, Write, TaskRec
<1>9. CASE UNCHANGED vars
  BY <1>2, <1>9 DEF vars
<1> QED
  BY <1>2, <1>3, <1>4, <1>5, <1>6, <1>7, <1>8, <1>9, TaskChanges

\* Only a test run that ends and a new owner change the receipt.
LEMMA ReceiptSteps ==
    ASSUME [Next]_vars
    PROVE  UNCHANGED rcpt \/ RunEnd \/ \E a \in Agents : Claim(a)
<1>1. CASE UNCHANGED vars
  BY <1>1 DEF vars, agents
<1>2. CASE Next
  <2>1. CASE \/ Crash \/ RunStart \/ CompleteCheck \/ CompleteCommit \/ CompleteRefused
             \/ \E a \in Agents : CompleteCall(a)
    BY <2>1 DEF Crash, RunStart, CompleteCheck, CompleteCommit, CompleteRefused, CompleteCall
  <2> QED
    BY <1>2, <2>1, AgentsChange DEF agents
<1> QED
  BY <1>1, <1>2

\* A mapped receipt stays fresh, or the generation moves past it.
LEMMA FreshKept ==
    ASSUME ~Resets, ~LongRuns, BInv, ReceiptInv, [Next]_vars
    PROVE  Fresh'
<1>1. /\ Fresh /\ task \in TaskRec /\ rcpt \in ReceiptRec \cup {None}
      /\ task.gen \in Nat /\ task.mapped \in Nat /\ env.left \in Nat
  BY BarrierAssumption DEF BInv, ReceiptInv, Fresh, JInv, Shape, TaskRec
<1>2. CASE RunEnd
  <2>1. rcpt' = [id |-> env.left + 1, rev |-> run.rev, gen |-> task.gen, owner |-> task.owner]
    BY <1>2 DEF RunEnd
  <2>2. run.rev = tree /\ UNCHANGED tree /\ run.pc = "running"
    BY <1>2 DEF RunEnd, work
  <2>3. CASE task.mark = 0
    <3>1. task' = [task EXCEPT !.mapped = env.left + 1]
      BY <1>2, <2>1, <2>3 DEF RunEnd, Write
    <3> QED
      BY <1>1, <2>1, <2>2, <2>3, <3>1 DEF Fresh, TaskRec
  <2>4. CASE task.mark # 0
    <3>1. UNCHANGED task
      BY <1>2, <2>4 DEF RunEnd
    <3>2. task.mapped # env.left + 1
      BY <1>1, <2>2 DEF ReceiptInv
    <3> QED
      BY <2>1, <3>1, <3>2 DEF Fresh
  <2> QED
    BY <2>3, <2>4
<1>3. CASE CheckpointResets
  BY <1>3 DEF CheckpointResets, agents, Fresh
<1>4. CASE ~RunEnd /\ ~CheckpointResets
  <2>1. /\ task'.mapped = task.mapped
        /\ \/ task'.gen > task.gen
           \/ task'.gen = task.gen /\ (task.mark = 0 => task'.mark = 0)
    BY <1>4, GenerationRises
  <2>2. UNCHANGED rcpt \/ (rcpt # None /\ \E a \in Agents : rcpt' = [rcpt EXCEPT !.owner = a])
    <3>1. CASE \E a \in Agents : Claim(a)
      <4>1. PICK a \in Agents : Claim(a)
        BY <3>1
      <4> QED
        BY <4>1 DEF Claim
    <3> QED
      BY <1>4, <3>1, ReceiptSteps
  <2>3. rcpt' # None => rcpt # None /\ rcpt'.id = rcpt.id /\ rcpt'.gen = rcpt.gen /\ rcpt'.rev = rcpt.rev
    BY <1>1, <2>2 DEF ReceiptRec
  <2>4. task'.gen \in Nat /\ (rcpt # None => rcpt.gen \in Nat)
    BY <1>1, NextJ DEF BInv, JInv, Shape, TaskRec, ReceiptRec
  <2>5. tree'.patch = tree.patch \/ task.mark # 0
    <3>1. Apply => task.mark # 0
      BY DEF Apply, At, BInv, JInv, Calls, TreeInv
    <3>2. Restore("worker") \/ Restore("recover") => task.mark # 0
      BY DEF Restore, At, BInv, TreeInv
    <3> QED
      BY <3>1, <3>2, PatchSteps DEF Threads
  <2> QED
    BY <1>1, <2>1, <2>3, <2>4, <2>5 DEF Fresh
<1> QED
  BY <1>2, <1>3, <1>4

\* Every step preserves the invariant of receipts.
LEMMA NextR ==
    ASSUME ~Resets, ~LongRuns, BInv, ReceiptInv, [Next]_vars, BInv'
    PROVE  ReceiptInv'
<1>1. /\ task.mapped \in Nat /\ env.left \in Nat /\ env'.left \in Nat
      /\ task'.mapped \in Nat
  BY BarrierAssumption DEF BInv, JInv, Shape, TaskRec
<1>2. env'.left <= env.left
  <2>1. CASE Next
    BY <2>1, LeftFalls DEF BInv
  <2>2. CASE UNCHANGED vars
    BY <1>1, <2>2 DEF vars
  <2> QED
    BY <2>1, <2>2
<1>3. task'.mapped # 0 => task'.mapped > env'.left
  <2>1. CASE RunEnd
    <3>1. env' = env /\ task'.mapped \in {task.mapped, env.left + 1}
      BY <2>1 DEF RunEnd, Write, BInv, JInv, Shape, TaskRec
    <3> QED
      BY <1>1, <3>1 DEF ReceiptInv
  <2>2. CASE task'.mapped = task.mapped
    BY <1>1, <1>2, <2>2 DEF ReceiptInv
  <2>3. CASE CheckpointResets
    BY <2>2, <2>3 DEF CheckpointResets, Move, Write, BInv, JInv, Shape, TaskRec
  <2> QED
    BY <2>1, <2>2, <2>3, GenerationRises
<1>4. task'.mapped # 0 /\ run'.pc = "running" => task'.mapped > env'.left + 1
  <2>1. CASE RunStart
    BY <1>1, <2>1 DEF RunStart, Event, ReceiptInv, BInv, JInv, Shape
  <2>2. CASE RunEnd
    BY <2>2 DEF RunEnd
  <2>3. CASE ~RunStart /\ ~RunEnd
    <3>1. run'.pc = "running" => run.pc = "running"
      <4>1. CASE \/ Crash \/ CompleteCheck \/ CompleteCommit \/ CompleteRefused
                 \/ \E a \in Agents : Claim(a) \/ CompleteCall(a)
        <5>1. UNCHANGED run \/ run' = [pc |-> "off", rev |-> None]
          BY <4>1 DEF Crash, CompleteCheck, CompleteCommit, CompleteRefused, Claim, CompleteCall
        <5> QED
          BY <5>1
      <4>2. CASE UNCHANGED vars \/ UNCHANGED agents
        BY <4>2 DEF vars, agents
      <4> QED
        BY <2>3, <4>1, <4>2, AgentsChange
    <3>2. task'.mapped = task.mapped
      <4>1. CASE CheckpointResets
        BY <4>1 DEF CheckpointResets, Move, Write, BInv, JInv, Shape, TaskRec
      <4> QED
        BY <2>3, <4>1, GenerationRises
    <3> QED
      BY <1>1, <1>2, <3>1, <3>2 DEF ReceiptInv
  <2> QED
    BY <2>1, <2>2, <2>3
<1> QED
  BY <1>3, <1>4, FreshKept DEF ReceiptInv

\* complete() accepts a task only when the patches in the workspace are the ones that
\* were fingerprinted at the beginning of the call and that the receipt saw, for any
\* number of agents, patches, crashes and calls, if no receipt outlives a reset of the
\* generation and no order edits during a test run (_expected_completion_content).
THEOREM CompletionSound ==
    ASSUME ~Interrupted, ~Resets, ~LongRuns
    PROVE  Spec => CompletionCurrent
<1>1. Init => BInv /\ ReceiptInv
  BY InitB DEF Init, ReceiptInv, Fresh
<1>2. BInv /\ ReceiptInv /\ [Next]_vars => (BInv /\ ReceiptInv)'
  BY NextB, NextR
<1>3. BInv /\ ReceiptInv /\ [Next]_vars =>
        ((comp.pc = "move" /\ comp'.pc = "off" /\ task.status # task'.status
          /\ task'.status = "completed")
         => tree.patch = comp.rev.patch /\ tree.patch = rcpt.rev.patch)
  <2> SUFFICES ASSUME BInv, ReceiptInv, [Next]_vars, comp.pc = "move", comp'.pc = "off",
                      task.status # task'.status
               PROVE  tree.patch = comp.rev.patch /\ tree.patch = rcpt.rev.patch
    OBVIOUS
  <2>1. CompleteCommit
    <3>1. ~UNCHANGED agents /\ ~UNCHANGED task
      BY DEF agents
    <3>2. \A a \in Agents : ~Claim(a) /\ ~CompleteCall(a)
      BY DEF Claim, CompleteCall
    <3>3. ~Crash /\ ~RunStart /\ ~RunEnd /\ ~CompleteCheck /\ ~CompleteRefused
      BY <3>1 DEF Crash, RunStart, RunEnd, CompleteCheck, CompleteRefused
    <3> QED
      BY <3>1, <3>2, <3>3, AgentsChange DEF vars
  <2>2. task.mark = 0 /\ rcpt # None /\ rcpt.id = task.mapped /\ rcpt.rev = comp.rev /\ rcpt.gen = task.gen
    BY <2>1 DEF CompleteCommit, Gate, Satisfied, BInv, JInv, Shape, TaskRec
  <2>3. task.gen \in Nat
    BY DEF BInv, JInv, Shape, TaskRec
  <2> QED
    BY <2>2, <2>3 DEF ReceiptInv, Fresh
<1> QED
  BY <1>1, <1>2, <1>3, PTL DEF Spec, CompletionCurrent

=============================================================================
