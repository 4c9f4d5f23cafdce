--------------------------- MODULE WorkEditsProofs ---------------------------
(***************************************************************************)
(* The edits of an order that was not delivered are in its journal, and    *)
(* recovery puts an order back in the queue only when its edits are gone:  *)
(* for every set of orders and files and every bound, under the hypothesis *)
(* Alone of WorkUndoProofs.                                                *)
(***************************************************************************)
EXTENDS WorkUndoProofs

-----------------------------------------------------------------------------
(* Rows *)

\* An order whose edits must be covered until they are undone
Owed(o) == Undoable(o) /\ ~Delivered(o)

\* An order that was handed over is complete, waits for the agent, or was answered.
HandedOver == \A o \in Order :
    row[o].result.handoff => row[o].state \in {"complete", "needs_agent"} \/ row[o].answered

\* What a recovery pass selected was transient.
Selected(r) == /\ th[r].pc \in Dealing => th[r].seen \in Transient
               /\ th[r].pc \in Dealing \cup {"pass"} => \A q \in th[r].rows : q.state \in Transient

\* The places of a worker between its first and its last write of the row
Underway == {"plan", "step", "body", "verify", "apply", "unapply", "rollback", "restore", "clear",
             "ending", "delivered"}

\* What the row says while a worker has the order
WorkRow(w) == /\ th[w].pc # "idle" => row[Mine(w)].state # "absent"
              /\ th[w].pc \in Underway => row[Mine(w)].state \in Transient \/ Delivered(Mine(w))
              /\ th[w].pc = "delivered" => Delivered(Mine(w))

Rows == HandedOver /\ (\A r \in Recoverer : Selected(r)) /\ (\A w \in Worker : WorkRow(w))

\* A write of the row of an order that has not ended
RowWritten(o) ==
    /\ row[o].state \notin Terminal /\ row'[o].state # "absent"
    /\ row'[o].answered = row[o].answered /\ row'[o].request = row[o].request
    /\ row'[o].result.handoff => row'[o].state \in {"complete", "needs_agent"}

\* What a step may do to a row without writing a state and a result
RowTouched(o) ==
    \/ row'[o] = row[o]
    \/ /\ row[o].state = "absent" /\ row'[o].state = "queued"
       /\ row'[o].answered = row[o].answered /\ row'[o].result = row[o].result
    \/ /\ row'[o].state = row[o].state
       /\ row'[o].answered = row[o].answered /\ row'[o].request = row[o].request
       /\ row'[o].result.handoff = row[o].result.handoff
    \/ /\ row[o].state = "needs_agent" /\ row'[o].state = "queued" /\ row'[o].answered
       /\ row'[o].result = row[o].result /\ row'[o].request = row[o].request
    \/ /\ row[o].state = "queued" /\ row'[o].state = "planning"
       /\ row'[o].answered = row[o].answered /\ row'[o].result = row[o].result
       /\ row'[o].request = row[o].request

\* A write of a recovery pass
RowRepaired(o) ==
    /\ RowWritten(o)
    /\ \E r \in Recoverer : /\ th[r].pc = "update" /\ Mine(r) = o
                            /\ row'[o].state = "queued" => th[r].ok

RowStep(o) == RowTouched(o) \/ RowRepaired(o) \/ (RowWritten(o) /\ row'[o].state # "queued")

\* A row that gets a state and a result
LEMMA Stated ==
    ASSUME TInv, NEW o \in Order, NEW s, NEW res, row' = WithState(o, s, res)
    PROVE  /\ row'[o].state = s /\ row'[o].result = res
           /\ row'[o].answered = row[o].answered /\ row'[o].request = row[o].request
           /\ row'[o].cancel = row[o].cancel
           /\ \A q \in Order \ {o} : row'[q] = row[q]
BY DEF WithState, TInv, Tables, RowRec

\* What the steps of a worker do to rows
LEMMA RowWorker ==
    ASSUME TInv, NEW w \in Worker, WorkerStep(w)
    PROVE  \/ UNCHANGED row
           \/ Next_(w)
           \/ /\ th[w].pc # "idle" /\ row[Mine(w)].state \notin Terminal
              /\ \E s \in Transient \cup Terminal, res \in ResultRec :
                    /\ row' = WithState(Mine(w), s, res)
                    /\ res.handoff => s \in {"complete", "needs_agent"}
<1>0. /\ NoResult \in ResultRec /\ ~NoResult.handoff
      /\ \A b \in BOOLEAN : Changed(b) \in ResultRec /\ ~Changed(b).handoff
  BY DEF NoResult, Changed, ResultRec
<1>1. th[w].goal \in Terminal /\ th[w].edited \in BOOLEAN /\ th[w].ok \in BOOLEAN
  BY DEF TInv, Threads, ThreadRec, Thread
<1>2. CASE RowUnavailable(w)
  BY <1>0, <1>2 DEF RowUnavailable, Terminal
<1>3. CASE Begin(w) \/ PlanDone(w)
  BY <1>0, <1>3 DEF Begin, PlanDone, Terminal, Transient
<1>4. CASE \E s \in {"complete", "needs_agent"} : PlanEnds(w, s)
  BY <1>0, <1>4 DEF PlanEnds, Terminal
<1>5. CASE \E s \in {"complete", "needs_agent"} : Deliver(w, s)
  <2>1. PICK s \in {"complete", "needs_agent"} : Deliver(w, s)
    BY <1>5
  <2> DEFINE res == [Changed(th[w].edited) EXCEPT !.handoff = TRUE]
  <2>2. res \in ResultRec
    BY <1>0, <1>1 DEF ResultRec
  <2>3. UNCHANGED row \/ (row[Mine(w)].state = "verifying" /\ row' = WithState(Mine(w), s, res))
    BY <2>1 DEF Deliver
  <2> HIDE DEF res
  <2>4. th[w].pc = "verify"
    BY <2>1 DEF Deliver
  <2> QED
    BY <2>2, <2>3, <2>4 DEF Terminal
<1>6. CASE StepDone(w) \/ StartVerify(w)
  BY <1>0, <1>1, <1>6 DEF StepDone, StartVerify, Transient
<1>7. CASE End(w)
  <2> DEFINE g == IF th[w].goal = "failed" /\ row[Mine(w)].cancel THEN "cancelled" ELSE th[w].goal
             res == [Changed(th[w].edited) EXCEPT !.unsafe = ~th[w].ok]
  <2>1. res \in ResultRec /\ ~res.handoff
    BY <1>0, <1>1 DEF ResultRec
  <2>2. g \in Terminal
    BY <1>1 DEF Terminal
  <2>3. UNCHANGED row \/ (row[Mine(w)].state \notin Terminal /\ row' = WithState(Mine(w), g, res))
    BY <1>7 DEF End
  <2>4. th[w].pc = "ending"
    BY <1>7 DEF End
  <2> HIDE DEF g, res
  <2> QED
    BY <2>1, <2>2, <2>3, <2>4
<1>8. CASE Raise(w)
  BY <1>0, <1>8 DEF Raise, Terminal
<1>9. CASE \/ CheckPlanning(w) \/ ClaimAttempt(w) \/ ClaimBusy(w) \/ PlanFails(w) \/ StartStep(w)
           \/ Patch(w) \/ Patched(w) \/ ApplyFails(w) \/ Unapplied(w) \/ ReviewAsks(w)
           \/ StepFails(w) \/ ClearDelivered(w) \/ ClearDeliveredBusy(w) \/ DropJournal(w)
           \/ Rollback(w) \/ RollbackRefused(w) \/ LoseAttempt(w) \/ UpdateBusy(w) \/ Release(w)
  BY <1>9 DEF CheckPlanning, ClaimAttempt, ClaimBusy, PlanFails, StartStep, Patch, Patched,
     ApplyFails, Unapplied, ReviewAsks, StepFails, ClearDelivered, ClearDeliveredBusy,
     DropJournal, Rollback, RollbackRefused, LoseAttempt, UpdateBusy, Release
<1> QED
  BY <1>2, <1>3, <1>4, <1>5, <1>6, <1>7, <1>8, <1>9 DEF WorkerStep

\* What the last write of a recovery pass does to rows
LEMMA RowUpdate ==
    ASSUME TInv, Rows, NEW r \in Recoverer, RecoverUpdate(r)
    PROVE  /\ th[r].pc = "update" /\ Mine(r) \in Order
           /\ \/ UNCHANGED row
              \/ /\ row[Mine(r)].state \in Transient
                 /\ \E s \in {"queued", "cancelled", "needs_agent"}, res \in ResultRec :
                       /\ row' = WithState(Mine(r), s, res) /\ ~res.handoff
                       /\ s = "queued" => th[r].ok
<1>1. th[r].pc = "update" /\ Mine(r) \in Order
  BY ThreadFiles DEF RecoverUpdate, Dealing
<1> DEFINE bounded == Mode(Mine(r)) = "bounded"
           unsafe == [NoResult EXCEPT !.unsafe = bounded]
<1>2. NoResult \in ResultRec /\ unsafe \in ResultRec /\ ~NoResult.handoff /\ ~unsafe.handoff
  BY DEF NoResult, ResultRec
<1>3. th[r].seen \in Transient
  BY <1>1 DEF Rows, Selected, Dealing
<1>4. row' = IF row[Mine(r)].state # th[r].seen THEN row
             ELSE IF ~th[r].ok THEN WithState(Mine(r), "needs_agent", unsafe)
             ELSE IF ~bounded THEN WithState(Mine(r), "queued", NoResult)
             ELSE WithState(Mine(r), IF row[Mine(r)].cancel THEN "cancelled" ELSE "needs_agent", unsafe)
  BY DEF RecoverUpdate
<1> HIDE DEF unsafe, bounded
<1> QED
  BY <1>1, <1>2, <1>3, <1>4

\* The steps of Next that are not of a worker
Elsewhere ==
    \/ \E o \in Order : Submit(o) \/ Cancel(o) \/ Continue(o) \/ ExpireAttempt(o)
    \/ \E r \in Recoverer : RecoveryStep(r)
    \/ \E t \in Thread : RestoreStep(t)
    \/ \E i \in Instance : Start(i) \/ Crash(i) \/ Close(i) \/ Stopped(i)
    \/ \E f \in File : ExpireLease(f)
    \/ UNCHANGED vars

\* What those steps do to the row of each order
LEMMA RowElse ==
    ASSUME TInv, Rows, Elsewhere, NEW o \in Order
    PROVE  RowTouched(o) \/ RowRepaired(o)
<1>0. row \in [Order -> RowRec]
  BY DEF TInv, Tables
<1>1. CASE UNCHANGED row
  BY <1>1 DEF RowTouched
<1>2. ASSUME NEW r \in Recoverer, RecoveryStep(r)
      PROVE  RowTouched(o) \/ RowRepaired(o)
  <2>1. CASE RecoverUpdate(r)
    <3>1. /\ th[r].pc = "update" /\ Mine(r) \in Order
          /\ \/ UNCHANGED row
             \/ /\ row[Mine(r)].state \in Transient
                /\ \E s \in {"queued", "cancelled", "needs_agent"}, res \in ResultRec :
                      /\ row' = WithState(Mine(r), s, res) /\ ~res.handoff
                      /\ s = "queued" => th[r].ok
      BY <2>1, RowUpdate
    <3>2. CASE row[Mine(r)].state \in Transient /\ row' # row
      <4>1. PICK s \in {"queued", "cancelled", "needs_agent"}, res \in ResultRec :
                /\ row' = WithState(Mine(r), s, res) /\ ~res.handoff
                /\ s = "queued" => th[r].ok
        BY <3>1, <3>2
      <4>2. /\ row'[Mine(r)].state = s /\ row'[Mine(r)].result = res
            /\ row'[Mine(r)].answered = row[Mine(r)].answered
            /\ row'[Mine(r)].request = row[Mine(r)].request
            /\ \A q \in Order \ {Mine(r)} : row'[q] = row[q]
        BY <3>1, <4>1, Stated
      <4> QED
        BY <3>1, <3>2, <4>1, <4>2 DEF RowTouched, RowRepaired, RowWritten, Transient, Terminal
    <3> QED
      BY <1>1, <3>1, <3>2
  <2>2. CASE \/ StartPass(r) \/ LoadJournal(r) \/ RecoverClaim(r) \/ RecoverBusy(r)
             \/ RecoverRestore(r) \/ RecoverRefused(r) \/ RecoverLost(r) \/ RecoverAborts(r)
             \/ RecoverRelease(r) \/ StartCleanup(r) \/ Cleanup(r) \/ EndPass(r)
    BY <1>1, <2>2 DEF StartPass, LoadJournal, RecoverClaim, RecoverBusy, RecoverRestore,
       RecoverRefused, RecoverLost, RecoverAborts, RecoverRelease, StartCleanup, Cleanup, EndPass
  <2> QED
    BY <1>2, <2>1, <2>2 DEF RecoveryStep
<1>3. ASSUME NEW t \in Thread, RestoreStep(t)
      PROVE  RowTouched(o) \/ RowRepaired(o)
  <2>1. CASE Checkpoint(t)
    <3>1. \/ UNCHANGED row
          \/ row' = [row EXCEPT ![Mine(t)].result.checkpoint = TRUE]
      BY <2>1 DEF Checkpoint
    <3>2. CASE row' = [row EXCEPT ![Mine(t)].result.checkpoint = TRUE]
      <4>1. /\ row'[o].state = row[o].state /\ row'[o].answered = row[o].answered
            /\ row'[o].request = row[o].request
            /\ row'[o].result.handoff = row[o].result.handoff
        BY <1>0, <3>2 DEF RowRec, ResultRec
      <4> QED
        BY <4>1 DEF RowTouched
    <3> QED
      BY <1>1, <3>1, <3>2
  <2> QED
    BY <1>1, <1>3, <2>1 DEF RestoreStep, WriteFile, ClearJournal
<1>4. ASSUME NEW p \in Order, Submit(p) \/ Cancel(p) \/ Continue(p) \/ ExpireAttempt(p)
      PROVE  RowTouched(o) \/ RowRepaired(o)
  <2>1. CASE Submit(p)
    <3>1. PICK q \in Requests : row' = [row EXCEPT ![p].state = "queued", ![p].request = q]
      BY <2>1 DEF Submit
    <3>2. row[p].state = "absent"
      BY <2>1 DEF Submit
    <3> QED
      BY <1>0, <3>1, <3>2 DEF RowTouched, RowRec
  <2>2. CASE Cancel(p)
    BY <1>0, <2>2 DEF Cancel, RowTouched, RowRec
  <2>3. CASE Continue(p)
    BY <1>0, <2>3 DEF Continue, RowTouched, RowRec
  <2>4. CASE ExpireAttempt(p)
    BY <1>1, <2>4 DEF ExpireAttempt
  <2> QED
    BY <1>4, <2>1, <2>2, <2>3, <2>4
<1>5. CASE \/ \E i \in Instance : Start(i) \/ Crash(i) \/ Close(i) \/ Stopped(i)
           \/ \E f \in File : ExpireLease(f)
           \/ UNCHANGED vars
  BY <1>1, <1>5 DEF Start, Crash, Close, Stopped, ExpireLease, vars
<1> QED
  BY <1>2, <1>3, <1>4, <1>5 DEF Elsewhere

\* What each step does to the row of each order
LEMMA RowMoves ==
    ASSUME TInv, Rows, [Next]_vars, NEW o \in Order
    PROVE  RowStep(o)
<1>0. row \in [Order -> RowRec]
  BY DEF TInv, Tables
<1>1. CASE UNCHANGED row
  BY <1>1 DEF RowStep, RowTouched
<1>2. ASSUME NEW w \in Worker, WorkerStep(w)
      PROVE  RowStep(o)
  <2>1. CASE Next_(w)
    <3>1. PICK p \in Order : row[p].state = "queued" /\ row' = [row EXCEPT ![p].state = "planning"]
      BY <2>1 DEF Next_
    <3> QED
      BY <1>0, <3>1 DEF RowRec, RowStep, RowTouched
  <2>2. CASE /\ th[w].pc # "idle" /\ row[Mine(w)].state \notin Terminal
             /\ \E s \in Transient \cup Terminal, res \in ResultRec :
                   /\ row' = WithState(Mine(w), s, res)
                   /\ res.handoff => s \in {"complete", "needs_agent"}
    <3>1. PICK s \in Transient \cup Terminal, res \in ResultRec :
              row' = WithState(Mine(w), s, res) /\ (res.handoff => s \in {"complete", "needs_agent"})
      BY <2>2
    <3>2. Mine(w) \in Order
      BY <2>2, ThreadFiles
    <3>3. s \notin {"absent", "queued"}
      BY DEF Transient, Terminal
    <3>4. /\ row'[Mine(w)].state = s /\ row'[Mine(w)].result = res
          /\ row'[Mine(w)].answered = row[Mine(w)].answered
          /\ row'[Mine(w)].request = row[Mine(w)].request
          /\ \A q \in Order \ {Mine(w)} : row'[q] = row[q]
      BY <3>1, <3>2, Stated
    <3> QED
      BY <2>2, <3>1, <3>3, <3>4 DEF RowStep, RowTouched, RowWritten
  <2> QED
    BY <1>1, <1>2, <2>1, <2>2, RowWorker
<1>3. CASE Elsewhere
  BY <1>3, RowElse DEF RowStep
<1> QED
  BY <1>2, <1>3 DEF Next, Elsewhere

\* An order that is owed its edits was owed them before, or is new.
LEMMA OwedStays ==
    ASSUME TInv, HandedOver, NEW o \in Order, RowStep(o), Owed(o)'
    PROVE  Owed(o) \/ row[o].state = "absent"
BY DEF RowStep, RowTouched, RowRepaired, RowWritten, HandedOver, Owed, Undoable, Keeps, Delivered, Terminal, Transient

\* No row goes away, and handed-over orders have ended or were answered.
LEMMA HandedOverStays ==
    ASSUME TInv, HandedOver, \A o \in Order : RowStep(o)
    PROVE  /\ HandedOver'
           /\ \A o \in Order : row'[o].state = "absent" => row[o].state = "absent"
BY DEF RowStep, RowTouched, RowRepaired, RowWritten, HandedOver, Terminal, Transient

\* The steps of a recovery thread keep what it selected.
LEMMA SelectedSteps ==
    ASSUME TInv, NEW r \in Recoverer, Selected(r), RecoveryStep(r) \/ RestoreStep(r)
    PROVE  Selected(r)'
<1> USE DEF TInv, Threads, ThreadRec, Selected, Dealing
<1>0. r \in Thread /\ r \notin Worker /\ th \in [Thread -> ThreadRec]
  BY ThreadAssumption DEF Thread
<1>1. CASE StartPass(r)
  BY <1>0, <1>1 DEF StartPass
<1>2. CASE LoadJournal(r)
  <2>1. PICK q \in th[r].rows :
          th' = [th EXCEPT ![r].pc = "loaded", ![r].rows = @ \ {q},
                           ![r].order = q.order, ![r].seen = q.state,
                           ![r].result = q.result,
                           ![r].journal = journal[q.order]]
    BY <1>2 DEF LoadJournal
  <2>2. th'[r].seen = q.state /\ th'[r].rows = th[r].rows \ {q}
    BY <1>0, <2>1
  <2>3. \A p \in th[r].rows : p.state \in Transient
    BY <1>2 DEF LoadJournal
  <2> QED
    BY <2>2, <2>3
<1>3. ASSUME th'[r].rows = th[r].rows, th'[r].seen = th[r].seen,
             th[r].pc \in Dealing
      PROVE  Selected(r)'
  BY <1>3
<1>4. CASE RecoverBusy(r) \/ (RecoverClaim(r) /\ Defer(r))
  <2>1. th[r].pc \in Dealing /\ Defer(r)
    BY <1>4 DEF RecoverBusy, RecoverClaim
  <2>2. th'[r].rows = th[r].rows /\ th'[r].seen = th[r].seen
    BY <1>0, <2>1 DEF Defer
  <2> QED
    BY <1>3, <2>1, <2>2
<1>5. CASE RecoverClaim(r) /\ ~Defer(r)
  <2> DEFINE n == attempt[Mine(r)].token + 1
             p == IF th[r].journal = <<>> THEN "update" ELSE "claimed"
             b == ~(th[r].journal = <<>> /\ th[r].result.changed /\ ~th[r].result.checkpoint)
  <2>1. th[r].pc \in Dealing /\ th' = [th EXCEPT ![r].token = n, ![r].pc = p, ![r].ok = b]
    BY <1>5 DEF RecoverClaim
  <2> HIDE DEF n, p, b
  <2>2. th'[r].rows = th[r].rows /\ th'[r].seen = th[r].seen
    BY <1>0, <2>1
  <2> QED
    BY <1>3, <2>1, <2>2
<1>6. CASE RecoverRestore(r)
  <2> DEFINE d == RestorePlan(th[r].journal)
  <2>1. th[r].pc \in Dealing /\ th' = [th EXCEPT ![r].pc = "restore", ![r].todo = d]
    BY <1>6 DEF RecoverRestore
  <2> HIDE DEF d
  <2>2. th'[r].rows = th[r].rows /\ th'[r].seen = th[r].seen
    BY <1>0, <2>1
  <2> QED
    BY <1>3, <2>1, <2>2
<1>7. CASE RecoverRefused(r) \/ RecoverUpdate(r) \/ RecoverLost(r)
  <2>1. /\ th[r].pc \in Dealing
        /\ \/ th' = [th EXCEPT ![r].pc = "update", ![r].ok = FALSE]
           \/ th' = [th EXCEPT ![r].pc = "release"]
           \/ th' = [th EXCEPT ![r].pc = "release", ![r].late = TRUE]
    BY <1>7 DEF RecoverRefused, RecoverUpdate, RecoverLost, Go
  <2>2. th'[r].rows = th[r].rows /\ th'[r].seen = th[r].seen
    BY <1>0, <2>1
  <2> QED
    BY <1>3, <2>1, <2>2
<1>8. CASE RecoverAborts(r) \/ EndPass(r)
  BY <1>0, <1>8 DEF RecoverAborts, EndPass, IdleThread
<1>9. CASE RecoverRelease(r)
  <2>1. th[r].pc = "release" /\ th'[r].pc = "pass" /\ th'[r].rows = th[r].rows
    BY <1>0, <1>9 DEF RecoverRelease, IdleThread
  <2> QED
    BY <2>1
<1>10. CASE StartCleanup(r) \/ Cleanup(r)
  BY <1>0, <1>10, PassMoves
<1>11. CASE WriteFile(r)
  <2>1. PICK f \in DOMAIN th[r].todo :
          th' = [th EXCEPT ![r].todo = [g \in DOMAIN th[r].todo \ {f} |-> th[r].todo[g]]]
    BY <1>11 DEF WriteFile
  <2>2. th'[r].rows = th[r].rows /\ th'[r].seen = th[r].seen /\ th'[r].pc = th[r].pc
    BY <1>0, <2>1
  <2> QED
    BY <2>2
<1>12. CASE Checkpoint(r)
  <2>1. th[r].pc \in Dealing
    BY <1>12 DEF Checkpoint
  <2>2. \/ th' = [th EXCEPT ![r].pc = "clear"]
        \/ th' = [th EXCEPT ![r].pc = "update", ![r].ok = FALSE]
    BY <1>0, <1>12 DEF Checkpoint, Go, AfterFailedRestore
  <2>3. th'[r].rows = th[r].rows /\ th'[r].seen = th[r].seen
    BY <1>0, <2>2
  <2> QED
    BY <1>3, <2>1, <2>3
<1>13. CASE ClearJournal(r)
  <2> DEFINE p == IF r \in Worker THEN "ending" ELSE "update"
             b == th[r].edited /\ ~Own(r)
             c == Own(r)
  <2>1. /\ th[r].pc \in Dealing
        /\ th' = [th EXCEPT ![r].pc = p, ![r].journal = <<>>, ![r].edited = b, ![r].ok = c]
    BY <1>0, <1>13 DEF ClearJournal
  <2> HIDE DEF p, b, c
  <2>2. th'[r].rows = th[r].rows /\ th'[r].seen = th[r].seen
    BY <1>0, <2>1
  <2> QED
    BY <1>3, <2>1, <2>2
<1>14. RecoverClaim(r) => Defer(r) \/ ~Defer(r)
  OBVIOUS
<1> QED
  BY <1>1, <1>2, <1>4, <1>5, <1>6, <1>7, <1>8, <1>9, <1>10, <1>11, <1>12, <1>13
     DEF RecoveryStep, RestoreStep

\* A row that is not written says of a delivery what it said.
LEMMA TouchedRow ==
    ASSUME TInv, HandedOver, NEW o \in Order, RowTouched(o)
    PROVE  /\ row[o].state \in Transient \/ Delivered(o) =>
                  row'[o].state \in Transient \/ Delivered(o)'
           /\ Delivered(o) => Delivered(o)'
           /\ row[o].state # "absent" => row'[o].state # "absent"
BY DEF RowTouched, HandedOver, Delivered, Terminal, Transient

\* A worker that keeps its order goes on, while the row is not written.
LEMMA WorkRowKept ==
    ASSUME TInv, HandedOver, NEW w \in Worker, WorkRow(w), th'[w].order = th[w].order,
           th[w].pc # "idle", RowTouched(Mine(w)),
           th'[w].pc \in Underway => th[w].pc \in Underway,
           th'[w].pc = "delivered" => th[w].pc = "delivered"
    PROVE  WorkRow(w)'
<1>1. Mine(w) \in Order
  BY ThreadFiles
<1>2. /\ row[Mine(w)].state \in Transient \/ Delivered(Mine(w)) =>
             row'[Mine(w)].state \in Transient \/ Delivered(Mine(w))'
      /\ Delivered(Mine(w)) => Delivered(Mine(w))'
      /\ row[Mine(w)].state # "absent" => row'[Mine(w)].state # "absent"
  <2> DEFINE o == Mine(w)
  <2>1. /\ row[o].state \in Transient \/ Delivered(o) =>
               row'[o].state \in Transient \/ Delivered(o)'
        /\ Delivered(o) => Delivered(o)'
        /\ row[o].state # "absent" => row'[o].state # "absent"
    <3>1. \A p \in Order : RowTouched(p) =>
             /\ row[p].state \in Transient \/ Delivered(p) =>
                    row'[p].state \in Transient \/ Delivered(p)'
             /\ Delivered(p) => Delivered(p)'
             /\ row[p].state # "absent" => row'[p].state # "absent"
      BY TouchedRow
    <3> QED
      BY <1>1, <3>1 DEF Delivered, Mine
  <2> QED
    BY <2>1 DEF Delivered, Mine
<1> QED
  BY <1>2 DEF WorkRow, Mine, Delivered

\* The steps of a worker that leave the row alone
LEMMA WorkRowStill ==
    ASSUME TInv, Owners, HandedOver, NEW w \in Worker, WorkRow(w), UNCHANGED row,
           \/ CheckPlanning(w) \/ ClaimAttempt(w) \/ ClaimBusy(w) \/ PlanFails(w) \/ StartStep(w)
           \/ Patch(w) \/ Patched(w) \/ ApplyFails(w) \/ Unapplied(w) \/ ReviewAsks(w)
           \/ StepFails(w) \/ ClearDelivered(w) \/ ClearDeliveredBusy(w) \/ DropJournal(w)
           \/ Rollback(w) \/ RollbackRefused(w) \/ LoseAttempt(w) \/ UpdateBusy(w) \/ Release(w)
    PROVE  WorkRow(w)'
<1> USE DEF Underway
<1>0. w \in Thread /\ th \in [Thread -> ThreadRec]
  BY DEF Thread, TInv, Threads
<1>1. ASSUME th[w].pc # "idle", th'[w].order = th[w].order,
             th'[w].pc \in Underway => th[w].pc \in Underway,
             th'[w].pc = "delivered" => th[w].pc = "delivered"
      PROVE  WorkRow(w)'
  BY <1>1, WorkRowKept DEF RowTouched
<1>2. CASE th'[w] = IdleThread
  BY <1>2 DEF WorkRow, IdleThread
<1>3. CASE CheckPlanning(w) \/ ClaimBusy(w) \/ Release(w)
  <2>1. \/ th' = [th EXCEPT ![w] = IdleThread]
        \/ Go(w, "checked") /\ th[w].pc = "picked"
    BY <1>3 DEF CheckPlanning, ClaimBusy, Release
  <2>2. CASE Go(w, "checked") /\ th[w].pc = "picked"
    BY <1>0, <1>1, <2>2, Goes DEF Still
  <2> QED
    BY <1>0, <1>2, <2>1, <2>2
<1>4. CASE ClaimAttempt(w)
  <2>1. \/ th' = [th EXCEPT ![w] = IdleThread]
        \/ /\ th[w].pc = "checked"
           /\ th' = [th EXCEPT ![w].pc = "begin", ![w].token = attempt[Mine(w)].token + 1]
    BY <1>4 DEF ClaimAttempt
  <2>2. CASE /\ th[w].pc = "checked"
             /\ th' = [th EXCEPT ![w].pc = "begin", ![w].token = attempt[Mine(w)].token + 1]
    <3>1. th'[w].pc = "begin" /\ th'[w].order = th[w].order
      BY <1>0, <2>2 DEF ThreadRec
    <3> QED
      BY <1>1, <2>2, <3>1
  <2> QED
    BY <1>0, <1>2, <2>1, <2>2
<1>5. CASE PlanFails(w)
  <2>1. /\ th[w].pc = "plan"
        /\ \/ Go(w, "raise")
           \/ th' = [th EXCEPT ![w].pc = "ending", ![w].goal = "cancelled"]
    BY <1>5 DEF PlanFails
  <2>2. th'[w].pc \in {"raise", "ending"} /\ th'[w].order = th[w].order
    BY <1>0, <2>1, Goes, Heads DEF Still
  <2> QED
    BY <1>1, <2>1, <2>2
<1>6. CASE \/ StartStep(w) \/ ReviewAsks(w) \/ StepFails(w) \/ ClearDeliveredBusy(w)
           \/ RollbackRefused(w) \/ LoseAttempt(w) \/ UpdateBusy(w)
  <2>1. Still(w) /\ Edge(w)
    BY <1>6, QuietMoves DEF Quiet
  <2>2. th[w].pc # "idle" /\ th'[w].order = th[w].order
    BY <2>1 DEF Still, Edge
  <2>3. CASE LoseAttempt(w) \/ UpdateBusy(w)
    <3>1. th'[w].pc \in {"raise", "release"}
      BY <1>0, <2>3, Goes DEF LoseAttempt, UpdateBusy
    <3> QED
      BY <1>1, <2>2, <3>1
  <2>4. CASE ReviewAsks(w) \/ StepFails(w) \/ ClearDeliveredBusy(w)
    <3>1. th'[w].pc = "rollback" /\ th[w].pc \in {"body", "verify", "step", "delivered"}
      BY <1>0, <2>4, Heads DEF ReviewAsks, StepFails, ClearDeliveredBusy
    <3> QED
      BY <1>1, <2>2, <3>1
  <2>5. CASE StartStep(w)
    <3>1. th'[w].pc \in {"rollback", "body"} /\ th[w].pc = "step"
      BY <1>0, <2>5 DEF StartStep, ThreadRec
    <3> QED
      BY <1>1, <2>2, <3>1
  <2>6. CASE RollbackRefused(w)
    <3>1. th[w].pc = "rollback" /\ th'[w].pc \in {"raise", "ending"}
      BY <2>1, <2>6 DEF Edge, RollbackRefused
    <3> QED
      BY <1>1, <2>2, <3>1
  <2> QED
    BY <1>6, <2>3, <2>4, <2>5, <2>6
<1>7. CASE Patch(w)
  BY <1>1, <1>7, PatchMoves DEF Patches
<1>8. CASE \/ Patched(w) \/ ApplyFails(w) \/ Unapplied(w) \/ ClearDelivered(w) \/ DropJournal(w)
           \/ Rollback(w)
  BY <1>1, <1>8, CommitMoves DEF Still
<1> QED
  BY <1>3, <1>4, <1>5, <1>6, <1>7, <1>8

\* The steps of a worker that write the row
LEMMA WorkRowWrites ==
    ASSUME TInv, Owners, HandedOver, NEW w \in Worker, WorkRow(w),
           \/ Begin(w) \/ PlanDone(w) \/ StepDone(w) \/ StartVerify(w) \/ End(w) \/ Raise(w)
           \/ \E s \in {"complete", "needs_agent"} : PlanEnds(w, s) \/ Deliver(w, s)
    PROVE  WorkRow(w)'
<1> USE DEF Underway
<1>0. w \in Thread /\ th \in [Thread -> ThreadRec]
  BY DEF Thread, TInv, Threads
<1>1. Still(w) /\ Edge(w)
  BY QuietMoves DEF Quiet
<1>2. th[w].pc # "idle" /\ th'[w].order = th[w].order /\ Mine(w) \in Order
  BY <1>1, ThreadFiles DEF Edge, Still
<1>3. \A o \in Order : row[o].state # "absent" => row'[o].state # "absent"
  <2>1. WorkerStep(w)
    BY DEF WorkerStep
  <2>2. row \in [Order -> RowRec] /\ "absent" \notin Transient \cup Terminal
    BY DEF TInv, Tables, Transient, Terminal
  <2>3. ~Next_(w)
    BY <1>2 DEF Next_
  <2>4. CASE \E s \in Transient \cup Terminal, res \in ResultRec : row' = WithState(Mine(w), s, res)
    BY <1>2, <2>2, <2>4, Stated
  <2> QED
    BY <2>1, <2>3, <2>4, RowWorker
<1>4. row'[Mine(w)].state # "absent"
  BY <1>2, <1>3 DEF WorkRow
<1>5. ASSUME th'[w].pc \notin Underway
      PROVE  WorkRow(w)'
  BY <1>2, <1>4, <1>5 DEF WorkRow, Mine
<1>6. ASSUME row'[Mine(w)].state \in Transient, th'[w].pc # "delivered"
      PROVE  WorkRow(w)'
  BY <1>2, <1>4, <1>6 DEF WorkRow, Mine
<1>7. ASSUME row' = row, th'[w].pc \in Underway => th[w].pc \in Underway, th'[w].pc # "delivered"
      PROVE  WorkRow(w)'
  BY <1>2, <1>7, WorkRowKept DEF RowTouched
<1>8. CASE Begin(w) \/ PlanDone(w) \/ StepDone(w) \/ StartVerify(w)
  <2>1. \/ Go(w, "release")
        \/ /\ \E s \in Transient : \E res : row' = WithState(Mine(w), s, res)
           /\ \/ \E p \in {"step", "verify"} : Go(w, p)
              \/ th' = [th EXCEPT ![w].pc = "plan", ![w].steps = MaxSteps]
    BY <1>8 DEF Begin, PlanDone, StepDone, StartVerify, Transient
  <2>2. CASE Go(w, "release")
    BY <1>0, <1>5, <2>2, Goes
  <2>3. CASE ~Go(w, "release")
    <3>1. PICK s \in Transient : \E res : row' = WithState(Mine(w), s, res)
      BY <2>1, <2>3
    <3>2. row'[Mine(w)].state = s
      BY <1>2, <3>1, Stated
    <3>3. th'[w].pc \in {"step", "verify", "plan"}
      BY <1>0, <2>1, <2>3, Goes DEF ThreadRec
    <3> QED
      BY <1>6, <3>2, <3>3
  <2> QED
    BY <2>2, <2>3
<1>9. CASE Raise(w) \/ \E s \in {"complete", "needs_agent"} : PlanEnds(w, s)
  <2>1. Go(w, "release") \/ Go(w, "raise")
    BY <1>9 DEF Raise, PlanEnds
  <2> QED
    BY <1>0, <1>5, <2>1, Goes
<1>10. CASE End(w)
  <2>1. /\ th[w].pc = "ending"
        /\ \/ Go(w, "release")
           \/ row' = row /\ th' = [th EXCEPT ![w].pc = "rollback", ![w].goal = "cancelled"]
    BY <1>10 DEF End
  <2> QED
    BY <1>0, <1>5, <1>7, <2>1, Goes, Heads
<1>11. CASE \E s \in {"complete", "needs_agent"} : Deliver(w, s)
  <2>1. PICK s \in {"complete", "needs_agent"} : Deliver(w, s)
    BY <1>11
  <2> DEFINE res == [Changed(th[w].edited) EXCEPT !.handoff = TRUE]
  <2>2. res.handoff
    BY DEF Changed, NoResult
  <2>3. /\ th[w].pc = "verify"
        /\ \/ row' = row /\ th' = [th EXCEPT ![w].pc = "rollback", ![w].goal = "cancelled"]
           \/ row' = WithState(Mine(w), s, res) /\ Go(w, "delivered")
    BY <2>1 DEF Deliver
  <2> HIDE DEF res
  <2>4. CASE row' = row /\ th' = [th EXCEPT ![w].pc = "rollback", ![w].goal = "cancelled"]
    <3>1. th'[w].pc = "rollback"
      BY <1>0, <2>4, Heads
    <3> QED
      BY <1>7, <2>3, <2>4, <3>1
  <2>5. CASE row' = WithState(Mine(w), s, res) /\ Go(w, "delivered")
    <3>1. row'[Mine(w)].result = res
      BY <1>2, <2>5, Stated
    <3> QED
      BY <1>2, <1>4, <2>2, <3>1 DEF WorkRow, Mine, Delivered
  <2> QED
    BY <2>3, <2>4, <2>5
<1> QED
  BY <1>8, <1>9, <1>10, <1>11

\* Rows and what threads know of them, in each step of a worker
LEMMA RowsWorker ==
    ASSUME TInv, Owners, Alone, Rows, NEW w \in Worker, WorkerStep(w)
    PROVE  Rows'
<1>0. w \in Thread /\ th \in [Thread -> ThreadRec]
  BY DEF Thread, TInv, Threads
<1>1. HandedOver /\ WorkRow(w)
  BY DEF Rows
<1>2. Others(w)
  <2>1. CASE Quiet(w)
    BY <2>1, QuietMoves
  <2>2. CASE Leaves(w)
    BY <2>2, LeavesMoves
  <2>3. CASE \/ Patch(w) \/ Patched(w) \/ ApplyFails(w) \/ Unapplied(w)
             \/ ClearDelivered(w) \/ DropJournal(w) \/ Rollback(w)
    BY <2>3, WorkMoves
  <2>4. CASE Next_(w) \/ ClaimAttempt(w) \/ Release(w)
    BY <1>0, <2>4 DEF Next_, ClaimAttempt, Release, Others
  <2> QED
    BY <2>1, <2>2, <2>3, <2>4 DEF WorkerStep, Quiet, Leaves
<1>3. \A o \in Order : RowStep(o)
  BY RowMoves DEF Next
<1>4. HandedOver'
  BY <1>1, <1>3, HandedOverStays
<1>5. ASSUME NEW r \in Recoverer
      PROVE  Selected(r)'
  <2>1. th'[r] = th[r]
    BY <1>2, ThreadAssumption DEF Others, Thread
  <2> QED
    BY <2>1 DEF Rows, Selected
<1>6. WorkRow(w)'
  <2>1. CASE Next_(w)
    <3>1. PICK o \in Order : /\ row[o].state = "queued"
                             /\ row' = [row EXCEPT ![o].state = "planning"]
                             /\ th' = [th EXCEPT ![w].pc = "picked", ![w].order = o]
      BY <2>1 DEF Next_
    <3>2. th'[w].pc = "picked" /\ th'[w].order = o
      BY <1>0, <3>1 DEF ThreadRec
    <3>3. row'[o].state = "planning"
      BY <3>1 DEF TInv, Tables, RowRec
    <3> QED
      BY <3>2, <3>3 DEF WorkRow, Mine, Underway
  <2>2. CASE RowUnavailable(w)
    BY <1>0, <2>2 DEF RowUnavailable, WorkRow, Underway, IdleThread
  <2>3. CASE \/ Begin(w) \/ PlanDone(w) \/ StepDone(w) \/ StartVerify(w) \/ End(w) \/ Raise(w)
             \/ \E s \in {"complete", "needs_agent"} : PlanEnds(w, s) \/ Deliver(w, s)
    BY <1>1, <2>3, WorkRowWrites
  <2>4. CASE \/ CheckPlanning(w) \/ ClaimAttempt(w) \/ ClaimBusy(w) \/ PlanFails(w) \/ StartStep(w)
             \/ Patch(w) \/ Patched(w) \/ ApplyFails(w) \/ Unapplied(w) \/ ReviewAsks(w)
             \/ StepFails(w) \/ ClearDelivered(w) \/ ClearDeliveredBusy(w) \/ DropJournal(w)
             \/ Rollback(w) \/ RollbackRefused(w) \/ LoseAttempt(w) \/ UpdateBusy(w) \/ Release(w)
    <3>1. UNCHANGED row
      BY <2>4 DEF CheckPlanning, ClaimAttempt, ClaimBusy, PlanFails, StartStep, Patch, Patched,
         ApplyFails, Unapplied, ReviewAsks, StepFails, ClearDelivered, ClearDeliveredBusy,
         DropJournal, Rollback, RollbackRefused, LoseAttempt, UpdateBusy, Release
    <3> QED
      BY <1>1, <2>4, <3>1, WorkRowStill
  <2> QED
    BY <2>1, <2>2, <2>3, <2>4 DEF WorkerStep
<1> QED
  BY <1>4, <1>5, <1>6 DEF Rows, Alone

\* In each step elsewhere
LEMMA RowsElse ==
    ASSUME TInv, Owners, Alone, Rows, Elsewhere
    PROVE  Rows'
<1>0. th \in [Thread -> ThreadRec]
  BY DEF TInv, Threads
<1>1. \A o \in Order : RowTouched(o) \/ RowRepaired(o)
  BY RowElse
<1>2. HandedOver'
  BY <1>1, HandedOverStays DEF RowStep, Rows
<1>3. ASSUME NEW t \in Thread, th'[t] # th[t]
      PROVE  \/ t \in Recoverer /\ (RecoveryStep(t) \/ RestoreStep(t))
             \/ t \in Worker /\ RestoreStep(t)
             \/ th'[t] = IdleThread
  <2>1. CASE \E r \in Recoverer : RecoveryStep(r)
    <3>1. PICK r \in Recoverer : RecoveryStep(r)
      BY <2>1
    <3>2. r \in Thread
      BY DEF Thread
    <3>3. \A u \in Thread \ {r} : th'[u] = th[u]
      <4>1. CASE RecoverClaim(r)
        BY <4>1, ClaimMoves DEF Others
      <4>2. CASE ~RecoverClaim(r)
        BY <3>1, <4>2, PassMoves DEF Others, RecoveryStep
      <4> QED
        BY <4>1, <4>2
    <3> QED
      BY <1>3, <3>1, <3>3
  <2>2. CASE \E u \in Thread : RestoreStep(u)
    <3>1. PICK u \in Thread : RestoreStep(u)
      BY <2>2
    <3>2. \A v \in Thread \ {u} : th'[v] = th[v]
      BY <3>1, RestoreMoves DEF Others, RestoreStep
    <3> QED
      BY <1>3, <3>1, <3>2 DEF Thread
  <2>3. CASE \/ \E o \in Order : Submit(o) \/ Cancel(o) \/ Continue(o) \/ ExpireAttempt(o)
             \/ \E i \in Instance : Start(i) \/ Close(i) \/ Stopped(i)
             \/ \E f \in File : ExpireLease(f)
             \/ UNCHANGED vars
    BY <1>3, <2>3 DEF Submit, Cancel, Continue, ExpireAttempt, Start, Close, Stopped, ExpireLease, vars
  <2>4. CASE \E i \in Instance : Crash(i)
    BY <1>3, <2>4 DEF Crash
  <2> QED
    BY <2>1, <2>2, <2>3, <2>4 DEF Elsewhere
<1>4. ASSUME NEW r \in Recoverer
      PROVE  Selected(r)'
  <2>1. Selected(r) /\ r \in Thread /\ r \notin Worker
    BY ThreadAssumption DEF Rows, Thread
  <2>2. CASE th'[r] = th[r]
    BY <2>1, <2>2 DEF Selected
  <2>3. CASE th'[r] = IdleThread
    BY <2>3 DEF Selected, IdleThread, Dealing
  <2> QED
    BY <1>3, <2>1, <2>2, <2>3, SelectedSteps
<1>5. ASSUME NEW w \in Worker
      PROVE  WorkRow(w)'
  <2>1. WorkRow(w) /\ w \in Thread /\ w \notin Recoverer /\ HandedOver
    BY ThreadAssumption DEF Rows, Thread
  <2>2. CASE th'[w] = IdleThread
    BY <2>2 DEF WorkRow, IdleThread, Underway
  <2>3. CASE th[w].pc = "idle" /\ th'[w] = th[w]
    BY <2>3 DEF WorkRow, Underway
  <2>4. CASE th'[w] = th[w] /\ th[w].pc # "idle"
    <3>1. Mine(w) \in Order
      BY <2>4, ThreadFiles
    <3>2. CASE RowTouched(Mine(w))
      BY <2>1, <2>4, <3>2, WorkRowKept
    <3>3. CASE RowRepaired(Mine(w))
      <4>1. PICK r \in Recoverer : th[r].pc = "update" /\ Mine(r) = Mine(w)
        BY <3>3 DEF RowRepaired
      <4>2. ~Holds(w)
        BY <2>1, <4>1 DEF Owners, Holds, Thread
      <4>3. th[w].pc \in {"picked", "checked"}
        BY <2>1, <2>4, <4>2 DEF Holds
      <4> QED
        BY <2>4, <3>3, <4>3 DEF WorkRow, Mine, Underway, RowRepaired, RowWritten
    <3> QED
      BY <1>1, <3>1, <3>2, <3>3
  <2>5. CASE RestoreStep(w)
    <3>1. th[w].pc \in Inside /\ th'[w].order = th[w].order
      BY <2>1, <2>5, RestoreMoves DEF RestoreStep, Still, Inside
    <3>2. th'[w].pc # "delivered"
      BY <2>1, <2>5, <3>1, RestoreMoves DEF RestoreStep, Inside
    <3>3. Holds(w) /\ Mine(w) \in Order /\ th[w].pc # "idle" /\ th[w].pc \in Underway
      BY <2>1, <3>1, ThreadFiles DEF Holds, Inside, Underway
    <3>4. ~RowRepaired(Mine(w))
      BY <2>1, <3>3 DEF RowRepaired, Owners, Holds, Thread
    <3> QED
      BY <1>1, <2>1, <3>1, <3>2, <3>3, <3>4, WorkRowKept
  <2> QED
    BY <1>3, <2>1, <2>2, <2>3, <2>4, <2>5
<1> QED
  BY <1>2, <1>4, <1>5 DEF Rows

\* Rows is kept by every step.
LEMMA RowsNext ==
    ASSUME TInv, Owners, Alone, Rows, [Next]_vars
    PROVE  Rows'
BY RowsWorker, RowsElse DEF Next, Elsewhere

-----------------------------------------------------------------------------
(* Who knows the journal of an order that is owed its edits *)

\* An order whose edits may still be in the workspace is not in the queue, its worker
\* and a recovery pass that is to repair it have the journal that is on disk, and
\* nobody is about to record that the edits are gone.
Phase(o) ==
    /\ row[o].state \notin {"absent", "queued"}
    /\ \A w \in Worker : th[w].pc # "idle" /\ Mine(w) = o => journal[o] = th[w].journal
    /\ \A r \in Recoverer : Mine(r) = o =>
          /\ th[r].pc = "loaded" => attempt[o].live \/ journal[o] = th[r].journal
          /\ th[r].pc \in Repairing => journal[o] = th[r].journal
          /\ ~(th[r].pc = "update" /\ th[r].ok)
          /\ \A w \in Worker :
                th[r].pc = "loaded" /\ Mine(w) = o /\ th[w].pc \in {"ending", "raise", "release"}
                => journal[o] = th[r].journal

\* Such an order stays out of the queue.
LEMMA PhaseRow ==
    ASSUME TInv, Rows, [Next]_vars, NEW o \in Order, Phase(o), Owed(o)'
    PROVE  row'[o].state \notin {"absent", "queued"}
<1>1. RowStep(o)
  BY RowMoves
<1>2. ~RowRepaired(o) \/ row'[o].state # "queued"
  BY DEF RowRepaired, Phase
<1>3. row'[o].state # "absent"
  BY <1>1 DEF Phase, RowStep, RowTouched, RowRepaired, RowWritten
<1>4. RowTouched(o) => row'[o].state # "queued"
  BY DEF Phase, RowTouched, Owed, Undoable
<1> QED
  BY <1>1, <1>2, <1>3, <1>4 DEF RowStep, RowRepaired

\* Steps that leave the journal and the attempt of the order alone, of threads that
\* stay on it
LEMMA PhaseKept ==
    ASSUME NEW o \in Order, Phase(o), row'[o].state \notin {"absent", "queued"},
           journal'[o] = journal[o], attempt'[o] = attempt[o],
           \A w \in Worker : th'[w].pc # "idle" /\ th'[w].order = o =>
               /\ th[w].pc # "idle" /\ th[w].order = o /\ th'[w].journal = th[w].journal
               /\ th'[w].pc \in {"ending", "raise", "release"} =>
                     \/ th[w].pc \in {"ending", "raise", "release"}
                     \/ \A r \in Recoverer : th'[r].pc # "loaded",
           \A r \in Recoverer : th'[r].order = o =>
               /\ th'[r].pc = "loaded" =>
                     \/ th'[r].journal = journal[o]
                     \/ th[r].order = o /\ th[r].pc = "loaded" /\ th'[r].journal = th[r].journal
               /\ th'[r].pc \in Repairing =>
                     th'[r].journal = journal[o]
               /\ ~(th'[r].pc = "update" /\ th'[r].ok)
    PROVE  Phase(o)'
BY DEF Phase, Mine

\* The place of a worker that ends an order that is owed its edits
LEMMA EndsKnown ==
    ASSUME TInv, Owners, Alone, Rows, Linked, NEW w \in Worker, NEW o \in Order,
           Phase(o), Owed(o), journal[o] # <<>>, Mine(w) = o, Edge(w),
           th'[w].pc \in {"ending", "raise", "release"}, NEW r \in Recoverer
    PROVE  \/ th[w].pc \in {"ending", "raise", "release"}
           \/ th[r].pc # "loaded"
<1>0. w \in Thread /\ r \in Thread
  BY DEF Thread
<1>1. th[w].pc # "idle"
  BY DEF Edge
<1>2. th[w].journal # <<>>
  BY <1>1 DEF Phase
<1>3. th[w].pc \notin {"picked", "checked", "begin", "plan"}
  BY <1>2 DEF Linked, WorkLinked
<1>4. CASE th[w].pc = "rollback"
  <2>1. Restorable(th[w].journal)
    BY <1>4, IntactRestorable DEF Linked, WorkLinked, Matching
  <2>2. Busy(w)
    BY <1>4, <2>1 DEF Edge
  <2>3. lock \in Thread /\ lock # w
    BY <2>2 DEF Busy, TInv, Threads
  <2>4. lock = r
    BY <2>3 DEF Thread, Alone
  <2>5. th[r].pc \in Inside
    BY <1>0, <2>4 DEF TInv, Locks
  <2> QED
    BY <2>5 DEF Inside
<1> QED
  BY <1>3, <1>4 DEF Edge

\* A worker's step, except for a patch of the order itself
LEMMA PhaseWorker ==
    ASSUME TInv, Owners, Alone, Rows, Linked, NEW w \in Worker, NEW o \in Order,
           Phase(o), Owed(o), journal[o] # <<>>, Owed(o)', WorkerStep(w),
           Patch(w) => Mine(w) # o
    PROVE  Phase(o)'
<1>0. w \in Thread /\ th \in [Thread -> ThreadRec] /\ \A v \in Worker : v = w
  BY DEF Thread, TInv, Threads, Alone
<1>1. row'[o].state \notin {"absent", "queued"}
  BY PhaseRow DEF Next
<1>2. ASSUME Others(w), journal'[o] = journal[o], attempt'[o] = attempt[o],
             th'[w].pc # "idle" /\ th'[w].order = o =>
                 /\ th[w].pc # "idle" /\ th[w].order = o /\ th'[w].journal = th[w].journal
                 /\ th'[w].pc \in {"ending", "raise", "release"} =>
                       \/ th[w].pc \in {"ending", "raise", "release"}
                       \/ \A r \in Recoverer : th[r].pc # "loaded"
      PROVE  Phase(o)'
  <2>1. \A r \in Recoverer : th'[r] = th[r]
    BY <1>2, ThreadAssumption DEF Others, Thread
  <2>2. \A r \in Recoverer : th'[r].order = o =>
               /\ th'[r].pc = "loaded" =>
                     th[r].order = o /\ th[r].pc = "loaded" /\ th'[r].journal = th[r].journal
               /\ th'[r].pc \in Repairing =>
                     th'[r].journal = journal[o]
               /\ ~(th'[r].pc = "update" /\ th'[r].ok)
    BY <2>1 DEF Phase, Mine
  <2> QED
    BY <1>0, <1>1, <1>2, <2>1, <2>2, PhaseKept
<1>3. \A r \in Recoverer : Others(w) => th'[r] = th[r]
  BY ThreadAssumption DEF Others, Thread
<1>4. CASE Quiet(w)
  <2>1. /\ UNCHANGED <<journal, attempt>> /\ Still(w) /\ Others(w) /\ Edge(w)
    BY <1>4, QuietMoves
  <2>2. th[w].pc # "idle"
    BY <2>1 DEF Edge
  <2>3. CASE th[w].order = o /\ th'[w].pc \in {"ending", "raise", "release"}
    BY <1>2, <2>1, <2>2, <2>3, EndsKnown DEF Still, Mine
  <2>4. CASE ~(th[w].order = o /\ th'[w].pc \in {"ending", "raise", "release"})
    BY <1>2, <2>1, <2>2, <2>4 DEF Still
  <2> QED
    BY <2>3, <2>4
<1>5. CASE Leaves(w)
  BY <1>2, <1>5, LeavesMoves DEF IdleThread
<1>6. CASE Next_(w)
  <2>1. PICK q \in Order : /\ row[q].state = "queued"
                           /\ th' = [th EXCEPT ![w].pc = "picked", ![w].order = q]
    BY <1>6 DEF Next_
  <2>2. q # o
    BY <2>1 DEF Phase
  <2>3. th'[w].order = q /\ Others(w)
    BY <1>0, <2>1 DEF ThreadRec, Others
  <2>4. UNCHANGED <<journal, attempt>>
    BY <1>6 DEF Next_, disk, fence
  <2> QED
    BY <1>2, <2>2, <2>3, <2>4
<1>7. CASE ClaimAttempt(w) /\ ~attempt[Mine(w)].live
  <2>1. /\ th[w].pc = "checked" /\ attempt' = ClaimedBy(Mine(w)) /\ UNCHANGED journal
        /\ th' = [th EXCEPT ![w].pc = "begin", ![w].token = attempt[Mine(w)].token + 1]
    BY <1>7 DEF ClaimAttempt, disk
  <2>2. /\ th'[w].pc = "begin" /\ th'[w].order = th[w].order /\ th'[w].journal = th[w].journal
        /\ Others(w)
    BY <1>0, <2>1 DEF ThreadRec, Others
  <2>3. \A q \in Order : attempt'[q] = attempt[q] \/ attempt'[q].live
    BY <2>1 DEF ClaimedBy, TInv, Tables, AttemptRec
  <2>4. CASE attempt'[o] = attempt[o]
    BY <1>2, <2>1, <2>2, <2>4
  <2>5. CASE attempt'[o].live
    <3>1. \A v \in Worker : th'[v].pc # "idle" /\ th'[v].order = o
                              => journal'[o] = th'[v].journal
      BY <1>0, <2>1, <2>2 DEF Phase, Mine
    <3>2. \A v \in Worker : th'[v].pc \notin {"ending", "raise", "release"}
      BY <1>0, <2>2
    <3>3. \A r \in Recoverer : th'[r] = th[r]
      BY <1>3, <2>2
    <3>4. \A r \in Recoverer : th'[r].order = o =>
              /\ th'[r].pc \in Repairing => journal'[o] = th'[r].journal
              /\ ~(th'[r].pc = "update" /\ th'[r].ok)
      BY <2>1, <3>3 DEF Phase, Mine
    <3> QED
      BY <1>1, <2>5, <3>1, <3>2, <3>4 DEF Phase, Mine
  <2> QED
    BY <2>3, <2>4, <2>5
<1>8. CASE Release(w)
  <2>1. /\ th[w].pc = "release" /\ UNCHANGED journal /\ th'[w] = IdleThread /\ Others(w)
        /\ attempt' \in {attempt, Released(w)}
    BY <1>0, <1>8 DEF Release, disk, Others
  <2>2. CASE Mine(w) # o
    <3>1. attempt'[o] = attempt[o]
      BY <2>1, <2>2 DEF Released, TInv, Tables
    <3> QED
      BY <1>2, <2>1, <3>1 DEF IdleThread
  <2>3. CASE Mine(w) = o
    <3>1. th'[w].pc = "idle"
      BY <2>1 DEF IdleThread
    <3> QED
      BY <1>0, <1>1, <1>3, <2>1, <2>3, <3>1 DEF Phase, Mine
  <2> QED
    BY <2>2, <2>3
<1>9. CASE Patch(w)
  <2>1. PICK P \in (SUBSET File) \ {{}} : Patches(w, P) /\ Others(w) /\ UNCHANGED attempt
    BY <1>9, PatchMoves
  <2> DEFINE j == Extended(w, P)
  <2>2. journal' = [journal EXCEPT ![Mine(w)] = j] /\ th'[w].order = th[w].order
    BY <2>1 DEF Patches
  <2> HIDE DEF j
  <2>3. journal'[o] = journal[o] /\ th'[w].order # o
    BY <1>9, <2>2 DEF Mine, TInv, Tables
  <2> QED
    BY <1>2, <2>1, <2>3
<1>10. CASE Patched(w) \/ ApplyFails(w) \/ Rollback(w)
  <2>1. /\ Still(w) /\ Others(w) /\ UNCHANGED <<journal, attempt>> /\ th[w].pc # "idle"
        /\ th'[w].pc \notin {"ending", "raise", "release"}
    BY <1>10, CommitMoves
  <2> QED
    BY <1>2, <2>1 DEF Still
<1>11. CASE Unapplied(w)
  <2>1. /\ th[w].pc = "unapply" /\ th'[w].pc \in {"body", "verify"} /\ Others(w)
        /\ th'[w].order = th[w].order /\ th'[w].journal = Earlier(w)
        /\ journal' = [journal EXCEPT ![Mine(w)] = Earlier(w)]
        /\ UNCHANGED attempt
    BY <1>11, CommitMoves
  <2> DEFINE j == Earlier(w)
  <2>2. th'[w].journal = j /\ journal' = [journal EXCEPT ![Mine(w)] = j]
    BY <2>1
  <2> HIDE DEF j
  <2>3. CASE Mine(w) # o
    BY <1>2, <2>1, <2>2, <2>3 DEF Mine, TInv, Tables
  <2>4. CASE Mine(w) = o
    <3>1. journal'[o] = j
      BY <2>2, <2>4 DEF TInv, Tables
    <3>2. Holds(w) /\ attempt[o].live
      BY <1>0, <2>1, <2>4 DEF Holds, Owners, Own
    <3>3. \A r \in Recoverer : Mine(r) = o => th[r].pc \notin Repairing
      BY <2>4, <3>2, ThreadAssumption DEF Owners, Holds, Thread, Repairing
    <3> QED
      BY <1>0, <1>1, <1>3, <2>1, <2>2, <3>1, <3>2, <3>3 DEF Phase, Mine
  <2> QED
    BY <2>3, <2>4
<1>12. CASE ClearDelivered(w)
  <2>1. /\ th[w].pc = "delivered" /\ th'[w].order = th[w].order /\ Others(w) /\ UNCHANGED attempt
        /\ journal' \in {journal, [journal EXCEPT ![Mine(w)] = <<>>]}
    BY <1>12, CommitMoves DEF Still
  <2>2. Mine(w) # o
    BY <2>1 DEF Rows, WorkRow, Owed
  <2>3. journal'[o] = journal[o] /\ th'[w].order # o
    BY <2>1, <2>2 DEF TInv, Tables, Mine
  <2> QED
    BY <1>2, <2>1, <2>3
<1>13. CASE DropJournal(w)
  <2>1. /\ th[w].pc = "rollback" /\ th'[w].order = th[w].order /\ Others(w) /\ UNCHANGED attempt
        /\ th[w].journal = <<>> \/ Keeps(Mine(w))
        /\ journal' = [journal EXCEPT ![Mine(w)] = <<>>]
    BY <1>13, CommitMoves DEF Still
  <2>2. Mine(w) # o
    BY <2>1 DEF Phase, Owed, Undoable
  <2>3. journal'[o] = journal[o] /\ th'[w].order # o
    BY <2>1, <2>2 DEF TInv, Tables, Mine
  <2> QED
    BY <1>2, <2>1, <2>3
<1> QED
  BY <1>4, <1>5, <1>6, <1>7, <1>8, <1>9, <1>10, <1>11, <1>12, <1>13 DEF WorkerStep, Quiet, Leaves

\* A patch of the order itself: its worker is the one that has the new journal.
LEMMA PhasePatch ==
    ASSUME TInv, Owners, Alone, Rows, NEW w \in Worker, NEW o \in Order, Owed(o),
           Patch(w), Mine(w) = o
    PROVE  Phase(o)'
<1>0. w \in Thread /\ th \in [Thread -> ThreadRec] /\ \A v \in Worker : v = w
  BY DEF Thread, TInv, Threads, Alone
<1>1. /\ th[w].pc \in {"body", "verify"} /\ UNCHANGED <<row, attempt>> /\ Others(w)
      /\ Guarded(w)
  BY PatchMoves
<1>2. PICK P \in (SUBSET File) \ {{}} : Patches(w, P)
  BY PatchMoves
<1> DEFINE j == Extended(w, P)
<1>3. /\ th'[w].pc = "apply" /\ th'[w].order = o /\ th'[w].journal = j
      /\ journal' = [journal EXCEPT ![o] = j]
  BY <1>2 DEF Patches, Mine
<1> HIDE DEF j
<1>4. journal'[o] = j
  BY <1>3 DEF TInv, Tables
<1>5. row[o].state \notin {"absent", "queued"}
  BY <1>1 DEF Rows, WorkRow, Underway, Owed, Transient
<1>6. attempt[o].live /\ Holds(w)
  BY <1>0, <1>1 DEF Guarded, Own, Holds
<1>7. \A r \in Recoverer : /\ th'[r] = th[r]
                           /\ Mine(r) = o => th[r].pc \notin Repairing \cup {"update"}
  BY <1>0, <1>1, <1>6, ThreadAssumption DEF Owners, Holds, Thread, Repairing, Others
<1> QED
  BY <1>0, <1>1, <1>3, <1>4, <1>5, <1>6, <1>7 DEF Phase, Mine

\* A step of a recovery pass
LEMMA PhasePass ==
    ASSUME TInv, Owners, Alone, Rows, NEW r \in Recoverer, NEW o \in Order,
           Phase(o), Owed(o), journal[o] # <<>>, Owed(o)', RecoveryStep(r)
    PROVE  Phase(o)'
<1>0. /\ r \in Thread /\ th \in [Thread -> ThreadRec] /\ \A q \in Recoverer : q = r
      /\ \A w \in Worker : w \in Thread /\ w # r
  BY ThreadAssumption DEF Thread, TInv, Threads, Alone
<1>1. row'[o].state \notin {"absent", "queued"}
  BY PhaseRow DEF Next
<1>2. Others(r)
  BY ClaimMoves, PassMoves DEF RecoveryStep
<1>3. \A w \in Worker : th'[w] = th[w]
  BY <1>0, <1>2 DEF Others
<1>4. ASSUME UNCHANGED journal, th'[r].pc \notin {"loaded", "update"} \cup Repairing
      PROVE  Phase(o)'
  BY <1>0, <1>1, <1>3, <1>4 DEF Phase, Mine
<1>5. CASE \/ StartPass(r) \/ RecoverBusy(r) \/ RecoverUpdate(r) \/ RecoverLost(r)
           \/ RecoverAborts(r) \/ RecoverRelease(r) \/ StartCleanup(r) \/ EndPass(r)
  <2>1. UNCHANGED journal
    BY <1>5 DEF StartPass, RecoverBusy, RecoverUpdate, RecoverLost, RecoverAborts, RecoverRelease,
       StartCleanup, EndPass, disk
  <2>2. th'[r].pc \in {"pass", "release", "idle", "cleanup"}
    BY <1>5, PassMoves DEF IdleThread
  <2> QED
    BY <1>4, <2>1, <2>2 DEF Repairing
<1>6. CASE LoadJournal(r)
  <2>1. PICK q \in th[r].rows :
          th' = [th EXCEPT ![r].pc = "loaded", ![r].rows = @ \ {q},
                           ![r].order = q.order, ![r].seen = q.state,
                           ![r].result = q.result,
                           ![r].journal = journal[q.order]]
    BY <1>6 DEF LoadJournal
  <2>2. th'[r].pc = "loaded" /\ th'[r].order = q.order /\ th'[r].journal = journal[q.order]
    BY <1>0, <2>1 DEF ThreadRec
  <2>3. UNCHANGED <<journal, attempt>>
    BY <1>6 DEF LoadJournal, disk, fence
  <2> QED
    BY <1>0, <1>1, <1>3, <2>2, <2>3 DEF Phase, Mine, Repairing
<1>7. CASE RecoverClaim(r)
  <2>1. /\ th[r].pc = "loaded" /\ th'[r].journal = th[r].journal /\ UNCHANGED journal
        /\ \/ th'[r].pc = "pass"
           \/ /\ ~Unavailable(Mine(r), th[r].journal) /\ th'[r].order = th[r].order
              /\ th'[r].pc = IF th[r].journal = <<>> THEN "update" ELSE "claimed"
    BY <1>7, ClaimMoves
  <2>2. CASE th'[r].pc = "pass"
    BY <1>4, <2>1, <2>2 DEF Repairing
  <2>3. CASE th'[r].pc # "pass"
    <3>1. ~attempt[Mine(r)].live
      BY <2>1, <2>3 DEF Unavailable
    <3>2. Mine(r) = o => journal[o] = th[r].journal
      BY <2>1, <3>1 DEF Phase
    <3>3. th'[r].order = th[r].order /\ (th[r].order = o => th'[r].pc = "claimed")
      BY <2>1, <2>3, <3>2 DEF Mine
    <3> QED
      BY <1>0, <1>1, <1>3, <2>1, <3>2, <3>3 DEF Phase, Mine
  <2> QED
    BY <2>2, <2>3
<1>8. CASE RecoverRestore(r) \/ RecoverRefused(r)
  <2>1. /\ th[r].pc = "claimed" /\ Still(r) /\ UNCHANGED journal
        /\ th'[r].pc = "restore" \/ (th'[r].pc = "update" /\ ~th'[r].ok)
    BY <1>8, PassMoves DEF RecoverRestore, RecoverRefused, disk
  <2> QED
    BY <1>0, <1>1, <1>3, <2>1 DEF Phase, Mine, Still, Repairing
<1>9. CASE Cleanup(r)
  <2>1. PICK p \in th[r].rows : \/ journal' = journal
                                \/ row[p].state = "complete" /\ journal' = [journal EXCEPT ![p] = <<>>]
    BY <1>9 DEF Cleanup
  <2>2. journal'[o] = journal[o]
    BY <2>1 DEF Owed, Delivered, TInv, Tables
  <2>3. th'[r].pc = "cleanup"
    BY <1>9, PassMoves
  <2> QED
    BY <1>0, <1>1, <1>3, <2>2, <2>3 DEF Phase, Mine, Repairing
<1> QED
  BY <1>5, <1>6, <1>7, <1>8, <1>9 DEF RecoveryStep

\* A step inside commit_guard, except for the end of a rollback of the order
LEMMA PhaseRestore ==
    ASSUME TInv, Owners, Alone, Rows, NEW t \in Thread, NEW o \in Order,
           Phase(o), Owed(o), Owed(o)', RestoreStep(t), ClearJournal(t) => Mine(t) # o
    PROVE  Phase(o)'
<1>1. row'[o].state \notin {"absent", "queued"}
  BY PhaseRow DEF Next
<1>2. UNCHANGED attempt /\ Others(t)
  BY RestoreMoves DEF RestoreStep, WriteFile, Checkpoint, ClearJournal, fence
<1>3. /\ t \in Worker => t \notin Recoverer /\ \A v \in Worker : v = t
      /\ t \in Recoverer => t \notin Worker /\ \A r \in Recoverer : r = t
      /\ Worker \subseteq Thread /\ Recoverer \subseteq Thread
  BY ThreadAssumption DEF Alone, Thread
<1>4. \A u \in Thread : u # t => th'[u] = th[u]
  BY <1>2 DEF Others
<1>5. CASE ClearJournal(t)
  <2>1. /\ th'[t].order = th[t].order /\ th[t].order # o
        /\ journal' = [journal EXCEPT ![Mine(t)] = <<>>]
    BY <1>5, RestoreMoves DEF Mine, ClearJournal
  <2>2. journal'[o] = journal[o]
    BY <2>1 DEF TInv, Tables, Mine
  <2> QED
    BY <1>1, <1>2, <1>3, <1>4, <2>1, <2>2 DEF Phase, Mine
<1>6. CASE WriteFile(t) \/ Checkpoint(t)
  <2>1. UNCHANGED journal /\ Still(t) /\ th[t].pc \in {"apply", "unapply", "restore"}
    BY <1>6, RestoreMoves DEF WriteFile, Checkpoint, disk
  <2>2. CASE th'[t].pc = th[t].pc \/ th'[t].pc = "clear"
    <3>1. CASE t \in Worker
      <4>1. th'[t].pc \notin {"ending", "raise", "release"} /\ th[t].pc # "idle"
        BY <2>1, <2>2
      <4> QED
        BY <1>1, <1>2, <1>3, <1>4, <2>1, <3>1, <4>1 DEF Phase, Mine, Still
    <3>2. CASE t \in Recoverer
      <4>1. th[t].pc = "restore" /\ th'[t].pc \in Repairing
        BY <2>1, <2>2, <3>2 DEF TInv, Places, Placed, PassPcs, Repairing
      <4> QED
        BY <1>1, <1>2, <1>3, <1>4, <2>1, <3>2, <4>1 DEF Phase, Mine, Still, Repairing
    <3> QED
      BY <3>1, <3>2 DEF Thread
  <2>3. CASE t \in Worker /\ th'[t].pc \notin {th[t].pc, "clear"}
    <3>1. Checkpoint(t) /\ th[t].pc = "restore" /\ row[Mine(t)].state \notin Transient
      BY <1>6, <2>3, RestoreMoves
    <3>2. Delivered(Mine(t))
      BY <2>3, <3>1 DEF Rows, WorkRow, Underway
    <3>3. Mine(t) # o
      BY <3>2 DEF Owed
    <3> QED
      BY <1>1, <1>2, <1>3, <1>4, <2>1, <3>3 DEF Phase, Mine, Still
  <2>4. CASE t \notin Worker /\ th'[t].pc \notin {th[t].pc, "clear"}
    <3>1. th'[t].pc = "update" /\ ~th'[t].ok
      BY <1>6, <2>4, RestoreMoves
    <3> QED
      BY <1>1, <1>2, <1>3, <1>4, <2>1, <2>4, <3>1 DEF Phase, Mine, Still, Repairing
  <2> QED
    BY <2>2, <2>3, <2>4
<1> QED
  BY <1>5, <1>6 DEF RestoreStep

\* A step of a caller, of a process or of time
LEMMA PhaseOutside ==
    ASSUME TInv, Alone, Rows, NEW o \in Order, Phase(o), Owed(o)',
           \/ \E p \in Order : Submit(p) \/ Cancel(p) \/ Continue(p) \/ ExpireAttempt(p)
           \/ \E i \in Instance : Start(i) \/ Crash(i) \/ Close(i) \/ Stopped(i)
           \/ \E f \in File : ExpireLease(f)
           \/ UNCHANGED vars
    PROVE  Phase(o)'
<1>0. Worker \subseteq Thread /\ Recoverer \subseteq Thread
  BY DEF Thread
<1>1. row'[o].state \notin {"absent", "queued"}
  BY PhaseRow DEF Next
<1>2. UNCHANGED journal
  BY DEF Submit, Cancel, Continue, ExpireAttempt, Start, Crash, Close, Stopped, ExpireLease, vars, disk
<1>3. \A t \in Thread : th'[t] = th[t] \/ th'[t] = IdleThread
  BY DEF Submit, Cancel, Continue, ExpireAttempt, Start, Crash, Close, Stopped, ExpireLease, vars
<1>4. \/ UNCHANGED attempt
      \/ \E p \in Order : ExpireAttempt(p)
  BY DEF Submit, Cancel, Continue, Start, Crash, Close, Stopped, ExpireLease, vars, fence
<1>5. attempt'[o] = attempt[o] \/ ~Engaged(o)
  <2>1. ASSUME NEW p \in Order, ExpireAttempt(p)
        PROVE  attempt'[o] = attempt[o] \/ ~Engaged(o)
    BY <2>1 DEF ExpireAttempt, Alone, TInv, Tables
  <2> QED
    BY <1>4, <2>1
<1>6. ~Engaged(o) => \A t \in Thread : Mine(t) # o
  BY DEF Engaged
<1> QED
  BY <1>0, <1>1, <1>2, <1>3, <1>5, <1>6 DEF Phase, Mine, IdleThread, Repairing

-----------------------------------------------------------------------------
(* An order does not end before its edits are gone. *)

\* There is no other order whose recovery could keep the store busy.
OneOrder == \A o, p \in Order : o = p

Ended == {"failed", "cancelled", "partial"}

\* The order did not end without delivering, and its worker is not about to end it.
Open(o) == /\ row[o].state \notin Ended
           /\ \A w \in Worker : Mine(w) = o => th[w].pc \notin {"ending", "raise"}

\* A worker whose journal is not empty has come far enough to roll back, and does.
LEMMA OpenWorker ==
    ASSUME TInv, Owners, Alone, OneOrder, Rows, Linked, NEW w \in Worker, NEW o \in Order,
           Phase(o), Open(o), Owed(o), journal[o] # <<>>, WorkerStep(w)
    PROVE  Open(o)'
<1>0. /\ w \in Thread /\ th \in [Thread -> ThreadRec] /\ row \in [Order -> RowRec]
      /\ \A v \in Worker : v = w
      /\ th[w].pc # "idle" => Mine(w) = o
  BY DEF Thread, TInv, Threads, Tables, Alone, Places, Placed, Mine, OneOrder
<1>1. th[w].pc \notin {"picked", "checked", "begin", "plan", "ending", "raise"}
  BY <1>0 DEF Phase, Linked, WorkLinked, Open
<1>2. ~Busy(w) \/ th[w].pc # "rollback"
  <2> SUFFICES ASSUME Busy(w), th[w].pc = "rollback" PROVE FALSE
    OBVIOUS
  <2>1. lock \in Thread /\ lock # w /\ th[lock].pc \in Inside
    BY DEF Busy, TInv, Threads, Locks
  <2>2. lock \in Recoverer
    BY <1>0, <2>1 DEF Thread
  <2>3. th[lock].pc \in {"restore", "clear"} /\ Mine(lock) \in Order
    BY <2>1, <2>2 DEF TInv, Places, Placed, PassPcs, Inside, Dealing, Mine
  <2>4. Holds(lock) /\ Holds(w) /\ Mine(lock) = Mine(w)
    BY <1>0, <2>2, <2>3 DEF Holds, OneOrder
  <2> QED
    BY <1>0, <2>1, <2>4 DEF Owners
<1>3. th[w].pc = "rollback" => Restorable(th[w].journal) /\ th[w].journal # <<>> /\ ~Keeps(Mine(w))
  BY <1>0, IntactRestorable DEF Linked, WorkLinked, Matching, Phase, Owed, Undoable
<1>4. row'[o].state \notin Ended
  <2>1. CASE Next_(w)
    <3>1. PICK p \in Order : row' = [row EXCEPT ![p].state = "planning"]
      BY <2>1 DEF Next_
    <3> QED
      BY <1>0, <3>1 DEF Open, Ended, RowRec
  <2>2. ASSUME NEW s \in {"executing", "verifying", "complete", "needs_agent"}, NEW res,
               row' = WithState(o, s, res)
        PROVE  row'[o].state \notin Ended
    BY <2>2, Stated DEF Ended
  <2>3. CASE StepDone(w)
    BY <1>0, <2>2, <2>3 DEF StepDone
  <2>4. CASE StartVerify(w)
    BY <1>0, <2>2, <2>4 DEF StartVerify
  <2>5. CASE \E s \in {"complete", "needs_agent"} : Deliver(w, s)
    BY <1>0, <2>2, <2>5 DEF Deliver, Open
  <2>6. CASE \/ CheckPlanning(w) \/ ClaimAttempt(w) \/ ClaimBusy(w) \/ PlanFails(w) \/ StartStep(w)
             \/ Patch(w) \/ Patched(w) \/ ApplyFails(w) \/ Unapplied(w) \/ ReviewAsks(w)
             \/ StepFails(w) \/ ClearDelivered(w) \/ ClearDeliveredBusy(w) \/ DropJournal(w)
             \/ Rollback(w) \/ RollbackRefused(w) \/ LoseAttempt(w) \/ UpdateBusy(w) \/ Release(w)
    <3>1. UNCHANGED row
      BY <2>6 DEF CheckPlanning, ClaimAttempt, ClaimBusy, PlanFails, StartStep, Patch, Patched,
         ApplyFails, Unapplied, ReviewAsks, StepFails, ClearDelivered, ClearDeliveredBusy,
         DropJournal, Rollback, RollbackRefused, LoseAttempt, UpdateBusy, Release
    <3> QED
      BY <3>1 DEF Open
  <2>7. ~RowUnavailable(w) /\ ~Begin(w) /\ ~PlanDone(w) /\ ~End(w) /\ ~Raise(w)
        /\ \A s : ~PlanEnds(w, s)
    BY <1>1 DEF RowUnavailable, Begin, PlanDone, End, Raise, PlanEnds
  <2> QED
    BY <2>1, <2>3, <2>4, <2>5, <2>6, <2>7 DEF WorkerStep
<1>5. th'[w].pc \notin {"ending", "raise"}
  <2>1. CASE Quiet(w)
    <3>1. Edge(w)
      BY <2>1, QuietMoves
    <3> QED
      BY <1>1, <1>2, <1>3, <3>1 DEF Edge
  <2>2. CASE Leaves(w)
    BY <2>2, LeavesMoves DEF IdleThread
  <2>3. CASE Next_(w) \/ ClaimAttempt(w) \/ Release(w)
    <3>1. /\ \/ \E p \in Order : th' = [th EXCEPT ![w].pc = "picked", ![w].order = p]
             \/ \E n : th' = [th EXCEPT ![w].pc = "begin", ![w].token = n]
             \/ th' = [th EXCEPT ![w] = IdleThread]
      BY <2>3 DEF Next_, ClaimAttempt, Release
    <3> QED
      BY <1>0, <3>1 DEF ThreadRec, IdleThread
  <2>4. CASE Patched(w) \/ ApplyFails(w) \/ Unapplied(w) \/ Rollback(w) \/ ClearDelivered(w)
    BY <2>4, CommitMoves
  <2>5. CASE Patch(w)
    BY <2>5, PatchMoves DEF Patches
  <2>6. ~DropJournal(w)
    BY <1>3, CommitMoves
  <2> QED
    BY <2>1, <2>2, <2>3, <2>4, <2>5, <2>6 DEF WorkerStep, Quiet, Leaves
<1> QED
  BY <1>0, <1>4, <1>5 DEF Open

\* Recovery closes an order only after its undo, and what a restore finds of the row is
\* what its worker made of it.
LEMMA OpenElse ==
    ASSUME TInv, Owners, Alone, Rows, NEW o \in Order, Phase(o), Open(o), Owed(o),
           \A t \in Thread : ClearJournal(t) => Mine(t) # o,
           \/ \E r \in Recoverer : RecoveryStep(r)
           \/ \E t \in Thread : RestoreStep(t)
           \/ \E p \in Order : Submit(p) \/ Cancel(p) \/ Continue(p) \/ ExpireAttempt(p)
           \/ \E i \in Instance : Start(i) \/ Crash(i) \/ Close(i) \/ Stopped(i)
           \/ \E f \in File : ExpireLease(f)
           \/ UNCHANGED vars
    PROVE  Open(o)'
<1>0. /\ Worker \subseteq Thread /\ Recoverer \subseteq Thread
      /\ row \in [Order -> RowRec] /\ th \in [Thread -> ThreadRec]
  BY DEF Thread, TInv, Tables, Threads
<1>1. ASSUME NEW r \in Recoverer, RecoveryStep(r)
      PROVE  Open(o)'
  <2>1. \A w \in Worker : th'[w] = th[w]
    <3>1. Others(r)
      BY <1>1, ClaimMoves, PassMoves DEF RecoveryStep
    <3> QED
      BY <1>0, <3>1, ThreadAssumption DEF Others
  <2>2. CASE RecoverUpdate(r)
    <3>1. /\ row' = row \/ \E s, res : row' = WithState(Mine(r), s, res) /\
                                       (s \in {"needs_agent", "queued"} \/ th[r].ok)
          /\ th[r].pc = "update"
      BY <2>2 DEF RecoverUpdate
    <3>2. CASE row' = row
      BY <2>1, <3>2 DEF Open, Mine
    <3>3. CASE row' # row
      <4>1. PICK s, res : row' = WithState(Mine(r), s, res) /\
                          (s \in {"needs_agent", "queued"} \/ th[r].ok)
        BY <3>1, <3>3
      <4>2. Mine(r) \in Order
        BY <1>0, <3>1 DEF TInv, Places, Placed, Dealing, Mine
      <4>3. Mine(r) = o => s \in {"needs_agent", "queued"}
        BY <3>1, <4>1 DEF Phase
      <4>4. row'[o].state = row[o].state \/ row'[o].state \in {"needs_agent", "queued"}
        BY <4>1, <4>2, <4>3, Stated
      <4> QED
        BY <2>1, <4>4 DEF Open, Mine, Ended
    <3> QED
      BY <3>2, <3>3
  <2>3. CASE ~RecoverUpdate(r)
    <3>1. UNCHANGED row
      BY <1>1, <2>3 DEF RecoveryStep, StartPass, LoadJournal, RecoverClaim, RecoverBusy,
         RecoverRestore, RecoverRefused, RecoverLost, RecoverAborts, RecoverRelease,
         StartCleanup, Cleanup, EndPass
    <3> QED
      BY <2>1, <3>1 DEF Open, Mine
  <2> QED
    BY <2>2, <2>3
<1>2. ASSUME NEW t \in Thread, RestoreStep(t)
      PROVE  Open(o)'
  <2>1. row'[o].state = row[o].state
    <3>1. row' = row \/ row' = [row EXCEPT ![Mine(t)].result.checkpoint = TRUE]
      BY <1>2 DEF RestoreStep, WriteFile, Checkpoint, ClearJournal
    <3> QED
      BY <1>0, <3>1 DEF RowRec
  <2>2. ASSUME NEW w \in Worker, th'[w].order = o
        PROVE  th'[w].pc \notin {"ending", "raise"}
    <3>1. CASE w # t
      <4>1. th'[w] = th[w]
        BY <1>0, <1>2, <3>1, RestoreMoves DEF RestoreStep, Others
      <4> QED
        BY <2>2, <4>1 DEF Open, Mine
    <3>2. CASE w = t /\ WriteFile(t)
      BY <3>2, RestoreMoves
    <3>3. CASE w = t /\ Checkpoint(t)
      <4>1. Mine(t) = o /\ th[t].pc = "restore"
        BY <2>2, <3>3, RestoreMoves DEF Still, Mine
      <4>2. row[Mine(t)].state \in Transient
        BY <3>3, <4>1 DEF Rows, WorkRow, Underway, Owed
      <4>3. th'[t].pc = "clear"
        BY <3>3, <4>2, RestoreMoves
      <4> QED
        BY <3>3, <4>3
    <3>4. CASE w = t /\ ClearJournal(t)
      BY <2>2, <3>4, RestoreMoves DEF Mine
    <3> QED
      BY <1>2, <3>1, <3>2, <3>3, <3>4 DEF RestoreStep
  <2> QED
    BY <2>1, <2>2 DEF Open, Mine
<1>3. CASE \/ \E p \in Order : Submit(p) \/ Cancel(p) \/ Continue(p) \/ ExpireAttempt(p)
           \/ \E i \in Instance : Start(i) \/ Crash(i) \/ Close(i) \/ Stopped(i)
           \/ \E f \in File : ExpireLease(f)
           \/ UNCHANGED vars
  <2>1. row'[o].state \in {row[o].state, "queued"}
    <3>1. \/ row' = row
          \/ \E p \in Order, q \in Requests :
                row' = [row EXCEPT ![p].state = "queued", ![p].request = q]
          \/ \E p \in Order : row' = [row EXCEPT ![p].cancel = TRUE]
          \/ \E p \in Order : row' = [row EXCEPT ![p].state = "queued", ![p].answered = TRUE]
      BY <1>3 DEF Submit, Cancel, Continue, ExpireAttempt, Start, Crash, Close, Stopped,
         ExpireLease, vars
    <3>2. ASSUME NEW p \in Order, NEW q,
                 row' = [row EXCEPT ![p].state = "queued", ![p].request = q]
          PROVE  row'[o].state \in {row[o].state, "queued"}
      BY <1>0, <3>2 DEF RowRec
    <3>3. ASSUME NEW p \in Order, row' = [row EXCEPT ![p].cancel = TRUE]
          PROVE  row'[o].state \in {row[o].state, "queued"}
      BY <1>0, <3>3 DEF RowRec
    <3>4. ASSUME NEW p \in Order,
                 row' = [row EXCEPT ![p].state = "queued", ![p].answered = TRUE]
          PROVE  row'[o].state \in {row[o].state, "queued"}
      BY <1>0, <3>4 DEF RowRec
    <3> QED
      BY <3>1, <3>2, <3>3, <3>4
  <2>2. \A t \in Thread : th'[t] = th[t] \/ th'[t] = IdleThread
    BY <1>3 DEF Submit, Cancel, Continue, ExpireAttempt, Start, Crash, Close, Stopped, ExpireLease, vars
  <2>3. IdleThread.pc = "idle"
    BY DEF IdleThread
  <2> QED
    BY <1>0, <2>1, <2>2, <2>3 DEF Open, Ended, Mine
<1> QED
  BY <1>1, <1>2, <1>3

\* In the steps that do not take the edits away
LEMMA OpenNext ==
    ASSUME TInv, Owners, Alone, OneOrder, Rows, Linked, [Next]_vars, NEW o \in Order,
           Phase(o), Open(o), Owed(o), journal[o] # <<>>,
           \A t \in Thread : ClearJournal(t) => Mine(t) # o
    PROVE  Open(o)'
BY OpenWorker, OpenElse DEF Next

\* An order that is patched has not ended.
LEMMA OpenPatch ==
    ASSUME TInv, Alone, Rows, NEW w \in Worker, Patch(w), Owed(Mine(w)), NEW o, o = Mine(w)
    PROVE  Open(o)'
<1>1. /\ th[w].pc \in {"body", "verify"} /\ UNCHANGED row /\ th'[w].pc = "apply"
  BY PatchMoves DEF Patches
<1>2. row[o].state \in Transient
  BY <1>1 DEF Rows, WorkRow, Underway, Owed
<1> QED
  BY <1>1, <1>2 DEF Open, Ended, Transient, Alone

-----------------------------------------------------------------------------
(* What may still come into the workspace.  A trace A gives each file the  *)
(* contents it has, is about to get, or may get back when a journal is      *)
(* walked.  Which contents these are is not said by a formula, since what   *)
(* walks lead to is a closure; the invariant is that a trace exists.        *)

Trace == [File -> SUBSET Version]

\* An entry of a journal leads back within the trace, to an older version.
Sound(j, A, n) ==
    \A k \in DOMAIN j :
        /\ j[k].pre.n < j[k].post.n /\ j[k].post.n <= n /\ ~j[k].post.torn
        /\ j[k].post \in A[j[k].file] => j[k].pre \in A[j[k].file]

\* The journals that a thread may walk
Walks(t) == t \in Worker \/ th[t].pc \in Dealing

\* What thread t does stays within the trace.
Within(A, t) ==
    /\ Walks(t) => Sound(th[t].journal, A, patches)
    /\ th[t].pc \in Inside => \A f \in DOMAIN th[t].todo : th[t].todo[f] \in A[f]

Traced(A) ==
    /\ \A f \in File : file[f] \in A[f] /\ \A v \in A[f] : v.n <= patches
    /\ \A o \in Order : Sound(journal[o], A, patches)
    /\ \A t \in Thread : Within(A, t)

\* Versions of order o in the trace
Stains(A, o) == \E f \in File : \E v \in A[f] : v.by = o

\* Journal j leads every file back to before the edits of order o.
Covers(j, A, o) ==
    \A f \in File : \A v \in A[f] : v.by = o =>
        \E k \in DOMAIN j : j[k].file = f /\ First(j, k) /\ j[k].pre.n < v.n

\* The journal of an order covers what the order did, as long as that is owed.
Charged(A, o) ==
    /\ row[o].state # "absent"
    /\ Owed(o) => /\ Covers(journal[o], A, o) /\ Phase(o)
                  /\ OneOrder => Open(o)

Shadow(A) == Traced(A) /\ \A o \in Order : Stains(A, o) => Charged(A, o)

\* A journal that covers something is not empty.
LEMMA CoversNot ==
    ASSUME NEW A, NEW o, Stains(A, o)
    PROVE  ~Covers(<<>>, A, o)
BY DEF Stains, Covers

\* An empty journal
LEMMA SoundEmpty == \A A, n : Sound(<<>>, A, n)
BY DEF Sound

\* Where an accepted walk leads is in the trace.
LEMMA WalkWithin ==
    ASSUME NEW A \in Trace, NEW j \in Journals, NEW n, Sound(j, A, n), Restorable(j),
           \A f \in File : file[f] \in A[f]
    PROVE  \A f \in DOMAIN RestorePlan(j) : RestorePlan(j)[f] \in A[f]
<1>0. /\ Len(j) \in Nat /\ DOMAIN j = 1..Len(j)
      /\ \A k \in DOMAIN j : j[k].file \in File
  BY JournalIndices DEF Entry
<1> DEFINE S == {k \in DOMAIN j : j[k].pre \notin A[j[k].file]}
<1>1. S = {}
  <2> SUFFICES ASSUME S # {} PROVE FALSE
    OBVIOUS
  <2>1. PICK m \in S : \A k \in S : k <= m
    <3>1. S \in SUBSET (0..Len(j))
      BY <1>0
    <3> QED
      BY <1>0, <3>1, MaxIndex
  <2>2. m \in DOMAIN j /\ j[m].pre \notin A[j[m].file]
    BY <2>1
  <2>3. Found(j, m) \in A[j[m].file]
    <3>1. ASSUME NEW l \in Later(j, m)
          PROVE  j[l].pre \in A[j[m].file]
      <4>1. l \in DOMAIN j /\ l > m /\ j[l].file = j[m].file
        BY DEF Later
      <4>2. l \notin S
        BY <1>0, <2>1, <2>2, <4>1
      <4> QED
        BY <4>1, <4>2
    <3> QED
      BY <1>0, <2>2, <3>1, FoundType
  <2>4. m \in Restored(j)
    BY <2>2, <2>3 DEF Restored
  <2>5. Found(j, m) = j[m].post
    BY <2>4 DEF Restorable
  <2> QED
    BY <2>2, <2>3, <2>5 DEF Sound
<1>2. ASSUME NEW f \in DOMAIN RestorePlan(j)
      PROVE  RestorePlan(j)[f] \in A[f]
  <2>1. PICK k \in DOMAIN j : j[k].file = f /\ RestorePlan(j)[f] = j[k].pre
    BY PlanFirst
  <2> QED
    BY <1>1, <2>1
<1> QED
  BY <1>2

\* Where the undo of a failed patch leads is in the trace.
LEMMA PartWithin ==
    ASSUME TInv, Linked, NEW A \in Trace, Traced(A), NEW w \in Worker, th[w].pc = "apply"
    PROVE  \A f \in DOMAIN RestorePlan(Added(w)) : RestorePlan(Added(w))[f] \in A[f]
<1> DEFINE j == th[w].journal
           n == th[w].start
           new == SubSeq(j, n + 1, Len(j))
<1>0. w \in Thread
  BY DEF Thread
<1>1. j \in Journals /\ n \in 0..Len(j) /\ DOMAIN j = 1..Len(j) /\ Len(j) \in Nat
  <2>1. j \in Journals /\ Placed(w, th[w])
    BY DEF TInv, Threads, ThreadRec, Thread, Places
  <2> QED
    BY <2>1, JournalIndices DEF Placed
<1>2. Patchable(w)
  BY DEF Linked, WorkLinked
<1>3. \A k \in n + 1..Len(j) : Tip(th[w].todo, file, j[k].file) = j[k].post
  BY <1>2 DEF Patchable
<1>4. Within(A, w) /\ (\A f \in File : file[f] \in A[f]) /\ \A k \in DOMAIN j : j[k].file \in File
  BY <1>0, <1>1, JournalIndices DEF Traced, Entry
<1>5. Sound(j, A, patches) /\ \A f \in DOMAIN th[w].todo : th[w].todo[f] \in A[f]
  BY <1>4 DEF Within, Walks, Inside
<1> HIDE DEF j, n
<1>6. \A k \in n + 1..Len(j) : j[k].pre \in A[j[k].file]
  <2> TAKE k \in n + 1..Len(j)
  <2>1. k \in DOMAIN j
    BY <1>1
  <2>2. j[k].post \in A[j[k].file]
    BY <1>3, <1>4, <1>5, <2>1 DEF Tip
  <2> QED
    BY <1>5, <2>1, <2>2 DEF Sound
<1>7. new \in Journals /\ Len(new) = Len(j) - n /\ \A k \in 1..(Len(j) - n) : new[k] = j[n + k]
  BY <1>1, PartShape
<1>8. DOMAIN new = 1..(Len(j) - n)
  BY <1>7, JournalIndices
<1> HIDE DEF new
<1>9. \A i \in DOMAIN new : new[i].pre \in A[new[i].file]
  <2> TAKE i \in DOMAIN new
  <2>1. n + i \in n + 1..Len(j) /\ new[i] = j[n + i]
    BY <1>1, <1>7, <1>8
  <2> QED
    BY <1>6, <2>1
<1>10. \A f \in DOMAIN RestorePlan(new) : RestorePlan(new)[f] \in A[f]
  BY <1>7, <1>9, PlanFirst
<1> QED
  BY <1>10 DEF Added, new, j, n

\* Steps that keep the workspace
LEMMA TracedStep ==
    ASSUME NEW A \in Trace, Traced(A), NEW t \in Thread, Others(t), UNCHANGED <<file, patches>>,
           \A o \in Order : journal'[o] \in {journal[o], <<>>},
           t \in Worker \/ th'[t].pc \in Dealing => Sound(th'[t].journal, A, patches),
           th'[t].pc \in Inside => \A f \in DOMAIN th'[t].todo : th'[t].todo[f] \in A[f]
    PROVE  Traced(A)'
<1>1. \A o \in Order : Sound(journal'[o], A, patches')
  BY SoundEmpty DEF Traced
<1>2. ASSUME NEW u \in Thread
      PROVE  Within(A, u)'
  BY <1>2 DEF Traced, Within, Walks, Others
<1> QED
  BY <1>1, <1>2 DEF Traced

\* In a plain step of a worker, contents stay within the trace.
LEMMA TracedWorker ==
    ASSUME TInv, Owners, Linked, NEW A \in Trace, Traced(A), NEW w \in Worker, WorkerStep(w),
           ~Patch(w), ~Unapplied(w)
    PROVE  Traced(A)'
<1>0. /\ w \in Thread /\ th \in [Thread -> ThreadRec] /\ journal \in [Order -> Journals]
      /\ th[w].journal \in Journals
  BY DEF Thread, TInv, Threads, Tables, ThreadRec
<1>1. Sound(th[w].journal, A, patches) /\ Sound(<<>>, A, patches)
  BY <1>0, SoundEmpty DEF Traced, Within, Walks
<1>2. ASSUME Others(w), UNCHANGED <<file, patches>>, \A o \in Order : journal'[o] \in {journal[o], <<>>},
             th'[w].journal \in {th[w].journal, <<>>}, th'[w].pc \notin Inside
      PROVE  Traced(A)'
  BY <1>0, <1>1, <1>2, TracedStep
<1>3. CASE Quiet(w)
  <2>1. /\ UNCHANGED <<file, journal, patches>> /\ Still(w) /\ Others(w) /\ Edge(w)
    BY <1>3, QuietMoves
  <2>2. th'[w].pc \notin Inside
    BY <2>1 DEF Edge, Inside
  <2> QED
    BY <1>2, <2>1, <2>2 DEF Still
<1>4. CASE Leaves(w)
  BY <1>2, <1>4, LeavesMoves DEF IdleThread, Inside
<1>5. CASE Next_(w) \/ ClaimAttempt(w) \/ Release(w)
  <2>1. UNCHANGED <<file, journal, patches>>
    BY <1>5 DEF Next_, ClaimAttempt, Release, disk, env
  <2>2. /\ \/ \E o \in Order : th' = [th EXCEPT ![w].pc = "picked", ![w].order = o]
           \/ \E n : th' = [th EXCEPT ![w].pc = "begin", ![w].token = n]
           \/ th' = [th EXCEPT ![w] = IdleThread]
    BY <1>5 DEF Next_, ClaimAttempt, Release
  <2>3. th'[w].pc \notin Inside /\ th'[w].journal \in {th[w].journal, <<>>} /\ Others(w)
    BY <1>0, <2>2 DEF ThreadRec, IdleThread, Inside, Others
  <2> QED
    BY <1>2, <2>1, <2>3
<1>6. CASE Patched(w)
  BY <1>2, <1>6, CommitMoves DEF Still, Inside
<1>7. CASE ApplyFails(w)
  <2>1. /\ th[w].pc = "apply" /\ th'[w].todo = RestorePlan(Added(w)) /\ Still(w) /\ Others(w)
        /\ UNCHANGED <<file, journal, patches>>
    BY <1>7, CommitMoves
  <2> DEFINE d == RestorePlan(Added(w))
  <2>2. th'[w].todo = d /\ \A f \in DOMAIN d : d[f] \in A[f]
    BY <2>1, PartWithin
  <2> HIDE DEF d
  <2> QED
    BY <1>0, <1>1, <2>1, <2>2, TracedStep DEF Still
<1>8. CASE Rollback(w)
  <2>1. /\ th'[w].todo = RestorePlan(th[w].journal) /\ Still(w) /\ Others(w)
        /\ UNCHANGED <<file, journal, patches>> /\ Restorable(th[w].journal)
    BY <1>8, CommitMoves
  <2> DEFINE d == RestorePlan(th[w].journal)
  <2>2. \A f \in File : file[f] \in A[f]
    BY DEF Traced
  <2>3. th'[w].todo = d /\ \A f \in DOMAIN d : d[f] \in A[f]
    BY <1>0, <1>1, <2>1, <2>2, WalkWithin
  <2> HIDE DEF d
  <2> QED
    BY <1>0, <1>1, <2>1, <2>3, TracedStep DEF Still
<1>9. CASE ClearDelivered(w) \/ DropJournal(w)
  <2>1. /\ th'[w].pc \in {"release", "ending"} /\ Still(w) /\ Others(w) /\ UNCHANGED <<file, patches>>
        /\ journal' \in {journal, [journal EXCEPT ![Mine(w)] = <<>>]}
    BY <1>9, CommitMoves
  <2>2. \A o \in Order : journal'[o] \in {journal[o], <<>>}
    BY <1>0, <2>1
  <2> QED
    BY <1>2, <2>1, <2>2 DEF Still, Inside
<1> QED
  BY <1>3, <1>4, <1>5, <1>6, <1>7, <1>8, <1>9 DEF WorkerStep, Quiet, Leaves

\* In a step of a recovery pass
LEMMA TracedPass ==
    ASSUME TInv, NEW A \in Trace, Traced(A), NEW r \in Recoverer, RecoveryStep(r)
    PROVE  Traced(A)'
<1>0. /\ r \in Thread /\ r \notin Worker /\ th \in [Thread -> ThreadRec]
      /\ journal \in [Order -> Journals] /\ th[r].journal \in Journals
  BY ThreadAssumption DEF Thread, TInv, Threads, Tables, ThreadRec
<1>1. Others(r)
  BY ClaimMoves, PassMoves DEF RecoveryStep
<1>2. UNCHANGED <<file, patches>>
  BY DEF RecoveryStep, StartPass, LoadJournal, RecoverClaim, RecoverBusy, RecoverRestore,
     RecoverRefused, RecoverUpdate, RecoverLost, RecoverAborts, RecoverRelease, StartCleanup,
     Cleanup, EndPass, disk, env
<1>3. th[r].pc \in Dealing => Sound(th[r].journal, A, patches)
  BY <1>0 DEF Traced, Within, Walks
<1>4. \A o \in Order : journal'[o] \in {journal[o], <<>>}
  <2>1. CASE Cleanup(r)
    <3>1. PICK p \in th[r].rows : journal' \in {journal, [journal EXCEPT ![p] = <<>>]}
      BY <2>1 DEF Cleanup
    <3> QED
      BY <1>0, <3>1
  <2>2. CASE ~Cleanup(r)
    BY <2>2 DEF RecoveryStep, StartPass, LoadJournal, RecoverClaim, RecoverBusy, RecoverRestore,
       RecoverRefused, RecoverUpdate, RecoverLost, RecoverAborts, RecoverRelease, StartCleanup,
       EndPass, disk
  <2> QED
    BY <2>1, <2>2
<1>5. ASSUME th'[r].pc \in Dealing => Sound(th'[r].journal, A, patches), th'[r].pc \notin Inside
      PROVE  Traced(A)'
  BY <1>0, <1>1, <1>2, <1>4, <1>5, TracedStep
<1>6. CASE \/ StartPass(r) \/ RecoverBusy(r) \/ RecoverAborts(r) \/ RecoverRelease(r)
           \/ StartCleanup(r) \/ Cleanup(r) \/ EndPass(r)
  <2>1. th'[r].pc \in {"pass", "idle", "cleanup"}
    BY <1>6, PassMoves DEF IdleThread
  <2> QED
    BY <1>5, <2>1 DEF Dealing, Inside
<1>7. CASE RecoverRefused(r) \/ RecoverUpdate(r) \/ RecoverLost(r)
  BY <1>3, <1>5, <1>7, PassMoves DEF Still, Dealing, Inside
<1>8. CASE LoadJournal(r)
  <2>1. th[r].pc = "pass" /\ th[r].rows \subseteq Picked
    BY <1>0, <1>8 DEF LoadJournal, TInv, Places, Placed
  <2>2. PICK q \in th[r].rows :
          th' = [th EXCEPT ![r].pc = "loaded", ![r].rows = @ \ {q},
                           ![r].order = q.order, ![r].seen = q.state,
                           ![r].result = q.result,
                           ![r].journal = journal[q.order]]
    BY <1>8 DEF LoadJournal
  <2>3. th'[r].pc = "loaded" /\ th'[r].journal = journal[q.order]
    BY <1>0, <2>2 DEF ThreadRec
  <2>4. q.order \in Order
    BY <2>1 DEF Picked
  <2> QED
    BY <1>5, <2>3, <2>4 DEF Traced, Inside
<1>9. CASE RecoverClaim(r)
  <2>1. th[r].pc = "loaded" /\ th'[r].journal = th[r].journal
        /\ th'[r].pc \in {"pass", "update", "claimed"}
    BY <1>9, ClaimMoves
  <2> QED
    BY <1>3, <1>5, <2>1 DEF Dealing, Inside
<1>10. CASE RecoverRestore(r)
  <2>1. /\ th[r].pc = "claimed" /\ th'[r].todo = RestorePlan(th[r].journal) /\ Still(r)
        /\ Restorable(th[r].journal)
    BY <1>10, PassMoves DEF RecoverRestore
  <2> DEFINE d == RestorePlan(th[r].journal)
  <2>2. (\A f \in File : file[f] \in A[f]) /\ Sound(th[r].journal, A, patches)
    BY <1>3, <2>1 DEF Traced, Dealing
  <2>3. th'[r].todo = d /\ \A f \in DOMAIN d : d[f] \in A[f]
    BY <1>0, <2>1, <2>2, WalkWithin
  <2> HIDE DEF d
  <2> QED
    BY <1>0, <1>1, <1>2, <1>4, <2>1, <2>2, <2>3, TracedStep DEF Still
<1> QED
  BY <1>6, <1>7, <1>8, <1>9, <1>10 DEF RecoveryStep

\* In the steps inside commit_guard, up to the end of a rollback
LEMMA TracedRestore ==
    ASSUME TInv, NEW A \in Trace, Traced(A), NEW t \in Thread, WriteFile(t) \/ Checkpoint(t)
    PROVE  Traced(A)'
<1>0. th \in [Thread -> ThreadRec] /\ file \in [File -> Version]
  BY DEF TInv, Threads, Tables
<1>1. /\ Still(t) /\ Others(t) /\ UNCHANGED <<journal, patches>>
      /\ th[t].pc \in {"apply", "unapply", "restore"}
  BY RestoreMoves DEF WriteFile, Checkpoint, disk, env
<1>2. Walks(t) /\ Within(A, t)
  <2>1. Within(A, t)
    BY DEF Traced
  <2>2. t \in Recoverer => th[t].pc \in Dealing
    BY <1>1 DEF TInv, Places, Placed, PassPcs, Dealing
  <2> QED
    BY <2>1, <2>2 DEF Walks, Thread
<1>3. Sound(th[t].journal, A, patches)
  BY <1>2 DEF Within
<1>4. CASE WriteFile(t)
  <2>1. PICK f \in DOMAIN th[t].todo :
          /\ file' = [file EXCEPT ![f] = th[t].todo[f]]
          /\ th' = [th EXCEPT ![t].todo = [g \in DOMAIN th[t].todo \ {f} |-> th[t].todo[g]]]
    BY <1>4 DEF WriteFile
  <2> DEFINE d == [g \in DOMAIN th[t].todo \ {f} |-> th[t].todo[g]]
  <2>2. \A g \in DOMAIN th[t].todo : th[t].todo[g] \in A[g]
    BY <1>1, <1>2 DEF Within, Inside
  <2>3. \A g \in File : file'[g] \in A[g]
    BY <1>0, <2>1, <2>2 DEF Traced
  <2>4. \A g \in DOMAIN d : d[g] \in A[g]
    BY <2>2
  <2>5. th' = [th EXCEPT ![t].todo = d]
    BY <2>1
  <2> HIDE DEF d
  <2>6. th'[t].todo = d
    BY <1>0, <2>5
  <2>7. Within(A, t)'
    BY <1>1, <1>3, <2>4, <2>6 DEF Within, Still
  <2>8. \A u \in Thread : Within(A, u)'
    <3> TAKE u \in Thread
    <3>1. CASE u # t
      <4>1. th'[u] = th[u] /\ Within(A, u)
        BY <1>1, <3>1 DEF Others, Traced
      <4> QED
        BY <1>1, <4>1 DEF Within, Walks
    <3> QED
      BY <2>7, <3>1
  <2> QED
    BY <1>1, <2>3, <2>8 DEF Traced
<1>5. CASE Checkpoint(t)
  <2>1. th'[t].pc \in Inside => th'[t].todo = Nothing
    BY <1>5, RestoreMoves DEF Inside
  <2>2. UNCHANGED file
    BY <1>5 DEF Checkpoint, disk
  <2> QED
    BY <1>1, <1>3, <2>1, <2>2, TracedStep DEF Still, Nothing
<1> QED
  BY <1>4, <1>5

\* In a step of a caller, of a process or of time that tears no file
LEMMA TracedOutside ==
    ASSUME NEW A \in Trace, Traced(A), UNCHANGED file,
           \/ \E p \in Order : Submit(p) \/ Cancel(p) \/ Continue(p) \/ ExpireAttempt(p)
           \/ \E i \in Instance : Start(i) \/ Crash(i) \/ Close(i) \/ Stopped(i)
           \/ \E f \in File : ExpireLease(f)
           \/ UNCHANGED vars
    PROVE  Traced(A)'
<1>1. UNCHANGED <<journal, patches>>
  BY DEF Submit, Cancel, Continue, ExpireAttempt, Start, Crash, Close, Stopped, ExpireLease, vars, disk, env
<1>2. \A t \in Thread : th'[t] = th[t] \/ th'[t] = IdleThread
  BY DEF Submit, Cancel, Continue, ExpireAttempt, Start, Crash, Close, Stopped, ExpireLease, vars
<1>3. \A t \in Thread : Within(A, t)'
  BY <1>1, <1>2, SoundEmpty DEF Traced, Within, Walks, IdleThread, Inside
<1> QED
  BY <1>1, <1>3 DEF Traced

-----------------------------------------------------------------------------
(* Every step leads from a trace to a trace. *)

\* What B has of order o, A has too, torn or not.
Fewer(B, A, o) == \A f \in File : \A v \in B[f] : v.by = o => \E u \in A[f] : u.by = o /\ u.n = v.n

\* A journal that covers more covers less.
LEMMA FewerCovers ==
    ASSUME NEW A, NEW B, NEW o, Fewer(B, A, o)
    PROVE  /\ Stains(B, o) => Stains(A, o)
           /\ \A j : Covers(j, A, o) => Covers(j, B, o)
<1>1. Stains(B, o) => Stains(A, o)
  BY DEF Fewer, Stains
<1>2. ASSUME NEW j, Covers(j, A, o), NEW f \in File, NEW v \in B[f], v.by = o
      PROVE  \E k \in DOMAIN j : j[k].file = f /\ First(j, k) /\ j[k].pre.n < v.n
  <2>1. PICK u \in A[f] : u.by = o /\ u.n = v.n
    BY <1>2 DEF Fewer
  <2>2. PICK k \in DOMAIN j : j[k].file = f /\ First(j, k) /\ j[k].pre.n < u.n
    BY <1>2, <2>1 DEF Covers
  <2> QED
    BY <2>1, <2>2
<1> QED
  BY <1>1, <1>2 DEF Covers

\* The steps that change the journal of an order that is owed its edits
Special(o) == \/ \E w \in Worker : (Patch(w) \/ Unapplied(w)) /\ Mine(w) = o
              \/ \E t \in Thread : ClearJournal(t) /\ Mine(t) = o

\* No other step changes it.
LEMMA JournalKept ==
    ASSUME TInv, Owners, Rows, [Next]_vars, NEW o \in Order, ~Special(o),
           Phase(o), Owed(o), journal[o] # <<>>
    PROVE  journal'[o] = journal[o]
<1>0. journal \in [Order -> Journals]
  BY DEF TInv, Tables
<1>1. ASSUME NEW p, journal' \in {journal, [journal EXCEPT ![p] = <<>>]}, p # o
      PROVE  journal'[o] = journal[o]
  BY <1>0, <1>1
<1>2. ASSUME NEW w \in Worker, WorkerStep(w)
      PROVE  journal'[o] = journal[o]
  <2>1. CASE ClearDelivered(w)
    <3>1. Mine(w) # o /\ journal' \in {journal, [journal EXCEPT ![Mine(w)] = <<>>]}
      BY <2>1, CommitMoves DEF Rows, WorkRow, Owed
    <3> QED
      BY <1>1, <3>1
  <2>2. CASE DropJournal(w)
    <3>1. /\ th[w].journal = <<>> \/ Keeps(Mine(w))
          /\ th[w].pc = "rollback" /\ journal' = [journal EXCEPT ![Mine(w)] = <<>>]
      BY <2>2, CommitMoves
    <3>2. Mine(w) # o
      BY <3>1 DEF Phase, Owed, Undoable
    <3> QED
      BY <1>1, <3>1, <3>2
  <2>3. CASE Patch(w)
    <3>1. PICK P \in (SUBSET File) \ {{}} : Patches(w, P)
      BY <2>3, PatchMoves
    <3> DEFINE j == Extended(w, P)
    <3>2. journal' = [journal EXCEPT ![Mine(w)] = j]
      BY <3>1 DEF Patches
    <3> HIDE DEF j
    <3>3. Mine(w) # o
      BY <2>3 DEF Special
    <3> QED
      BY <1>0, <3>2, <3>3
  <2>4. CASE Unapplied(w)
    <3> DEFINE j == Earlier(w)
    <3>1. journal' = [journal EXCEPT ![Mine(w)] = j] /\ Mine(w) # o
      BY <2>4 DEF Unapplied, Special
    <3> HIDE DEF j
    <3> QED
      BY <1>0, <3>1
  <2>5. CASE Quiet(w) \/ Leaves(w)
    BY <2>5, QuietMoves, LeavesMoves
  <2>6. CASE Patched(w) \/ ApplyFails(w) \/ Rollback(w)
    BY <2>6, CommitMoves
  <2>7. CASE Next_(w) \/ ClaimAttempt(w) \/ Release(w)
    BY <2>7 DEF Next_, ClaimAttempt, Release, disk
  <2> QED
    BY <1>2, <2>1, <2>2, <2>3, <2>4, <2>5, <2>6, <2>7 DEF WorkerStep, Quiet, Leaves
<1>3. ASSUME NEW r \in Recoverer, RecoveryStep(r)
      PROVE  journal'[o] = journal[o]
  <2>1. CASE Cleanup(r)
    <3>1. PICK p \in th[r].rows : \/ journal' = journal
                                  \/ row[p].state = "complete" /\ journal' = [journal EXCEPT ![p] = <<>>]
      BY <2>1 DEF Cleanup
    <3> QED
      BY <1>1, <3>1 DEF Owed, Delivered
  <2>2. CASE ~Cleanup(r)
    BY <1>3, <2>2 DEF RecoveryStep, StartPass, LoadJournal, RecoverClaim, RecoverBusy, RecoverRestore,
       RecoverRefused, RecoverUpdate, RecoverLost, RecoverAborts, RecoverRelease, StartCleanup,
       EndPass, disk
  <2> QED
    BY <2>1, <2>2
<1>4. ASSUME NEW t \in Thread, RestoreStep(t)
      PROVE  journal'[o] = journal[o]
  <2>1. CASE ClearJournal(t)
    <3>1. Mine(t) # o /\ journal' = [journal EXCEPT ![Mine(t)] = <<>>]
      BY <2>1 DEF Special, ClearJournal
    <3> QED
      BY <1>1, <3>1
  <2>2. CASE WriteFile(t) \/ Checkpoint(t)
    BY <2>2 DEF WriteFile, Checkpoint, disk
  <2> QED
    BY <1>4, <2>1, <2>2 DEF RestoreStep
<1>5. CASE \/ \E p \in Order : Submit(p) \/ Cancel(p) \/ Continue(p) \/ ExpireAttempt(p)
           \/ \E i \in Instance : Start(i) \/ Crash(i) \/ Close(i) \/ Stopped(i)
           \/ \E f \in File : ExpireLease(f)
           \/ UNCHANGED vars
  BY <1>5 DEF Submit, Cancel, Continue, ExpireAttempt, Start, Crash, Close, Stopped, ExpireLease, vars, disk
<1> QED
  BY <1>2, <1>3, <1>4, <1>5 DEF Next

\* Where the journal of an order stays, it still covers what the order did.
LEMMA ChargedKept ==
    ASSUME TInv, Owners, Alone, Rows, Linked, [Next]_vars,
           NEW o \in Order, ~Special(o), NEW A, NEW B, Fewer(B, A, o),
           Stains(A, o) => Charged(A, o), Stains(B, o)
    PROVE  Charged(B, o)'
<1>1. Stains(A, o) /\ Charged(A, o) /\ (Covers(journal[o], A, o) => Covers(journal[o], B, o))
  BY FewerCovers
<1>2. row'[o].state # "absent"
  BY <1>1, RowMoves, HandedOverStays DEF Charged, Rows
<1>3. ASSUME Owed(o)'
      PROVE  /\ journal'[o] = journal[o] /\ Covers(journal[o], B, o) /\ Phase(o)'
             /\ OneOrder => Open(o)'
  <2>1. Owed(o)
    BY <1>1, <1>3, RowMoves, OwedStays DEF Charged, Rows
  <2>2. Covers(journal[o], A, o) /\ Phase(o)
    BY <1>1, <2>1 DEF Charged
  <2>3. journal[o] # <<>>
    BY <1>1, <2>2, CoversNot
  <2>4. journal'[o] = journal[o]
    BY <2>1, <2>2, <2>3, JournalKept
  <2>5. ASSUME NEW w \in Worker, WorkerStep(w)
        PROVE  Phase(o)'
    <3>1. Patch(w) => Mine(w) # o
      BY DEF Special
    <3> QED
      BY <1>3, <2>1, <2>2, <2>3, <2>5, <3>1, PhaseWorker
  <2>6. ASSUME NEW r \in Recoverer, RecoveryStep(r)
        PROVE  Phase(o)'
    BY <1>3, <2>1, <2>2, <2>3, <2>6, PhasePass
  <2>7. ASSUME NEW t \in Thread, RestoreStep(t)
        PROVE  Phase(o)'
    <3>1. ClearJournal(t) => Mine(t) # o
      BY DEF Special
    <3> QED
      BY <1>3, <2>1, <2>2, <2>7, <3>1, PhaseRestore
  <2>8. ASSUME \/ \E p \in Order : Submit(p) \/ Cancel(p) \/ Continue(p) \/ ExpireAttempt(p)
               \/ \E i \in Instance : Start(i) \/ Crash(i) \/ Close(i) \/ Stopped(i)
               \/ \E f \in File : ExpireLease(f)
               \/ UNCHANGED vars
        PROVE  Phase(o)'
    BY <1>3, <2>2, <2>8, PhaseOutside
  <2>9. Phase(o)'
    BY <2>5, <2>6, <2>7, <2>8 DEF Next
  <2>10. OneOrder => Open(o)'
    <3>1. \A t \in Thread : ClearJournal(t) => Mine(t) # o
      BY DEF Special
    <3>2. OneOrder => Open(o)
      BY <1>1, <2>1 DEF Charged
    <3> QED
      BY <2>1, <2>2, <2>3, <3>1, <3>2, OpenNext
  <2> QED
    BY <1>1, <2>2, <2>4, <2>9, <2>10
<1> QED
  BY <1>2, <1>3 DEF Charged

\* One step changes one journal.
LEMMA SpecialOnce ==
    ASSUME TInv, Owners, Alone, [Next]_vars
    PROVE  /\ \A w \in Worker : Patch(w) \/ Unapplied(w) =>
                 \A o \in Order : Special(o) => o = Mine(w)
           /\ \A t \in Thread : ClearJournal(t) =>
                 \A o \in Order : Special(o) => o = Mine(t)
           /\ \A i \in Instance : Crash(i) => \A o \in Order : ~Special(o)
<1>0. Worker \subseteq Thread
  BY DEF Thread
<1>1. ASSUME NEW t \in Thread, th[t].pc \in Inside
      PROVE  lock = t
  BY <1>1 DEF TInv, Locks
<1>2. \A w \in Worker : Patch(w) => lock = None
  BY PatchMoves DEF Guarded
<1>3. \A w \in Worker : Unapplied(w) => lock = w /\ th[w].pc = "unapply"
  BY <1>0, <1>1 DEF Unapplied, Inside
<1>4. \A t \in Thread : ClearJournal(t) => lock = t /\ th[t].pc = "clear"
  BY <1>1 DEF ClearJournal, Inside
<1>5. None \notin Thread
  BY ThreadAssumption
<1>6. ASSUME NEW i \in Instance, Crash(i), NEW o \in Order, Special(o)
      PROVE  FALSE
  <2>1. \A t \in Thread : th'[t] = th[t] \/ th'[t].pc = "idle"
    BY <1>6 DEF Crash, IdleThread
  <2>2. UNCHANGED patches /\ patches \in Nat
    BY <1>6, BoundAssumption DEF Crash, TInv, Tables
  <2>3. \A w \in Worker : ~Patch(w)
    BY <2>2, PatchMoves
  <2>4. \A w \in Worker : ~Unapplied(w)
    BY <1>0, <2>1, CommitMoves
  <2>5. \A t \in Thread : ~ClearJournal(t)
    BY <2>1, RestoreMoves
  <2> QED
    BY <1>6, <2>3, <2>4, <2>5 DEF Special
<1>7. ASSUME NEW w \in Worker, Patch(w) \/ Unapplied(w), NEW o \in Order, Special(o)
      PROVE  o = Mine(w)
  BY <1>0, <1>2, <1>3, <1>4, <1>5, <1>7 DEF Special, Alone
<1>8. ASSUME NEW t \in Thread, ClearJournal(t), NEW o \in Order, Special(o)
      PROVE  o = Mine(t)
  BY <1>0, <1>2, <1>3, <1>4, <1>5, <1>8 DEF Special
<1> QED
  BY <1>6, <1>7, <1>8

\* The other steps keep the trace.
LEMMA ShadowPlain ==
    ASSUME TInv, Owners, Alone, Rows, Linked, [Next]_vars, NEW A \in Trace, Shadow(A),
           \A w \in Worker : ~Patch(w) /\ ~Unapplied(w), \A t \in Thread : ~ClearJournal(t),
           \A i \in Instance : Crash(i) => UNCHANGED file
    PROVE  Shadow(A)'
<1>1. Traced(A)'
  <2>1. Traced(A)
    BY DEF Shadow
  <2>2. ASSUME NEW w \in Worker, WorkerStep(w)
        PROVE  Traced(A)'
    BY <2>1, <2>2, TracedWorker
  <2>3. ASSUME NEW r \in Recoverer, RecoveryStep(r)
        PROVE  Traced(A)'
    BY <2>1, <2>3, TracedPass
  <2>4. ASSUME NEW t \in Thread, RestoreStep(t)
        PROVE  Traced(A)'
    BY <2>1, <2>4, TracedRestore DEF RestoreStep
  <2>5. CASE \/ \E p \in Order : Submit(p) \/ Cancel(p) \/ Continue(p) \/ ExpireAttempt(p)
             \/ \E i \in Instance : Start(i) \/ Crash(i) \/ Close(i) \/ Stopped(i)
             \/ \E f \in File : ExpireLease(f)
             \/ UNCHANGED vars
    <3>1. UNCHANGED file
      BY <2>5 DEF Submit, Cancel, Continue, ExpireAttempt, Start, Close, Stopped, ExpireLease, vars, disk
    <3> QED
      BY <2>1, <2>5, <3>1, TracedOutside
  <2> QED
    BY <2>2, <2>3, <2>4, <2>5 DEF Next
<1>2. ASSUME NEW o \in Order, Stains(A, o)
      PROVE  Charged(A, o)'
  <2>1. ~Special(o)
    BY DEF Special
  <2>2. Fewer(A, A, o)
    BY DEF Fewer
  <2>3. Charged(A, o)
    BY <1>2 DEF Shadow
  <2> QED
    BY <1>2, <2>1, <2>2, <2>3, ChargedKept
<1> QED
  BY <1>1, <1>2 DEF Shadow, Stains

\* When the files S have the content they are led back to, newer versions of them
\* can not come back.
Cut(A, S) == [f \in File |-> IF f \in S THEN {v \in A[f] : v.n <= file[f].n} ELSE A[f]]

\* An entry that leads back within the trace leads back within what is left.
LEMMA CutSound ==
    ASSUME TInv, NEW A \in Trace, NEW S, NEW j \in Journals, Sound(j, A, patches)
    PROVE  Sound(j, Cut(A, S), patches)
<1> SUFFICES ASSUME NEW k \in DOMAIN j, j[k].post \in Cut(A, S)[j[k].file]
             PROVE  j[k].pre \in Cut(A, S)[j[k].file]
  BY DEF Sound
<1>1. /\ j[k].file \in File /\ j[k].pre.n \in Nat /\ j[k].post.n \in Nat
      /\ file[j[k].file].n \in Nat
  <2>1. j[k] \in Entry
    BY JournalIndices
  <2>2. \A v \in Version : v.n \in Nat
    BY BoundAssumption DEF Version
  <2> QED
    BY <2>1, <2>2 DEF Entry, TInv, Tables
<1>2. /\ j[k].post \in A[j[k].file]
      /\ j[k].file \in S => j[k].post.n <= file[j[k].file].n
  BY <1>1 DEF Cut
<1>3. j[k].pre \in A[j[k].file] /\ j[k].pre.n < j[k].post.n
  BY <1>2 DEF Sound
<1>4. j[k].file \in S => j[k].pre.n <= file[j[k].file].n
  BY <1>1, <1>2, <1>3
<1> QED
  BY <1>1, <1>3, <1>4 DEF Cut

\* The end of a section under commit_guard
LEMMA CutTraced ==
    ASSUME TInv, TInv', NEW A \in Trace, Traced(A), NEW S, NEW B, B = Cut(A, S),
           NEW t \in Thread, Others(t), lock = t, UNCHANGED <<file, patches>>,
           th'[t].pc \notin Inside, Sound(th'[t].journal, A, patches),
           \A o \in Order : Sound(journal'[o], A, patches)
    PROVE  B \in Trace /\ Traced(B)' /\ \A o : Fewer(B, A, o)
<1>1. B \in Trace /\ \A f \in File : B[f] \subseteq A[f]
  BY DEF Cut, Trace
<1>2. \A f \in File : file[f] \in B[f] /\ \A v \in B[f] : v.n <= patches
  <2>1. \A f \in File : file[f] \in A[f] /\ \A v \in A[f] : v.n <= patches
    BY DEF Traced
  <2>2. \A f \in File : file[f].n <= file[f].n
    <3>1. \A f \in File : file[f].n \in Nat
      BY BoundAssumption DEF TInv, Tables, Version
    <3> QED
      BY <3>1
  <2> QED
    BY <1>1, <2>1, <2>2 DEF Cut
<1>3. \A o \in Order : Sound(journal'[o], B, patches)
  <2>1. \A o \in Order : journal'[o] \in Journals
    BY DEF TInv, Tables
  <2> QED
    BY <2>1, CutSound
<1>4. ASSUME NEW u \in Thread
      PROVE  Within(B, u)'
  <2>1. th'[u].journal \in Journals
    BY DEF TInv, Threads, ThreadRec
  <2>2. th'[u].pc \notin Inside
    BY DEF Others, TInv, Locks
  <2>3. Walks(u)' => Sound(th'[u].journal, A, patches)
    BY DEF Traced, Within, Walks, Others
  <2>4. Walks(u)' => Sound(th'[u].journal, B, patches)
    BY <2>1, <2>3, CutSound
  <2> QED
    BY <2>2, <2>4 DEF Within
<1> QED
  BY <1>1, <1>2, <1>3, <1>4 DEF Traced, Fewer

\* A rollback leaves nothing of its order in the trace.
LEMMA ShadowClear ==
    ASSUME TInv, History, Owners, Alone, Rows, Linked, [Next]_vars, NEW A \in Trace, Shadow(A),
           NEW t \in Thread, ClearJournal(t)
    PROVE  \E B \in Trace : Shadow(B)'
<1> DEFINE o == Mine(t)
           j == th[t].journal
           S == FilesOf(j)
<1>0. TInv' /\ Traced(A)
  BY NextTypes DEF Shadow
<1>1. /\ th[t].pc = "clear" /\ Others(t) /\ th'[t].journal = <<>>
      /\ th'[t].pc \in {"ending", "update"} /\ lock = t
  BY RestoreMoves DEF TInv, Locks, Inside
<1>2. /\ journal' = [journal EXCEPT ![o] = <<>>] /\ UNCHANGED <<row, file, patches>>
  BY DEF ClearJournal, env
<1>3. \A p \in Order : Sound(journal'[p], A, patches)
  <2>1. \A p \in Order : journal'[p] \in {journal[p], <<>>}
    BY <1>2 DEF TInv, Tables
  <2> QED
    BY <1>0, <2>1, SoundEmpty DEF Traced
<1>5. PICK B : B = Cut(A, S)
  OBVIOUS
<1>6. B \in Trace /\ Traced(B)' /\ \A p : Fewer(B, A, p)
  BY <1>0, <1>1, <1>2, <1>3, <1>5, CutTraced, SoundEmpty DEF Inside
<1>7. ASSUME Stains(B, o), o \in Order, Owed(o)
      PROVE  FALSE
  <2>1. Covers(journal[o], A, o) /\ Phase(o)
    BY <1>6, <1>7, FewerCovers DEF Shadow, Charged
  <2>2. journal[o] = j
    BY <1>1, <2>1 DEF Phase, Thread, Repairing
  <2>3. PICK f \in File : \E v \in B[f] : v.by = o
    BY <1>7 DEF Stains
  <2>4. PICK v \in B[f] : v.by = o
    BY <2>3
  <2>5. v \in A[f] /\ (f \in S => v.n <= file[f].n)
    BY <1>5, <2>4 DEF Cut
  <2>6. PICK k \in DOMAIN j : j[k].file = f /\ First(j, k) /\ j[k].pre.n < v.n
    BY <2>1, <2>2, <2>4, <2>5 DEF Covers
  <2>7. v.n <= file[f].n
    BY <2>5, <2>6 DEF FilesOf
  <2>8. th[t].todo = Nothing
    BY <1>1 DEF History, Kept
  <2>9. file[f] = j[k].pre
    BY <1>1, <2>6, <2>8 DEF Linked, RestLinked, Tip, Nothing
  <2>10. v \in Version /\ file[f] \in Version
    BY <2>5 DEF Trace, TInv, Tables
  <2> QED
    BY <2>6, <2>7, <2>9, <2>10, BoundAssumption DEF Version
<1>8. ASSUME NEW p \in Order, Stains(B, p)
      PROVE  Charged(B, p)'
  <2>1. Stains(A, p) /\ Charged(A, p)
    BY <1>6, <1>8, FewerCovers DEF Shadow
  <2>2. CASE p = o
    <3>1. ~Owed(p)
      BY <1>7, <1>8, <2>2
    <3> QED
      BY <1>2, <2>1, <3>1 DEF Charged, Owed, Undoable, Delivered, Keeps
  <2>3. CASE p # o
    <3>1. ~Special(p)
      BY <2>3, SpecialOnce
    <3> QED
      BY <1>6, <1>8, <2>1, <3>1, ChargedKept
  <2> QED
    BY <2>2, <2>3
<1> QED
  BY <1>6, <1>8 DEF Shadow, Stains

\* The undo of a failed patch leaves nothing of the patch in the trace.
LEMMA ShadowUnapplied ==
    ASSUME TInv, Owners, Alone, Rows, Linked, [Next]_vars, NEW A \in Trace, Shadow(A),
           NEW w \in Worker, Unapplied(w)
    PROVE  \E B \in Trace : Shadow(B)'
<1>o. PICK o : o = Mine(w)
  OBVIOUS
<1> DEFINE j == th[w].journal
           n == th[w].start
           i == Earlier(w)
           S == {j[k].file : k \in n + 1..Len(j)}
<1>0. TInv' /\ Traced(A) /\ w \in Thread
  BY NextTypes DEF Shadow, Thread
<1>1. /\ th[w].pc = "unapply" /\ th[w].todo = Nothing /\ th'[w].pc \in {"body", "verify"}
      /\ Others(w) /\ th'[w].journal = i /\ journal' = [journal EXCEPT ![o] = i]
      /\ UNCHANGED <<row, file, patches>> /\ lock = w
  BY <1>o, <1>0, CommitMoves DEF TInv, Locks, Inside
<1>2. j \in Journals /\ n \in 0..Len(j) /\ DOMAIN j = 1..Len(j) /\ Len(j) \in Nat
  <2>1. j \in Journals /\ Placed(w, th[w])
    BY <1>0 DEF TInv, Threads, ThreadRec, Places
  <2> QED
    BY <1>1, <2>1, JournalIndices DEF Placed
<1>3. /\ i \in Journals /\ Len(i) = n /\ DOMAIN i = 1..n
      /\ \A k \in 1..n : i[k] = j[k] /\ k \in DOMAIN j
  <2>1. i \in Journals /\ Len(i) = n /\ \A k \in 1..n : i[k] = j[k]
    BY <1>2, PartShape DEF Earlier
  <2> QED
    BY <1>2, <2>1, JournalIndices
<1>4. /\ \A k \in n + 1..Len(j) : file[j[k].file] = j[k].pre
      /\ o \in Order
  <2>1. Patchable(w)
    BY <1>1 DEF Linked, WorkLinked
  <2>2. \A k \in n + 1..Len(j) : Tip(th[w].todo, file, j[k].file) = j[k].pre
    BY <1>1, <2>1 DEF Patchable
  <2> QED
    BY <1>o, <1>0, <1>1, <2>2 DEF Tip, Nothing, TInv, Places, Placed, Mine
<1> HIDE DEF j, n, i
<1>5. PICK B : B = Cut(A, S)
  OBVIOUS
<1>6. B \in Trace /\ Traced(B)' /\ \A p : Fewer(B, A, p)
  <2>1. Sound(j, A, patches)
    BY <1>0 DEF Traced, Within, Walks, j
  <2>2. Sound(i, A, patches)
    BY <1>3, <2>1 DEF Sound
  <2>3. \A p \in Order : Sound(journal'[p], A, patches)
    <3>1. \A p \in Order : journal'[p] \in {journal[p], i}
      BY <1>1 DEF TInv, Tables
    <3> QED
      BY <1>0, <2>2, <3>1 DEF Traced
  <2> QED
    BY <1>0, <1>1, <1>5, <2>2, <2>3, CutTraced DEF Inside
<1>7. ASSUME Stains(B, o), Owed(o)
      PROVE  Covers(i, B, o) /\ Phase(o)' /\ (OneOrder => Open(o)')
  <2>1. Covers(journal[o], A, o) /\ Phase(o) /\ Stains(A, o)
    BY <1>4, <1>6, <1>7, FewerCovers DEF Shadow, Charged
  <2>2. journal[o] = j
    BY <1>o, <1>1, <2>1 DEF Phase, j
  <2>3. ASSUME NEW f \in File, NEW v \in B[f], v.by = o
        PROVE  \E k \in DOMAIN i : i[k].file = f /\ First(i, k) /\ i[k].pre.n < v.n
    <3>1. v \in A[f] /\ (f \in S => v.n <= file[f].n)
      BY <1>5, <2>3 DEF Cut
    <3>2. PICK k \in DOMAIN j : j[k].file = f /\ First(j, k) /\ j[k].pre.n < v.n
      BY <2>1, <2>2, <2>3, <3>1 DEF Covers
    <3>3. k \notin n + 1..Len(j)
      <4> SUFFICES ASSUME k \in n + 1..Len(j) PROVE FALSE
        OBVIOUS
      <4>1. v.n <= file[f].n /\ file[f] = j[k].pre
        BY <1>4, <3>1, <3>2
      <4>2. v.n \in Nat /\ j[k].pre.n \in Nat
        <5>1. v \in Version /\ file[f] \in Version
          BY <3>1 DEF Trace, TInv, Tables
        <5> QED
          BY <4>1, <5>1, BoundAssumption DEF Version
      <4> QED
        BY <3>2, <4>1, <4>2
    <3>4. k \in 1..n
      BY <1>2, <3>3
    <3>5. First(i, k)
      BY <1>3, <3>2, <3>4 DEF First
    <3> QED
      BY <1>3, <3>2, <3>4, <3>5
  <2>4. journal[o] # <<>> /\ ~Patch(w) /\ Owed(o)'
    <3>1. lock # None
      BY <1>1, <1>0, ThreadAssumption
    <3> QED
      BY <1>1, <1>7, <2>1, <3>1, CoversNot, PatchMoves DEF Owed, Undoable, Delivered, Keeps, Guarded
  <2>5. WorkerStep(w)
    BY DEF WorkerStep
  <2>6. Phase(o)'
    BY <1>o, <1>4, <1>7, <2>1, <2>4, <2>5, PhaseWorker
  <2>7. OneOrder => Open(o)'
    <3>1. OneOrder => Open(o)
      BY <1>4, <1>7, <2>1 DEF Shadow, Charged
    <3> QED
      BY <1>4, <1>7, <2>1, <2>4, <2>5, <3>1, OpenWorker
  <2> QED
    BY <2>3, <2>6, <2>7 DEF Covers
<1>8. ASSUME NEW p \in Order, Stains(B, p)
      PROVE  Charged(B, p)'
  <2>1. Stains(A, p) /\ Charged(A, p)
    BY <1>6, <1>8, FewerCovers DEF Shadow
  <2>2. CASE p = o
    <3>1. row'[p].state # "absent" /\ (Owed(p)' <=> Owed(p))
      BY <1>1, <2>1 DEF Charged, Owed, Undoable, Delivered, Keeps
    <3>2. journal'[p] = i
      BY <1>1, <2>2 DEF TInv, Tables
    <3>3. Owed(p)' => Covers(i, B, p) /\ Phase(p)' /\ (OneOrder' => Open(p)')
      BY <1>7, <1>8, <2>2, <3>1 DEF OneOrder
    <3> QED
      BY <3>1, <3>2, <3>3 DEF Charged
  <2>3. CASE p # o
    <3>1. ~Special(p)
      BY <1>o, <2>3, SpecialOnce
    <3> QED
      BY <1>6, <1>8, <2>1, <3>1, ChargedKept
  <2> QED
    BY <2>2, <2>3
<1> QED
  BY <1>6, <1>8 DEF Shadow, Stains

\* What is in the trace besides the version of a new patch
LEMMA MoreSound ==
    ASSUME TInv, NEW A \in Trace, NEW B, NEW v, v.n = patches + 1,
           \A f \in File : A[f] \subseteq B[f] /\ B[f] \subseteq A[f] \cup {v},
           NEW j \in Journals, Sound(j, A, patches)
    PROVE  Sound(j, B, patches + 1)
<1> SUFFICES ASSUME NEW k \in DOMAIN j
             PROVE  /\ j[k].pre.n < j[k].post.n /\ j[k].post.n <= patches + 1 /\ ~j[k].post.torn
                    /\ j[k].post \in B[j[k].file] => j[k].pre \in B[j[k].file]
  BY DEF Sound
<1>1. /\ j[k].pre.n < j[k].post.n /\ j[k].post.n <= patches /\ ~j[k].post.torn
      /\ j[k].post \in A[j[k].file] => j[k].pre \in A[j[k].file]
  BY DEF Sound
<1>2. j[k].file \in File /\ j[k].post.n \in Nat /\ patches \in Nat
  <2>1. j[k] \in Entry
    BY JournalIndices
  <2> QED
    BY <2>1, BoundAssumption DEF Entry, Version, TInv, Tables
<1>3. j[k].post # v /\ j[k].post.n <= patches + 1
  BY <1>1, <1>2
<1> QED
  BY <1>1, <1>2, <1>3

\* A patch adds its version to the trace, and its entries to the journal.
LEMMA ShadowPatch ==
    ASSUME TInv, Owners, Alone, Rows, Linked, [Next]_vars, NEW A \in Trace, Shadow(A),
           NEW w \in Worker, Patch(w)
    PROVE  \E B \in Trace : Shadow(B)'
<1>o. PICK o, v : o = Mine(w) /\ v = Patching(w)
  OBVIOUS
<1>p. PICK P \in (SUBSET File) \ {{}} : Patches(w, P)
  BY PatchMoves
<1> DEFINE i == th[w].journal
           j == Extended(w, P)
           m == Len(i)
           B == [f \in File |-> IF f \in P THEN A[f] \cup {v} ELSE A[f]]
<1>0. TInv' /\ Traced(A) /\ w \in Thread /\ patches \in Nat
  BY NextTypes, BoundAssumption DEF Shadow, Thread, TInv, Tables
<1>1. /\ th[w].pc \in {"body", "verify"} /\ patches < MaxPatches /\ Guarded(w)
      /\ lock = None /\ patches' = patches + 1 /\ UNCHANGED <<row, file>> /\ Others(w)
  BY PatchMoves DEF Guarded
<1>2. /\ th'[w].pc = "apply" /\ th'[w].order = o /\ th'[w].journal = j
      /\ th'[w].todo = [f \in P |-> v] /\ journal' = [journal EXCEPT ![o] = j]
  BY <1>o, <1>p DEF Patches, Mine
<1>3. /\ o \in Order /\ v \in Version /\ m \in Nat /\ j \in Journals /\ Len(j) >= m
      /\ \A k \in 1..m : j[k] = i[k]
      /\ \A k \in m + 1..Len(j) : j[k].file \in P /\ j[k].post = v /\ j[k].pre = file[j[k].file]
      /\ \A f \in P : \E k \in m + 1..Len(j) : j[k].file = f
  BY <1>o, <1>1, PatchShape
<1>4. v.by = o /\ v.n = patches + 1 /\ ~v.torn
  BY <1>o DEF Patching
<1>5. i \in Journals /\ DOMAIN i = 1..m /\ DOMAIN j = 1..Len(j) /\ Len(j) \in Nat
  <2>1. i \in Journals
    BY <1>0 DEF TInv, Threads, ThreadRec
  <2> QED
    BY <1>3, <2>1, JournalIndices
<1> HIDE DEF i, j, m
<1>6. /\ B \in Trace
      /\ \A f \in File : A[f] \subseteq B[f] /\ B[f] \subseteq A[f] \cup {v}
      /\ \A f \in P : v \in B[f]
  BY <1>3 DEF Trace
<1> HIDE DEF B
<1>7. \A f \in File : file[f] \in A[f] /\ file[f].n <= patches /\ file[f].n \in Nat
  BY <1>0, BoundAssumption DEF Traced, TInv, Tables, Version
<1>8. Sound(i, A, patches) /\ Sound(i, B, patches + 1)
  <2>1. Sound(i, A, patches)
    BY <1>0 DEF Traced, Within, Walks, i
  <2> QED
    BY <1>4, <1>5, <1>6, <2>1, MoreSound
<1>9. Sound(j, B, patches + 1)
  <2>1. ASSUME NEW k \in DOMAIN j, k \in 1..m
        PROVE  /\ j[k].pre.n < j[k].post.n /\ j[k].post.n <= patches + 1 /\ ~j[k].post.torn
               /\ j[k].post \in B[j[k].file] => j[k].pre \in B[j[k].file]
    BY <1>3, <1>5, <1>8, <2>1 DEF Sound
  <2>2. ASSUME NEW k \in DOMAIN j, k \in m + 1..Len(j)
        PROVE  /\ j[k].pre.n < j[k].post.n /\ j[k].post.n <= patches + 1 /\ ~j[k].post.torn
               /\ j[k].post \in B[j[k].file] => j[k].pre \in B[j[k].file]
    <3>1. j[k].file \in File /\ j[k].post = v /\ j[k].pre = file[j[k].file]
      BY <1>3, <2>2
    <3> QED
      BY <1>0, <1>4, <1>6, <1>7, <3>1
  <2>3. \A k \in DOMAIN j : k \in 1..m \/ k \in m + 1..Len(j)
    BY <1>3, <1>5
  <2> QED
    BY <2>1, <2>2, <2>3 DEF Sound
<1>10. Traced(B)'
  <2>1. \A f \in File : file'[f] \in B[f] /\ \A u \in B[f] : u.n <= patches + 1
    <3>1. ASSUME NEW f \in File, NEW u \in A[f]
          PROVE  u.n <= patches + 1
      <4>1. u.n <= patches
        BY <1>0 DEF Traced
      <4>2. u \in Version
        BY DEF Trace
      <4> QED
        BY <1>0, <4>1, <4>2, BoundAssumption DEF Version
    <3> QED
      BY <1>0, <1>1, <1>4, <1>6, <1>7, <3>1
  <2>2. \A p \in Order : Sound(journal'[p], B, patches + 1)
    <3>1. \A p \in Order : Sound(journal[p], B, patches + 1)
      BY <1>0, <1>4, <1>6, MoreSound DEF Traced, TInv, Tables
    <3>2. \A p \in Order : journal'[p] \in {journal[p], j}
      BY <1>2 DEF TInv, Tables
    <3> QED
      BY <1>9, <3>1, <3>2
  <2>3. ASSUME NEW u \in Thread, u # w
        PROVE  Within(B, u)'
    <3>1. th'[u] = th[u] /\ th[u].pc \notin Inside /\ th[u].journal \in Journals
      BY <1>1, <2>3, ThreadAssumption DEF Others, TInv, Locks, Threads, ThreadRec
    <3>2. Walks(u) => Sound(th[u].journal, A, patches)
      BY <1>0 DEF Traced, Within
    <3>3. Walks(u) => Sound(th[u].journal, B, patches + 1)
      BY <1>4, <1>6, <3>1, <3>2, MoreSound
    <3> QED
      BY <1>1, <3>1, <3>3 DEF Within, Walks
  <2>4. Within(B, w)'
    BY <1>1, <1>2, <1>6, <1>9 DEF Within
  <2> QED
    BY <1>1, <2>1, <2>2, <2>3, <2>4 DEF Traced
<1>11. ASSUME Owed(o)
       PROVE  Covers(j, B, o)
  <2> SUFFICES ASSUME NEW f \in File, NEW u \in B[f], u.by = o
               PROVE  \E k \in DOMAIN j : j[k].file = f /\ First(j, k) /\ j[k].pre.n < u.n
    BY DEF Covers
  <2>1. CASE u = v /\ u \notin A[f]
    <3>1. f \in FilesOf(j)
      <4>1. f \in P
        BY <2>1 DEF B
      <4>2. PICK k \in m + 1..Len(j) : j[k].file = f
        BY <1>3, <4>1
      <4>3. k \in DOMAIN j
        BY <1>3, <1>5
      <4> QED
        BY <4>2, <4>3 DEF FilesOf
    <3>2. PICK k \in DOMAIN j : j[k].file = f /\ First(j, k)
      BY <1>3, <3>1, FirstEntry
    <3>3. CASE k \in 1..m
      <4>1. i[k].pre.n < i[k].post.n /\ i[k].post.n <= patches /\ i[k] \in Entry /\ j[k] = i[k]
        BY <1>3, <1>5, <1>8, <3>3, JournalIndices DEF Sound
      <4>2. i[k].pre.n \in Nat /\ i[k].post.n \in Nat
        BY <4>1, BoundAssumption DEF Entry, Version
      <4>3. j[k].pre.n < u.n
        BY <1>0, <1>4, <2>1, <4>1, <4>2
      <4> QED
        BY <3>2, <4>3
    <3>4. CASE k \in m + 1..Len(j)
      <4>1. j[k].pre.n < u.n
        BY <1>0, <1>3, <1>4, <1>7, <2>1, <3>2, <3>4
      <4> QED
        BY <3>2, <4>1
    <3> QED
      BY <1>3, <1>5, <3>3, <3>4
  <2>2. CASE u \in A[f]
    <3>1. Covers(journal[o], A, o) /\ Phase(o)
      BY <1>3, <1>11, <2>2 DEF Shadow, Charged, Stains
    <3>2. journal[o] = i
      BY <1>o, <1>1, <3>1 DEF Phase, i
    <3>3. PICK k \in DOMAIN i : i[k].file = f /\ First(i, k) /\ i[k].pre.n < u.n
      BY <2>2, <3>1, <3>2 DEF Covers
    <3>4. k \in 1..m /\ k \in DOMAIN j /\ j[k] = i[k]
      BY <1>3, <1>5
    <3>5. ASSUME NEW l \in DOMAIN j, j[l].file = f
          PROVE  k <= l
      <4>1. CASE l \in 1..m
        BY <1>3, <1>5, <3>3, <3>5, <4>1 DEF First
      <4>2. CASE l \in m + 1..Len(j)
        BY <1>3, <3>4, <4>2
      <4> QED
        BY <1>3, <1>5, <4>1, <4>2
    <3> QED
      BY <3>3, <3>4, <3>5 DEF First
  <2> QED
    BY <1>6, <2>1, <2>2
<1>12. Charged(B, o)'
  <2>1. row'[o].state # "absent" /\ (Owed(o)' <=> Owed(o))
    BY <1>o, <1>1 DEF Rows, WorkRow, Owed, Undoable, Delivered, Keeps
  <2>2. journal'[o] = j
    BY <1>2, <1>3 DEF TInv, Tables
  <2>3. Owed(o) => Phase(o)' /\ Open(o)'
    BY <1>o, <1>3, PhasePatch, OpenPatch
  <2> QED
    BY <1>11, <2>1, <2>2, <2>3 DEF Charged
<1>13. ASSUME NEW p \in Order, p # o, Stains(B, p)
       PROVE  Charged(B, p)'
  <2>1. ~Special(p)
    BY <1>o, <1>13, SpecialOnce
  <2>2. Fewer(B, A, p)
    BY <1>4, <1>6, <1>13 DEF Fewer
  <2> QED
    BY <1>13, <2>1, <2>2, ChargedKept DEF Shadow
<1>14. Shadow(B)'
  BY <1>10, <1>12, <1>13 DEF Shadow, Stains
<1> QED
  BY <1>6, <1>14

\* A torn file is in nobody's journal.
LEMMA ShadowCrash ==
    ASSUME TInv, Owners, Alone, Rows, Linked, [Next]_vars, NEW A \in Trace, Shadow(A),
           NEW i \in Instance, Crash(i), file' # file
    PROVE  \E B \in Trace : Shadow(B)'
<1>0. Traced(A) /\ TInv' /\ UNCHANGED <<journal, patches>>
  BY NextTypes DEF Crash, Shadow
<1>1. /\ \A t \in Thread : th'[t] = th[t] \/ th'[t] = IdleThread
      /\ lock # None
      /\ \E f \in DOMAIN th[lock].todo :
            file' = [file EXCEPT ![f] = [th[lock].todo[f] EXCEPT !.torn = TRUE]]
  BY DEF Crash
<1>2. PICK f \in DOMAIN th[lock].todo :
            file' = [file EXCEPT ![f] = [th[lock].todo[f] EXCEPT !.torn = TRUE]]
  BY <1>1
<1>3. PICK u, v : u = th[lock].todo[f] /\ v = [u EXCEPT !.torn = TRUE]
  OBVIOUS
<1>4. /\ f \in File /\ u \in Version /\ u \in A[f]
  <2>1. lock \in Thread /\ th[lock].pc \in Inside
    BY <1>1 DEF TInv, Threads, Locks
  <2>2. th[lock].todo \in Todos
    BY <2>1 DEF TInv, Threads, ThreadRec
  <2>3. f \in File /\ u \in Version
    BY <1>3, <2>2 DEF Todos
  <2> QED
    BY <1>0, <1>3, <2>1, <2>3 DEF Traced, Within
<1>5. v \in Version /\ v.by = u.by /\ v.n = u.n /\ v.torn
  BY <1>3, <1>4 DEF Version
<1> DEFINE B == [g \in File |-> IF g = f THEN A[f] \cup {v} ELSE A[g]]
<1>6. /\ B \in Trace /\ v \in B[f]
      /\ \A g \in File : A[g] \subseteq B[g] /\ B[g] \subseteq A[g] \cup {v}
      /\ \A g \in File : g # f => B[g] = A[g]
  BY <1>4, <1>5 DEF Trace
<1> HIDE DEF B
<1>7. ASSUME NEW j \in Journals, Sound(j, A, patches)
      PROVE  Sound(j, B, patches)
  <2> SUFFICES ASSUME NEW k \in DOMAIN j, j[k].post \in B[j[k].file]
               PROVE  j[k].pre \in B[j[k].file]
    BY <1>7 DEF Sound
  <2>1. j[k].file \in File
    BY JournalIndices DEF Entry
  <2>2. j[k].post # v
    BY <1>5, <1>7 DEF Sound
  <2> QED
    BY <1>6, <1>7, <2>1, <2>2 DEF Sound
<1>8. Traced(B)'
  <2>1. \A g \in File : file'[g] \in B[g] /\ \A x \in B[g] : x.n <= patches
    <3>1. file' = [file EXCEPT ![f] = v]
      BY <1>2, <1>3
    <3>2. \A g \in File : file'[g] = file[g] \/ (g = f /\ file'[g] = v)
      BY <3>1 DEF TInv, Tables
    <3>3. v.n <= patches
      BY <1>0, <1>4, <1>5 DEF Traced
    <3> QED
      BY <1>0, <1>6, <3>2, <3>3 DEF Traced
  <2>2. \A p \in Order : Sound(journal[p], B, patches)
    BY <1>0, <1>7 DEF Traced, TInv, Tables
  <2>3. ASSUME NEW t \in Thread
        PROVE  Within(B, t)'
    <3>1. CASE th'[t] = IdleThread
      BY <3>1, SoundEmpty DEF Within, IdleThread, Inside
    <3>2. CASE th'[t] = th[t]
      <4>1. th[t].journal \in Journals /\ th[t].todo \in Todos
        BY DEF TInv, Threads, ThreadRec
      <4>2. Within(A, t)
        BY <1>0 DEF Traced
      <4>3. Walks(t) => Sound(th[t].journal, B, patches)
        BY <1>7, <4>1, <4>2 DEF Within
      <4>4. th[t].pc \in Inside => \A g \in DOMAIN th[t].todo : th[t].todo[g] \in B[g]
        BY <1>6, <4>1, <4>2 DEF Within, Todos
      <4> QED
        BY <1>0, <3>2, <4>3, <4>4 DEF Within, Walks
    <3> QED
      BY <1>1, <3>1, <3>2
  <2> QED
    BY <1>0, <2>1, <2>2, <2>3 DEF Traced
<1>9. ASSUME NEW p \in Order, Stains(B, p)
      PROVE  Charged(B, p)'
  <2>1. ~Special(p)
    BY SpecialOnce
  <2>2. Fewer(B, A, p)
    BY <1>4, <1>5, <1>6 DEF Fewer
  <2> QED
    BY <1>9, <2>1, <2>2, ChargedKept DEF Shadow
<1>10. Shadow(B)'
  BY <1>8, <1>9 DEF Shadow, Stains
<1> QED
  BY <1>6, <1>10

\* There is a trace as long as there was one.
LEMMA ShadowNext ==
    ASSUME TInv, History, Owners, Alone, Rows, Linked, [Next]_vars,
           \E A \in Trace : Shadow(A)
    PROVE  \E B \in Trace : Shadow(B)'
<1>1. PICK A \in Trace : Shadow(A)
  OBVIOUS
<1>2. CASE \E w \in Worker : Patch(w)
  BY <1>1, <1>2, ShadowPatch
<1>3. CASE \E w \in Worker : Unapplied(w)
  BY <1>1, <1>3, ShadowUnapplied
<1>4. CASE \E t \in Thread : ClearJournal(t)
  BY <1>1, <1>4, ShadowClear
<1>5. CASE \E i \in Instance : Crash(i) /\ file' # file
  BY <1>1, <1>5, ShadowCrash
<1>6. CASE /\ \A w \in Worker : ~Patch(w) /\ ~Unapplied(w)
           /\ \A t \in Thread : ~ClearJournal(t)
           /\ \A i \in Instance : Crash(i) => UNCHANGED file
  BY <1>1, <1>6, ShadowPlain
<1> QED
  BY <1>2, <1>3, <1>4, <1>5, <1>6

-----------------------------------------------------------------------------
(* The inductive invariant, and what follows *)

Shadowed == \E A \in Trace : Shadow(A)

EInv == Alone /\ TInv /\ History /\ Owners /\ Leased /\ Linked /\ Rows /\ Shadowed

\* It holds in the beginning: no order has edited anything.
LEMMA InitEInv == Alone /\ Init => EInv
<1> SUFFICES ASSUME Alone, Init PROVE EInv
  OBVIOUS
<1>1. TInv /\ History
  BY InitHistory
<1>2. /\ \A o \in Order : journal[o] = <<>> /\ row[o].state = "absent" /\ ~row[o].result.handoff
      /\ \A t \in Thread : th[t] = IdleThread
      /\ \A f \in File : file[f] = Original
      /\ patches = 0 /\ Worker \subseteq Thread /\ Recoverer \subseteq Thread
  BY DEF Init, NoResult, Thread
<1>3. /\ IdleThread.pc = "idle" /\ IdleThread.journal = <<>>
      /\ \A x : x \notin DOMAIN <<>>
  BY DEF IdleThread
<1>4. Owners
  BY <1>2, <1>3 DEF Owners, Holds
<1>5. Leased
  BY <1>2, <1>3, NoFiles DEF Leased, WorkLeased, RepairLeased, Repairing
<1>6. Linked
  BY <1>2, <1>3 DEF Linked, WorkLinked, RestLinked, Matching
<1>7. Rows
  BY <1>2, <1>3 DEF Rows, HandedOver, Selected, WorkRow, Dealing, Underway
<1> DEFINE A == [f \in File |-> {Original}]
<1>8. A \in Trace
  BY BoundAssumption DEF Trace, Original, Version
<1>9. Traced(A)
  BY <1>2, <1>3, SoundEmpty DEF Traced, Within, Inside, Original
<1>10. \A o \in Order : ~Stains(A, o)
  BY ThreadAssumption DEF Stains, Original
<1>11. Shadowed
  BY <1>8, <1>9, <1>10 DEF Shadowed, Shadow
<1> QED
  BY <1>1, <1>4, <1>5, <1>6, <1>7, <1>11 DEF EInv

\* Every step keeps it.
LEMMA EInvNext == EInv /\ [Next]_vars => EInv'
<1> SUFFICES ASSUME EInv, [Next]_vars PROVE EInv'
  OBVIOUS
<1> USE DEF EInv
<1>1. TInv' /\ History' /\ Owners' /\ Leased' /\ Linked' /\ Rows'
  BY NextTypes, HistoryNext, OwnersNext, LeasedNext, LinkedNext, RowsNext DEF Alone
<1>2. Shadowed'
  BY ShadowNext DEF Shadowed
<1>3. Alone'
  BY DEF Alone
<1> QED
  BY <1>1, <1>2, <1>3

\* An edit in the workspace, of an order that is owed its edits
LEMMA EditCharged ==
    ASSUME EInv, NEW o \in Order, NEW f \in File, file[f].by = o, Owed(o)
    PROVE  f \in FilesOf(journal[o]) /\ Phase(o) /\ (OneOrder => Open(o))
<1>1. PICK A \in Trace : Shadow(A)
  BY DEF EInv, Shadowed
<1>2. file[f] \in A[f]
  BY <1>1 DEF Shadow, Traced
<1>3. Covers(journal[o], A, o) /\ Phase(o) /\ (OneOrder => Open(o))
  BY <1>1, <1>2 DEF Shadow, Stains, Charged
<1>4. PICK k \in DOMAIN journal[o] : journal[o][k].file = f
  BY <1>2, <1>3 DEF Covers
<1> QED
  BY <1>3, <1>4 DEF FilesOf

\* While attempts outlive the work under them and one worker and one recovery thread
\* run: at every instant, whatever dies, an edit of an order that neither delivered
\* nor keeps its edits is covered by the journal on disk (_persist_journal, _clear_journal).
THEOREM EditsStayJournaled == Alone => (Spec => []EditsJournaled)
<1>1. EInv => EditsJournaled
  BY EditCharged DEF EditsJournaled, Owed
<1> QED
  BY <1>1, InitEInv, EInvNext, PTL DEF Spec

\* Under the same hypothesis an order that is put back in the queue (_recover), or that
\* was never taken, has no edits in the workspace.
THEOREM RequeuedClean == Alone => (Spec => []CleanRequeue)
<1>1. EInv => CleanRequeue
  <2> SUFFICES ASSUME EInv, NEW o \in Order, NEW f \in File, row[o].state = "queued",
                      Undoable(o), file[f].by = o
               PROVE  FALSE
    BY DEF CleanRequeue
  <2>1. Owed(o)
    BY DEF Owed, EInv, Rows, HandedOver, Undoable, Delivered, Terminal
  <2> QED
    BY <2>1, EditCharged DEF Phase
<1> QED
  BY <1>1, InitEInv, EInvNext, PTL DEF Spec

\* With one order in the store, an order that ended without delivering left nothing in
\* the workspace: its rollback was never refused, by contents or by a busy store, and
\* what a crash interrupted recovery undoes before it closes the order.
THEOREM FailureHonest == Alone /\ OneOrder => (Spec => []HonestFailure)
<1>1. EInv /\ OneOrder => HonestFailure
  <2> SUFFICES ASSUME EInv, OneOrder, NEW o \in Order, NEW f \in File,
                      row[o].state \in {"failed", "cancelled", "partial"}, Undoable(o), file[f].by = o
               PROVE  FALSE
    BY DEF HonestFailure
  <2>1. Owed(o)
    BY DEF Owed, EInv, Rows, HandedOver, Undoable, Delivered
  <2> QED
    BY <2>1, EditCharged DEF Open, Ended
<1>2. OneOrder /\ [Next]_vars => OneOrder'
  BY DEF OneOrder
<1> QED
  BY <1>1, <1>2, InitEInv, EInvNext, PTL DEF Spec

\* A worker that has to roll back is never refused because of what is in the files.
RollbackWelcome == \A w \in Worker : th[w].pc = "rollback" => Restorable(th[w].journal)

\* A journal that is about to be removed after a rollback was undone: each of its files
\* has the content from before the first entry.
RollbackWhole ==
    \A t \in Thread : \A k \in DOMAIN th[t].journal :
        th[t].pc = "clear" /\ First(th[t].journal, k)
        => file[th[t].journal[k].file] = th[t].journal[k].pre

\* Under the same hypothesis the conflict check of _rollback_pinned refuses no rollback
\* of a worker, and a rollback, the worker's or recovery's, that goes on to remove its
\* journal has put back every file.
THEOREM RollbacksSucceed == Alone => (Spec => [](RollbackWelcome /\ RollbackWhole))
<1>1. EInv => RollbackWelcome
  BY IntactRestorable DEF EInv, RollbackWelcome, Linked, WorkLinked, Matching
<1>2. EInv => RollbackWhole
  BY DEF EInv, RollbackWhole, Linked, RestLinked, History, Kept, Tip, Nothing
<1> QED
  BY <1>1, <1>2, InitEInv, EInvNext, PTL DEF Spec
=============================================================================
