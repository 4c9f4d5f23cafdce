-------------------------- MODULE AsyncJobsProofs --------------------------
(***************************************************************************)
(* Theorems about AsyncJobs, for every set of jobs, requests, threads,     *)
(* callers and every bound.                                                *)
(***************************************************************************)
EXTENDS AsyncJobs, FiniteSetTheorems, TLAPS

-----------------------------------------------------------------------------
(* The inductive invariant *)

Replayable == {"keyed", "reason"}

\* A job in the queue has an attempt left, and has had none if nobody may run
\* it again; a running job has been claimed.
RowOK(x) ==
    /\ x \in Row
    /\ x.state = "free" => x.attempts = 0
    /\ x.state # "free" => x.req \in Requests
    /\ x.state = "queued" => x.attempts < MaxAttempts
    /\ x.state = "running" => x.attempts > 0
    /\ x.state # "free" /\ KindOf[x.req] \notin Replayable =>
         /\ x.attempts <= 1
         /\ x.state = "queued" => x.attempts = 0

RowsOK == \A j \in Jobs : RowOK(row[j])

\* A thread works on a job that was submitted.
ThreadsOK ==
    \A w \in Workers : th[w].pc # "idle" => /\ th[w].job \in Jobs
                                            /\ row[th[w].job].state # "free"

\* A thread that was given an attempt and has not used it: it may still invoke
\* the executor, or give the attempt back.
Holds(t) == t.pc = "admit" \/ (t.pc = "final" /\ t.res = "deferred")
Unused(j) == {w \in Workers : th[w].job = j /\ Holds(th[w])}

\* Every invocation of the executor was paid for with an attempt, and those
\* that are still to come have been paid for already.
RunsPaid == \A j \in Jobs : runs[j] + Cardinality(Unused(j)) <= row[j].attempts

IInv == TypeOK /\ RowsOK /\ ThreadsOK /\ RunsPaid /\ NoUnloadDuringInference

-----------------------------------------------------------------------------
(* What the operators on rows do *)

\* A job stays submitted, keeps its request and its number of attempts.
Kept(x, y) ==
    /\ x.state = "free" <=> y.state = "free"
    /\ y.req = x.req
    /\ y.attempts = x.attempts

\* The UPDATE of cancel() on an active row.
LEMMA CancelledRowKeeps ==
    ASSUME NEW x, RowOK(x), x.state \in ACTIVE_STATES
    PROVE  /\ RowOK(CancelledRow(x)) /\ Kept(x, CancelledRow(x))
           /\ CancelledRow(x).state \in {x.state, "cancelled"}
BY DEF RowOK, Row, CancelledRow, Kept, ACTIVE_STATES, TERMINAL_STATES

\* _cancel_jobs_blocked_by_mode touches active rows only and ends queued ones.
LEMMA CancelBlockedKeeps ==
    ASSUME RowsOK, NEW m, NEW j \in Jobs
    PROVE  LET r == CancelBlocked(m) IN
           /\ RowOK(r[j]) /\ Kept(row[j], r[j])
           /\ r[j].state # row[j].state => /\ row[j].state \in ACTIVE_STATES
                                           /\ r[j].state = "cancelled"
<1>1. RowOK(row[j])
  BY DEF RowsOK
<1>2. CancelBlocked(m)[j] \in {row[j], CancelledRow(row[j])}
  BY DEF CancelBlocked
<1>3. CancelBlocked(m)[j] # row[j] => row[j].state \in ACTIVE_STATES
  BY DEF CancelBlocked, Active
<1>4. Kept(row[j], row[j])
  BY DEF Kept
<1> QED
  BY <1>1, <1>2, <1>3, <1>4, CancelledRowKeeps

\* recover() and tick(): an interrupted job ends, or goes back to the queue with
\* an attempt left.
LEMMA InterruptedKeeps ==
    ASSUME NEW x, RowOK(x), x.state \in ACTIVE_STATES,
           NEW y, y \in Row, y.state = "queued", y.req = x.req, y.attempts = x.attempts
    PROVE  /\ RowOK(Interrupted(x, y)) /\ Kept(x, Interrupted(x, y))
           /\ Interrupted(x, y).state \in {"queued", "cancelled", "outcome_unknown"}
BY JobsAssumption
   DEF RowOK, Row, Interrupted, CanReplay, Kept, ACTIVE_STATES, TERMINAL_STATES, Kinds,
       Replayable

\* The watchdog's view of a row.
LEMMA TickedKeeps ==
    ASSUME NEW x, RowOK(x)
    PROVE  /\ RowOK(Ticked(x)) /\ Kept(x, Ticked(x))
           /\ x.state \in TERMINAL_STATES =>
                \/ Ticked(x).state = x.state
                \/ x.past /\ Ticked(x).state = "expired"
           /\ Ticked(x).state = "done" => x.state = "done"
<1>1. CASE x.past /\ x.state \in TERMINAL_STATES \ {"expired"}
  BY <1>1 DEF Ticked, RowOK, Row, Kept, ACTIVE_STATES, TERMINAL_STATES
<1>2. CASE x.state = "running" /\ ~x.leased
  <2> DEFINE y == [x EXCEPT !.state = "queued", !.delayed = FALSE]
  <2>1. y \in Row /\ y.state = "queued" /\ y.req = x.req /\ y.attempts = x.attempts
    BY <1>2 DEF RowOK, Row, ACTIVE_STATES
  <2>2. Ticked(x) = Interrupted(x, y)
    BY <1>2 DEF Ticked, TERMINAL_STATES
  <2>3. x.state \in ACTIVE_STATES /\ x.state \notin TERMINAL_STATES
    BY <1>2 DEF ACTIVE_STATES, TERMINAL_STATES
  <2> HIDE DEF y
  <2> QED
    BY <2>1, <2>2, <2>3, InterruptedKeeps
<1>3. CASE ~(x.past /\ x.state \in TERMINAL_STATES \ {"expired"})
           /\ ~(x.state = "running" /\ ~x.leased)
  BY <1>3 DEF Ticked, Kept
<1> QED
  BY <1>1, <1>2, <1>3

\* recover() of a new process.
LEMMA RecoveredKeeps ==
    ASSUME NEW x, RowOK(x)
    PROVE  /\ RowOK(Recovered(x)) /\ Kept(x, Recovered(x))
           /\ x.state \in TERMINAL_STATES => Recovered(x) = x
           /\ Recovered(x).state = "done" => x.state = "done"
<1>1. CASE x.state \notin ACTIVE_STATES
  BY <1>1 DEF Recovered, Kept
<1>2. CASE x.state \in ACTIVE_STATES
  <2> DEFINE y == IF x.state = "queued" /\ (x.leased \/ x.delayed) THEN x
                  ELSE [x EXCEPT !.state = "queued", !.leased = FALSE]
  <2>1. y \in Row /\ y.state = "queued" /\ y.req = x.req /\ y.attempts = x.attempts
    BY <1>2 DEF RowOK, Row, ACTIVE_STATES
  <2>2. Recovered(x) = Interrupted(x, y)
    BY <1>2 DEF Recovered
  <2>3. x.state \notin TERMINAL_STATES
    BY <1>2 DEF ACTIVE_STATES, TERMINAL_STATES
  <2> HIDE DEF y
  <2> QED
    BY <1>2, <2>1, <2>2, <2>3, InterruptedKeeps
<1> QED
  BY <1>1, <1>2

\* What the owner of a running attempt records: the attempt is given back only
\* by a deferral.
LEMMA RecordedKeeps ==
    ASSUME NEW x, RowOK(x), x.state = "running", NEW res
    PROVE  LET y == Recorded(x, res) IN
           /\ RowOK(y) /\ y.state # "free" /\ y.req = x.req
           /\ y.attempts = x.attempts \/ (res = "deferred" /\ y.attempts = x.attempts - 1)
           /\ y.state = "done" => res = "ok"
<1> DEFINE back == ~x.past /\ ~x.cancel /\ (res = "deferred" \/ Retried(x, res))
           s == IF back /\ res # "unknown" THEN "queued" ELSE Recorded(x, res).state
           n == IF s = "queued" /\ res = "deferred" THEN x.attempts - 1 ELSE x.attempts
<1>1. /\ s \in {"outcome_unknown", "expired", "cancelled", "queued", "done", "failed"}
      /\ Recorded(x, res) = [x EXCEPT !.state = s, !.leased = FALSE, !.attempts = n]
      /\ s = "queued" => back
      /\ s = "done" => res = "ok"
  <2>1. CASE x.past
    BY <2>1 DEF Recorded, RowOK, Row
  <2>2. CASE ~x.past /\ res = "unknown"
    BY <2>2 DEF Recorded, RowOK, Row
  <2>3. CASE ~x.past /\ res # "unknown" /\ x.cancel
    BY <2>3 DEF Recorded, RowOK, Row
  <2>4. CASE ~x.past /\ res # "unknown" /\ ~x.cancel /\ back
    <3>1. res \notin {"ok", "fail", "refused"}
      BY <2>4 DEF Retried
    <3> QED
      BY <2>4, <3>1 DEF Recorded, RowOK, Row
  <2>5. CASE ~x.past /\ res # "unknown" /\ ~x.cancel /\ ~back /\ res = "ok"
    BY <2>5 DEF Recorded, RowOK, Row
  <2>6. CASE ~x.past /\ res # "unknown" /\ ~x.cancel /\ ~back /\ res # "ok"
    <3>1. CASE res \in {"fail", "refused"}
      BY <2>6, <3>1 DEF Recorded, RowOK, Row
    <3>2. CASE res \notin {"fail", "refused"}
      BY <2>6, <3>2 DEF Recorded, RowOK, Row
    <3> QED
      BY <3>1, <3>2
  <2> QED
    BY <2>1, <2>2, <2>3, <2>4, <2>5, <2>6
<1>2. /\ x.attempts \in 1..MaxAttempts /\ MaxAttempts \in Nat
      /\ x.req \in Requests
      /\ KindOf[x.req] \notin Replayable => x.attempts = 1
  BY JobsAssumption DEF RowOK, Row
<1>3. n \in 0..MaxAttempts
  BY <1>2
<1>4. ASSUME s = "queued"
      PROVE  n < MaxAttempts /\ (KindOf[x.req] \notin Replayable => n = 0)
  <2>1. CASE res = "deferred"
    BY <1>2, <1>4, <2>1
  <2>2. CASE res # "deferred"
    <3>1. Retried(x, res) /\ n = x.attempts
      BY <1>1, <1>4, <2>2
    <3> QED
      BY <1>2, <3>1 DEF Retried, CanReplay, Replayable
  <2> QED
    BY <2>1, <2>2
<1>5. Recorded(x, res) \in Row
  BY <1>1, <1>3 DEF RowOK, Row, ACTIVE_STATES, TERMINAL_STATES
<1>6. /\ Recorded(x, res).state = s /\ Recorded(x, res).req = x.req
      /\ Recorded(x, res).attempts = n
  BY <1>1 DEF RowOK, Row
<1>7. RowOK(Recorded(x, res)) /\ Recorded(x, res).state # "free"
  <2> DEFINE y == Recorded(x, res)
  <2>1. y \in Row /\ y.state = s /\ y.req = x.req /\ y.attempts = n
    BY <1>5, <1>6
  <2> HIDE DEF s, n, y
  <2>2. s \notin {"free", "running"} /\ (n <= 1 \/ KindOf[x.req] \in Replayable)
    BY <1>1, <1>2 DEF n
  <2> SUFFICES RowOK(y) /\ y.state # "free"
    BY DEF y
  <2> QED
    BY <1>1, <1>2, <1>3, <1>4, <2>1, <2>2 DEF RowOK
<1> QED
  BY <1>1, <1>6, <1>7

-----------------------------------------------------------------------------
(* Steps that give no attempt and take none *)

\* Every row stays in order, and no job changes its request or its attempts.
RowsKept ==
    /\ row' \in [Jobs -> Row]
    /\ \A j \in Jobs : RowOK(row'[j]) /\ Kept(row[j], row'[j])

\* A step that does not touch the table keeps the rows.
LEMMA RowUnchangedKeeps == ASSUME IInv, row' = row PROVE RowsKept
BY DEF IInv, TypeOK, RowsOK, RowsKept, Kept

\* An update of a single row.
LEMMA OneRowKeeps ==
    ASSUME IInv, NEW j \in Jobs, NEW y, RowOK(y), Kept(row[j], y),
           row' = [row EXCEPT ![j] = y]
    PROVE  RowsKept
<1>1. y \in Row
  BY DEF RowOK
<1>2. row \in [Jobs -> Row] /\ \A k \in Jobs : RowOK(row[k]) /\ Kept(row[k], row[k])
  BY DEF IInv, TypeOK, RowsOK, Kept
<1> HIDE DEF RowOK, Kept, Row
<1> QED
  BY <1>1, <1>2 DEF RowsKept

\* An update of all rows at once.
LEMMA AllRowsKeep ==
    ASSUME row' = [k \in Jobs |-> row'[k]],
           \A k \in Jobs : RowOK(row'[k]) /\ Kept(row[k], row'[k])
    PROVE  RowsKept
<1>1. \A k \in Jobs : row'[k] \in Row
  BY DEF RowOK
<1> QED
  BY <1>1 DEF RowsKept

\* _cancel_jobs_blocked_by_mode as a whole step.
LEMMA CancelBlockedRowsKeep ==
    ASSUME IInv, NEW m, row' = CancelBlocked(m)
    PROVE  RowsKept
<1>1. row' = [k \in Jobs |-> row'[k]]
  BY DEF CancelBlocked
<1>2. \A k \in Jobs : RowOK(row'[k]) /\ Kept(row[k], row'[k])
  BY CancelBlockedKeeps DEF IInv
<1> QED
  BY <1>1, <1>2, AllRowsKeep

\* The same, with one more column of one row updated.
LEMMA CancelBlockedThenKeeps ==
    ASSUME IInv, NEW m, NEW j \in Jobs, NEW y,
           row' = [CancelBlocked(m) EXCEPT ![j] = y], RowOK(y), Kept(row[j], y)
    PROVE  RowsKept
<1>1. row' = [k \in Jobs |-> row'[k]]
  BY DEF CancelBlocked
<1>2. \A k \in Jobs : row'[k] = IF k = j THEN y ELSE CancelBlocked(m)[k]
  BY DEF CancelBlocked
<1>3. \A k \in Jobs : RowOK(row'[k]) /\ Kept(row[k], row'[k])
  BY <1>2, CancelBlockedKeeps DEF IInv
<1> QED
  BY <1>1, <1>3, AllRowsKeep

\* A row that is neither free nor sent back to the queue may end and lose its
\* lease, and the flags of any row may change.
LEMMA EndedRowKeeps ==
    ASSUME NEW x, RowOK(x), x.state # "free",
           NEW s \in {"cancelled", "outcome_unknown", "expired", "purged"}
    PROVE  LET y == [x EXCEPT !.state = s]
               z == [x EXCEPT !.state = s, !.leased = FALSE]
           IN  RowOK(y) /\ Kept(x, y) /\ RowOK(z) /\ Kept(x, z)
BY DEF RowOK, Row, Kept, TERMINAL_STATES, ACTIVE_STATES

\* A changed flag or time of a row keeps its state, request and attempts.
LEMMA FlagKeeps ==
    ASSUME NEW x, RowOK(x), NEW b \in BOOLEAN,
           NEW y \in {[x EXCEPT !.leased = b], [x EXCEPT !.past = b], [x EXCEPT !.delayed = b]}
    PROVE  RowOK(y) /\ Kept(x, y)
BY DEF RowOK, Row, Kept

\* The watchdog requeues or ends jobs, and gives no attempt away.
LEMMA TickKeeps == ASSUME IInv, Tick PROVE RowsKept
<1>1. PICK old \in SUBSET {j \in Jobs : row[j].state = "expired"} :
        row' = [j \in Jobs |-> IF j \in old THEN [row[j] EXCEPT !.state = "purged"]
                               ELSE Ticked(row[j])]
  BY DEF Tick
<1>2. \A j \in Jobs : RowOK(row[j])
  BY DEF IInv, RowsOK
<1>3. ASSUME NEW j \in Jobs PROVE RowOK(row'[j]) /\ Kept(row[j], row'[j])
  <2>1. CASE j \in old
    <3>1. row[j].state # "free" /\ row'[j] = [row[j] EXCEPT !.state = "purged"]
      BY <1>1, <2>1
    <3> QED
      BY <1>2, <3>1, EndedRowKeeps
  <2>2. CASE j \notin old
    BY <1>1, <1>2, <2>2, TickedKeeps
  <2> QED
    BY <2>1, <2>2
<1>4. row' = [k \in Jobs |-> row'[k]]
  BY <1>1
<1> QED
  BY <1>3, <1>4, AllRowsKeep

\* recover() at a start does the same for every interrupted job.
LEMMA StartKeeps == ASSUME IInv, Start PROVE RowsKept
<1>1. row' = [j \in Jobs |-> Recovered(row[j])]
  BY DEF Start
<1>2. \A j \in Jobs : RowOK(row'[j]) /\ Kept(row[j], row'[j])
  BY <1>1, RecoveredKeeps DEF IInv, RowsOK
<1> QED
  BY <1>1, <1>2, AllRowsKeep

\* close() ends queued jobs and asks the running ones to stop.
LEMMA CloseKeeps == ASSUME IInv, Close PROVE RowsKept
<1>1. row' = [j \in Jobs |->
                IF Active(j) THEN [row[j] EXCEPT !.cancel = TRUE,
                                     !.state = IF @ = "queued" THEN "cancelled" ELSE @]
                ELSE row[j]]
  BY DEF Close
<1>2. ASSUME NEW j \in Jobs PROVE RowOK(row'[j]) /\ Kept(row[j], row'[j])
  <2>1. RowOK(row[j])
    BY DEF IInv, RowsOK
  <2>2. CASE Active(j)
    BY <1>1, <2>1, <2>2 DEF RowOK, Row, Kept, ACTIVE_STATES, TERMINAL_STATES, Active
  <2>3. CASE ~Active(j)
    BY <1>1, <2>1, <2>3 DEF Kept
  <2> QED
    BY <2>2, <2>3
<1> QED
  BY <1>1, <1>2, AllRowsKeep

\* A dispatch cancels what the mode blocks, or leases the job.
LEMMA DispatchKeeps ==
    ASSUME IInv, NEW j \in Jobs, Dispatch(j)
    PROVE  RowsKept
<1> DEFINE r == CancelBlocked(mode)
           y == [r[j] EXCEPT !.leased = TRUE]
<1>1. CASE row' = r
  BY <1>1, CancelBlockedRowsKeep
<1>2. CASE row' = [r EXCEPT ![j].leased = TRUE]
  <2>1. RowOK(r[j]) /\ Kept(row[j], r[j])
    BY CancelBlockedKeeps DEF IInv
  <2>2. RowOK(y) /\ Kept(row[j], y)
    BY <2>1, FlagKeeps DEF Kept
  <2>3. row' = [r EXCEPT ![j] = y]
    BY <1>2
  <2> QED
    BY <2>2, <2>3, CancelBlockedThenKeeps
<1> QED
  BY <1>1, <1>2 DEF Dispatch

\* _release_for_retry puts a job back that has an attempt left.
LEMMA ReleaseForRetryKeeps ==
    ASSUME IInv, NEW w \in Workers, ReleaseForRetry(w)
    PROVE  RowsKept
<1> DEFINE j == th[w].job
           x == row[j]
<1>1. j \in Jobs /\ RowOK(x)
  BY DEF IInv, ThreadsOK, RowsOK, ReleaseForRetry
<1>2. CASE row' = row
  BY <1>2, RowUnchangedKeeps
<1>3. CASE row' # row
  <2>1. PICK s \in {"cancelled", "queued", "outcome_unknown"} :
          /\ row' = [row EXCEPT ![j].state = s, ![j].leased = FALSE]
          /\ x.state \in ACTIVE_STATES
          /\ s = "queued" => \/ x.state = "queued" /\ x.attempts = 0
                            \/ CanReplay(KindOf[x.req], x.attempts)
    <3> DEFINE s == CASE x.cancel -> "cancelled"
                      [] ~x.cancel /\ \/ x.state = "queued" /\ x.attempts = 0
                                      \/ CanReplay(KindOf[x.req], x.attempts) -> "queued"
                      [] OTHER -> "outcome_unknown"
    <3>1. /\ row' = [row EXCEPT ![j].state = s, ![j].leased = FALSE]
          /\ x.state \in ACTIVE_STATES
      BY <1>3 DEF ReleaseForRetry
    <3>2. /\ s \in {"cancelled", "queued", "outcome_unknown"}
          /\ s = "queued" => \/ x.state = "queued" /\ x.attempts = 0
                            \/ CanReplay(KindOf[x.req], x.attempts)
      OBVIOUS
    <3> HIDE DEF s
    <3> QED
      BY <3>1, <3>2
  <2> DEFINE y == [x EXCEPT !.state = s, !.leased = FALSE]
  <2>2. RowOK(y) /\ Kept(x, y)
    <3>1. CASE s = "queued"
      BY <1>1, <2>1, <3>1, JobsAssumption
         DEF RowOK, Row, Kept, ACTIVE_STATES, CanReplay, Replayable
    <3>2. CASE s # "queued"
      <4>1. x.state # "free" /\ s \in {"cancelled", "outcome_unknown"}
        BY <2>1, <3>2 DEF ACTIVE_STATES
      <4> QED
        BY <1>1, <4>1, EndedRowKeeps
    <3> QED
      BY <3>1, <3>2
  <2>3. row' = [row EXCEPT ![j] = y]
    BY <2>1
  <2> HIDE DEF y, x, j
  <2> QED
    BY <1>1, <2>2, <2>3, OneRowKeeps DEF x
<1> QED
  BY <1>2, <1>3

\* cancel() ends a queued job and flags a running one.
LEMMA CancelKeeps ==
    ASSUME IInv, NEW j \in Jobs, Cancel(j) \/ CancelCleanup(j)
    PROVE  RowsKept
<1>1. RowOK(row[j]) /\ row \in [Jobs -> Row] /\ runs[j] <= row[j].attempts /\ runs[j] \in Nat
  <2>1. runs[j] + Cardinality(Unused(j)) <= row[j].attempts
    BY DEF IInv, RunsPaid
  <2>2. Cardinality(Unused(j)) \in Nat
    BY JobsAssumption, FS_Subset, FS_CardinalityType DEF Unused
  <2>3. row \in [Jobs -> Row] /\ runs[j] \in Nat /\ row[j].attempts \in Nat /\ RowOK(row[j])
    BY JobsAssumption DEF IInv, TypeOK, Row, RowsOK
  <2> QED
    BY <2>1, <2>2, <2>3
<1>2. CASE row' = row
  BY <1>2, RowUnchangedKeeps
<1>3. CASE Cancel(j) /\ row' # row
  <2>1. row' = [row EXCEPT ![j] = CancelledRow(row[j])] /\ row[j].state \in ACTIVE_STATES
    BY <1>1, <1>3 DEF Cancel, Active
  <2> QED
    BY <1>1, <2>1, CancelledRowKeeps, OneRowKeeps
<1>4. CASE CancelCleanup(j) /\ row' # row
  <2> DEFINE y == [row[j] EXCEPT !.state = "outcome_unknown", !.leased = FALSE]
  <2>1. row' = [row EXCEPT ![j] = y] /\ runs[j] > 0
    BY <1>4 DEF CancelCleanup
  <2>2. row[j].state # "free"
    BY <1>1, <2>1 DEF RowOK
  <2>3. RowOK(y) /\ Kept(row[j], y)
    BY <1>1, <2>2, EndedRowKeeps
  <2> QED
    BY <2>1, <2>3, OneRowKeeps
<1> QED
  BY <1>2, <1>3, <1>4

\* Time changes leases, delays and expiries only.
LEMMA ClockKeeps ==
    ASSUME IInv, NEW j \in Jobs, Clock(j)
    PROVE  RowsKept
<1>1. RowOK(row[j])
  BY DEF IInv, RowsOK
<1>2. \E y \in {[row[j] EXCEPT !.leased = FALSE], [row[j] EXCEPT !.past = TRUE],
               [row[j] EXCEPT !.delayed = FALSE]} : row' = [row EXCEPT ![j] = y]
  BY DEF Clock, Lapse, Expire, FallDue
<1> QED
  BY <1>1, <1>2, FlagKeeps, OneRowKeeps

\* The start of an attempt only renews its lease.
LEMMA AdmitKeeps ==
    ASSUME IInv, NEW w \in Workers, Admit(w)
    PROVE  RowsKept
<1> DEFINE j == th[w].job
           y == [row[j] EXCEPT !.leased = TRUE]
<1>1. j \in Jobs /\ RowOK(row[j])
  BY DEF IInv, ThreadsOK, RowsOK, Admit
<1>2. CASE row' = row
  BY <1>2, RowUnchangedKeeps
<1>3. CASE row' = CancelBlocked(mode)
  BY <1>3, CancelBlockedRowsKeep
<1>4. CASE row' = [row EXCEPT ![j].leased = TRUE]
  <2>1. row' = [row EXCEPT ![j] = y] /\ RowOK(y) /\ Kept(row[j], y)
    BY <1>1, <1>4, FlagKeeps
  <2> HIDE DEF y, j
  <2> QED
    BY <1>1, <2>1, OneRowKeeps
<1> QED
  BY <1>2, <1>3, <1>4 DEF Admit

\* The steps that leave every job its request and its attempts.
KeepingStep ==
    \/ \E j \in Jobs : \/ Cancel(j) \/ CancelCleanup(j) \/ Dispatch(j) \/ TickDispatch(j)
                       \/ Clock(j) \/ \E c \in Clients : Wait(c, j)
    \/ \E c \in Clients : ClientStep(c) \/ WaitTimeout(c)
    \/ \E w \in Workers : \/ Admit(w) \/ Defer(w) \/ ReleaseForRetry(w) \/ RunEnds(w)
                          \/ StoreFails(w)
    \/ \E h \in Handlers : (\E m \in Modes : SetMode(h, m)) \/ Release(h)
    \/ \E m \in Modes : EditMode(m)
    \/ \E d \in Direct : DirectBegin(d) \/ DirectEnd(d)
    \/ Poll \/ Tick \/ Start \/ Close \/ Crash \/ Exit

\* All steps that neither submit nor claim nor finalize keep the rows.
LEMMA KeepingStepKeeps == ASSUME IInv, KeepingStep PROVE RowsKept
<1>1. CASE row' = row
  BY <1>1, RowUnchangedKeeps
<1>2. CASE Poll \/ \E h \in Handlers, m \in Modes : SetMode(h, m)
  BY <1>1, <1>2, CancelBlockedRowsKeep DEF Poll, SetMode
<1>3. CASE \E j \in Jobs : Cancel(j) \/ CancelCleanup(j) \/ Dispatch(j) \/ Clock(j)
  BY <1>3, CancelKeeps, DispatchKeeps, ClockKeeps
<1>4. CASE \E w \in Workers : Admit(w) \/ ReleaseForRetry(w)
  BY <1>4, AdmitKeeps, ReleaseForRetryKeeps
<1>5. CASE Tick \/ Start \/ Close
  BY <1>5, TickKeeps, StartKeeps, CloseKeeps
<1>6. CASE \E j \in Jobs : TickDispatch(j) \/ \E c \in Clients : Wait(c, j)
  BY <1>1, <1>6 DEF TickDispatch, Wait
<1>7. CASE \E c \in Clients : ClientStep(c) \/ WaitTimeout(c)
  BY <1>1, <1>7 DEF ClientStep, WaitEvent, WaitBlock, WaitTimeout
<1>8. CASE \E w \in Workers : Defer(w) \/ RunEnds(w) \/ StoreFails(w)
  BY <1>1, <1>8 DEF Defer, RunEnds, StoreFails
<1>9. CASE \/ \E h \in Handlers : Release(h)
           \/ \E m \in Modes : EditMode(m)
           \/ \E d \in Direct : DirectBegin(d) \/ DirectEnd(d)
  BY <1>1, <1>9 DEF Release, Drain, ReleaseAfterDrain, Unloaded, EditMode, DirectBegin,
                    DirectEnd
<1>10. CASE Crash \/ Exit
  BY <1>1, <1>10 DEF Crash, Exit, Forgotten
<1> QED
  BY <1>2, <1>3, <1>4, <1>5, <1>6, <1>7, <1>8, <1>9, <1>10 DEF KeepingStep

-----------------------------------------------------------------------------
(* Rows, whatever the step *)

\* A job that was submitted stays submitted, for the same request.
RowsMove ==
    /\ row' \in [Jobs -> Row]
    /\ \A j \in Jobs : /\ RowOK(row'[j])
                       /\ row[j].state # "free" => /\ row'[j].state # "free"
                                                   /\ row'[j].req = row[j].req

\* submit() fills a free row with no attempts.
LEMMA SubmitMoves ==
    ASSUME IInv, NEW j \in Jobs, NEW r \in Requests, NEW late \in BOOLEAN, Submit(j, r, late)
    PROVE  RowsMove /\ \A k \in Jobs : row'[k].attempts = row[k].attempts
<1> DEFINE y == [state |-> "queued", req |-> r, attempts |-> 0, cancel |-> FALSE,
                 leased |-> FALSE, past |-> FALSE, delayed |-> late]
<1>1. RowOK(y) /\ y.attempts = 0
  BY JobsAssumption DEF RowOK, Row, ACTIVE_STATES
<1>2. row' = [row EXCEPT ![j] = y] /\ row[j].state = "free"
  BY DEF Submit
<1>3. y \in Row
  BY <1>1 DEF RowOK
<1>4. /\ row \in [Jobs -> Row]
      /\ \A k \in Jobs : RowOK(row[k])
      /\ row[j].attempts = 0
  BY <1>2 DEF IInv, TypeOK, RowsOK, RowOK
<1> HIDE DEF y
<1> QED
  BY <1>1, <1>2, <1>3, <1>4 DEF RowsMove

\* The UPDATE that claims an attempt: a queued job has one left.
LEMMA ClaimedKeeps ==
    ASSUME NEW x, RowOK(x), x.state = "queued"
    PROVE  LET y == [x EXCEPT !.state = "running", !.attempts = @ + 1, !.leased = TRUE] IN
           /\ RowOK(y) /\ y.state # "free" /\ y.req = x.req
           /\ y.attempts = x.attempts + 1 /\ x.attempts + 1 \in 0..MaxAttempts
<1> DEFINE n == x.attempts + 1
           y == [x EXCEPT !.state = "running", !.attempts = n, !.leased = TRUE]
<1>1. /\ x \in Row /\ n \in 1..MaxAttempts /\ x.req \in Requests
      /\ KindOf[x.req] \notin Replayable => n = 1
  <2>1. x \in Row /\ x.attempts \in Nat /\ x.attempts < MaxAttempts /\ x.req \in Requests
    BY JobsAssumption DEF RowOK, Row
  <2>2. KindOf[x.req] \notin Replayable => x.attempts = 0
    BY DEF RowOK
  <2> QED
    BY <2>1, <2>2, JobsAssumption
<1> HIDE DEF n
<1>2. y \in Row /\ y.state = "running" /\ y.req = x.req /\ y.attempts = n
  <2>1. n \in 0..MaxAttempts
    BY <1>1
  <2> QED
    BY <1>1, <2>1 DEF Row, ACTIVE_STATES
<1> HIDE DEF y
<1>3. RowOK(y)
  BY <1>1, <1>2 DEF RowOK
<1>4. y = [x EXCEPT !.state = "running", !.attempts = @ + 1, !.leased = TRUE]
  BY DEF y, n
<1> QED
  BY <1>1, <1>2, <1>3, <1>4 DEF n

\* The first step of a worker thread.
LEMMA ExecuteMoves ==
    ASSUME IInv, NEW w \in Workers, Execute(w)
    PROVE  LET j == th[w].job IN
           /\ RowsMove
           /\ \A k \in Jobs \ {j} : row'[k].attempts = row[k].attempts
           /\ j \in Jobs
           /\ \/ th' = [th EXCEPT ![w] = NoThread] /\ row'[j].attempts = row[j].attempts
              \/ /\ th' = [th EXCEPT ![w] = [th[w] EXCEPT !.pc = "admit",
                                                         !.attempt = row[j].attempts + 1]]
                 /\ row'[j].attempts = row[j].attempts + 1
                 /\ row[j].attempts + 1 \in 0..MaxAttempts
<1> DEFINE j == th[w].job
           r == CancelBlocked(mode)
           y == [r[j] EXCEPT !.state = "running", !.attempts = @ + 1, !.leased = TRUE]
<1>1. j \in Jobs
  BY DEF IInv, ThreadsOK, Execute
<1>2. \A k \in Jobs : RowOK(r[k]) /\ Kept(row[k], r[k])
  BY CancelBlockedKeeps DEF IInv
<1>3. CASE r[j].state # "queued" \/ r[j].cancel
  <2>1. row' = r /\ th' = [th EXCEPT ![w] = NoThread]
    BY <1>3 DEF Execute, Thread
  <2>2. RowsKept
    BY <2>1, CancelBlockedRowsKeep
  <2> QED
    BY <1>1, <2>1, <2>2 DEF RowsKept, RowsMove, Kept
<1>4. CASE ~(r[j].state # "queued" \/ r[j].cancel)
  <2>1. /\ row' = [r EXCEPT ![j] = y]
        /\ th' = [th EXCEPT ![w] = [th[w] EXCEPT !.pc = "admit",
                                                !.attempt = row[j].attempts + 1]]
    BY <1>4 DEF Execute, Thread
  <2>2. /\ RowOK(y) /\ y.state # "free" /\ y.req = row[j].req
        /\ y.attempts = row[j].attempts + 1 /\ row[j].attempts + 1 \in 0..MaxAttempts
    <3>1. RowOK(r[j]) /\ r[j].state = "queued" /\ r[j].req = row[j].req
          /\ r[j].attempts = row[j].attempts
      BY <1>1, <1>2, <1>4 DEF Kept
    <3> HIDE DEF r, j
    <3> QED
      BY <3>1, ClaimedKeeps
  <2>3. r = [k \in Jobs |-> r[k]]
    BY DEF CancelBlocked
  <2>4. y \in Row /\ \A k \in Jobs : r[k] \in Row
    BY <1>2, <2>2 DEF RowOK
  <2> HIDE DEF y, r, j
  <2>5. /\ row' \in [Jobs -> Row] /\ row'[j] = y
        /\ \A k \in Jobs \ {j} : row'[k] = r[k]
    BY <1>1, <2>1, <2>3, <2>4
  <2>6. RowsMove
    BY <1>2, <2>2, <2>5 DEF RowsMove, Kept
  <2> QED
    BY <1>1, <1>2, <2>1, <2>2, <2>5, <2>6 DEF Kept, j
<1> QED
  BY <1>3, <1>4

\* The end of an attempt: only its owner changes the row, and only a deferral
\* gives the attempt back.
LEMMA FinalizeMoves ==
    ASSUME IInv, NEW w \in Workers, Finalize(w)
    PROVE  LET j == th[w].job IN
           /\ RowsMove
           /\ \A k \in Jobs \ {j} : row'[k] = row[k]
           /\ j \in Jobs
           /\ \/ row'[j].attempts = row[j].attempts
              \/ row'[j].attempts = row[j].attempts - 1 /\ th[w].res = "deferred"
           /\ row'[j] # row[j] => Owns(w)
           /\ row'[j].state = "done" /\ row[j].state # "done" => th[w].res = "ok"
<1> DEFINE j == th[w].job
           y == Recorded(row[j], th[w].res)
<1>1. /\ j \in Jobs /\ RowOK(row[j]) /\ row \in [Jobs -> Row]
      /\ \A k \in Jobs : RowOK(row[k])
  BY DEF IInv, ThreadsOK, RowsOK, Finalize, TypeOK
<1>2. CASE row' = row
  BY <1>1, <1>2 DEF RowsMove
<1>3. CASE row' # row
  <2>1. row' = [row EXCEPT ![j] = y] /\ Owns(w) /\ row[j].state = "running"
    BY <1>3 DEF Finalize, Owns
  <2>2. /\ RowOK(y) /\ y.state # "free" /\ y.req = row[j].req
        /\ \/ y.attempts = row[j].attempts
           \/ th[w].res = "deferred" /\ y.attempts = row[j].attempts - 1
        /\ y.state = "done" => th[w].res = "ok"
    BY <1>1, <2>1, RecordedKeeps
  <2>3. y \in Row
    BY <2>2 DEF RowOK
  <2> HIDE DEF y, j
  <2>4. /\ row' \in [Jobs -> Row] /\ row'[j] = y
        /\ \A k \in Jobs \ {j} : row'[k] = row[k]
    BY <1>1, <2>1, <2>3
  <2>5. RowsMove
    BY <1>1, <2>2, <2>4 DEF RowsMove
  <2> QED
    BY <1>1, <2>1, <2>2, <2>4, <2>5 DEF j
<1> QED
  BY <1>2, <1>3

\* How any step may change a row.
LEMMA NextMoves == ASSUME IInv, Next PROVE RowsMove
<1>1. CASE KeepingStep
  BY <1>1, KeepingStepKeeps DEF RowsKept, RowsMove, Kept
<1>2. CASE \E j \in Jobs, r \in Requests, late \in BOOLEAN : Submit(j, r, late)
  BY <1>2, SubmitMoves
<1>3. CASE \E w \in Workers : Execute(w)
  BY <1>3, ExecuteMoves
<1>4. CASE \E w \in Workers : Finalize(w)
  BY <1>4, FinalizeMoves
<1> QED
  BY <1>1, <1>2, <1>3, <1>4 DEF Next, KeepingStep, ThreadStep

-----------------------------------------------------------------------------
(* Worker threads *)

ThreadRec == [pc: {"idle", "start", "admit", "run", "final", "defer", "retry"},
              job: Jobs \cup {None}, attempt: 0..MaxAttempts,
              res: {None, "ok", "lost", "fail", "error", "unknown", "refused", "deferred"}]

\* A thread goes on with its job, ends, or is given a job that was submitted.
ThreadsMove ==
    /\ th' \in [Workers -> ThreadRec]
    /\ \A w \in Workers :
         \/ th'[w] = th[w]
         \/ th'[w] = NoThread
         \/ th[w].pc # "idle" /\ th'[w].job = th[w].job
         \/ th'[w].job \in Jobs /\ row[th'[w].job].state # "free"

\* The record of a thread, field by field.
LEMMA ThreadTypes ==
    ASSUME IInv
    PROVE  /\ th \in [Workers -> ThreadRec] /\ NoThread \in ThreadRec
           /\ NoThread.pc = "idle"
BY JobsAssumption DEF IInv, TypeOK, ThreadRec, NoThread

\* A step of one thread leaves the others as they are.
LEMMA OneThreadMoves ==
    ASSUME IInv, NEW w \in Workers, NEW t \in ThreadRec, th' = [th EXCEPT ![w] = t],
           \/ t = NoThread
           \/ th[w].pc # "idle" /\ t.job = th[w].job
           \/ t.job \in Jobs /\ row[t.job].state # "free"
    PROVE  ThreadsMove
BY ThreadTypes DEF ThreadsMove

\* A thread that goes on: its program counter, and its attempt or its result.
LEMMA ThreadStepMoves ==
    ASSUME IInv, NEW w \in Workers, th[w].pc # "idle",
           NEW pc \in {"start", "admit", "run", "final", "defer", "retry"},
           th' = [th EXCEPT ![w] = [th[w] EXCEPT !.pc = pc]]
    PROVE  ThreadsMove
<1> DEFINE t == [th[w] EXCEPT !.pc = pc]
<1>1. th[w] \in ThreadRec
  BY ThreadTypes
<1>2. t \in ThreadRec /\ t.job = th[w].job
  BY <1>1 DEF ThreadRec
<1> HIDE DEF t
<1> QED
  BY <1>2, OneThreadMoves DEF t

\* A thread that was given an attempt keeps its job.
LEMMA ThreadClaimMoves ==
    ASSUME IInv, NEW w \in Workers, th[w].pc # "idle", NEW n \in 0..MaxAttempts,
           th' = [th EXCEPT ![w] = [th[w] EXCEPT !.pc = "admit", !.attempt = n]]
    PROVE  ThreadsMove
<1> DEFINE t == [th[w] EXCEPT !.pc = "admit", !.attempt = n]
<1>1. th[w] \in ThreadRec
  BY ThreadTypes
<1>2. t \in ThreadRec /\ t.job = th[w].job
  BY <1>1 DEF ThreadRec
<1> HIDE DEF t
<1> QED
  BY <1>2, OneThreadMoves DEF t

\* A thread that has a result keeps its job.
LEMMA ThreadResultMoves ==
    ASSUME IInv, NEW w \in Workers, th[w].pc # "idle",
           NEW res \in {"ok", "lost", "fail", "error", "unknown", "refused", "deferred"},
           th' = [th EXCEPT ![w] = [th[w] EXCEPT !.pc = "final", !.res = res]]
    PROVE  ThreadsMove
<1> DEFINE t == [th[w] EXCEPT !.pc = "final", !.res = res]
<1>1. th[w] \in ThreadRec
  BY ThreadTypes
<1>2. t \in ThreadRec /\ t.job = th[w].job
  BY <1>1 DEF ThreadRec
<1> HIDE DEF t
<1> QED
  BY <1>2, OneThreadMoves DEF t

\* How any step may change a thread.
LEMMA NextThreads == ASSUME IInv, Next PROVE ThreadsMove
<1> USE DEF Thread
<1>1. CASE th' = th
  BY <1>1, ThreadTypes DEF ThreadsMove
<1>2. ASSUME NEW w \in Workers, Execute(w) PROVE ThreadsMove
  <2>1. \/ th' = [th EXCEPT ![w] = NoThread]
        \/ \E n \in 0..MaxAttempts :
             th' = [th EXCEPT ![w] = [th[w] EXCEPT !.pc = "admit", !.attempt = n]]
    BY <1>2, ExecuteMoves
  <2>2. th[w].pc # "idle"
    BY <1>2 DEF Execute
  <2> QED
    BY <2>1, <2>2, ThreadTypes, ThreadClaimMoves, OneThreadMoves
<1>3. ASSUME NEW w \in Workers, Admit(w) PROVE ThreadsMove
  <2>1. \/ th' = [th EXCEPT ![w] = [th[w] EXCEPT !.pc = "run"]]
        \/ \E res \in {"deferred", "refused"} :
             th' = [th EXCEPT ![w] = [th[w] EXCEPT !.pc = "final", !.res = res]]
    BY <1>3 DEF Admit
  <2>2. th[w].pc # "idle"
    BY <1>3 DEF Admit
  <2> QED
    BY <2>1, <2>2, ThreadStepMoves, ThreadResultMoves
<1>4. ASSUME NEW w \in Workers, Finalize(w) \/ Defer(w) \/ ReleaseForRetry(w)
      PROVE  ThreadsMove
  <2>1. \/ th' = [th EXCEPT ![w] = NoThread]
        \/ th' = [th EXCEPT ![w] = [th[w] EXCEPT !.pc = "defer"]]
    BY <1>4 DEF Finalize, Defer, ReleaseForRetry
  <2>2. th[w].pc # "idle"
    BY <1>4 DEF Finalize, Defer, ReleaseForRetry
  <2> QED
    BY <2>1, <2>2, ThreadTypes, ThreadStepMoves, OneThreadMoves
<1>5. ASSUME NEW w \in Workers, RunEnds(w) \/ StoreFails(w) PROVE ThreadsMove
  <2>1. \/ th' = [th EXCEPT ![w] = [th[w] EXCEPT !.pc = "retry"]]
        \/ \E res \in {"ok", "lost", "fail", "error", "unknown"} :
             th' = [th EXCEPT ![w] = [th[w] EXCEPT !.pc = "final", !.res = res]]
    BY <1>5 DEF RunEnds, StoreFails
  <2>2. th[w].pc # "idle"
    BY <1>5 DEF RunEnds, StoreFails
  <2> QED
    BY <2>1, <2>2, ThreadStepMoves, ThreadResultMoves
<1>6. ASSUME NEW j \in Jobs, Dispatch(j) PROVE ThreadsMove
  <2>1. CASE th' # th
    <3>1. PICK w \in Workers :
            /\ th[w] = NoThread
            /\ th' = [th EXCEPT ![w] = [NoThread EXCEPT !.pc = "start", !.job = j]]
      BY <1>6, <2>1 DEF Dispatch
    <3>2. row[j].state # "free"
      <4>1. CancelBlocked(mode)[j].state = "queued"
        BY <1>6, <2>1 DEF Dispatch, Dispatchable
      <4> QED
        BY <4>1, CancelBlockedKeeps DEF IInv, Kept
    <3> DEFINE t == [NoThread EXCEPT !.pc = "start", !.job = j]
    <3>3. t \in ThreadRec /\ t.job = j
      <4>1. NoThread \in ThreadRec
        BY ThreadTypes
      <4> QED
        BY <4>1 DEF ThreadRec
    <3>4. th' = [th EXCEPT ![w] = t]
      BY <3>1
    <3> HIDE DEF t
    <3> QED
      BY <3>2, <3>3, <3>4, OneThreadMoves
  <2> QED
    BY <1>1, <2>1
<1>7. CASE Crash \/ Exit
  BY <1>7, ThreadTypes DEF Crash, Exit, Forgotten, ThreadsMove
<1>8. CASE \E j \in Jobs : \/ \E r \in Requests, late \in BOOLEAN : Submit(j, r, late)
                          \/ Cancel(j) \/ CancelCleanup(j) \/ TickDispatch(j) \/ Clock(j)
                          \/ \E c \in Clients : Wait(c, j)
  BY <1>1, <1>8 DEF Submit, Cancel, CancelCleanup, TickDispatch, Clock, Lapse, Expire, FallDue,
                    Wait, memory
<1>9. CASE \E c \in Clients : ClientStep(c) \/ WaitTimeout(c)
  BY <1>1, <1>9 DEF ClientStep, WaitEvent, WaitBlock, WaitTimeout
<1>10. CASE \E h \in Handlers : (\E m \in Modes : SetMode(h, m)) \/ Release(h)
  BY <1>1, <1>10 DEF SetMode, Release, Drain, ReleaseAfterDrain, Unloaded
<1>11. CASE \/ \E m \in Modes : EditMode(m)
            \/ \E d \in Direct : DirectBegin(d) \/ DirectEnd(d)
            \/ Poll \/ Tick \/ Start \/ Close
  BY <1>1, <1>11 DEF EditMode, DirectBegin, DirectEnd, Poll, Tick, Start, Close, memory
<1> QED
  BY <1>2, <1>3, <1>4, <1>5, <1>6, <1>7, <1>8, <1>9, <1>10, <1>11 DEF Next, ThreadStep

\* A thread stays on a job that was submitted.
LEMMA NextThreadsOK == ASSUME IInv, Next PROVE ThreadsOK'
BY NextMoves, NextThreads, ThreadTypes DEF RowsMove, ThreadsMove, IInv, ThreadsOK

-----------------------------------------------------------------------------
(* Attempts pay for invocations of the executor *)

\* There are finitely many attempts given and not used.
LEMMA UnusedFinite ==
    ASSUME NEW j
    PROVE  /\ IsFiniteSet(Unused(j)) /\ Cardinality(Unused(j)) \in Nat
           /\ IsFiniteSet(Unused(j)') /\ Cardinality(Unused(j)') \in Nat
<1>1. Unused(j) \subseteq Workers /\ Unused(j)' \subseteq Workers
  BY DEF Unused
<1> QED
  BY <1>1, JobsAssumption, FS_Subset, FS_CardinalityType

\* The counts of attempts and runs are natural numbers.
LEMMA PaidTypes ==
    ASSUME IInv, NEW j \in Jobs
    PROVE  /\ runs[j] \in Nat /\ row[j].attempts \in Nat /\ runs \in [Jobs -> Nat]
           /\ runs[j] + Cardinality(Unused(j)) <= row[j].attempts
BY JobsAssumption DEF IInv, TypeOK, Row, RunsPaid

\* No thread is given an attempt.
NoneGiven == \A u \in Workers : Holds(th'[u]) => Holds(th[u]) /\ th'[u].job = th[u].job

\* A step that gives no attempt to a thread adds no unused one.
LEMMA OneThreadNoneGiven ==
    ASSUME IInv, NEW w \in Workers, NEW t, th' = [th EXCEPT ![w] = t], ~Holds(t)
    PROVE  NoneGiven
BY ThreadTypes DEF NoneGiven

\* No thread is given an attempt, no job loses one, and the executor is not invoked.
LEMMA StillPaid ==
    ASSUME IInv, runs' = runs, NoneGiven,
           \A j \in Jobs : row'[j].attempts = row[j].attempts
    PROVE  RunsPaid'
<1> SUFFICES ASSUME NEW j \in Jobs
             PROVE  runs'[j] + Cardinality(Unused(j)') <= row'[j].attempts
  BY DEF RunsPaid
<1>1. Unused(j)' \subseteq Unused(j)
  BY DEF Unused, NoneGiven
<1>2. Cardinality(Unused(j)') <= Cardinality(Unused(j))
  BY <1>1, UnusedFinite, FS_Subset
<1> HIDE DEF Unused
<1> QED
  BY <1>2, UnusedFinite, PaidTypes

\* A thread uses its attempt, or gives it back.
LEMMA PaidByOne ==
    ASSUME IInv, NEW w \in Workers, NEW t, th' = [th EXCEPT ![w] = t],
           Holds(th[w]), ~Holds(t), th[w].job \in Jobs,
           \A j \in Jobs \ {th[w].job} : /\ runs'[j] = runs[j]
                                         /\ row'[j].attempts = row[j].attempts,
           LET j == th[w].job IN
             \/ runs'[j] = runs[j] + 1 /\ row'[j].attempts = row[j].attempts
             \/ runs'[j] = runs[j] /\ row'[j].attempts = row[j].attempts - 1
    PROVE  RunsPaid'
<1> SUFFICES ASSUME NEW j \in Jobs
             PROVE  runs'[j] + Cardinality(Unused(j)') <= row'[j].attempts
  BY DEF RunsPaid
<1>1. th'[w] = t /\ \A u \in Workers \ {w} : th'[u] = th[u]
  BY ThreadTypes
<1>2. CASE j = th[w].job
  <2>1. Unused(j)' = Unused(j) \ {w} /\ w \in Unused(j)
    BY <1>1, <1>2 DEF Unused
  <2>2. Cardinality(Unused(j)') = Cardinality(Unused(j)) - 1
    BY <2>1, UnusedFinite, FS_RemoveElement
  <2> QED
    BY <1>2, <2>2, UnusedFinite, PaidTypes
<1>3. CASE j # th[w].job
  <2>1. Unused(j)' = Unused(j)
    BY <1>1, <1>3 DEF Unused
  <2> QED
    BY <1>3, <2>1, PaidTypes
<1> QED
  BY <1>2, <1>3

\* _claim adds one attempt and one unused one.
LEMMA ExecutePaid ==
    ASSUME IInv, NEW w \in Workers, Execute(w)
    PROVE  RunsPaid'
<1> DEFINE i == th[w].job
<1>1. /\ i \in Jobs /\ ~Holds(th[w]) /\ runs' = runs
      /\ \A k \in Jobs \ {i} : row'[k].attempts = row[k].attempts
  BY ExecuteMoves DEF Execute, Holds
<1>2. CASE th' = [th EXCEPT ![w] = NoThread] /\ row'[i].attempts = row[i].attempts
  <2>1. NoneGiven
    <3>1. ~Holds(NoThread)
      BY DEF Holds, NoThread
    <3> QED
      BY <1>2, <3>1, OneThreadNoneGiven
  <2> QED
    BY <1>1, <1>2, <2>1, StillPaid
<1>3. CASE /\ th' = [th EXCEPT ![w] = [th[w] EXCEPT !.pc = "admit",
                                                   !.attempt = row[i].attempts + 1]]
           /\ row'[i].attempts = row[i].attempts + 1
  <2> SUFFICES ASSUME NEW j \in Jobs
               PROVE  runs'[j] + Cardinality(Unused(j)') <= row'[j].attempts
    BY DEF RunsPaid
  <2>1. /\ th'[w].job = i /\ Holds(th'[w])
        /\ \A u \in Workers \ {w} : th'[u] = th[u]
    BY <1>3, ThreadTypes DEF Holds, ThreadRec
  <2>2. CASE j = i
    <3>1. Unused(j)' = Unused(j) \cup {w} /\ w \notin Unused(j)
      BY <1>1, <2>1, <2>2 DEF Unused
    <3>2. Cardinality(Unused(j)') = Cardinality(Unused(j)) + 1
      BY <3>1, UnusedFinite, FS_AddElement
    <3> QED
      BY <1>1, <1>3, <2>2, <3>2, UnusedFinite, PaidTypes
  <2>3. CASE j # i
    <3>1. Unused(j)' = Unused(j)
      BY <1>1, <2>1, <2>3 DEF Unused
    <3> QED
      BY <1>1, <2>3, <3>1, PaidTypes
  <2> QED
    BY <2>2, <2>3
<1> QED
  BY <1>2, <1>3, ExecuteMoves

\* An admitted thread turns its unused attempt into a run.
LEMMA AdmitPaid ==
    ASSUME IInv, NEW w \in Workers, Admit(w)
    PROVE  RunsPaid'
<1> DEFINE j == th[w].job
<1>1. /\ j \in Jobs /\ Holds(th[w])
      /\ \A k \in Jobs : row'[k].attempts = row[k].attempts
  <2>1. RowsKept
    BY AdmitKeeps
  <2> QED
    BY <2>1 DEF RowsKept, Kept, IInv, ThreadsOK, Admit, Holds
<1>2. CASE runs' = runs
  <2>1. PICK res : th' = [th EXCEPT ![w] = [th[w] EXCEPT !.pc = "final", !.res = res]]
    <3>1. runs # [runs EXCEPT ![j] = @ + 1]
      BY <1>1, PaidTypes
    <3> QED
      BY <1>2, <3>1 DEF Admit, Thread
  <2>2. NoneGiven
    BY <1>1, <2>1, ThreadTypes DEF ThreadRec, NoneGiven
  <2> QED
    BY <1>1, <1>2, <2>2, StillPaid
<1>3. CASE runs' # runs
  <2> DEFINE t == [th[w] EXCEPT !.pc = "run"]
  <2>1. th' = [th EXCEPT ![w] = t] /\ runs' = [runs EXCEPT ![j] = @ + 1]
    BY <1>3 DEF Admit, Thread
  <2>2. ~Holds(t)
    BY ThreadTypes DEF Holds, ThreadRec
  <2>3. runs'[j] = runs[j] + 1 /\ \A k \in Jobs \ {j} : runs'[k] = runs[k]
    BY <1>1, <2>1, PaidTypes
  <2> HIDE DEF t
  <2> QED
    BY <1>1, <2>1, <2>2, <2>3, PaidByOne
<1> QED
  BY <1>2, <1>3

\* An attempt is taken back only from the thread that has not used it.
LEMMA FinalizePaid ==
    ASSUME IInv, NEW w \in Workers, Finalize(w)
    PROVE  RunsPaid'
<1> DEFINE j == th[w].job
<1>1. PICK t : th' = [th EXCEPT ![w] = t] /\ ~Holds(t)
  BY ThreadTypes DEF Finalize, Thread, Holds, ThreadRec, NoThread
<1>2. /\ j \in Jobs /\ runs' = runs
      /\ \A k \in Jobs \ {j} : row'[k].attempts = row[k].attempts
  BY FinalizeMoves DEF Finalize
<1>3. CASE row'[j].attempts = row[j].attempts
  <2>1. NoneGiven
    BY <1>1, OneThreadNoneGiven
  <2> QED
    BY <1>2, <1>3, <2>1, StillPaid
<1>4. CASE row'[j].attempts = row[j].attempts - 1 /\ th[w].res = "deferred"
  <2>1. Holds(th[w])
    BY <1>4 DEF Holds, Finalize
  <2> QED
    BY <1>1, <1>2, <1>4, <2>1, PaidByOne
<1> QED
  BY <1>3, <1>4, FinalizeMoves

\* Every step keeps runs and unused attempts within the attempts.
LEMMA NextPaid == ASSUME IInv, Next PROVE RunsPaid'
<1>1. CASE \E w \in Workers : Execute(w) \/ Admit(w) \/ Finalize(w)
  BY <1>1, ExecutePaid, AdmitPaid, FinalizePaid
<1>2. CASE /\ KeepingStep \/ \E j \in Jobs, r \in Requests, late \in BOOLEAN : Submit(j, r, late)
           /\ ~\E w \in Workers : Admit(w)
  <2> USE DEF Thread
  <2>1. \A j \in Jobs : row'[j].attempts = row[j].attempts
    BY <1>2, KeepingStepKeeps, SubmitMoves DEF RowsKept, Kept
  <2>2. runs' = runs /\ NoneGiven
    <3>1. CASE th' = th /\ runs' = runs
      BY <3>1 DEF NoneGiven
    <3>3. ASSUME NEW w \in Workers, Defer(w) \/ ReleaseForRetry(w) \/ RunEnds(w) \/ StoreFails(w)
          PROVE  runs' = runs /\ NoneGiven
      <4>1. PICK t : /\ th' = [th EXCEPT ![w] = t]
                     /\ \/ t = NoThread
                        \/ t = [th[w] EXCEPT !.pc = "retry"]
                        \/ \E res \in {"ok", "lost", "fail", "error", "unknown"} :
                             t = [th[w] EXCEPT !.pc = "final", !.res = res]
        BY <3>3 DEF Defer, ReleaseForRetry, RunEnds, StoreFails
      <4>2. th[w] \in ThreadRec
        BY ThreadTypes
      <4>3. ~Holds(t)
        <5>1. CASE t = NoThread
          BY <5>1 DEF Holds, NoThread
        <5>2. CASE t = [th[w] EXCEPT !.pc = "retry"]
          BY <4>2, <5>2 DEF Holds, ThreadRec
        <5>3. ASSUME NEW res \in {"ok", "lost", "fail", "error", "unknown"},
                     t = [th[w] EXCEPT !.pc = "final", !.res = res]
              PROVE  ~Holds(t)
          <6>1. t.pc = "final" /\ t.res = res
            BY <4>2, <5>3 DEF ThreadRec
          <6> QED
            BY <6>1 DEF Holds
        <5> QED
          BY <4>1, <5>1, <5>2, <5>3
      <4> QED
        BY <3>3, <4>1, <4>3, OneThreadNoneGiven DEF Defer, ReleaseForRetry, RunEnds, StoreFails
    <3>4. ASSUME NEW j \in Jobs, Dispatch(j)
          PROVE  runs' = runs /\ NoneGiven
      <4>1. CASE th' = th
        BY <3>1, <3>4, <4>1 DEF Dispatch
      <4>2. CASE th' # th
        <5>1. PICK w \in Workers :
                th' = [th EXCEPT ![w] = [th[w] EXCEPT !.pc = "start", !.job = j]]
          BY <3>4, <4>2 DEF Dispatch
        <5>2. ~Holds([th[w] EXCEPT !.pc = "start", !.job = j])
          BY ThreadTypes DEF Holds, ThreadRec
        <5> QED
          BY <3>4, <5>1, <5>2, OneThreadNoneGiven DEF Dispatch
      <4> QED
        BY <4>1, <4>2
    <3>5. CASE Crash \/ Exit
      BY <3>5 DEF Crash, Exit, Forgotten, Holds, NoThread, NoneGiven
    <3>6. CASE \E j \in Jobs : \/ \E r \in Requests, late \in BOOLEAN : Submit(j, r, late)
                              \/ Cancel(j) \/ CancelCleanup(j) \/ TickDispatch(j) \/ Clock(j)
                              \/ \E c \in Clients : Wait(c, j)
      BY <3>1, <3>6 DEF Submit, Cancel, CancelCleanup, TickDispatch, Clock, Lapse, Expire,
                        FallDue, Wait, memory
    <3>7. CASE \E c \in Clients : ClientStep(c) \/ WaitTimeout(c)
      BY <3>1, <3>7 DEF ClientStep, WaitEvent, WaitBlock, WaitTimeout
    <3>8. CASE \E h \in Handlers : (\E m \in Modes : SetMode(h, m)) \/ Release(h)
      BY <3>1, <3>8 DEF SetMode, Release, Drain, ReleaseAfterDrain, Unloaded
    <3>9. CASE \/ \E m \in Modes : EditMode(m)
               \/ \E d \in Direct : DirectBegin(d) \/ DirectEnd(d)
               \/ Poll \/ Tick \/ Start \/ Close
      BY <3>1, <3>9 DEF EditMode, DirectBegin, DirectEnd, Poll, Tick, Start, Close, memory
    <3> QED
      BY <1>2, <3>3, <3>4, <3>5, <3>6, <3>7, <3>8, <3>9 DEF KeepingStep
  <2> QED
    BY <2>1, <2>2, StillPaid
<1> QED
  BY <1>1, <1>2 DEF Next, KeepingStep, ThreadStep

-----------------------------------------------------------------------------
(* No unload during an inference *)

\* No thread starts the executor.
NoneStarted == \A w \in Workers : th'[w].pc = "run" => th[w].pc = "run" /\ th'[w].job = th[w].job

\* A step that starts no executor admits no inference.
LEMMA AdmissionsShrink ==
    ASSUME IInv, RowsMove, NoneStarted
    PROVE  Admissions' \subseteq Admissions
BY DEF IInv, ThreadsOK, RowsMove, Admissions, Kind, NoneStarted

\* A thread that does not go on to run starts no executor.
LEMMA OneThreadNoneStarted ==
    ASSUME IInv, NEW w \in Workers, NEW t, th' = [th EXCEPT ![w] = t], t.pc # "run"
    PROVE  NoneStarted
BY ThreadTypes DEF NoneStarted

\* The record of a mode handler, field by field.
LEMMA ReleaseTypes ==
    ASSUME IInv
    PROVE  rel \in [Handlers -> [pc: {"idle", "drain", "defer", "parked", "unload"},
                                rev: 0..MaxModes, by: Workers \cup {None}]]
BY DEF IInv, TypeOK

\* Threads of the other actions, and every action that leaves the accelerator alone.
LEMMA SameRelease ==
    ASSUME IInv, RowsMove, NoneStarted, rel' = rel, direct' = direct
    PROVE  NoUnloadDuringInference'
<1>1. Admissions' \subseteq Admissions
  BY AdmissionsShrink
<1> QED
  BY <1>1 DEF IInv, NoUnloadDuringInference

\* inference_admission refuses while anybody holds a release token.
LEMMA AdmitNoUnload ==
    ASSUME IInv, NEW w \in Workers, Admit(w), RowsMove
    PROVE  NoUnloadDuringInference'
<1> DEFINE j == th[w].job
<1>1. rel' = rel /\ direct' = direct
  BY DEF Admit, accelerator
<1>2. \A u \in Workers \ {w} : th'[u] = th[u]
  BY ThreadTypes DEF Admit, Thread
<1>3. CASE th'[w].pc # "run"
  <2>1. NoneStarted
    BY <1>2, <1>3 DEF NoneStarted
  <2> QED
    BY <1>1, <2>1, SameRelease
<1>4. CASE th'[w].pc = "run"
  <2>1. j \in Jobs /\ row[j].state # "free"
    BY DEF IInv, ThreadsOK, Admit
  <2>2. th'[w].job = j /\ ~(Tokens # {} /\ Inference(Kind(j)))
    <3>1. ASSUME NEW res, th' = [th EXCEPT ![w] = [th[w] EXCEPT !.pc = "final", !.res = res]]
          PROVE  FALSE
      BY <1>4, <3>1, ThreadTypes DEF ThreadRec
    <3>2. /\ th' = [th EXCEPT ![w] = [th[w] EXCEPT !.pc = "run"]]
          /\ ~(Tokens # {} /\ Inference(Kind(j)))
      BY <3>1 DEF Admit, Thread
    <3> QED
      BY <3>2, ThreadTypes DEF ThreadRec
  <2>3. SUFFICES ASSUME NEW h \in Handlers, rel[h].pc = "unload"
                 PROVE  Admissions' = {} /\ direct' = {}
    BY <1>1 DEF NoUnloadDuringInference
  <2>4. ~Inference(Kind(j)) /\ Admissions = {} /\ direct = {}
    BY <2>2, <2>3 DEF Tokens, IInv, NoUnloadDuringInference
  <2>5. ASSUME NEW u \in Workers, u \in Admissions' PROVE FALSE
    <3>1. CASE u = w
      <4>1. row'[j].req = row[j].req
        BY <2>1 DEF RowsMove
      <4> QED
        BY <2>2, <2>4, <2>5, <3>1, <4>1 DEF Admissions, Kind
    <3>2. CASE u # w
      <4>1. u \in Admissions
        BY <1>2, <2>5, <3>2 DEF Admissions, Kind, RowsMove, IInv, ThreadsOK
      <4> QED
        BY <2>4, <4>1
    <3> QED
      BY <3>1, <3>2
  <2> QED
    BY <1>1, <2>4, <2>5 DEF Admissions
<1> QED
  BY <1>3, <1>4

\* The last inference to end runs the parked releases, and nothing runs beside it.
LEMMA RunEndsNoUnload ==
    ASSUME IInv, NEW w \in Workers, RunEnds(w), RowsMove
    PROVE  NoUnloadDuringInference'
<1>1. PICK res : th' = [th EXCEPT ![w] = [th[w] EXCEPT !.pc = "final", !.res = res]]
  BY DEF RunEnds, Thread
<1>2. th'[w].pc = "final"
  BY <1>1, ThreadTypes DEF ThreadRec
<1>3. NoneStarted
  BY <1>1, <1>2, ThreadTypes DEF NoneStarted
<1>4. Admissions' \subseteq Admissions \ {w} /\ direct' = direct
  BY <1>2, <1>3, AdmissionsShrink DEF Admissions, RunEnds
<1>5. CASE w \notin Admissions
  BY <1>3, <1>4, <1>5, SameRelease DEF RunEnds
<1>6. CASE w \in Admissions
  <2> SUFFICES ASSUME NEW h \in Handlers, rel'[h].pc = "unload"
               PROVE  Admissions' = {} /\ direct' = {}
    BY DEF NoUnloadDuringInference
  <2>1. rel[h].pc # "unload"
    BY <1>6 DEF IInv, NoUnloadDuringInference
  <2>2. ~(direct # {} \/ Admissions # {w})
    BY <1>6, <2>1 DEF RunEnds, Drained
  <2> QED
    BY <1>4, <2>2
<1> QED
  BY <1>5, <1>6

\* A direct request starts only while no unloading is under way.
LEMMA DirectNoUnload ==
    ASSUME IInv, NEW d \in Direct, DirectBegin(d) \/ DirectEnd(d)
    PROVE  NoUnloadDuringInference'
<1>1. Admissions' = Admissions
  BY DEF DirectBegin, DirectEnd, Admissions, Kind
<1>2. CASE DirectBegin(d)
  BY <1>2 DEF DirectBegin, NoUnloadDuringInference, Tokens
<1>3. CASE DirectEnd(d)
  <2> SUFFICES ASSUME NEW h \in Handlers, rel'[h].pc = "unload"
               PROVE  Admissions' = {} /\ direct' = {}
    BY DEF NoUnloadDuringInference
  <2>1. CASE rel[h].pc = "unload"
    BY <1>1, <1>3, <2>1 DEF IInv, NoUnloadDuringInference, DirectEnd
  <2>2. CASE rel[h].pc # "unload"
    <3>1. ~(Admissions # {} \/ direct # {d}) /\ direct' = direct \ {d}
      BY <1>3, <2>2 DEF DirectEnd, Drained
    <3> QED
      BY <1>1, <3>1
  <2> QED
    BY <2>1, <2>2
<1> QED
  BY <1>2, <1>3

\* A release is begun, deferred, performed or given up.
LEMMA ReleaseNoUnload ==
    ASSUME IInv, RowsMove, NEW h \in Handlers,
           (\E m \in Modes : SetMode(h, m)) \/ Release(h)
    PROVE  NoUnloadDuringInference'
<1>1. th' = th /\ direct' = direct
  BY DEF SetMode, Release, Drain, ReleaseAfterDrain, Unloaded
<1>2. Admissions' \subseteq Admissions
  BY <1>1, AdmissionsShrink DEF NoneStarted
<1> SUFFICES ASSUME NEW g \in Handlers, rel'[g].pc = "unload"
             PROVE  Admissions' = {} /\ direct' = {}
  BY DEF NoUnloadDuringInference
<1>3. CASE rel[g].pc = "unload"
  BY <1>1, <1>2, <1>3 DEF IInv, NoUnloadDuringInference
<1>4. CASE rel[g].pc # "unload"
  <2>1. InferenceDrained
    BY <1>4, ReleaseTypes
       DEF SetMode, Release, Drain, ReleaseAfterDrain, Unloaded, EndRelease, NoRelease
  <2> QED
    BY <1>1, <1>2, <2>1 DEF InferenceDrained
<1> QED
  BY <1>3, <1>4

\* No step lets an unloading and an inference overlap.
LEMMA NextNoUnload == ASSUME IInv, Next PROVE NoUnloadDuringInference'
<1> USE DEF Thread
<1>1. RowsMove
  BY NextMoves
<1>2. CASE th' = th /\ rel' = rel /\ direct' = direct
  BY <1>1, <1>2, SameRelease DEF NoneStarted
<1>3. CASE \E w \in Workers : Admit(w) \/ RunEnds(w)
  BY <1>1, <1>3, AdmitNoUnload, RunEndsNoUnload
<1>4. ASSUME NEW w \in Workers,
             Execute(w) \/ Finalize(w) \/ Defer(w) \/ ReleaseForRetry(w) \/ StoreFails(w)
      PROVE  NoUnloadDuringInference'
  <2>1. PICK t : /\ th' = [th EXCEPT ![w] = t]
                 /\ \/ t = NoThread
                    \/ \E pc \in {"defer", "retry"} : t = [th[w] EXCEPT !.pc = pc]
                    \/ \E n : t = [th[w] EXCEPT !.pc = "admit", !.attempt = n]
                    \/ t = [th[w] EXCEPT !.pc = "final", !.res = "error"]
    BY <1>4 DEF Execute, Finalize, Defer, ReleaseForRetry, StoreFails
  <2>2. th[w] \in ThreadRec
    BY ThreadTypes
  <2>3. t.pc # "run"
    <3>1. CASE t = NoThread
      BY <3>1 DEF NoThread
    <3>2. CASE \E pc \in {"defer", "retry"} : t = [th[w] EXCEPT !.pc = pc]
      BY <2>2, <3>2 DEF ThreadRec
    <3>3. CASE \E n : t = [th[w] EXCEPT !.pc = "admit", !.attempt = n]
      BY <2>2, <3>3 DEF ThreadRec
    <3>4. CASE t = [th[w] EXCEPT !.pc = "final", !.res = "error"]
      BY <2>2, <3>4 DEF ThreadRec
    <3> QED
      BY <2>1, <3>1, <3>2, <3>3, <3>4
  <2>4. rel' = rel /\ direct' = direct
    BY <1>4 DEF Execute, Finalize, Defer, ReleaseForRetry, StoreFails, accelerator
  <2> QED
    BY <1>1, <2>1, <2>3, <2>4, OneThreadNoneStarted, SameRelease
<1>5. ASSUME NEW j \in Jobs, Dispatch(j) PROVE NoUnloadDuringInference'
  <2>1. rel' = rel /\ direct' = direct
    BY <1>5 DEF Dispatch, accelerator
  <2>2. CASE th' # th
    <3>1. PICK w \in Workers :
            th' = [th EXCEPT ![w] = [th[w] EXCEPT !.pc = "start", !.job = j]]
      BY <1>5, <2>2 DEF Dispatch
    <3>2. [th[w] EXCEPT !.pc = "start", !.job = j].pc # "run"
      BY ThreadTypes DEF ThreadRec
    <3> QED
      BY <1>1, <2>1, <3>1, <3>2, OneThreadNoneStarted, SameRelease
  <2> QED
    BY <1>2, <2>1, <2>2
<1>6. CASE \E j \in Jobs : \/ \E r \in Requests, late \in BOOLEAN : Submit(j, r, late)
                          \/ Cancel(j) \/ CancelCleanup(j) \/ TickDispatch(j) \/ Clock(j)
                          \/ \E c \in Clients : Wait(c, j)
  BY <1>2, <1>6 DEF Submit, Cancel, CancelCleanup, TickDispatch, Clock, Lapse, Expire,
                    FallDue, Wait, memory, accelerator
<1>7. CASE \E c \in Clients : ClientStep(c) \/ WaitTimeout(c)
  BY <1>2, <1>7 DEF ClientStep, WaitEvent, WaitBlock, WaitTimeout, accelerator
<1>8. CASE \E h \in Handlers : (\E m \in Modes : SetMode(h, m)) \/ Release(h)
  BY <1>1, <1>8, ReleaseNoUnload
<1>9. CASE (\E m \in Modes : EditMode(m)) \/ Poll \/ Tick \/ Start \/ Close
  BY <1>2, <1>9 DEF EditMode, Poll, Tick, Start, Close, memory, accelerator
<1>10. CASE \E d \in Direct : DirectBegin(d) \/ DirectEnd(d)
  BY <1>10, DirectNoUnload
<1>11. CASE Crash \/ Exit
  BY <1>11 DEF Crash, Exit, Forgotten, NoRelease, NoUnloadDuringInference
<1> QED
  BY <1>3, <1>4, <1>5, <1>6, <1>7, <1>8, <1>9, <1>10, <1>11 DEF Next, ThreadStep

-----------------------------------------------------------------------------
(* Types of the other variables *)

CallRec == [pc: {"idle", "looked", "registered", "blocked"}, job: Jobs \cup {None}]
EventsOK == evt \in [Jobs -> {"none", "clear", "set"}]
CallsOK == cl \in [Clients -> CallRec]
SetsOK == /\ pending \subseteq Jobs /\ parked \subseteq Jobs
          /\ stopping \subseteq Jobs /\ swept \subseteq Jobs

\* The record of a caller of wait(), field by field.
LEMMA WaiterTypes ==
    ASSUME IInv
    PROVE  EventsOK /\ CallsOK /\ SetsOK /\ NoCall \in CallRec
BY DEF IInv, TypeOK, EventsOK, CallsOK, SetsOK, CallRec, NoCall

\* Waking the callers of some jobs keeps their records well formed.
LEMMA WokenTyped ==
    ASSUME IInv, NEW J
    PROVE  Woken(J) \in [Clients -> CallRec]
BY WaiterTypes DEF Woken, CallsOK

\* So do setting and discarding the events of these jobs.
LEMMA WakeTyped ==
    ASSUME IInv, NEW J, Wake(J) \/ Discard(J)
    PROVE  EventsOK' /\ CallsOK'
BY WaiterTypes, WokenTyped DEF Wake, Discard, EventsOK, CallsOK

\* Clearing events keeps them well formed.
LEMMA ResetTyped ==
    ASSUME IInv, NEW J, Reset(J)
    PROVE  EventsOK'
BY WaiterTypes DEF Reset, EventsOK

\* Every step keeps the types of events and calls.
LEMMA NextEvents == ASSUME IInv, Next PROVE EventsOK' /\ CallsOK'
<1>1. CASE evt' = evt /\ cl' = cl
  BY <1>1, WaiterTypes DEF EventsOK, CallsOK
<1>2. ASSUME NEW j \in Jobs, CancelCleanup(j) PROVE EventsOK' /\ CallsOK'
  BY <1>2, WakeTyped DEF CancelCleanup
<1>3. CASE Tick \/ Close
  BY <1>3, WakeTyped DEF Tick, Close
<1>4. ASSUME NEW w \in Workers, Finalize(w) \/ ReleaseForRetry(w) PROVE EventsOK' /\ CallsOK'
  BY <1>1, <1>4, WakeTyped DEF Finalize, ReleaseForRetry, waiters
<1>5. ASSUME NEW w \in Workers, Defer(w) PROVE EventsOK' /\ CallsOK'
  BY <1>5, WaiterTypes, ResetTyped DEF Defer, EventsOK, CallsOK
<1>6. ASSUME NEW h \in Handlers, Release(h) PROVE EventsOK' /\ CallsOK'
  BY <1>6, WaiterTypes, ResetTyped
     DEF Release, Drain, ReleaseAfterDrain, Unloaded, EndRelease, EventsOK, CallsOK, waiters
<1>7. CASE \E j \in Jobs : \/ \E r \in Requests, late \in BOOLEAN : Submit(j, r, late)
                          \/ TickDispatch(j)
  BY <1>7, WaiterTypes DEF Submit, TickDispatch, EventsOK, CallsOK
<1>8. ASSUME NEW j \in Jobs, NEW c \in Clients, Wait(c, j) PROVE EventsOK' /\ CallsOK'
  BY <1>8, WaiterTypes DEF Wait, EventsOK, CallsOK, CallRec
<1>9. ASSUME NEW c \in Clients, WaitEvent(c) \/ WaitTimeout(c) PROVE EventsOK' /\ CallsOK'
  BY <1>9, WaiterTypes DEF WaitEvent, WaitTimeout, EventsOK, CallsOK, CallRec
<1>10. ASSUME NEW c \in Clients, WaitBlock(c) PROVE EventsOK' /\ CallsOK'
  <2>1. CASE Active(cl[c].job)
    BY <1>10, <2>1, WaiterTypes DEF WaitBlock, EventsOK, CallsOK, CallRec
  <2>2. CASE ~Active(cl[c].job)
    BY <1>10, <2>2, WaiterTypes, WokenTyped DEF WaitBlock, EventsOK, CallsOK
  <2> QED
    BY <2>1, <2>2
<1>11. CASE Start \/ Crash \/ Exit
  BY <1>11, WaiterTypes DEF Start, Crash, Exit, Forgotten, EventsOK, CallsOK
<1>12. CASE \E j \in Jobs : Cancel(j) \/ Dispatch(j) \/ Clock(j)
  BY <1>1, <1>12 DEF Cancel, Dispatch, Clock, Lapse, Expire, FallDue, memory, waiters
<1>13. CASE \E w \in Workers : Execute(w) \/ Admit(w) \/ RunEnds(w) \/ StoreFails(w)
  BY <1>1, <1>13 DEF Execute, Admit, RunEnds, StoreFails, waiters
<1>14. CASE \/ \E h \in Handlers, m \in Modes : SetMode(h, m)
            \/ \E m \in Modes : EditMode(m)
            \/ \E d \in Direct : DirectBegin(d) \/ DirectEnd(d)
            \/ Poll
  BY <1>1, <1>14 DEF SetMode, EditMode, DirectBegin, DirectEnd, Poll, memory, waiters
<1> QED
  BY <1>2, <1>3, <1>4, <1>5, <1>6, <1>7, <1>8, <1>9, <1>10, <1>11, <1>12, <1>13, <1>14
     DEF Next, ThreadStep, ClientStep

\* Every step keeps the types of queue, admissions and tokens.
LEMMA NextSets == ASSUME IInv, Next PROVE SetsOK'
<1>1. SetsOK /\ \A r : Ended(r) \subseteq Jobs
  BY WaiterTypes DEF Ended
<1>2. CASE \E j \in Jobs : \/ \E r \in Requests, late \in BOOLEAN : Submit(j, r, late)
                          \/ TickDispatch(j) \/ Cancel(j) \/ CancelCleanup(j)
                          \/ Dispatch(j) \/ Clock(j)
                          \/ \E c \in Clients : Wait(c, j)
  BY <1>1, <1>2 DEF Submit, TickDispatch, Cancel, CancelCleanup, Dispatch, Clock, Lapse, Expire,
                    FallDue, Wait, memory, SetsOK
<1>3. CASE \E c \in Clients : ClientStep(c) \/ WaitTimeout(c)
  BY <1>1, <1>3 DEF ClientStep, WaitEvent, WaitBlock, WaitTimeout, SetsOK
<1>4. CASE \E w \in Workers : Execute(w) \/ Admit(w) \/ Finalize(w) \/ ReleaseForRetry(w)
                            \/ RunEnds(w) \/ StoreFails(w)
  BY <1>1, <1>4 DEF Execute, Admit, Finalize, ReleaseForRetry, RunEnds, StoreFails, SetsOK
<1>5. ASSUME NEW w \in Workers, Defer(w) PROVE SetsOK'
  <2>1. th[w].job \in Jobs
    BY <1>5 DEF Defer, IInv, ThreadsOK
  <2> QED
    BY <1>1, <1>5, <2>1 DEF Defer, SetsOK
<1>6. CASE \E h \in Handlers : (\E m \in Modes : SetMode(h, m)) \/ Release(h)
  BY <1>1, <1>6 DEF SetMode, Release, Drain, ReleaseAfterDrain, Unloaded, EndRelease, SetsOK
<1>7. CASE \/ \E m \in Modes : EditMode(m)
           \/ \E d \in Direct : DirectBegin(d) \/ DirectEnd(d)
           \/ Poll \/ Close \/ Crash \/ Exit
  BY <1>1, <1>7 DEF EditMode, DirectBegin, DirectEnd, Poll, Close, Crash, Exit, Forgotten,
                    memory, SetsOK
<1>8. CASE Tick \/ Start
  BY <1>1, <1>8 DEF Tick, Start, SetsOK
<1> QED
  BY <1>2, <1>3, <1>4, <1>5, <1>6, <1>7, <1>8 DEF Next, ThreadStep

ReleaseRec == [pc: {"idle", "drain", "defer", "parked", "unload"}, rev: 0..MaxModes,
               by: Workers \cup {None}]
EnvRec == [crashes: 0..MaxCrashes, faults: 0..MaxFaults, modes: 0..MaxModes,
           cancels: 0..MaxCancels]
HubOK == /\ mode \in Modes /\ up \in {"up", "closing", "down"}
         /\ direct \subseteq Direct /\ runs \in [Jobs -> Nat] /\ env \in EnvRec

\* The parts of the type invariant that concern the process.
LEMMA HubTypes == ASSUME IInv PROVE HubOK /\ NoRelease \in ReleaseRec
BY JobsAssumption DEF IInv, TypeOK, HubOK, EnvRec, NoRelease, ReleaseRec

\* The counters that bound the environment stay within their bounds.
LEMMA CountersTyped ==
    ASSUME env \in EnvRec
    PROVE  /\ env.crashes < MaxCrashes => [env EXCEPT !.crashes = @ + 1] \in EnvRec
           /\ env.faults < MaxFaults => [env EXCEPT !.faults = @ + 1] \in EnvRec
           /\ env.modes < MaxModes => [env EXCEPT !.modes = @ + 1] \in EnvRec
           /\ env.cancels < MaxCancels => [env EXCEPT !.cancels = @ + 1] \in EnvRec
           /\ env.modes < MaxModes /\ env.faults < MaxFaults =>
                [env EXCEPT !.modes = @ + 1, !.faults = @ + 1] \in EnvRec
<1>1. /\ env.crashes \in Nat /\ env.faults \in Nat /\ env.modes \in Nat /\ env.cancels \in Nat
      /\ MaxCrashes \in Nat /\ MaxFaults \in Nat /\ MaxModes \in Nat /\ MaxCancels \in Nat
  BY JobsAssumption DEF EnvRec
<1>2. /\ env.crashes < MaxCrashes => env.crashes + 1 \in 0..MaxCrashes
      /\ env.faults < MaxFaults => env.faults + 1 \in 0..MaxFaults
      /\ env.modes < MaxModes => env.modes + 1 \in 0..MaxModes
      /\ env.cancels < MaxCancels => env.cancels + 1 \in 0..MaxCancels
  BY <1>1
<1>3. \A n : /\ n \in 0..MaxCrashes => [env EXCEPT !.crashes = n] \in EnvRec
             /\ n \in 0..MaxFaults => [env EXCEPT !.faults = n] \in EnvRec
             /\ n \in 0..MaxModes => [env EXCEPT !.modes = n] \in EnvRec
             /\ n \in 0..MaxCancels => [env EXCEPT !.cancels = n] \in EnvRec
  BY DEF EnvRec
<1>4. \A m \in 0..MaxModes, n \in 0..MaxFaults :
        [env EXCEPT !.modes = m, !.faults = n] \in EnvRec
  BY DEF EnvRec
<1> QED
  BY <1>2, <1>3, <1>4

\* Every step keeps the types of the process and its mode.
LEMMA NextHub == ASSUME IInv, Next PROVE HubOK'
<1>1. HubOK
  BY HubTypes
<1>2. CASE \E j \in Jobs : \/ \E r \in Requests, late \in BOOLEAN : Submit(j, r, late)
                          \/ TickDispatch(j) \/ CancelCleanup(j)
                          \/ Dispatch(j) \/ Clock(j)
                          \/ \E c \in Clients : Wait(c, j)
  BY <1>1, <1>2 DEF Submit, TickDispatch, CancelCleanup, Dispatch, Clock, Lapse, Expire,
                    FallDue, Wait, memory, accelerator, HubOK
<1>3. CASE \E c \in Clients : ClientStep(c) \/ WaitTimeout(c)
  BY <1>1, <1>3 DEF ClientStep, WaitEvent, WaitBlock, WaitTimeout, accelerator, HubOK
<1>4. CASE \E w \in Workers : Execute(w) \/ Finalize(w) \/ Defer(w)
                            \/ ReleaseForRetry(w) \/ RunEnds(w)
  BY <1>1, <1>4 DEF Execute, Finalize, Defer, ReleaseForRetry, RunEnds, accelerator, HubOK
<1>5. ASSUME NEW w \in Workers, Admit(w) PROVE HubOK'
  <2>1. UNCHANGED <<mode, up, direct, env>>
    BY <1>5 DEF Admit, accelerator
  <2>2. runs' = runs \/ runs' = [runs EXCEPT ![th[w].job] = @ + 1]
    BY <1>5 DEF Admit
  <2> QED
    BY <1>1, <2>1, <2>2 DEF HubOK
<1>6. CASE \E h \in Handlers : Release(h)
  BY <1>1, <1>6 DEF Release, Drain, ReleaseAfterDrain, Unloaded, HubOK
<1>7. CASE \/ \E d \in Direct : DirectBegin(d) \/ DirectEnd(d)
           \/ Poll \/ Tick \/ Start \/ Exit
  BY <1>1, <1>7 DEF DirectBegin, DirectEnd, Poll, Tick, Start, Exit, Forgotten,
                    accelerator, HubOK
<1>8. CASE \/ \E j \in Jobs : Cancel(j)
           \/ \E w \in Workers : StoreFails(w)
           \/ Close \/ Crash
  <2>1. env' \in EnvRec
    BY <1>1, <1>8, CountersTyped DEF HubOK, Cancel, StoreFails, Close, Crash
  <2> QED
    BY <1>1, <1>8, <2>1 DEF Cancel, StoreFails, Close, Crash, Forgotten, accelerator, HubOK
<1>9. CASE \/ \E h \in Handlers, m \in Modes : SetMode(h, m)
           \/ \E m \in Modes : EditMode(m)
  <2>1. env' \in EnvRec
    BY <1>1, <1>9, CountersTyped DEF HubOK, SetMode, EditMode
  <2> QED
    BY <1>1, <1>9, <2>1 DEF SetMode, EditMode, memory, accelerator, HubOK
<1> QED
  BY <1>2, <1>3, <1>4, <1>5, <1>6, <1>7, <1>8, <1>9 DEF Next, ThreadStep

\* Every step keeps the types of the mode handlers.
LEMMA NextRelease == ASSUME IInv, Next PROVE rel' \in [Handlers -> ReleaseRec]
<1>1. rel \in [Handlers -> ReleaseRec]
  BY ReleaseTypes DEF ReleaseRec
<1>2. CASE rel' = rel
  BY <1>1, <1>2
<1>3. ASSUME NEW u \in Workers \cup {None}, NEW others, Drained(u, others)
      PROVE  rel' \in [Handlers -> ReleaseRec]
  BY <1>1, <1>3 DEF Drained, ReleaseRec
<1>4. CASE (\E w \in Workers : RunEnds(w)) \/ \E d \in Direct : DirectEnd(d)
  BY <1>2, <1>3, <1>4 DEF RunEnds, DirectEnd
<1>5. ASSUME NEW h \in Handlers, NEW m \in Modes, SetMode(h, m)
      PROVE  rel' \in [Handlers -> ReleaseRec]
  <2>1. env'.modes \in 0..MaxModes
    BY NextHub DEF HubOK, EnvRec
  <2> QED
    BY <1>1, <1>5, <2>1 DEF SetMode, ReleaseRec
<1>6. ASSUME NEW h \in Handlers, Release(h) PROVE rel' \in [Handlers -> ReleaseRec]
  <2>1. \/ rel' = [rel EXCEPT ![h] = NoRelease]
        \/ \E pc \in {"defer", "unload", "parked"} : rel' = [rel EXCEPT ![h].pc = pc]
    BY <1>6 DEF Release, Drain, ReleaseAfterDrain, Unloaded, EndRelease
  <2> QED
    BY <1>1, <2>1, HubTypes DEF ReleaseRec
<1>7. CASE Crash \/ Exit
  BY <1>7, HubTypes DEF Crash, Exit, Forgotten
<1>8. CASE \E j \in Jobs : \/ \E r \in Requests, late \in BOOLEAN : Submit(j, r, late)
                          \/ Cancel(j) \/ TickDispatch(j) \/ CancelCleanup(j)
                          \/ Dispatch(j) \/ Clock(j)
                          \/ \E c \in Clients : Wait(c, j)
  BY <1>2, <1>8 DEF Submit, Cancel, TickDispatch, CancelCleanup, Dispatch, Clock, Lapse, Expire,
                    FallDue, Wait, memory, accelerator
<1>9. CASE \E c \in Clients : ClientStep(c) \/ WaitTimeout(c)
  BY <1>2, <1>9 DEF ClientStep, WaitEvent, WaitBlock, WaitTimeout, accelerator
<1>10. CASE \E w \in Workers : Execute(w) \/ Admit(w) \/ Finalize(w) \/ Defer(w)
                             \/ ReleaseForRetry(w) \/ StoreFails(w)
  BY <1>2, <1>10 DEF Execute, Admit, Finalize, Defer, ReleaseForRetry, StoreFails, accelerator
<1>11. CASE \/ \E m \in Modes : EditMode(m)
            \/ \E d \in Direct : DirectBegin(d)
            \/ Poll \/ Tick \/ Start \/ Close
  BY <1>2, <1>11 DEF EditMode, DirectBegin, Poll, Tick, Start, Close, memory, accelerator
<1> QED
  BY <1>4, <1>5, <1>6, <1>7, <1>8, <1>9, <1>10, <1>11 DEF Next, ThreadStep

-----------------------------------------------------------------------------
(* Theorems *)

\* The initial state satisfies the invariant.
LEMMA InitIInv == Init => IInv
<1> SUFFICES ASSUME Init PROVE IInv
  OBVIOUS
<1>1. TypeOK
  BY JobsAssumption DEF Init, TypeOK, Row, Modes, NoThread, NoRelease, NoCall
<1>2. RowsOK
  BY JobsAssumption DEF Init, RowsOK, RowOK, Row
<1>3. ThreadsOK /\ NoUnloadDuringInference
  BY DEF Init, ThreadsOK, NoThread, NoUnloadDuringInference, NoRelease
<1>4. RunsPaid
  <2>1. \A j \in Jobs : Unused(j) = {}
    BY DEF Init, Unused, Holds, NoThread
  <2>2. \A j \in Jobs : runs[j] = 0 /\ row[j].attempts = 0
    BY DEF Init
  <2>3. Cardinality({}) = 0
    BY FS_EmptySet
  <2> QED
    BY <2>1, <2>2, <2>3 DEF RunsPaid
<1> QED
  BY <1>1, <1>2, <1>3, <1>4 DEF IInv

\* Every step preserves the invariant.
LEMMA StepIInv == IInv /\ [Next]_vars => IInv'
<1>1. ASSUME IInv, Next PROVE IInv'
  <2>1. RowsOK' /\ row' \in [Jobs -> Row]
    BY <1>1, NextMoves DEF RowsMove, RowsOK
  <2>2. TypeOK'
    BY <1>1, <2>1, NextThreads, NextEvents, NextSets, NextHub, NextRelease
       DEF TypeOK, ThreadsMove, ThreadRec, EventsOK, CallsOK, CallRec, SetsOK, HubOK, EnvRec,
           ReleaseRec
  <2> QED
    BY <1>1, <2>1, <2>2, NextThreadsOK, NextPaid, NextNoUnload DEF IInv
<1>2. ASSUME IInv, UNCHANGED vars PROVE IInv'
  BY <1>2 DEF vars, IInv, TypeOK, RowsOK, ThreadsOK, RunsPaid, Unused, NoUnloadDuringInference,
              Admissions, Kind
<1> QED
  BY <1>1, <1>2

\* The strengthened invariant holds throughout.
THEOREM Invariance == Spec => []IInv
BY InitIInv, StepIInv, PTL DEF Spec

\* Rows, threads, events and releases always have the values the code gives
\* them; no job is claimed more than max_attempts times.
THEOREM TypeCorrect == Spec => []TypeOK
<1>1. IInv => TypeOK
  BY DEF IInv
<1> QED
  BY <1>1, Invariance, PTL

\* The executor runs at most max_attempts times for a job with a request id or
\* for internal reasoning, and at most once for any other, whatever crashes,
\* lapsed leases, store failures and deferrals happen, for any number of threads.
THEOREM ReplayBounded == Spec => []BoundedReplay
<1>1. IInv => BoundedReplay
  <2> SUFFICES ASSUME IInv, NEW j \in Jobs
               PROVE  runs[j] <= IF Kind(j) \in {"keyed", "reason"} THEN MaxAttempts ELSE 1
    BY DEF BoundedReplay
  <2>1. /\ runs[j] \in Nat /\ row[j].attempts \in Nat /\ Cardinality(Unused(j)) \in Nat
        /\ runs[j] + Cardinality(Unused(j)) <= row[j].attempts
    BY PaidTypes, UnusedFinite
  <2>2. row[j].attempts <= MaxAttempts /\ MaxAttempts \in Nat \ {0} /\ RowOK(row[j])
    BY JobsAssumption DEF IInv, TypeOK, Row, RowsOK
  <2>3. Kind(j) \notin {"keyed", "reason"} => row[j].attempts <= 1
    BY <2>2 DEF RowOK, Kind, Replayable
  <2> QED
    BY <2>1, <2>2, <2>3
<1> QED
  BY <1>1, Invariance, PTL

\* No release of the accelerator unloads the models under a job or a direct
\* request that holds an admission.
THEOREM UnloadsQuiet == Spec => []NoUnloadDuringInference
<1>1. IInv => NoUnloadDuringInference
  BY DEF IInv
<1> QED
  BY <1>1, Invariance, PTL

-----------------------------------------------------------------------------
(* Action properties *)

\* A job that ended only ages.
Ages(j) ==
    row[j].state \in TERMINAL_STATES =>
      \/ row'[j].state = row[j].state
      \/ <<row[j].state, row'[j].state>> = <<"expired", "purged">>
      \/ row'[j].state = "expired" /\ row[j].past
      \/ row'[j].state = "outcome_unknown" /\ j \in stopping

\* A job becomes done through the thread of its latest attempt.
Current(j) ==
    row'[j].state = "done" /\ row[j].state # "done" =>
      \E w \in Workers : /\ th[w].job = j /\ th[w].res = "ok"
                         /\ th[w].attempt = row[j].attempts

\* How any step may end a job: the two action properties for one job.
LEMMA NextOutcome ==
    ASSUME IInv, Next, NEW j \in Jobs
    PROVE  Ages(j) /\ Current(j)
<1>1. RowOK(row[j]) /\ row \in [Jobs -> Row]
  BY DEF IInv, RowsOK, TypeOK
<1>2. CASE row'[j].state = row[j].state
  BY <1>2 DEF Ages, Current
<1>3. ASSUME row'[j].state # row[j].state, row[j].state \notin TERMINAL_STATES,
             row'[j].state # "done"
      PROVE  Ages(j) /\ Current(j)
  BY <1>3 DEF Ages, Current
<1>4. ASSUME NEW m, CancelBlocked(m)[j].state # row[j].state
      PROVE  row[j].state \notin TERMINAL_STATES /\ CancelBlocked(m)[j].state # "done"
  BY <1>4, CancelBlockedKeeps DEF IInv, TERMINAL_STATES, ACTIVE_STATES
<1>5. ASSUME NEW w \in Workers, Finalize(w) PROVE Ages(j) /\ Current(j)
  <2>1. CASE row'[j] = row[j]
    BY <1>2, <2>1
  <2>2. CASE row'[j] # row[j]
    <3>1. /\ th[w].job = j /\ Owns(w)
          /\ row'[j].state = "done" /\ row[j].state # "done" => th[w].res = "ok"
      BY <1>5, <2>2, FinalizeMoves
    <3> QED
      BY <3>1 DEF Owns, Ages, Current, TERMINAL_STATES
  <2> QED
    BY <2>1, <2>2
<1>6. ASSUME NEW w \in Workers, Execute(w) PROVE Ages(j) /\ Current(j)
  <2> DEFINE r == CancelBlocked(mode)
  <2>1. \/ row' = r
        \/ /\ r[th[w].job].state = "queued"
           /\ row' = [r EXCEPT ![th[w].job] = [r[th[w].job] EXCEPT !.state = "running",
                                                !.attempts = @ + 1, !.leased = TRUE]]
    BY <1>6 DEF Execute
  <2>2. r = [k \in Jobs |-> r[k]] /\ RowOK(r[j])
    BY CancelBlockedKeeps DEF CancelBlocked, IInv
  <2> HIDE DEF r
  <2>3. CASE row'[j] = r[j]
    BY <1>2, <1>3, <1>4, <2>3 DEF r
  <2>4. CASE row'[j] # r[j]
    <3>3. /\ r[th[w].job].state = "queued"
          /\ row' = [r EXCEPT ![th[w].job] = [r[th[w].job] EXCEPT !.state = "running",
                                               !.attempts = @ + 1, !.leased = TRUE]]
      BY <2>1, <2>4
    <3>4. th[w].job = j
      BY <2>2, <2>4, <3>3
    <3>5. row'[j] = [r[j] EXCEPT !.state = "running", !.attempts = @ + 1, !.leased = TRUE]
      BY <2>2, <3>3, <3>4
    <3>6. r[j] \in Row
      BY <2>2 DEF RowOK
    <3>7. row'[j].state = "running"
      BY <3>5, <3>6, ZenonT(60) DEF Row
    <3>1. row'[j].state = "running" /\ r[j].state = "queued"
      BY <3>3, <3>4, <3>7
    <3>2. row[j].state \notin TERMINAL_STATES
      BY <1>4, <3>1 DEF r, TERMINAL_STATES
    <3> QED
      BY <1>3, <1>2, <3>1, <3>2
  <2> QED
    BY <2>3, <2>4
<1>7. ASSUME NEW w \in Workers, ReleaseForRetry(w) PROVE Ages(j) /\ Current(j)
  <2>1. CASE row'[j] = row[j]
    BY <1>2, <2>1
  <2>2. CASE row'[j] # row[j]
    <3>1. PICK s \in {"cancelled", "queued", "outcome_unknown"} :
            /\ row' = [row EXCEPT ![th[w].job].state = s, ![th[w].job].leased = FALSE]
            /\ row[th[w].job].state \in ACTIVE_STATES
      BY <1>7, <2>2 DEF ReleaseForRetry
    <3>2. row'[j].state = s /\ row[j].state \in ACTIVE_STATES
      BY <1>1, <2>2, <3>1 DEF Row
    <3> QED
      BY <1>2, <1>3, <3>2 DEF ACTIVE_STATES, TERMINAL_STATES
  <2> QED
    BY <2>1, <2>2
<1>8. ASSUME NEW w \in Workers, Admit(w) PROVE Ages(j) /\ Current(j)
  <2>1. \/ row' = row \/ row' = CancelBlocked(mode)
        \/ row' = [row EXCEPT ![th[w].job].leased = TRUE]
    BY <1>8 DEF Admit
  <2>2. row' = [row EXCEPT ![th[w].job].leased = TRUE] => row'[j].state = row[j].state
    BY <1>1 DEF Row
  <2> QED
    BY <1>2, <1>3, <1>4, <2>1, <2>2
<1>9. ASSUME NEW k \in Jobs, Cancel(k) \/ CancelCleanup(k) PROVE Ages(j) /\ Current(j)
  <2>1. CASE row'[j] = row[j]
    BY <1>2, <2>1
  <2>2. CASE row'[j] # row[j] /\ Cancel(k)
    <3>1. row'[j] = CancelledRow(row[j]) /\ row[j].state \in ACTIVE_STATES
      BY <1>1, <2>2 DEF Cancel, Active
    <3>2. CancelledRow(row[j]).state \in {row[j].state, "cancelled"}
      BY <1>1, <3>1, CancelledRowKeeps
    <3> QED
      BY <1>2, <1>3, <3>1, <3>2 DEF ACTIVE_STATES, TERMINAL_STATES
  <2>3. CASE row'[j] # row[j] /\ CancelCleanup(k)
    <3>1. /\ j \in stopping
          /\ row' = [row EXCEPT ![j].state = "outcome_unknown", ![j].leased = FALSE]
      BY <1>1, <2>3 DEF CancelCleanup
    <3>2. row'[j].state = "outcome_unknown"
      BY <1>1, <3>1 DEF Row
    <3> QED
      BY <3>1, <3>2 DEF Ages, Current
  <2> QED
    BY <1>9, <2>1, <2>2, <2>3
<1>10. ASSUME NEW k \in Jobs, Dispatch(k) PROVE Ages(j) /\ Current(j)
  <2> DEFINE r == CancelBlocked(mode)
  <2>1. row' = r \/ row' = [r EXCEPT ![k].leased = TRUE]
    BY <1>10 DEF Dispatch
  <2>2. r = [i \in Jobs |-> r[i]] /\ RowOK(r[j])
    BY CancelBlockedKeeps DEF CancelBlocked, IInv
  <2> HIDE DEF r
  <2>3. row'[j].state = r[j].state
    BY <2>1, <2>2 DEF RowOK, Row
  <2> QED
    BY <1>2, <1>3, <1>4, <2>3 DEF r
<1>11. CASE Poll \/ \E h \in Handlers, m \in Modes : SetMode(h, m)
  <2>1. row' = row \/ \E m : row' = CancelBlocked(m)
    BY <1>11 DEF Poll, SetMode
  <2> QED
    BY <1>2, <1>3, <1>4, <2>1
<1>12. CASE Tick
  <2>1. \/ row'[j] = [row[j] EXCEPT !.state = "purged"] /\ row[j].state = "expired"
        \/ row'[j] = Ticked(row[j])
    BY <1>12 DEF Tick
  <2>2. row'[j] = [row[j] EXCEPT !.state = "purged"] => row'[j].state = "purged"
    BY <1>1 DEF Row
  <2>3. CASE row'[j] = Ticked(row[j])
    BY <1>1, <2>3, TickedKeeps DEF Ages, Current
  <2> QED
    BY <2>1, <2>2, <2>3 DEF Ages, Current
<1>13. CASE Start
  <2>1. row'[j] = Recovered(row[j])
    BY <1>13 DEF Start
  <2> QED
    BY <1>1, <2>1, RecoveredKeeps DEF Ages, Current
<1>14. CASE Close
  <2>1. CASE ~Active(j)
    BY <1>2, <1>14, <2>1 DEF Close
  <2>2. CASE Active(j)
    <3>1. row'[j] = [row[j] EXCEPT !.cancel = TRUE,
                                   !.state = IF @ = "queued" THEN "cancelled" ELSE @]
      BY <1>14, <2>2 DEF Close
    <3>2. row'[j].state \in {row[j].state, "cancelled"}
      BY <1>1, <3>1 DEF Row
    <3> QED
      BY <1>2, <1>3, <2>2, <3>2 DEF Active, ACTIVE_STATES, TERMINAL_STATES
  <2> QED
    BY <2>1, <2>2
<1>15. ASSUME NEW k \in Jobs, Clock(k) PROVE Ages(j) /\ Current(j)
  <2>1. row'[j].state = row[j].state
    BY <1>1, <1>15 DEF Clock, Lapse, Expire, FallDue, Row
  <2> QED
    BY <1>2, <2>1
<1>16. ASSUME NEW k \in Jobs, NEW q \in Requests, NEW late \in BOOLEAN, Submit(k, q, late)
       PROVE  Ages(j) /\ Current(j)
  <2>1. CASE j = k
    BY <1>1, <1>3, <1>16, <2>1 DEF Submit, TERMINAL_STATES
  <2>2. CASE j # k
    BY <1>1, <1>2, <1>16, <2>2 DEF Submit
  <2> QED
    BY <2>1, <2>2
<1>17. CASE row' = row
  BY <1>2, <1>17
<1>18. CASE \/ \E k \in Jobs : TickDispatch(k) \/ \E c \in Clients : Wait(c, k)
            \/ \E c \in Clients : ClientStep(c) \/ WaitTimeout(c)
            \/ \E w \in Workers : Defer(w) \/ RunEnds(w) \/ StoreFails(w)
  BY <1>17, <1>18 DEF TickDispatch, Wait, ClientStep, WaitEvent, WaitBlock, WaitTimeout, Defer,
                      RunEnds, StoreFails
<1>19. CASE \/ \E h \in Handlers : Release(h)
            \/ \E m \in Modes : EditMode(m)
            \/ \E d \in Direct : DirectBegin(d) \/ DirectEnd(d)
            \/ Crash \/ Exit
  BY <1>17, <1>19 DEF Release, Drain, ReleaseAfterDrain, Unloaded, EditMode, DirectBegin,
                      DirectEnd, Crash, Exit, Forgotten
<1> QED
  BY <1>5, <1>6, <1>7, <1>8, <1>9, <1>10, <1>11, <1>12, <1>13, <1>14, <1>15, <1>16, <1>18, <1>19
     DEF Next, ThreadStep

\* An outcome is final: no late thread, watchdog, recovery or change of mode
\* turns a job that ended into anything but an aged one.
THEOREM OutcomesFinal == Spec => FinalOnce
<1>1. ASSUME IInv, [Next]_vars
      PROVE  [\A j \in Jobs :
                row[j].state \in TERMINAL_STATES =>
                  \/ row'[j].state = row[j].state
                  \/ <<row[j].state, row'[j].state>> = <<"expired", "purged">>
                  \/ row'[j].state = "expired" /\ row[j].past
                  \/ row'[j].state = "outcome_unknown" /\ j \in stopping]_vars
  BY <1>1, NextOutcome DEF Ages
<1> QED
  BY <1>1, Invariance, PTL DEF Spec, FinalOnce

\* The result of a job is that of its latest attempt, also after its thread was
\* overtaken because the lease lapsed.
THEOREM ResultsCurrent == Spec => ResultOfLatestAttempt
<1>1. ASSUME IInv, [Next]_vars
      PROVE  [\A j \in Jobs :
                row'[j].state = "done" /\ row[j].state # "done" =>
                  \E w \in Workers : /\ th[w].job = j /\ th[w].res = "ok"
                                     /\ th[w].attempt = row[j].attempts]_vars
  BY <1>1, NextOutcome DEF Current
<1> QED
  BY <1>1, Invariance, PTL DEF Spec, ResultOfLatestAttempt

=============================================================================
