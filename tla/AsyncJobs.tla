----------------------------- MODULE AsyncJobs -----------------------------
(***************************************************************************)
(* AsyncJobManager (async_jobs.py): durable jobs in a SQLite table, run by *)
(* the worker threads of one hub process.  An attempt owns its job by the  *)
(* attempt number and a lease; after a crash, a lapsed lease or a failed   *)
(* store a job is run again only if its caller gave a request id.  Changes *)
(* of the operational mode cancel jobs and release the accelerator.        *)
(*                                                                         *)
(* Times are kept as what the code compares them with now: leased is       *)
(* lease_until > now, past is expires_at <= now, delayed is                *)
(* dispatch_not_before > now.                                              *)
(***************************************************************************)
EXTENDS Naturals, FiniteSets

CONSTANTS
    Jobs,         \* rows of the table
    Requests,     \* what callers ask for: action and payload
    KindOf,       \* "keyed", "reason", "plain" or "lint", for each request
    Workers,      \* worker threads that may exist at once
    Clients,      \* callers of wait()
    Handlers,     \* threads that handle a change of the operational mode
    Direct,       \* HTTP requests that run inference without a job
    None,         \* no request, no thread
    MaxAttempts,  \* config async_jobs.max_attempts
    MaxPending,   \* config async_jobs.max_pending
    MaxCrashes,   \* bound: crashes and shutdowns
    MaxFaults,    \* bound: failures of the store inside a worker
    MaxModes,     \* bound: changes of the operational mode
    MaxCancels    \* bound: cancellations by callers

Kinds == {"keyed", "reason", "plain", "lint"}

ASSUME JobsAssumption ==
    /\ KindOf \in [Requests -> Kinds]
    /\ None \notin Requests \cup Workers
    /\ IsFiniteSet(Workers)
    /\ MaxAttempts \in Nat \ {0}
    /\ {MaxPending, MaxCrashes, MaxFaults, MaxModes, MaxCancels} \subseteq Nat

VARIABLES
    row,       \* table async_jobs
    mode,      \* the file operational_mode.json
    up,        \* "up", "closing" or "down": the hub process
    pending,   \* jobs with a dispatcher thread or timer
    parked,    \* _resource_release_waiters
    stopping,  \* cancelled queued jobs whose processes cancel() still stops
    swept,     \* due jobs that a tick() has still to dispatch
    th,        \* worker threads
    rel,       \* mode handlers; one that is not idle holds a release token
    direct,    \* the direct requests that hold an admission
    evt,       \* _events: "none", "clear" or "set"
    cl,        \* callers inside wait()
    runs,      \* history: how often the executor was invoked for a job
    env        \* crashes, faults, mode changes and cancellations so far

vars == <<row, mode, up, pending, parked, stopping, swept, th, rel, direct, evt, cl,
          runs, env>>
waiters == <<evt, cl>>
accelerator == <<rel, direct>>
memory == <<pending, parked, stopping, swept, th, accelerator, waiters>>

TERMINAL_STATES == {"done", "failed", "cancelled", "expired", "outcome_unknown"}
ACTIVE_STATES == {"queued", "running"}
Modes == {"active", "gaming", "maintenance"}

Row == [state: {"free", "purged"} \cup ACTIVE_STATES \cup TERMINAL_STATES,
        req: Requests \cup {None}, attempts: 0..MaxAttempts, cancel: BOOLEAN,
        leased: BOOLEAN, past: BOOLEAN, delayed: BOOLEAN]

NoThread == [pc |-> "idle", job |-> None, attempt |-> 0, res |-> None]
NoRelease == [pc |-> "idle", rev |-> 0, by |-> None]
NoCall == [pc |-> "idle", job |-> None]

Active(j) == row[j].state \in ACTIVE_STATES
Kind(j) == KindOf[row[j].req]
Inference(k) == k # "lint"
Tokens == {h \in Handlers : rel[h].pc # "idle"}
Admissions == {w \in Workers : th[w].pc = "run" /\ Inference(Kind(th[w].job))}

\* (faulty) one attempt too many
CanReplayOnceMore(k, n) == k = "keyed" /\ 0 < n /\ n <= MaxAttempts

\* _can_replay_after_interruption
CanReplay(k, n) == k = "keyed" /\ 0 < n /\ n < MaxAttempts

Blocked(k, m) == m = "maintenance" \/ (m = "gaming" /\ Inference(k))

\* The UPDATE of cancel(): a queued job ends, a running one is asked to.
CancelledRow(x) == [x EXCEPT !.cancel = TRUE, !.delayed = FALSE,
                             !.state = IF @ = "queued" THEN "cancelled" ELSE @]

\* _cancel_jobs_blocked_by_mode
CancelBlocked(m) ==
    [j \in Jobs |->
       IF up = "up" /\ Active(j) /\ ~row[j].cancel /\ Blocked(Kind(j), m)
       THEN CancelledRow(row[j]) ELSE row[j]]

Ended(r) == {j \in Jobs : row[j].state = "queued" /\ r[j].state = "cancelled"}

\* Event.set on the events of J: the table entry, and who blocks on it.
Woken(J) == [c \in Clients |-> IF cl[c].pc = "blocked" /\ cl[c].job \in J
                               THEN NoCall ELSE cl[c]]
Wake(J) == /\ evt' = [j \in Jobs |-> IF j \in J THEN "set" ELSE evt[j]]
           /\ cl' = Woken(J)

\* _reset_event_for_resume
Reset(J) == evt' = [j \in Jobs |-> IF j \in J
                                   THEN IF row[j].state \in TERMINAL_STATES
                                        THEN "set" ELSE "clear"
                                   ELSE evt[j]]

-----------------------------------------------------------------------------
\* Callers

Submit(j, r, late) ==
    /\ up = "up"
    /\ row[j].state = "free"
    /\ \A k \in Jobs : row[k].req = r => /\ ~Active(k)
                                         /\ KindOf[r] = "keyed" => row[k].state = "purged"
    /\ ~Blocked(KindOf[r], mode)
    /\ Cardinality({k \in Jobs : Active(k)}) < MaxPending
    /\ row' = [row EXCEPT ![j] = [state |-> "queued", req |-> r, attempts |-> 0,
                                  cancel |-> FALSE, leased |-> FALSE,
                                  past |-> FALSE, delayed |-> late]]
    /\ evt' = [evt EXCEPT ![j] = "clear"]
    /\ pending' = pending \cup {j}
    /\ UNCHANGED <<mode, up, parked, stopping, swept, th, accelerator, cl, runs, env>>

\* status(), result(), a submit or an admission that the mode refuses.
Poll ==
    LET r == CancelBlocked(mode) IN
    /\ r # row
    /\ row' = r
    /\ pending' = pending \ Ended(r)
    /\ stopping' = stopping \cup Ended(r)
    /\ UNCHANGED <<mode, up, parked, swept, th, accelerator, waiters, runs, env>>

Cancel(j) ==
    /\ up = "up"
    /\ env.cancels < MaxCancels
    /\ Active(j)
    /\ row' = [row EXCEPT ![j] = IF @.cancel THEN @ ELSE CancelledRow(@)]
    /\ pending' = pending \ {j}
    /\ stopping' = stopping \cup Ended(row')
    /\ env' = [env EXCEPT !.cancels = @ + 1]
    /\ UNCHANGED <<mode, up, parked, swept, th, accelerator, waiters, runs>>

\* cancel() again: processes of earlier attempts did or did not stop.
CancelCleanup(j) ==
    /\ j \in stopping
    /\ stopping' = stopping \ {j}
    /\ \/ row' = row
       \/ /\ runs[j] > 0 /\ row[j].state # "purged"
          /\ row' = [row EXCEPT ![j].state = "outcome_unknown", ![j].leased = FALSE]
    /\ Wake({j})
    /\ UNCHANGED <<mode, up, pending, parked, swept, th, accelerator, runs, env>>

\* wait(): look, take the event, look again, block.
Wait(c, j) ==
    /\ up = "up"
    /\ cl[c].pc = "idle"
    /\ Active(j)
    /\ cl' = [cl EXCEPT ![c] = [pc |-> "looked", job |-> j]]
    /\ UNCHANGED <<row, mode, up, pending, parked, stopping, swept, th, accelerator,
                   evt, runs, env>>

WaitEvent(c) ==
    /\ cl[c].pc = "looked"
    /\ cl' = [cl EXCEPT ![c].pc = "registered"]
    /\ evt' = [evt EXCEPT ![cl[c].job] = IF @ = "none" THEN "clear" ELSE @]
    /\ UNCHANGED <<row, mode, up, pending, parked, stopping, swept, th, accelerator,
                   runs, env>>

WaitBlock(c) ==
    LET j == cl[c].job IN
    /\ cl[c].pc = "registered"
    /\ IF Active(j)
       THEN /\ cl' = [cl EXCEPT ![c] = IF evt[j] = "set" THEN NoCall
                                       ELSE [@ EXCEPT !.pc = "blocked"]]
            /\ evt' = evt
       ELSE /\ cl' = [Woken({j}) EXCEPT ![c] = NoCall]
            /\ evt' = [evt EXCEPT ![j] = "none"]
    /\ UNCHANGED <<row, mode, up, pending, parked, stopping, swept, th, accelerator,
                   runs, env>>

WaitTimeout(c) ==
    /\ cl[c].pc = "blocked"
    /\ cl' = [cl EXCEPT ![c] = NoCall]
    /\ UNCHANGED <<row, mode, up, pending, parked, stopping, swept, th, accelerator,
                   evt, runs, env>>

-----------------------------------------------------------------------------
\* Dispatch

Dispatchable(x) == x.state = "queued" /\ ~x.cancel /\ ~x.leased

\* _dispatch; a job that is still delayed keeps its timer.
Dispatch(j) ==
    LET r == CancelBlocked(mode) IN
    /\ up = "up"
    /\ j \in pending
    /\ ~row[j].delayed
    /\ \/ /\ Dispatchable(r[j]) /\ Tokens = {}
          /\ \E w \in Workers :
               /\ th[w] = NoThread
               /\ th' = [th EXCEPT ![w] = [@ EXCEPT !.pc = "start", !.job = j]]
          /\ row' = [r EXCEPT ![j].leased = TRUE]
          /\ parked' = parked
       \/ /\ Dispatchable(r[j]) /\ Tokens # {}
          /\ parked' = parked \cup {j}
          /\ row' = r /\ th' = th
       \/ /\ ~Dispatchable(r[j])
          /\ row' = r /\ parked' = parked /\ th' = th
    /\ pending' = (pending \ {j}) \ Ended(r)
    /\ stopping' = stopping \cup Ended(r)
    /\ UNCHANGED <<mode, up, swept, accelerator, waiters, runs, env>>

\* recover(), tick(): what becomes of a job whose attempt was interrupted.
Interrupted(x, again) ==
    LET ended(s) == [x EXCEPT !.state = s, !.leased = FALSE, !.delayed = FALSE] IN
    CASE x.cancel -> ended("cancelled")
      [] ~x.cancel /\ x.attempts > 0 /\ ~CanReplay(KindOf[x.req], x.attempts) ->
           ended("outcome_unknown")
      [] OTHER -> again

\* (faulty) an attempt whose lease lapsed is simply run again
TickedReplays(x) ==
    IF x.past /\ x.state \in TERMINAL_STATES THEN [x EXCEPT !.state = "expired"]
    ELSE IF x.state = "running" /\ ~x.leased /\ x.attempts < MaxAttempts
         THEN [x EXCEPT !.state = "queued"] ELSE x

\* (faulty) nobody looks for attempts whose lease lapsed
TickedAges(x) ==
    IF x.past /\ x.state \in TERMINAL_STATES THEN [x EXCEPT !.state = "expired"] ELSE x

Ticked(x) ==
    CASE x.past /\ x.state \in TERMINAL_STATES \ {"expired"} ->
           [x EXCEPT !.state = "expired", !.delayed = FALSE]
      [] x.state = "running" /\ ~x.leased ->
           Interrupted(x, [x EXCEPT !.state = "queued", !.delayed = FALSE])
      [] OTHER -> x

\* (faulty) the events of ended jobs are dropped without being set
DiscardSilently(J) ==
    /\ evt' = [j \in Jobs |-> IF j \in J THEN "none" ELSE evt[j]]
    /\ cl' = cl

\* The events of ended jobs are set and dropped.
Discard(J) ==
    /\ evt' = [j \in Jobs |-> IF j \in J THEN "none" ELSE evt[j]]
    /\ cl' = Woken(J)

\* The watchdog; the old tombstones among the expired jobs are deleted.
Tick ==
    \E old \in SUBSET {j \in Jobs : row[j].state = "expired"} :
      LET r == [j \in Jobs |-> IF j \in old THEN [row[j] EXCEPT !.state = "purged"]
                               ELSE Ticked(row[j])]
          over == {j \in Jobs : r[j].state \notin ACTIVE_STATES}
      IN /\ up = "up"
         /\ swept = {}
         /\ row' = r
         /\ swept' = {j \in Jobs : r[j].state = "queued" /\ ~r[j].delayed /\ ~r[j].leased}
         /\ Discard(over)
         /\ UNCHANGED <<mode, up, pending, parked, stopping, th, accelerator, runs, env>>

\* The end of tick(), without the lock: the event is cleared unconditionally.
TickDispatch(j) ==
    /\ j \in swept
    /\ swept' = swept \ {j}
    /\ evt' = [evt EXCEPT ![j] = "clear"]
    /\ pending' = pending \cup {j}
    /\ UNCHANGED <<row, mode, up, parked, stopping, th, accelerator, cl, runs, env>>

-----------------------------------------------------------------------------
\* Worker threads

Thread(w, r) == th' = [th EXCEPT ![w] = r]

\* _execute: claim the next attempt.
Execute(w) ==
    LET r == CancelBlocked(mode)
        j == th[w].job
    IN /\ th[w].pc = "start"
       /\ IF r[j].state # "queued" \/ r[j].cancel
          THEN row' = r /\ Thread(w, NoThread)
          ELSE /\ row' = [r EXCEPT ![j].state = "running",
                                   ![j].attempts = @ + 1, ![j].leased = TRUE]
               /\ Thread(w, [th[w] EXCEPT !.pc = "admit", !.attempt = row[j].attempts + 1])
       /\ pending' = pending \ Ended(r)
       /\ stopping' = stopping \cup Ended(r)
       /\ UNCHANGED <<mode, up, parked, swept, accelerator, waiters, runs, env>>

\* inference_admission for a job, and the start of the executor.
Admit(w) ==
    LET j == th[w].job
        busy == Tokens # {} /\ Inference(Kind(j))
        barred == Blocked(Kind(j), mode)
        gone == row[j].state # "running" \/ row[j].cancel
        r == IF busy \/ barred THEN CancelBlocked(mode) ELSE row
        final(res) == [th[w] EXCEPT !.pc = "final", !.res = res]
    IN /\ th[w].pc = "admit"
       /\ \/ /\ busy
             /\ row' = r /\ runs' = runs /\ Thread(w, final("deferred"))
          \/ /\ ~busy /\ (barred \/ gone)
             /\ row' = r /\ runs' = runs /\ Thread(w, final("refused"))
          \/ /\ ~busy /\ ~barred /\ ~gone
             /\ row' = [row EXCEPT ![j].leased = TRUE]
             /\ runs' = [runs EXCEPT ![j] = @ + 1]
             /\ Thread(w, [th[w] EXCEPT !.pc = "run"])
       /\ pending' = pending \ Ended(r)
       /\ stopping' = stopping \cup Ended(r)
       /\ UNCHANGED <<mode, up, parked, swept, accelerator, waiters, env>>

\* The last admission to end runs the parked releases in its own thread.
Drained(w, others) ==
    rel' = [h \in Handlers |-> IF rel[h].pc = "parked" /\ ~others
                               THEN [rel[h] EXCEPT !.pc = "unload", !.by = w]
                               ELSE rel[h]]

\* The executor returns or raises, and the admission ends.
RunEnds(w) ==
    /\ th[w].pc = "run"
    /\ \E res \in {"ok", "lost", "fail", "error", "unknown"} :
         Thread(w, [th[w] EXCEPT !.pc = "final", !.res = res])
    /\ IF w \in Admissions THEN Drained(w, direct # {} \/ Admissions # {w}) ELSE rel' = rel
    /\ UNCHANGED <<row, mode, up, pending, parked, stopping, swept, direct, waiters,
                   runs, env>>

\* (faulty) a job that ended in the meantime is still the attempt's own
OwnsEnded(w) == row[th[w].job].attempts = th[w].attempt

\* (faulty) the result is recorded for whatever attempt is running
OwnsAny(w) == row[th[w].job].state = "running"

Owns(w) == LET x == row[th[w].job] IN
           x.state = "running" /\ x.attempts = th[w].attempt

Retried(x, res) == /\ res = "error"
                   /\ \/ CanReplay(KindOf[x.req], x.attempts)
                      \/ KindOf[x.req] = "reason" /\ x.attempts < MaxAttempts

\* What the owner of an attempt records of it.
Recorded(x, res) ==
    LET state == CASE x.past -> IF res = "unknown" THEN "outcome_unknown" ELSE "expired"
                   [] ~x.past /\ res = "unknown" -> "outcome_unknown"
                   [] ~x.past /\ res # "unknown" /\ x.cancel -> "cancelled"
                   [] OTHER ->
                        CASE res = "deferred" \/ Retried(x, res) -> "queued"
                          [] res = "ok" -> "done"
                          [] res \in {"fail", "refused"} -> "failed"
                          [] OTHER -> "outcome_unknown"
    IN [x EXCEPT !.state = state, !.leased = FALSE,
                 !.attempts = IF state = "queued" /\ res = "deferred" THEN @ - 1 ELSE @]

\* A thread that runs a parked release first has to end that.
Releasing(w) == \E h \in Handlers : rel[h].by = w

Finalize(w) ==
    LET j == th[w].job
        new == Recorded(row[j], th[w].res)
    IN /\ th[w].pc = "final"
       /\ ~Releasing(w)
       /\ IF Owns(w) /\ (row[j].past \/ row[j].leased)
          THEN /\ row' = [row EXCEPT ![j] = new]
               /\ Thread(w, IF new.state = "queued" /\ th[w].res = "deferred"
                            THEN [th[w] EXCEPT !.pc = "defer"] ELSE NoThread)
               /\ Wake({j})
          ELSE Thread(w, NoThread) /\ UNCHANGED <<row, waiters>>
       /\ UNCHANGED <<mode, up, pending, parked, stopping, swept, accelerator, runs, env>>

\* _defer_until_resource_release_finishes
Defer(w) ==
    LET j == th[w].job IN
    /\ th[w].pc = "defer"
    /\ Thread(w, NoThread)
    /\ \/ up # "up" /\ UNCHANGED <<parked, pending, evt>>
       \/ up = "up" /\ Tokens # {} /\ parked' = parked \cup {j} /\ UNCHANGED <<pending, evt>>
       \/ up = "up" /\ Tokens = {} /\ pending' = pending \cup {j} /\ Reset({j}) /\ parked' = parked
    /\ UNCHANGED <<row, mode, up, stopping, swept, accelerator, cl, runs, env>>

\* A statement of the worker raises sqlite3.OperationalError.
StoreFails(w) ==
    /\ env.faults < MaxFaults
    /\ \/ /\ th[w].pc = "admit"
          /\ Thread(w, [th[w] EXCEPT !.pc = "final", !.res = "error"])
       \/ /\ th[w].pc \in {"start", "final"}
          /\ ~Releasing(w)
          /\ Thread(w, [th[w] EXCEPT !.pc = "retry"])
    /\ env' = [env EXCEPT !.faults = @ + 1]
    /\ UNCHANGED <<row, mode, up, pending, parked, stopping, swept, accelerator,
                   waiters, runs>>

\* _release_for_retry: asks for no attempt number.
ReleaseForRetry(w) ==
    LET j == th[w].job
        x == row[j]
        state == CASE x.cancel -> "cancelled"
                   [] ~x.cancel /\ \/ x.state = "queued" /\ x.attempts = 0
                                   \/ CanReplay(KindOf[x.req], x.attempts) -> "queued"
                   [] OTHER -> "outcome_unknown"
    IN /\ th[w].pc = "retry"
       /\ Thread(w, NoThread)
       /\ IF up # "up" \/ x.state \notin ACTIVE_STATES
          THEN /\ row' = row
               /\ UNCHANGED waiters
          ELSE /\ row' = [row EXCEPT ![j].state = state, ![j].leased = FALSE]
               /\ Wake(IF state = "queued" THEN {j} ELSE {})
       /\ UNCHANGED <<mode, up, pending, parked, stopping, swept, accelerator, runs, env>>

-----------------------------------------------------------------------------
\* Operational mode and release of the accelerator

\* POST of a mode to the hub, under operational_mode_change_guard.  The hook that
\* cancels the blocked jobs may fail; the mode stands and the release begins.
SetMode(h, m) ==
    /\ up = "up"
    /\ env.modes < MaxModes
    /\ rel[h] = NoRelease
    /\ m = "active" /\ mode # "active" => Tokens = {}
    /\ mode' = m
    /\ \/ /\ row' = CancelBlocked(m)
          /\ env' = [env EXCEPT !.modes = @ + 1]
       \/ /\ env.faults < MaxFaults /\ m # "active"
          /\ row' = row
          /\ env' = [env EXCEPT !.modes = @ + 1, !.faults = @ + 1]
    /\ pending' = pending \ Ended(row')
    /\ stopping' = stopping \cup Ended(row')
    /\ rel' = [rel EXCEPT ![h] = IF m = "gaming"
                                 THEN [pc |-> "drain", rev |-> env'.modes, by |-> None]
                                 ELSE @]
    /\ UNCHANGED <<up, parked, swept, th, direct, waiters, runs>>

\* set_operational_mode of another process (command line): no hook is called.
EditMode(m) ==
    /\ env.modes < MaxModes
    /\ mode' = m
    /\ env' = [env EXCEPT !.modes = @ + 1]
    /\ UNCHANGED <<row, up, memory, runs>>

\* end_resource_release
EndRelease(h) ==
    /\ rel' = [rel EXCEPT ![h] = NoRelease]
    /\ IF Tokens = {h}
       THEN pending' = pending \cup parked /\ Reset(parked) /\ parked' = {}
       ELSE UNCHANGED <<pending, evt, parked>>

InferenceDrained == Admissions = {} /\ direct = {}
InferenceActive == \E j \in Jobs : row[j].state = "running" /\ Inference(Kind(j))

\* (faulty) the models are unloaded when the wait for the drain times out
DrainEager(h) ==
    /\ rel[h].pc = "drain"
    /\ rel' = [rel EXCEPT ![h].pc = "unload"]
    /\ UNCHANGED <<row, mode, up, pending, parked, stopping, swept, th, direct, waiters,
                   runs, env>>

\* wait_for_inference_actions returned or timed out.
Drain(h) ==
    LET current == mode = "gaming" /\ env.modes = rel[h].rev IN
    /\ rel[h].pc = "drain"
    /\ \/ /\ ~InferenceDrained \/ InferenceActive
          /\ rel' = [rel EXCEPT ![h].pc = "defer"]
          /\ UNCHANGED <<pending, evt, parked>>
       \/ /\ InferenceDrained /\ ~InferenceActive /\ current
          /\ rel' = [rel EXCEPT ![h].pc = "unload"]
          /\ UNCHANGED <<pending, evt, parked>>
       \/ /\ InferenceDrained /\ ~InferenceActive /\ ~current
          /\ EndRelease(h)
    /\ UNCHANGED <<row, mode, up, stopping, swept, th, direct, cl, runs, env>>

\* when_inference_actions_drained
ReleaseAfterDrain(h) ==
    /\ rel[h].pc = "defer"
    /\ rel' = [rel EXCEPT ![h].pc = IF InferenceDrained THEN "unload" ELSE "parked"]
    /\ UNCHANGED <<row, mode, up, pending, parked, stopping, swept, th, direct, waiters,
                   runs, env>>

\* The models are unloaded, at once or by _perform_deferred_gaming_release.
Unloaded(h) ==
    /\ rel[h].pc = "unload"
    /\ EndRelease(h)
    /\ UNCHANGED <<row, mode, up, stopping, swept, th, direct, cl, runs, env>>

\* An HTTP request that runs inference without a job.
DirectBegin(d) ==
    /\ up = "up"
    /\ d \notin direct
    /\ Tokens = {} /\ mode = "active"
    /\ direct' = direct \cup {d}
    /\ UNCHANGED <<row, mode, up, pending, parked, stopping, swept, th, rel, waiters,
                   runs, env>>

DirectEnd(d) ==
    /\ d \in direct
    /\ direct' = direct \ {d}
    /\ Drained(None, Admissions # {} \/ direct # {d})
    /\ UNCHANGED <<row, mode, up, pending, parked, stopping, swept, th, waiters, runs, env>>

-----------------------------------------------------------------------------
\* The process and the clock

\* recover(), called once by a new process.
Recovered(x) ==
    IF x.state \notin ACTIVE_STATES THEN x
    ELSE Interrupted(x, IF x.state = "queued" /\ (x.leased \/ x.delayed) THEN x
                        ELSE [x EXCEPT !.state = "queued", !.leased = FALSE])

Start ==
    LET r == [j \in Jobs |-> Recovered(row[j])]
        again == {j \in Jobs : r[j].state = "queued" /\ ~r[j].leased /\ ~r[j].delayed}
        ended == {j \in Jobs : Active(j) /\ r[j].state \in TERMINAL_STATES}
    IN /\ up = "down"
       /\ up' = "up"
       /\ row' = r
       /\ pending' = again
       /\ evt' = [j \in Jobs |-> CASE j \in again -> "clear"
                                   [] j \in ended -> "set"
                                   [] OTHER -> "none"]
       /\ UNCHANGED <<mode, parked, stopping, swept, th, accelerator, cl, runs, env>>

\* close(): cancels everything; threads may run on until the process ends.
Close ==
    /\ up = "up"
    /\ env.crashes < MaxCrashes
    /\ up' = "closing"
    /\ env' = [env EXCEPT !.crashes = @ + 1]
    /\ row' = [j \in Jobs |->
                 IF Active(j) THEN [row[j] EXCEPT !.cancel = TRUE,
                                      !.state = IF @ = "queued" THEN "cancelled" ELSE @]
                 ELSE row[j]]
    /\ pending' = {}
    /\ parked' = {}
    /\ Wake({j \in Jobs : evt[j] # "none"})
    /\ UNCHANGED <<mode, stopping, swept, th, accelerator, runs>>

Forgotten ==
    /\ up' = "down"
    /\ pending' = {} /\ parked' = {} /\ stopping' = {} /\ swept' = {}
    /\ th' = [w \in Workers |-> NoThread]
    /\ rel' = [h \in Handlers |-> NoRelease]
    /\ direct' = {}
    /\ evt' = [j \in Jobs |-> "none"]
    /\ cl' = [c \in Clients |-> NoCall]
    /\ UNCHANGED <<row, mode, runs>>

Crash ==
    /\ up = "up"
    /\ env.crashes < MaxCrashes
    /\ env' = [env EXCEPT !.crashes = @ + 1]
    /\ Forgotten

Exit == up = "closing" /\ Forgotten /\ UNCHANGED env

\* Time passes a lease, a retention period or a dispatch delay.
Lapse(j) ==
    /\ row[j].leased
    /\ row' = [row EXCEPT ![j].leased = FALSE]
    /\ UNCHANGED <<mode, up, memory, runs, env>>

Expire(j) ==
    /\ row[j].state \notin {"free", "purged"} /\ ~row[j].past
    /\ row' = [row EXCEPT ![j].past = TRUE]
    /\ UNCHANGED <<mode, up, memory, runs, env>>

FallDue(j) ==
    /\ row[j].delayed
    /\ row' = [row EXCEPT ![j].delayed = FALSE]
    /\ UNCHANGED <<mode, up, memory, runs, env>>

Init ==
    /\ row = [j \in Jobs |-> [state |-> "free", req |-> None, attempts |-> 0,
                              cancel |-> FALSE, leased |-> FALSE, past |-> FALSE,
                              delayed |-> FALSE]]
    /\ mode = "active"
    /\ up = "up"
    /\ pending = {} /\ parked = {} /\ stopping = {} /\ swept = {}
    /\ th = [w \in Workers |-> NoThread]
    /\ rel = [h \in Handlers |-> NoRelease]
    /\ direct = {}
    /\ evt = [j \in Jobs |-> "none"]
    /\ cl = [c \in Clients |-> NoCall]
    /\ runs = [j \in Jobs |-> 0]
    /\ env = [crashes |-> 0, faults |-> 0, modes |-> 0, cancels |-> 0]

\* The steps of a thread that its program obliges it to take.
ThreadStep(w) == Execute(w) \/ Admit(w) \/ Finalize(w) \/ Defer(w) \/ ReleaseForRetry(w)

ClientStep(c) == WaitEvent(c) \/ WaitBlock(c)

Release(h) == Drain(h) \/ ReleaseAfterDrain(h) \/ Unloaded(h)

Clock(j) == Lapse(j) \/ Expire(j) \/ FallDue(j)

Next ==
    \/ \E j \in Jobs : \/ \E r \in Requests, late \in BOOLEAN : Submit(j, r, late)
                       \/ Cancel(j) \/ CancelCleanup(j)
                       \/ Dispatch(j) \/ TickDispatch(j) \/ Clock(j)
                       \/ \E c \in Clients : Wait(c, j)
    \/ \E c \in Clients : ClientStep(c) \/ WaitTimeout(c)
    \/ \E w \in Workers : ThreadStep(w) \/ RunEnds(w) \/ StoreFails(w)
    \/ \E h \in Handlers : (\E m \in Modes : SetMode(h, m)) \/ Release(h)
    \/ \E m \in Modes : EditMode(m)
    \/ \E d \in Direct : DirectBegin(d) \/ DirectEnd(d)
    \/ Poll \/ Tick \/ Start \/ Close \/ Crash \/ Exit

Spec == Init /\ [][Next]_vars

\* The threads of the hub run, the watchdog ticks every few seconds, time
\* passes and a supervisor starts the hub again.  Nothing is assumed of the
\* executor (RunEnds), of the callers or of the length of their timeouts.
FairSpec ==
    /\ Spec
    /\ \A w \in Workers : WF_vars(ThreadStep(w))
    /\ \A j \in Jobs : /\ WF_vars(Dispatch(j)) /\ WF_vars(TickDispatch(j))
                       /\ WF_vars(CancelCleanup(j))
                       /\ WF_vars(Lapse(j)) /\ WF_vars(FallDue(j))
    /\ \A c \in Clients : WF_vars(ClientStep(c))
    /\ \A h \in Handlers : WF_vars(Release(h))
    /\ WF_vars(Tick) /\ WF_vars(Start) /\ WF_vars(Exit)

-----------------------------------------------------------------------------
\* Properties

\* Every row, thread, event and release has one of the values the code gives
\* it; a job is never claimed more than max_attempts times.
TypeOK ==
    /\ row \in [Jobs -> Row]
    /\ mode \in Modes
    /\ up \in {"up", "closing", "down"}
    /\ \A S \in {pending, parked, stopping, swept} : S \subseteq Jobs
    /\ th \in [Workers -> [pc: {"idle", "start", "admit", "run", "final", "defer", "retry"},
                           job: Jobs \cup {None}, attempt: 0..MaxAttempts,
                           res: {None, "ok", "lost", "fail", "error", "unknown", "refused",
                                 "deferred"}]]
    /\ rel \in [Handlers -> [pc: {"idle", "drain", "defer", "parked", "unload"},
                             rev: 0..MaxModes, by: Workers \cup {None}]]
    /\ direct \subseteq Direct
    /\ evt \in [Jobs -> {"none", "clear", "set"}]
    /\ cl \in [Clients -> [pc: {"idle", "looked", "registered", "blocked"},
                           job: Jobs \cup {None}]]
    /\ runs \in [Jobs -> Nat]
    /\ env \in [crashes: 0..MaxCrashes, faults: 0..MaxFaults, modes: 0..MaxModes,
                cancels: 0..MaxCancels]

\* However crashes, lapsed leases, store failures and deferrals interleave, the
\* executor is invoked at most max_attempts times for a job that may be run
\* again, and at most once for a job whose caller gave no request id.
BoundedReplay ==
    \A j \in Jobs : row[j].req # None =>
      runs[j] <= IF Kind(j) \in {"keyed", "reason"} THEN MaxAttempts ELSE 1

\* The models are never unloaded under a running inference, be it a job that
\* outlived its lease or its cancellation, or a direct request.
NoUnloadDuringInference ==
    \A h \in Handlers : rel[h].pc = "unload" => Admissions = {} /\ direct = {}

\* An outcome is final: a job that ended only ages, except that cancel() may
\* still find a process of an earlier attempt that it cannot stop.
FinalOnce ==
    [][\A j \in Jobs :
         row[j].state \in TERMINAL_STATES =>
           \/ row'[j].state = row[j].state
           \/ <<row[j].state, row'[j].state>> = <<"expired", "purged">>
           \/ row'[j].state = "expired" /\ row[j].past
           \/ row'[j].state = "outcome_unknown" /\ j \in stopping]_vars

\* The result of a job is that of its latest attempt: a thread that was
\* overtaken after its lease lapsed records nothing.
ResultOfLatestAttempt ==
    [][\A j \in Jobs :
         row'[j].state = "done" /\ row[j].state # "done" =>
           \E w \in Workers : /\ th[w].job = j /\ th[w].res = "ok"
                              /\ th[w].attempt = row[j].attempts]_vars

\* Every job that is accepted ends, though the executor may hang for ever, the
\* store fail and the hub crash.
Settles == \A j \in Jobs : Active(j) ~> ~Active(j)

\* A caller of wait() is woken when the job has ended; its timeout is not needed.
WaiterReturns == \A c \in Clients : cl[c].pc # "idle" ~> cl[c].pc = "idle"

\* "Durable single-owner orchestration": a live attempt whose lease and
\* retention still run is ended only by its own thread.
SingleOwner ==
    [][\A j \in Jobs, w \in Workers :
         /\ th[w].pc \in {"admit", "run", "final"} /\ th[w].job = j /\ Owns(w)
         /\ row[j].leased /\ ~row[j].past /\ ~row[j].cancel
         /\ row'[j].state # "running" /\ up' = "up"
         => th'[w] # th[w]]_vars

=============================================================================
