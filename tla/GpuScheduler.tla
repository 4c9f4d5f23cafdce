---------------------------- MODULE GpuScheduler ----------------------------
(***************************************************************************)
(* The parties that share the one GPU of the host: the affinity scheduler  *)
(* of the hub (scheduler.py) with its dispatcher thread, its callers, its  *)
(* prewarm thread and its foreground-preemption thread; the idle GPU       *)
(* worker (background_gpu.py) with its disposable model server; embedding  *)
(* and reranker processes and OpenCode sessions, which take an external    *)
(* reservation; and the files of external_gpu_reservation.py that fence    *)
(* them from each other.                                                   *)
(*                                                                         *)
(* Every operation of the file store runs under a cross-process file lock  *)
(* and every critical section of the scheduler under `_cond`: each is one  *)
(* step.  What happens between two sections (a model call, a model load,   *)
(* the stop of a server) lies between two steps.                           *)
(***************************************************************************)
EXTENDS Naturals, FiniteSets

CONSTANTS
    Jobs,           \* requests of the scheduler
    Foreground,     \* those submitted with background=False
    ModelOf,        \* the model each request names
    Ext,            \* processes that take external reservations
    Kept,           \* those that renew within the TTL (keepalive)
    Worker,         \* the idle GPU worker is configured: the hook is set
    Cpu,            \* its CPU fallback is enabled
    Warmed,         \* the models the startup thread may prewarm
    Overtaking,     \* a prewarm may fall between two sections of the dispatcher
    Leftovers,      \* fence files an earlier process may have left behind
    MaxParallel,    \* requests in flight at once
    MaxFaults,      \* bound on unknown outcomes and unconfirmed stops
    MaxLeaves,      \* bound on callers that time out or cancel
    MaxReserves,    \* bound on external reservations
    MaxBatches,     \* bound on batches of the idle worker
    None

ASSUME SchedulerAssumption ==
    /\ Foreground \subseteq Jobs
    /\ Kept \subseteq Ext
    /\ {Worker, Cpu, Overtaking} \subseteq BOOLEAN
    /\ {MaxParallel, MaxFaults, MaxLeaves, MaxReserves, MaxBatches} \subseteq Nat
    /\ MaxParallel > 0
    /\ {"hub", "dead", None} \cap Ext = {}
    /\ None \notin {"hub", "dead", "hook", "worker"}

VARIABLES
    file,    \* the digest file, the lease metadata, the unseen operator marker
    hub,     \* the scheduler's flags
    job,     \* the requests
    disp,    \* the dispatcher thread
    warm,    \* the prewarm thread
    hook,    \* the foreground-preemption thread
    bg,      \* the idle GPU worker
    runner,  \* its model server: "off", "up", or "loaded" with its model
    ext,     \* the external processes: "out" or "busy" on the GPU
    ghost,   \* a model call whose outcome is unknown is still running
    env      \* what is left of each bound

vars == <<file, hub, job, disp, warm, hook, bg, runner, ext, ghost, env>>

Models == {ModelOf[j] : j \in Jobs} \cup Warmed
Holders == Ext \cup {"hub", "dead"}

ASSUME ModelsAssumption == None \notin Models

-----------------------------------------------------------------------------
(* The reservation files.  A digest alone is an internal claim or a        *)
(* reservation that was not completed; metadata alone is a removal that    *)
(* was not completed.  A holder that is gone is "dead".                    *)

Files == [digest : Holders \cup {None}, meta : Holders \cup {None},
          old : BOOLEAN, lapsed : BOOLEAN, marker : BOOLEAN]

\* What is left behind belongs to processes that are gone.
ASSUME LeftoversAssumption ==
    \A f \in Leftovers : f \in Files /\ {f.digest, f.meta} \subseteq {"dead", None}

File(d, m) == [digest |-> d, meta |-> m, old |-> FALSE, lapsed |-> FALSE,
               marker |-> FALSE]

Valid(f) == f.meta # None /\ f.digest = f.meta

Free(f) == f.digest = None /\ f.meta = None

\* _remove_unlocked: the digest, then its metadata.
Removed(f) == [File(None, None) EXCEPT !.marker = f.marker]

\* (faulty) a digest without metadata is left where it is
ReapedLeases(f) == IF Valid(f) /\ f.lapsed THEN Removed(f) ELSE f

\* reap_expired: a record past its expiry, or a digest past one whole TTL.
Reaped(f) ==
    IF (Valid(f) /\ f.lapsed) \/ (f.meta = None /\ f.digest # None /\ f.old)
    THEN Removed(f) ELSE f

\* claim_internal and reserve both need the files gone, after reaping.
Claimable(f) == Free(Reaped(f))

\* release_internal: only a digest of one's own without metadata.
ReleasedInternal(f) ==
    IF f.meta = None /\ f.digest = "hub" THEN Removed(f) ELSE f

-----------------------------------------------------------------------------
(* The scheduler.                                                          *)

Pending == {j \in Jobs : job[j].st = "pending"}
InFlight == {j \in Jobs : job[j].st \in {"inflight", "running"}}

\* _eligible_jobs: background work only without foreground work and after
\* the idle grace.  hub.quiet is 0 inside the grace, 1 past it, 2 past the
\* longer idle time that the worker asks for.
Eligible ==
    IF Pending \cap Foreground # {} THEN Pending \cap Foreground
    ELSE IF hub.quiet > 0 THEN Pending ELSE {}

\* A marker clears the memory of the fence only when nothing executes.
SchedulerIdle ==
    InFlight = {} /\ ~hub.switching /\ ~hub.preparing /\ ~hub.lease

\* The memory of a scheduler that consumes an operator's release.
Forgiven(h) == [h EXCEPT !.claimed = FALSE, !.uncertain = FALSE]

\* _external_gpu_reserved: reaps, consumes the operator's marker, forgets a
\* claim whose file is gone, and says whether somebody else has the GPU.
Observe(h, f) ==
    LET r == Reaped(f)
        stuck == r.marker /\ Free(r) /\ ~SchedulerIdle
        g == IF r.marker /\ Free(r) /\ SchedulerIdle THEN Forgiven(h) ELSE h
        seen == IF stuck THEN r ELSE [r EXCEPT !.marker = FALSE]
        claimed == g.claimed /\ (g.uncertain \/ seen.digest # None)
    IN  IF stuck THEN [hub |-> h, file |-> r, reserved |-> TRUE]
        ELSE [hub |-> [g EXCEPT !.claimed = claimed], file |-> seen,
              reserved |-> \/ g.uncertain
                           \/ seen.digest # None /\ ~(claimed /\ seen.digest = "hub")]

Observed == Observe(hub, file)

\* _claim_internal_gpu, on what _external_gpu_reserved has just observed.
CanClaim(o) ==
    /\ ~o.hub.uncertain
    /\ IF o.hub.claimed THEN o.file.digest = "hub" ELSE Claimable(o.file)

ClaimedFile(o) ==
    IF o.hub.claimed THEN o.file
    ELSE [Reaped(o.file) EXCEPT !.digest = "hub", !.old = FALSE]

ClaimedHub(o) == [o.hub EXCEPT !.claimed = TRUE]

\* (faulty) an unknown outcome does not hold the fence
ReleaseRegardless(h, f) ==
    IF h.preparing \/ ~h.claimed THEN [hub |-> h, file |-> f]
    ELSE [hub |-> [h EXCEPT !.claimed = FALSE], file |-> ReleasedInternal(f)]

\* _release_internal_gpu: kept while an outcome is unknown or a model is
\* being prepared.
ReleaseInternal(h, f) ==
    IF h.uncertain \/ h.preparing \/ ~h.claimed THEN [hub |-> h, file |-> f]
    ELSE LET r == ReleasedInternal(f) IN
         IF Free(r) \/ f.digest = None
         THEN [hub |-> [h EXCEPT !.claimed = FALSE], file |-> r]
         ELSE [hub |-> h, file |-> f]

\* release_background_gpu.
ReleaseBackground(h, f) == ReleaseInternal([h EXCEPT !.lease = FALSE], f)

\* foreground_busy.
ForegroundBusy(o) ==
    \/ o.reserved
    \/ (InFlight \cup Pending) \cap Foreground # {}
    \/ o.hub.switching

\* _foreground_requested of the worker.
ForegroundRequested(o) == bg.unconfirmed \/ ForegroundBusy(o)

\* `finished` with nothing to report: the callers of these jobs return.
Failed(js) == [j \in Jobs |-> IF j \in js THEN [job[j] EXCEPT !.st = "done"] ELSE job[j]]

OfModel(m) == {j \in Pending : ModelOf[j] = m}

-----------------------------------------------------------------------------
Init ==
    /\ file \in Leftovers
    /\ hub = [switching |-> FALSE, preparing |-> FALSE, uncertain |-> FALSE,
              claimed |-> FALSE, lease |-> FALSE, preempting |-> FALSE,
              active |-> None, fresh |-> FALSE, quiet |-> 0]
    /\ job = [j \in Jobs |-> [st |-> "new", then |-> "none", cancel |-> FALSE]]
    /\ disp = [pc |-> "loop", target |-> None]
    /\ warm = [pc |-> "off", target |-> None]
    /\ hook = "off"
    /\ bg = [pc |-> "out", lease |-> FALSE, unconfirmed |-> FALSE, active |-> FALSE,
             lock |-> None]
    /\ runner = "off"
    /\ ext = [e \in Ext |-> "out"]
    /\ ghost = FALSE
    /\ env = [faults |-> MaxFaults, leaves |-> MaxLeaves,
              reserves |-> MaxReserves, batches |-> MaxBatches]

(* submit: first section.  A foreground request gates the dispatcher with  *)
(* the background lease before its hook thread exists.                     *)
Submit(j) ==
    /\ job[j].st = "new"
    /\ LET o == Observed
           hooked == Worker /\ ~o.hub.preempting
           accepted ==
             IF j \notin Foreground THEN o.hub
             ELSE [o.hub EXCEPT !.quiet = 0, !.preempting = @ \/ hooked,
                                !.lease = @ \/ hooked]
       IN  /\ file' = o.file
           /\ \/ /\ job' = [job EXCEPT ![j].st = "done"]
                 /\ hub' = o.hub
              \/ /\ ~o.hub.uncertain
                 /\ job' = [job EXCEPT ![j].st = "pending",
                              ![j].then = IF j \notin Foreground THEN "none"
                                          ELSE IF hooked THEN "hook" ELSE "ungate"]
                 /\ hub' = accepted
    /\ UNCHANGED <<disp, warm, hook, bg, runner, ext, ghost, env>>

(* submit: second section, the start of the hook thread, which succeeds here. *)
StartHook(j) ==
    /\ job[j].then = "hook"
    /\ job' = [job EXCEPT ![j].then = "none"]
    /\ hook' = "start"
    /\ UNCHANGED <<file, hub, disp, warm, bg, runner, ext, ghost, env>>

(* submit: second section of a request that starts no hook. *)
Ungate(j) ==
    /\ job[j].then = "ungate"
    /\ job' = [job EXCEPT ![j].then = "none"]
    /\ hub' = [hub EXCEPT !.lease = @ /\ hub.preempting]
    /\ UNCHANGED <<file, disp, warm, hook, bg, runner, ext, ghost, env>>

(* submit: the caller's deadline passes or its cancel event is set. *)
Leave(j) ==
    /\ env.leaves > 0
    /\ job[j].then = "none" /\ ~job[j].cancel
    /\ job[j].st \in {"pending", "inflight", "running"}
    /\ job' = [job EXCEPT ![j].cancel = TRUE,
                          ![j].st = IF @ = "pending" THEN "done" ELSE @]
    /\ env' = [env EXCEPT !.leaves = @ - 1]
    /\ UNCHANGED <<file, hub, disp, warm, hook, bg, runner, ext, ghost>>

-----------------------------------------------------------------------------
(* The dispatcher thread.                                                  *)

\* The head of the loop: an unused claim is given back, then the files are
\* observed.
LoopHead ==
    LET unused == Pending = {} /\ InFlight = {} /\ ~hub.switching /\ ~hub.lease
        r == IF unused THEN ReleaseInternal(hub, file) ELSE [hub |-> hub, file |-> file]
    IN  Observe(r.hub, r.file)

InLoop == disp.pc = "loop" /\ ~hub.preparing

\* The loop may go on to a request.
Ready(o) == ~o.reserved /\ ~o.hub.lease /\ Eligible # {} /\ CanClaim(o)

\* (faulty) does not wait for the requests in flight
SwitchAtOnce == ~(hub.fresh /\ \E j \in Eligible : ModelOf[j] = hub.active)

\* A switch takes off from an idle GPU, and not during the cooldown of
\* _should_switch from a model that has eligible requests.
SwitchAllowed ==
    /\ InFlight = {}
    /\ ~(hub.fresh /\ \E j \in Eligible : ModelOf[j] = hub.active)

(* A turn of the loop that finds nothing to start. *)
Poll ==
    /\ InLoop
    /\ LET o == LoopHead
       IN  /\ hub' = IF Ready(o) THEN ClaimedHub(o) ELSE o.hub
           /\ file' = IF Ready(o) THEN ClaimedFile(o) ELSE o.file
    /\ UNCHANGED <<job, disp, warm, hook, bg, runner, ext, ghost, env>>

(* _choose_initial_model, _should_switch and _choose_next_model; the clocks *)
(* and scores that pick one of several requests are left open.             *)
StartSwitch(m) ==
    /\ InLoop /\ SwitchAllowed
    /\ m # hub.active
    /\ \E j \in Eligible : ModelOf[j] = m
    /\ LET o == LoopHead
       IN  /\ Ready(o)
           /\ hub' = [ClaimedHub(o) EXCEPT !.switching = TRUE, !.preparing = TRUE]
           /\ file' = ClaimedFile(o)
    /\ disp' = [pc |-> "switch", target |-> m]
    /\ UNCHANGED <<job, warm, hook, bg, runner, ext, ghost, env>>

(* _choose_job_for_active_model, and the hand-over to the executor. *)
Dispatch(j) ==
    /\ InLoop
    /\ j \in Eligible /\ ModelOf[j] = hub.active
    /\ Cardinality(InFlight) < MaxParallel
    /\ LET o == LoopHead
       IN  /\ Ready(o)
           /\ hub' = [ClaimedHub(o) EXCEPT !.fresh = FALSE]
           /\ file' = ClaimedFile(o)
    /\ job' = [job EXCEPT ![j].st = "inflight"]
    /\ UNCHANGED <<disp, warm, hook, bg, runner, ext, ghost, env>>

\* What the end of _perform_switch does to the queue and to the affinity.
Prepared(m) ==
    /\ hub' = [hub EXCEPT !.switching = FALSE, !.active = m, !.fresh = TRUE]
    /\ UNCHANGED <<job, ghost, env>>

\* The preparation did not succeed: the requests in js are failed.  An
\* operation that may have started leaves the outcome unknown.
PrepareFails(js) ==
    /\ job' = Failed(js)
    /\ \/ /\ hub' = [hub EXCEPT !.switching = FALSE, !.active = None]
          /\ UNCHANGED <<ghost, env>>
       \/ /\ env.faults > 0
          /\ env' = [env EXCEPT !.faults = @ - 1]
          /\ hub' = [hub EXCEPT !.switching = FALSE, !.active = None, !.uncertain = TRUE]
          /\ ghost' = TRUE

\* _has_active_preparation_waiter was false at some time of the preparation.
Abandoned(m) == \E j \in Jobs : ModelOf[j] = m /\ job[j].cancel

(* _perform_switch of the dispatcher comes back: prepared, rejected or     *)
(* failed, or cancelled, which leaves requests that arrived since queued.  *)
SwitchEnds ==
    /\ disp.pc = "switch"
    /\ \/ Prepared(disp.target)
       \/ PrepareFails(OfModel(disp.target))
       \/ Abandoned(disp.target) /\ PrepareFails({})
    /\ disp' = [disp EXCEPT !.pc = "switched"]
    /\ UNCHANGED <<file, warm, hook, bg, runner, ext>>

(* The dispatcher lifts the preparation gate in a section of its own. *)
Switched ==
    /\ disp.pc = "switched"
    /\ hub' = [hub EXCEPT !.preparing = FALSE]
    /\ disp' = [pc |-> "loop", target |-> None]
    /\ UNCHANGED <<file, job, warm, hook, bg, runner, ext, ghost, env>>

(* _claim_idle_unload *)
ClaimIdleUnload ==
    /\ InLoop
    /\ Pending = {} /\ InFlight = {} /\ hub.active # None
    /\ LET o == LoopHead
       IN  /\ ~o.hub.switching /\ ~o.hub.lease /\ ~o.reserved
           /\ CanClaim(o)
           /\ hub' = [ClaimedHub(o) EXCEPT !.switching = TRUE]
           /\ file' = ClaimedFile(o)
    /\ disp' = [disp EXCEPT !.pc = "unload"]
    /\ UNCHANGED <<job, warm, hook, bg, runner, ext, ghost, env>>

(* _perform_idle_unload comes back, confirmed or not. *)
UnloadEnds ==
    /\ disp.pc = "unload"
    /\ LET h == [hub EXCEPT !.active = None, !.switching = FALSE]
           r == IF InFlight = {} /\ ~hub.lease THEN ReleaseInternal(h, file)
                ELSE [hub |-> h, file |-> file]
       IN  hub' = r.hub /\ file' = r.file
    /\ disp' = [disp EXCEPT !.pc = "loop"]
    /\ UNCHANGED <<job, warm, hook, bg, runner, ext, ghost, env>>

-----------------------------------------------------------------------------
(* The executor threads: _run_job.                                         *)

\* (faulty) a cancelled request ends in a state nobody waits for
ExecuteCancelled(j) ==
    /\ job[j].st = "inflight"
    /\ job' = [job EXCEPT ![j].st = IF job[j].cancel THEN "cancelled" ELSE "running"]
    /\ UNCHANGED <<file, hub, disp, warm, hook, bg, runner, ext, ghost, env>>

(* The thread starts the model call, unless its caller is gone. *)
Execute(j) ==
    /\ job[j].st = "inflight"
    /\ job' = [job EXCEPT ![j].st = IF job[j].cancel THEN "done" ELSE "running"]
    /\ UNCHANGED <<file, hub, disp, warm, hook, bg, runner, ext, ghost, env>>

\* The foreground clock restarts when a foreground request ends.
Touched(h, j) == [h EXCEPT !.quiet = IF j \in Foreground THEN 0 ELSE @]

(* A clean end; an end that asks for the model to be prepared again; an end *)
(* whose outcome is unknown.                                               *)
RunEnds(j) ==
    /\ job[j].st = "running"
    /\ job' = [job EXCEPT ![j].st = "done"]
    /\ \/ /\ \E a \in {hub.active} \cup (IF hub.active = ModelOf[j] THEN {None} ELSE {}) :
               hub' = [Touched(hub, j) EXCEPT !.active = a]
          /\ UNCHANGED <<ghost, env>>
       \/ /\ env.faults > 0
          /\ env' = [env EXCEPT !.faults = @ - 1]
          /\ hub' = [Touched(hub, j) EXCEPT !.uncertain = TRUE]
          /\ ghost' = TRUE
    /\ UNCHANGED <<file, disp, warm, hook, bg, runner, ext>>

(* The back end finishes a call nobody waits for any more. *)
GhostEnds ==
    /\ ghost
    /\ ghost' = FALSE
    /\ UNCHANGED <<file, hub, job, disp, warm, hook, bg, runner, ext, env>>

-----------------------------------------------------------------------------
(* The prewarm thread.                                                     *)

Prewarm(m) ==
    /\ warm.pc = "off" /\ m \in Warmed /\ hub.active # m
    /\ Overtaking \/ disp.pc # "switched"
    /\ Pending = {} /\ InFlight = {} /\ ~hub.switching /\ ~hub.lease
    /\ LET o == Observed
       IN  /\ ~o.reserved /\ CanClaim(o)
           /\ hub' = [ClaimedHub(o) EXCEPT !.switching = TRUE, !.preparing = TRUE]
           /\ file' = ClaimedFile(o)
    /\ warm' = [pc |-> "switch", target |-> m]
    /\ UNCHANGED <<job, disp, hook, bg, runner, ext, ghost, env>>

(* _perform_switch comes back to prewarm; or the back end could not be     *)
(* started, and `_switching` is left as it is.                             *)
WarmEnds ==
    /\ warm.pc = "switch"
    /\ \/ /\ Prepared(warm.target)
          /\ warm' = [warm EXCEPT !.pc = "warm"]
       \/ /\ PrepareFails(OfModel(warm.target))
          /\ warm' = [warm EXCEPT !.pc = "cold"]
       \/ /\ warm' = [warm EXCEPT !.pc = "cold"]
          /\ UNCHANGED <<hub, job, ghost, env>>
    /\ UNCHANGED <<file, disp, hook, bg, runner, ext>>

(* The last section of prewarm; every failure counts as unknown. *)
WarmDone ==
    /\ warm.pc \in {"warm", "cold"}
    /\ LET h == [hub EXCEPT !.preparing = FALSE,
                            !.uncertain = @ \/ warm.pc = "cold"]
           r == IF InFlight = {} /\ ~h.switching /\ ~h.lease
                THEN ReleaseInternal(h, file) ELSE [hub |-> h, file |-> file]
       IN  hub' = r.hub /\ file' = r.file
    /\ warm' = [pc |-> "ended", target |-> None]
    /\ UNCHANGED <<job, disp, hook, bg, runner, ext, ghost, env>>

-----------------------------------------------------------------------------
(* The idle GPU worker.  `lock` is _setup_lock; one preprocessing thread   *)
(* calls generate_many, the hook thread calls preempt_foreground.          *)

\* generate_many goes on to its next batch, or returns.
Onward(b) ==
    \/ bg' = [b EXCEPT !.pc = "out"] /\ UNCHANGED env
    \/ /\ env.batches > 0
       /\ bg' = [b EXCEPT !.pc = "batch"]
       /\ env' = [env EXCEPT !.batches = @ - 1]

\* (faulty) does not wait for the server to end
StopAssumed(b) ==
    LET r == ReleaseBackground(hub, file)
    IN  /\ bg' = [b EXCEPT !.unconfirmed = FALSE, !.lease = FALSE]
        /\ hub' = r.hub /\ file' = r.file
        /\ UNCHANGED <<runner, env>>

\* _stop_and_release_gpu: confirmed, it gives back whatever the scheduler
\* has claimed; unconfirmed, everything is retained.
StopConfirmed(b) ==
    LET r == ReleaseBackground(hub, file)
    IN  /\ runner' = "off"
        /\ bg' = [b EXCEPT !.unconfirmed = FALSE, !.lease = FALSE]
        /\ hub' = r.hub /\ file' = r.file
        /\ UNCHANGED env

StopUnconfirmed(b) ==
    /\ env.faults > 0
    /\ env' = [env EXCEPT !.faults = @ - 1]
    /\ bg' = [b EXCEPT !.unconfirmed = TRUE]
    /\ UNCHANGED <<hub, file, runner>>

(* ready(), and the call of generate_many it permits. *)
BeginBatches ==
    /\ Worker /\ bg.pc = "out" /\ env.batches > 0
    /\ ~bg.unconfirmed
    /\ ~ForegroundBusy(Observed)
    /\ (bg.lease /\ runner # "off") \/ hub.quiet = 2
    /\ bg' = [bg EXCEPT !.pc = "batch"]
    /\ env' = [env EXCEPT !.batches = @ - 1]
    /\ hub' = Observed.hub /\ file' = Observed.file
    /\ UNCHANGED <<job, disp, warm, hook, runner, ext, ghost>>

(* _acquire_session with a session that is still there, or after a stop    *)
(* that was not confirmed.                                                 *)
ReuseSession ==
    /\ bg.pc = "batch"
    /\ bg.unconfirmed \/ (bg.lease /\ runner # "off")
    /\ bg' = [bg EXCEPT !.pc = IF ForegroundRequested(Observed) THEN "fallback" ELSE "gpu"]
    /\ hub' = Observed.hub /\ file' = Observed.file
    /\ UNCHANGED <<job, disp, warm, hook, runner, ext, ghost, env>>

(* _acquire_session under _setup_lock: the first section of                *)
(* acquire_background_gpu.  A lease that is set is taken for granted.      *)
AcquireBegins ==
    /\ bg.pc = "batch" /\ bg.lock = None
    /\ ~bg.unconfirmed /\ ~(bg.lease /\ runner # "off")
    /\ LET o == Observed
           granted == ~o.reserved /\ o.hub.lease
           claims == /\ ~o.reserved /\ ~o.hub.lease /\ ~o.hub.switching
                     /\ InFlight = {} /\ Pending = {}
                     /\ o.hub.quiet = 2 /\ CanClaim(o)
       IN  \/ /\ granted
              /\ bg' = [bg EXCEPT !.pc = "starting", !.lock = "worker", !.lease = TRUE]
              /\ hub' = o.hub /\ file' = o.file
           \/ /\ claims
              /\ bg' = [bg EXCEPT !.pc = "unloading", !.lock = "worker"]
              /\ hub' = [ClaimedHub(o) EXCEPT !.switching = TRUE]
              /\ file' = ClaimedFile(o)
           \/ /\ ~granted /\ ~claims
              /\ bg' = [bg EXCEPT !.pc = "fallback"]
              /\ hub' = o.hub /\ file' = o.file
    /\ UNCHANGED <<job, disp, warm, hook, runner, ext, ghost, env>>

(* The inventory of loaded models has been unloaded, or could not be: the  *)
(* last section of acquire_background_gpu.                                 *)
AcquireEnds ==
    /\ bg.pc = "unloading"
    /\ LET o == Observed
           clean == ~o.reserved /\ Pending = {} /\ InFlight = {} /\ hub.quiet = 2
           r == ReleaseInternal([o.hub EXCEPT !.switching = FALSE], o.file)
       IN  \/ /\ clean
              /\ bg' = [bg EXCEPT !.pc = "starting", !.lease = TRUE]
              /\ hub' = [o.hub EXCEPT !.switching = FALSE, !.lease = TRUE, !.active = None]
              /\ file' = o.file
           \/ /\ bg' = [bg EXCEPT !.pc = "fallback", !.lock = None]
              /\ hub' = r.hub /\ file' = r.file
    /\ UNCHANGED <<job, disp, warm, hook, runner, ext, ghost, env>>

\* No thread is between two sections of submit, and the hook thread is not
\* about to enter or to leave the hook: such a thread needs far less time
\* than a model server to start or an idle grace to pass.
Settled ==
    /\ hook \notin {"stopped", "failed"}
    /\ ~(hook = "start" /\ bg.lock = None)
    /\ \A j \in Jobs : job[j].then = "none"

(* The dedicated server: started, found unmanaged, or not started. *)
StartRunner ==
    /\ bg.pc = "starting"
    /\ Settled
    /\ \/ /\ runner' = "up"
          /\ bg' = [bg EXCEPT !.pc = "check"]
          /\ UNCHANGED <<hub, file>>
       \/ /\ LET r == ReleaseBackground(hub, file)
             IN  hub' = r.hub /\ file' = r.file
          /\ bg' = [bg EXCEPT !.pc = "fallback", !.lock = None, !.lease = FALSE]
          /\ UNCHANGED runner
       \/ /\ bg' = [bg EXCEPT !.pc = "stop"]
          /\ UNCHANGED <<hub, file, runner>>
    /\ UNCHANGED <<job, disp, warm, hook, ext, ghost, env>>

(* The last look at the foreground before the model is loaded. *)
LoadModel ==
    /\ bg.pc = "check"
    /\ IF ForegroundRequested(Observed)
       THEN bg' = [bg EXCEPT !.pc = "stop"] /\ UNCHANGED runner
       ELSE bg' = [bg EXCEPT !.pc = "loading"] /\ runner' = "loaded"
    /\ hub' = Observed.hub /\ file' = Observed.file
    /\ UNCHANGED <<job, disp, warm, hook, ext, ghost, env>>

(* Loaded: the session stands unless the foreground asks for the GPU, the  *)
(* load failed, or too much of the model spilled to the CPU.               *)
LoadEnds ==
    /\ bg.pc = "loading"
    /\ \/ /\ ~ForegroundRequested(Observed)
          /\ bg' = [bg EXCEPT !.pc = "gpu", !.lock = None]
       \/ bg' = [bg EXCEPT !.pc = "stop"]
    /\ hub' = Observed.hub /\ file' = Observed.file
    /\ UNCHANGED <<job, disp, warm, hook, runner, ext, ghost, env>>

(* The batch starts on the GPU, or yields first. *)
RunBatch ==
    /\ bg.pc = "gpu"
    /\ bg' = IF ForegroundRequested(Observed) THEN [bg EXCEPT !.pc = "yield"]
             ELSE [bg EXCEPT !.pc = "busy", !.active = TRUE]
    /\ hub' = Observed.hub /\ file' = Observed.file
    /\ UNCHANGED <<job, disp, warm, hook, runner, ext, ghost, env>>

(* The serial CPU fallback, where it is enabled and starts. *)
Fallback ==
    /\ bg.pc = "fallback"
    /\ \/ Cpu /\ bg' = [bg EXCEPT !.pc = "cpu", !.active = TRUE] /\ UNCHANGED env
       \/ Onward(bg)
    /\ UNCHANGED <<file, hub, job, disp, warm, hook, runner, ext, ghost>>

BatchEnds ==
    /\ bg.pc \in {"busy", "cpu"}
    /\ IF bg.pc = "busy"
       THEN /\ hub' = Observed.hub /\ file' = Observed.file
            /\ IF ForegroundRequested(Observed)
               THEN bg' = [bg EXCEPT !.pc = "yield", !.active = FALSE] /\ UNCHANGED env
               ELSE Onward([bg EXCEPT !.active = FALSE])
       ELSE UNCHANGED <<hub, file>> /\ Onward([bg EXCEPT !.active = FALSE])
    /\ UNCHANGED <<job, disp, warm, hook, runner, ext, ghost>>

(* preempt_foreground called by the worker itself. *)
Yield ==
    /\ bg.pc = "yield" /\ bg.lock = None
    /\ IF bg.lease THEN bg' = [bg EXCEPT !.pc = "yielding", !.lock = "worker"] /\ UNCHANGED env
       ELSE Onward(bg)
    /\ UNCHANGED <<file, hub, job, disp, warm, hook, runner, ext, ghost>>

WorkerStops ==
    /\ bg.pc \in {"stop", "yielding"}
    /\ LET b == [bg EXCEPT !.lock = None, !.pc = IF @ = "stop" THEN "fallback" ELSE "yielded"]
       IN  StopConfirmed(b) \/ StopUnconfirmed(b)
    /\ UNCHANGED <<job, disp, warm, hook, ext, ghost>>

(* generate_many after a preemption of its own. *)
Yielded ==
    /\ bg.pc = "yielded"
    /\ Onward(bg)
    /\ UNCHANGED <<file, hub, job, disp, warm, hook, runner, ext, ghost>>

(* preempt_foreground on the hook thread.  A batch on the CPU counts as    *)
(* active too.                                                             *)
HookBegins ==
    /\ hook = "start" /\ bg.lock = None
    /\ IF bg.lease \/ bg.active
       THEN hook' = "stopping" /\ bg' = [bg EXCEPT !.lock = "hook"]
       ELSE hook' = "stopped" /\ UNCHANGED bg
    /\ UNCHANGED <<file, hub, job, disp, warm, runner, ext, ghost, env>>

HookStops ==
    /\ hook = "stopping"
    /\ LET b == [bg EXCEPT !.lock = None]
       IN  \/ StopConfirmed(b) /\ hook' = "stopped"
           \/ StopUnconfirmed(b) /\ hook' = "failed"
    /\ UNCHANGED <<job, disp, warm, ext, ghost>>

(* The finally clause of _run_foreground_preempt_hook. *)
HookEnds ==
    /\ hook \in {"stopped", "failed"}
    /\ hook' = "off"
    /\ hub' = [hub EXCEPT !.preempting = FALSE, !.lease = @ /\ hook = "failed"]
    /\ UNCHANGED <<file, job, disp, warm, bg, runner, ext, ghost, env>>

-----------------------------------------------------------------------------
(* External processes and sessions.                                        *)

\* reserve_external_gpu adds the scheduler's own conditions.
SessionAdmitted ==
    /\ ~Observed.reserved /\ ~Observed.hub.claimed
    /\ ~hub.lease /\ ~hub.switching /\ InFlight = {} /\ Pending = {}

(* reserve and the renewal to "active"; or the metadata cannot be written  *)
(* and the digest stays behind.                                            *)
Reserve(e) ==
    /\ ext[e] = "out" /\ env.reserves > 0
    /\ e \in Kept \/ SessionAdmitted
    /\ Claimable(file)
    /\ env' = [env EXCEPT !.reserves = @ - 1]
    /\ \/ /\ file' = [File(e, e) EXCEPT !.marker = file.marker]
          /\ ext' = [ext EXCEPT ![e] = "busy"]
       \/ /\ file' = [File("dead", None) EXCEPT !.marker = file.marker]
          /\ UNCHANGED ext
    /\ UNCHANGED <<hub, job, disp, warm, hook, bg, runner, ghost>>

(* The renewal to "idle" and the release, if the lease is still one's own. *)
ReserveEnds(e) ==
    /\ ext[e] = "busy"
    /\ ext' = [ext EXCEPT ![e] = "out"]
    /\ file' = IF Valid(file) /\ file.meta = e THEN Removed(file) ELSE file
    /\ UNCHANGED <<hub, job, disp, warm, hook, bg, runner, ghost, env>>

(* The process dies with its lease, leaves it to expire because the outcome *)
(* of its inference is unknown, or dies between the two unlinks of its     *)
(* release.                                                                *)
HolderDies(e) ==
    /\ ext[e] = "busy"
    /\ env.faults > 0
    /\ env' = [env EXCEPT !.faults = @ - 1]
    /\ ext' = [ext EXCEPT ![e] = "out"]
    /\ IF Valid(file) /\ file.meta = e
       THEN file' \in {[file EXCEPT !.digest = d, !.meta = "dead"] : d \in {"dead", None}}
       ELSE UNCHANGED file
    /\ UNCHANGED <<hub, job, disp, warm, hook, bg, runner, ghost>>

\* Who computes on the GPU.
Users ==
    (IF ghost \/ (\E j \in Jobs : job[j].st = "running")
           \/ "switch" \in {disp.pc, warm.pc}
     THEN {"hub"} ELSE {})
    \cup (IF runner = "loaded" THEN {"runner"} ELSE {})
    \cup {e \in Ext : ext[e] = "busy"}

(* release_current_with_consent.  The operator is told not to clear the    *)
(* state while inference could still run.                                  *)
OperatorRelease ==
    /\ Users = {} /\ InFlight = {}
    /\ hub.uncertain \/ "dead" \in {file.digest, file.meta}
    /\ LET o == Observe(hub, [File(None, None) EXCEPT !.marker = TRUE])
       IN  hub' = o.hub /\ file' = o.file
    /\ UNCHANGED <<job, disp, warm, hook, bg, runner, ext, ghost, env>>

(* release_with_consent: an expired lease, a dead owner's, or metadata that *)
(* has lost its digest.                                                    *)
ConsentedRelease ==
    /\ file.meta # None
    /\ file.lapsed \/ file.meta = "dead"
    /\ file' = Removed(file)
    /\ UNCHANGED <<hub, job, disp, warm, hook, bg, runner, ext, ghost, env>>

-----------------------------------------------------------------------------
(* Time.                                                                   *)

(* A lease nobody renews reaches its expiry. *)
Lapse ==
    /\ Valid(file) /\ ~file.lapsed /\ file.meta \notin Kept
    /\ file' = [file EXCEPT !.lapsed = TRUE]
    /\ UNCHANGED <<hub, job, disp, warm, hook, bg, runner, ext, ghost, env>>

(* A digest without metadata reaches the age of one TTL. *)
Age ==
    /\ file.digest # None /\ file.meta = None /\ ~file.old
    /\ file' = [file EXCEPT !.old = TRUE]
    /\ UNCHANGED <<hub, job, disp, warm, hook, bg, runner, ext, ghost, env>>

(* The foreground idle clock.  The unloading has a deadline of 3 seconds,  *)
(* far below the idle time the worker asks for.                            *)
Quiet ==
    /\ hub.quiet < 2
    /\ hub.quiet = 1 => bg.pc # "unloading"
    /\ Settled
    /\ hub' = [hub EXCEPT !.quiet = @ + 1]
    /\ UNCHANGED <<file, job, disp, warm, hook, bg, runner, ext, ghost, env>>

(* The cooldown ends.  It outlasts the turns of a loop that may go on, so  *)
(* it ends only while the loop is held up.                                 *)
Cool ==
    /\ hub.fresh
    /\ InLoop /\ ~Ready(LoopHead)
    /\ hub' = [hub EXCEPT !.fresh = FALSE]
    /\ UNCHANGED <<file, job, disp, warm, hook, bg, runner, ext, ghost, env>>

-----------------------------------------------------------------------------
Dispatcher ==
    \/ \E m \in Models : StartSwitch(m)
    \/ \E j \in Jobs : Dispatch(j)
    \/ SwitchEnds \/ Switched \/ UnloadEnds

Executor == \E j \in Jobs : Execute(j) \/ RunEnds(j)

Caller == \E j \in Jobs : StartHook(j) \/ Ungate(j)

WorkerThread ==
    \/ ReuseSession \/ AcquireBegins \/ AcquireEnds \/ StartRunner \/ LoadModel
    \/ LoadEnds \/ RunBatch \/ Fallback \/ BatchEnds \/ Yield \/ WorkerStops
    \/ Yielded

HookThread == HookBegins \/ HookStops \/ HookEnds

Clock == Lapse \/ Age \/ Quiet \/ Cool

Next ==
    \/ \E j \in Jobs : Submit(j) \/ Leave(j)
    \/ Poll \/ ClaimIdleUnload \/ GhostEnds \/ BeginBatches
    \/ \E m \in Models : Prewarm(m)
    \/ WarmEnds \/ WarmDone
    \/ Dispatcher \/ Executor \/ Caller \/ WorkerThread \/ HookThread
    \/ \E e \in Ext : Reserve(e) \/ ReserveEnds(e) \/ HolderDies(e)
    \/ OperatorRelease \/ ConsentedRelease \/ Clock

Spec == Init /\ [][Next]_vars

(* Threads that can run do; model calls, model loads and external sessions *)
(* end; clocks advance.                                                    *)
FairSpec ==
    /\ Spec
    /\ WF_vars(Dispatcher)
    /\ WF_vars(Executor) /\ WF_vars(Caller)
    /\ WF_vars(WarmEnds) /\ WF_vars(WarmDone)
    /\ WF_vars(WorkerThread) /\ WF_vars(HookThread)
    /\ WF_vars(\E e \in Ext : ReserveEnds(e))
    /\ WF_vars(Lapse) /\ WF_vars(Age) /\ WF_vars(Quiet)

-----------------------------------------------------------------------------
\* Files, flags, requests and threads only take the values the code gives
\* them; no request ends in a state its caller does not wait for.
TypeOK ==
    /\ file \in Files
    /\ hub \in [switching : BOOLEAN, preparing : BOOLEAN, uncertain : BOOLEAN,
               claimed : BOOLEAN, lease : BOOLEAN, preempting : BOOLEAN,
               active : Models \cup {None}, fresh : BOOLEAN, quiet : 0..2]
    /\ job \in [Jobs -> [st : {"new", "pending", "inflight", "running", "done"},
                        then : {"none", "hook", "ungate"}, cancel : BOOLEAN]]
    /\ disp \in [pc : {"loop", "switch", "switched", "unload"}, target : Models \cup {None}]
    /\ warm \in [pc : {"off", "switch", "warm", "cold", "ended"}, target : Models \cup {None}]
    /\ hook \in {"off", "start", "stopping", "stopped", "failed"}
    /\ bg \in [pc : {"out", "batch", "unloading", "starting", "check", "loading", "gpu",
                    "busy", "cpu", "fallback", "yield", "yielding",
                    "yielded", "stop"},
              lease : BOOLEAN, unconfirmed : BOOLEAN, active : BOOLEAN,
              lock : {None, "hook", "worker"}]
    /\ runner \in {"off", "up", "loaded"}
    /\ ext \in [Ext -> {"out", "busy"}]
    /\ ghost \in BOOLEAN
    /\ env \in [faults : 0..MaxFaults, leaves : 0..MaxLeaves,
               reserves : 0..MaxReserves, batches : 0..MaxBatches]

\* A party is on the GPU: it computes there, or has a claim it is about to use.
OnGpu(p) ==
    IF p = "hub"
    THEN ghost \/ InFlight # {} \/ "switch" \in {disp.pc, warm.pc} \/ disp.pc = "unload"
    ELSE ext[p] = "busy"

\* The files are the fence of p, and nobody may reap them.
InForce(p) == file.digest = p /\ Reaped(file) = file

\* In a hub without the idle worker, the hub and every external process get on the
\* GPU with a fence in force, and keep it until they are off again or the fence has
\* outlived its lifetime: a model call of unknown outcome keeps it too, and neither
\* files left by dead processes nor an operator's release or another's cleanup take
\* it away.  So two of them compute at once only after a fence was not renewed for
\* one whole TTL; the hub never renews its own (claim_internal, reap_expired).
FenceHonoured ==
    [][\A p \in Ext \cup {"hub"} :
         /\ ~OnGpu(p) /\ OnGpu(p)' => InForce(p)'
         /\ OnGpu(p) /\ InForce(p) /\ OnGpu(p)' => file'.digest = p]_vars

\* What no run checks, since it is false without renewal: one party at a time.
GpuExclusive == Cardinality(Users) <= 1

\* In a hub without the idle worker, a model is prepared or unloaded only while
\* no request is in flight, and requests in flight at once are for one model.
QuietSwitch ==
    /\ "switch" \in {disp.pc, warm.pc} \/ disp.pc = "unload" => InFlight = {}
    /\ Cardinality({ModelOf[j] : j \in InFlight}) <= 1

\* The worker's server never holds its model while a request of the scheduler
\* is in flight or a model of the scheduler is being loaded, as long as its stop
\* has not failed, all requests are foreground ones and the request that the
\* dispatcher loads a model for still waits.
BackgroundYields ==
    runner = "loaded" /\ ~bg.unconfirmed => InFlight = {} /\ disp.pc # "switch"

\* A server whose stop was not confirmed keeps the scheduler off the GPU.
UnconfirmedHolds ==
    runner = "loaded" /\ bg.unconfirmed => InFlight = {} /\ disp.pc # "switch"

\* Every accepted request is answered, whatever mix of models, external
\* leases of dead processes and background work it meets, unless the outcome
\* of an earlier model call is unknown or a release was cut short between
\* its two files: only an operator gets the scheduler past these two.
Served ==
    \A j \in Jobs : job[j].st = "pending" ~>
        (job[j].st = "done" \/ hub.uncertain \/ (file.digest = None /\ file.meta # None))

=============================================================================
