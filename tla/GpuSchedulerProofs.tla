------------------------- MODULE GpuSchedulerProofs -------------------------
(***************************************************************************)
(* Theorems about GpuScheduler, for every set of requests, models and      *)
(* external processes, every number of requests in flight and every bound. *)
(***************************************************************************)
EXTENDS GpuScheduler, FiniteSetTheorems, TLAPS

-----------------------------------------------------------------------------
(* The parts of the type invariant *)

Hubs == [switching : BOOLEAN, preparing : BOOLEAN, uncertain : BOOLEAN,
         claimed : BOOLEAN, lease : BOOLEAN, preempting : BOOLEAN,
         active : Models \cup {None}, fresh : BOOLEAN, quiet : 0..2]

Requests == [st : {"new", "pending", "inflight", "running", "done"},
             then : {"none", "hook", "ungate"}, cancel : BOOLEAN]

Dispatchers == [pc : {"loop", "switch", "switched", "unload"}, target : Models \cup {None}]

Warmers == [pc : {"off", "switch", "warm", "cold", "ended"}, target : Models \cup {None}]

Hooks == {"off", "start", "stopping", "stopped", "failed"}

Workers == [pc : {"out", "batch", "unloading", "starting", "check", "loading", "gpu",
                  "busy", "cpu", "fallback", "yield", "yielding", "yielded", "stop"},
            lease : BOOLEAN, unconfirmed : BOOLEAN, active : BOOLEAN,
            lock : {None, "hook", "worker"}]

Budgets == [faults : 0..MaxFaults, leaves : 0..MaxLeaves,
            reserves : 0..MaxReserves, batches : 0..MaxBatches]

\* The type invariant, part by part.
LEMMA TypeParts ==
    TypeOK <=> /\ file \in Files /\ hub \in Hubs
               /\ job \in [Jobs -> Requests]
               /\ disp \in Dispatchers /\ warm \in Warmers
               /\ hook \in Hooks /\ bg \in Workers
               /\ runner \in {"off", "up", "loaded"}
               /\ ext \in [Ext -> {"out", "busy"}]
               /\ ghost \in BOOLEAN /\ env \in Budgets
BY Zenon DEF TypeOK, Hubs, Requests, Dispatchers, Warmers, Hooks, Workers, Budgets

-----------------------------------------------------------------------------
(* What the sections do to the files and to the flags *)

\* The flags that no operation of the reservation files touches.
SameGates(h, g) ==
    /\ g.switching = h.switching /\ g.preparing = h.preparing
    /\ g.lease = h.lease /\ g.preempting = h.preempting
    /\ g.active = h.active /\ g.fresh = h.fresh /\ g.quiet = h.quiet

\* _remove_unlocked leaves no file.
LEMMA RemovedFile ==
    ASSUME NEW f \in Files
    PROVE  Removed(f) \in Files /\ Free(Removed(f)) /\ Removed(f).marker = f.marker
BY DEF Removed, Files, Free, File

\* reap_expired leaves the files, or removes them; it does not remove the files
\* of a lease that has not lapsed or of a young claim.
LEMMA ReapedFile ==
    ASSUME NEW f \in Files
    PROVE  /\ Reaped(f) \in Files
           /\ Reaped(f) = f \/ Reaped(f) = Removed(f)
           /\ Valid(f) /\ ~f.lapsed => Reaped(f) = f
           /\ f.meta = None /\ ~f.old => Reaped(f) = f
           /\ f.meta = None /\ f.old /\ f.digest # None => Reaped(f) = Removed(f)
BY RemovedFile DEF Reaped, Valid

\* _external_gpu_reserved.
LEMMA ObserveKeeps ==
    ASSUME NEW h \in Hubs, NEW f \in Files
    PROVE  LET o == Observe(h, f) IN
           /\ o.hub \in Hubs /\ o.file \in Files
           /\ SameGates(h, o.hub)
           /\ o.file.digest = Reaped(f).digest /\ o.file.meta = Reaped(f).meta
           /\ o.file.old = Reaped(f).old /\ o.file.lapsed = Reaped(f).lapsed
           /\ h.uncertain /\ ~Free(Reaped(f)) => o.hub.uncertain
           /\ o.hub.uncertain => h.uncertain
<1> DEFINE r == Reaped(f)
           stuck == r.marker /\ Free(r) /\ ~SchedulerIdle
           g == IF r.marker /\ Free(r) /\ SchedulerIdle THEN Forgiven(h) ELSE h
           seen == IF stuck THEN r ELSE [r EXCEPT !.marker = FALSE]
           c == g.claimed /\ (g.uncertain \/ seen.digest # None)
<1>1. r \in Files
  BY ReapedFile
<1>2. g \in Hubs /\ SameGates(h, g) /\ (h.uncertain /\ ~Free(r) => g.uncertain)
      /\ (g.uncertain => h.uncertain)
  BY DEF Hubs, SameGates, Forgiven
<1>3. /\ seen \in Files /\ seen.digest = r.digest /\ seen.meta = r.meta
      /\ seen.old = r.old /\ seen.lapsed = r.lapsed
  BY <1>1 DEF Files
<1>4. c \in BOOLEAN
  BY <1>2 DEF Hubs
<1> DEFINE k == [g EXCEPT !.claimed = c]
<1>5. k \in Hubs /\ SameGates(h, k) /\ k.uncertain = g.uncertain
  <2> HIDE DEF g, c
  <2> QED
    BY <1>2, <1>4 DEF Hubs, SameGates
<1>6. SameGates(h, h)
  BY DEF SameGates
<1>7. CASE stuck
  <2>1. Observe(h, f).hub = h /\ Observe(h, f).file = r
    BY <1>7 DEF Observe
  <2> QED
    BY <2>1, <1>1, <1>6
<1>8. CASE ~stuck
  <2>1. Observe(h, f).hub = k /\ Observe(h, f).file = seen
    BY <1>8 DEF Observe
  <2> QED
    BY <2>1, <1>2, <1>3, <1>5
<1> QED
  BY <1>7, <1>8

\* _claim_internal_gpu.
LEMMA ClaimKeeps ==
    ASSUME NEW o, o.hub \in Hubs, o.file \in Files
    PROVE  /\ ClaimedHub(o) \in Hubs /\ SameGates(o.hub, ClaimedHub(o))
           /\ ClaimedHub(o).uncertain = o.hub.uncertain
           /\ ClaimedFile(o) \in Files
<1>1. ClaimedHub(o) \in Hubs /\ SameGates(o.hub, ClaimedHub(o))
      /\ ClaimedHub(o).uncertain = o.hub.uncertain
  BY DEF ClaimedHub, Hubs, SameGates
<1>2. Reaped(o.file) \in Files
  BY ReapedFile
<1>3. [Reaped(o.file) EXCEPT !.digest = "hub", !.old = FALSE] \in Files
  BY <1>2 DEF Files, Holders
<1> QED
  BY <1>1, <1>3 DEF ClaimedFile

\* _release_internal_gpu: an unknown outcome or a preparation keeps the files.
LEMMA ReleaseKeeps ==
    ASSUME NEW h \in Hubs, NEW f \in Files
    PROVE  LET r == ReleaseInternal(h, f) IN
           /\ r.hub \in Hubs /\ r.file \in Files
           /\ SameGates(h, r.hub) /\ r.hub.uncertain = h.uncertain
           /\ r.file # f => /\ ~h.uncertain /\ ~h.preparing
                            /\ f.meta = None /\ f.digest = "hub" /\ r.file = Removed(f)
<1>1. ReleasedInternal(f) \in Files
      /\ (ReleasedInternal(f) # f => f.meta = None /\ f.digest = "hub"
                                       /\ ReleasedInternal(f) = Removed(f))
  BY RemovedFile DEF ReleasedInternal
<1>2. [h EXCEPT !.claimed = FALSE] \in Hubs
      /\ SameGates(h, [h EXCEPT !.claimed = FALSE])
      /\ [h EXCEPT !.claimed = FALSE].uncertain = h.uncertain
  BY DEF Hubs, SameGates
<1>3. SameGates(h, h)
  BY DEF SameGates
<1> QED
  BY <1>1, <1>2, <1>3 DEF ReleaseInternal

-----------------------------------------------------------------------------
(* The inductive invariant of a hub without the idle worker *)

\* The worker, its server, its lease and the preemption hook do not exist.
WorkerOff ==
    /\ bg.pc = "out" /\ runner = "off" /\ hook = "off"
    /\ ~hub.lease /\ ~hub.preempting
    /\ \A j \in Jobs : job[j].then # "hook"

\* One thread at a time prepares a model, behind the flags that keep the others
\* away, and only with nothing in flight.
OnePreparation ==
    /\ disp.pc \in {"switch", "switched"} \/ warm.pc \in {"switch", "warm", "cold"}
         => hub.preparing
    /\ disp.pc \in {"switch", "switched", "unload"}
         => warm.pc \notin {"switch", "warm", "cold"}
    /\ disp.pc \in {"switch", "unload"} => hub.switching
    /\ "switch" \in {disp.pc, warm.pc} \/ disp.pc = "unload" => InFlight = {}

\* Requests in flight are for one model: the active one, if there is one.
OneModel ==
    /\ \A i, j \in InFlight : ModelOf[i] = ModelOf[j]
    /\ \A j \in InFlight : hub.active \in {None, ModelOf[j]}

\* The hub computes, or a call of unknown outcome may.
HubComputes ==
    \/ ghost \/ InFlight # {} \/ "switch" \in {disp.pc, warm.pc}

\* A digest of the hub has no metadata; that of an external process has its own.
Consistent(f) ==
    /\ f.digest = "hub" => f.meta = None
    /\ f.digest \in Ext => f.meta = f.digest

\* What the fence rests on: whose the files are; no operator's release waits to be
\* seen while the hub computes; an outcome that is unknown is remembered while its
\* call runs, and keeps the loop from unloading.
FenceParts ==
    /\ Consistent(file)
    /\ HubComputes => ~file.marker
    /\ ghost => hub.uncertain
    /\ disp.pc = "unload" => ~hub.uncertain

\* The step FenceHonoured asks for.
FenceStep ==
    \A p \in Ext \cup {"hub"} :
        /\ ~OnGpu(p) /\ OnGpu(p)' => InForce(p)'
        /\ OnGpu(p) /\ InForce(p) /\ OnGpu(p)' => file'.digest = p

QInv == TypeOK /\ WorkerOff /\ OnePreparation /\ OneModel

-----------------------------------------------------------------------------
(* Which actions change a variable *)

\* The reservation files are changed by these steps only.
LEMMA ChangesFile ==
    ASSUME [Next]_vars
    PROVE  \/ UNCHANGED file
           \/ \E j \in Jobs : Submit(j)
           \/ Poll
           \/ \E m \in Models : StartSwitch(m)
           \/ \E j \in Jobs : Dispatch(j)
           \/ ClaimIdleUnload
           \/ UnloadEnds
           \/ \E m \in Models : Prewarm(m)
           \/ WarmDone
           \/ WorkerStops
           \/ HookStops
           \/ BeginBatches
           \/ ReuseSession
           \/ AcquireBegins
           \/ AcquireEnds
           \/ StartRunner
           \/ LoadModel
           \/ LoadEnds
           \/ RunBatch
           \/ BatchEnds
           \/ \E e \in Ext : Reserve(e)
           \/ \E e \in Ext : ReserveEnds(e)
           \/ \E e \in Ext : HolderDies(e)
           \/ OperatorRelease
           \/ ConsentedRelease
           \/ Lapse
           \/ Age
<1>1. CASE \E j \in Jobs : Submit(j) \/ Leave(j)
  BY <1>1 DEF Leave
<1>2. CASE Poll \/ ClaimIdleUnload \/ GhostEnds \/ BeginBatches
  BY <1>2 DEF GhostEnds
<1>3. CASE (\E m \in Models : Prewarm(m)) \/ WarmEnds \/ WarmDone
  BY <1>3 DEF WarmEnds
<1>4. CASE Dispatcher
  BY <1>4 DEF Dispatcher, SwitchEnds, Switched
<1>5. CASE Executor \/ Caller
  BY <1>5 DEF Executor, Caller, Execute, RunEnds, StartHook, Ungate
<1>6. CASE WorkerThread
  BY <1>6 DEF WorkerThread, Fallback, Yield, Yielded
<1>7. CASE HookThread
  BY <1>7 DEF HookThread, HookBegins, HookEnds
<1>8. CASE \E e \in Ext : Reserve(e) \/ ReserveEnds(e) \/ HolderDies(e)
  BY <1>8
<1>9. CASE OperatorRelease \/ ConsentedRelease \/ Clock
  BY <1>9 DEF Clock, Quiet, Cool
<1> QED
  BY <1>1, <1>2, <1>3, <1>4, <1>5, <1>6, <1>7, <1>8, <1>9 DEF Next, vars

\* The flags of the scheduler are changed by these steps only.
LEMMA ChangesHub ==
    ASSUME [Next]_vars
    PROVE  \/ UNCHANGED hub
           \/ \E j \in Jobs : Submit(j)
           \/ Poll
           \/ \E m \in Models : StartSwitch(m)
           \/ \E j \in Jobs : Dispatch(j)
           \/ ClaimIdleUnload
           \/ UnloadEnds
           \/ \E m \in Models : Prewarm(m)
           \/ WarmDone
           \/ WorkerStops
           \/ HookStops
           \/ BeginBatches
           \/ ReuseSession
           \/ AcquireBegins
           \/ AcquireEnds
           \/ StartRunner
           \/ LoadModel
           \/ LoadEnds
           \/ RunBatch
           \/ BatchEnds
           \/ OperatorRelease
           \/ \E j \in Jobs : Ungate(j)
           \/ SwitchEnds
           \/ Switched
           \/ \E j \in Jobs : RunEnds(j)
           \/ WarmEnds
           \/ HookEnds
           \/ Quiet
           \/ Cool
<1>1. CASE \E j \in Jobs : Submit(j) \/ Leave(j)
  BY <1>1 DEF Leave
<1>2. CASE Poll \/ ClaimIdleUnload \/ GhostEnds \/ BeginBatches
  BY <1>2 DEF GhostEnds
<1>3. CASE (\E m \in Models : Prewarm(m)) \/ WarmEnds \/ WarmDone
  BY <1>3
<1>4. CASE Dispatcher
  BY <1>4 DEF Dispatcher
<1>5. CASE Executor \/ Caller
  BY <1>5 DEF Executor, Caller, Execute, StartHook
<1>6. CASE WorkerThread
  BY <1>6 DEF WorkerThread, Fallback, Yield, Yielded
<1>7. CASE HookThread
  BY <1>7 DEF HookThread, HookBegins
<1>8. CASE \E e \in Ext : Reserve(e) \/ ReserveEnds(e) \/ HolderDies(e)
  BY <1>8 DEF Reserve, ReserveEnds, HolderDies
<1>9. CASE OperatorRelease \/ ConsentedRelease \/ Clock
  BY <1>9 DEF Clock, ConsentedRelease, Lapse, Age
<1> QED
  BY <1>1, <1>2, <1>3, <1>4, <1>5, <1>6, <1>7, <1>8, <1>9 DEF Next, vars

\* A request is changed by these steps only.
LEMMA ChangesJob ==
    ASSUME [Next]_vars
    PROVE  \/ UNCHANGED job
           \/ \E j \in Jobs : Submit(j)
           \/ \E j \in Jobs : StartHook(j)
           \/ \E j \in Jobs : Ungate(j)
           \/ \E j \in Jobs : Leave(j)
           \/ \E j \in Jobs : Dispatch(j)
           \/ SwitchEnds
           \/ WarmEnds
           \/ \E j \in Jobs : Execute(j)
           \/ \E j \in Jobs : RunEnds(j)
<1>1. CASE \E j \in Jobs : Submit(j) \/ Leave(j)
  BY <1>1
<1>2. CASE Poll \/ ClaimIdleUnload \/ GhostEnds \/ BeginBatches
  BY <1>2 DEF Poll, ClaimIdleUnload, GhostEnds, BeginBatches
<1>3. CASE (\E m \in Models : Prewarm(m)) \/ WarmEnds \/ WarmDone
  BY <1>3 DEF Prewarm, WarmDone
<1>4. CASE Dispatcher
  BY <1>4 DEF Dispatcher, StartSwitch, Switched, UnloadEnds
<1>5. CASE Executor \/ Caller
  BY <1>5 DEF Executor, Caller
<1>6. CASE WorkerThread
  BY <1>6 DEF WorkerThread, ReuseSession, AcquireBegins, AcquireEnds, StartRunner, LoadModel,
    LoadEnds, RunBatch, Fallback, BatchEnds, Yield, WorkerStops, Yielded
<1>7. CASE HookThread
  BY <1>7 DEF HookThread, HookBegins, HookStops, HookEnds
<1>8. CASE \E e \in Ext : Reserve(e) \/ ReserveEnds(e) \/ HolderDies(e)
  BY <1>8 DEF Reserve, ReserveEnds, HolderDies
<1>9. CASE OperatorRelease \/ ConsentedRelease \/ Clock
  BY <1>9 DEF Clock, OperatorRelease, ConsentedRelease, Lapse, Age, Quiet, Cool
<1> QED
  BY <1>1, <1>2, <1>3, <1>4, <1>5, <1>6, <1>7, <1>8, <1>9 DEF Next, vars

\* The dispatcher is changed by these steps only.
LEMMA ChangesDisp ==
    ASSUME [Next]_vars
    PROVE  \/ UNCHANGED disp
           \/ \E m \in Models : StartSwitch(m)
           \/ SwitchEnds
           \/ Switched
           \/ ClaimIdleUnload
           \/ UnloadEnds
<1>1. CASE \E j \in Jobs : Submit(j) \/ Leave(j)
  BY <1>1 DEF Submit, Leave
<1>2. CASE Poll \/ ClaimIdleUnload \/ GhostEnds \/ BeginBatches
  BY <1>2 DEF Poll, GhostEnds, BeginBatches
<1>3. CASE (\E m \in Models : Prewarm(m)) \/ WarmEnds \/ WarmDone
  BY <1>3 DEF Prewarm, WarmEnds, WarmDone
<1>4. CASE Dispatcher
  BY <1>4 DEF Dispatcher, Dispatch
<1>5. CASE Executor \/ Caller
  BY <1>5 DEF Executor, Caller, Execute, RunEnds, StartHook, Ungate
<1>6. CASE WorkerThread
  BY <1>6 DEF WorkerThread, ReuseSession, AcquireBegins, AcquireEnds, StartRunner, LoadModel,
    LoadEnds, RunBatch, Fallback, BatchEnds, Yield, WorkerStops, Yielded
<1>7. CASE HookThread
  BY <1>7 DEF HookThread, HookBegins, HookStops, HookEnds
<1>8. CASE \E e \in Ext : Reserve(e) \/ ReserveEnds(e) \/ HolderDies(e)
  BY <1>8 DEF Reserve, ReserveEnds, HolderDies
<1>9. CASE OperatorRelease \/ ConsentedRelease \/ Clock
  BY <1>9 DEF Clock, OperatorRelease, ConsentedRelease, Lapse, Age, Quiet, Cool
<1> QED
  BY <1>1, <1>2, <1>3, <1>4, <1>5, <1>6, <1>7, <1>8, <1>9 DEF Next, vars

\* The prewarm thread is changed by these steps only.
LEMMA ChangesWarm ==
    ASSUME [Next]_vars
    PROVE  \/ UNCHANGED warm
           \/ \E m \in Models : Prewarm(m)
           \/ WarmEnds
           \/ WarmDone
<1>1. CASE \E j \in Jobs : Submit(j) \/ Leave(j)
  BY <1>1 DEF Submit, Leave
<1>2. CASE Poll \/ ClaimIdleUnload \/ GhostEnds \/ BeginBatches
  BY <1>2 DEF Poll, ClaimIdleUnload, GhostEnds, BeginBatches
<1>3. CASE (\E m \in Models : Prewarm(m)) \/ WarmEnds \/ WarmDone
  BY <1>3
<1>4. CASE Dispatcher
  BY <1>4 DEF Dispatcher, StartSwitch, Dispatch, SwitchEnds, Switched, UnloadEnds
<1>5. CASE Executor \/ Caller
  BY <1>5 DEF Executor, Caller, Execute, RunEnds, StartHook, Ungate
<1>6. CASE WorkerThread
  BY <1>6 DEF WorkerThread, ReuseSession, AcquireBegins, AcquireEnds, StartRunner, LoadModel,
    LoadEnds, RunBatch, Fallback, BatchEnds, Yield, WorkerStops, Yielded
<1>7. CASE HookThread
  BY <1>7 DEF HookThread, HookBegins, HookStops, HookEnds
<1>8. CASE \E e \in Ext : Reserve(e) \/ ReserveEnds(e) \/ HolderDies(e)
  BY <1>8 DEF Reserve, ReserveEnds, HolderDies
<1>9. CASE OperatorRelease \/ ConsentedRelease \/ Clock
  BY <1>9 DEF Clock, OperatorRelease, ConsentedRelease, Lapse, Age, Quiet, Cool
<1> QED
  BY <1>1, <1>2, <1>3, <1>4, <1>5, <1>6, <1>7, <1>8, <1>9 DEF Next, vars

\* The hook thread is changed by these steps only.
LEMMA ChangesHook ==
    ASSUME [Next]_vars
    PROVE  \/ UNCHANGED hook
           \/ \E j \in Jobs : StartHook(j)
           \/ HookBegins
           \/ HookStops
           \/ HookEnds
<1>1. CASE \E j \in Jobs : Submit(j) \/ Leave(j)
  BY <1>1 DEF Submit, Leave
<1>2. CASE Poll \/ ClaimIdleUnload \/ GhostEnds \/ BeginBatches
  BY <1>2 DEF Poll, ClaimIdleUnload, GhostEnds, BeginBatches
<1>3. CASE (\E m \in Models : Prewarm(m)) \/ WarmEnds \/ WarmDone
  BY <1>3 DEF Prewarm, WarmEnds, WarmDone
<1>4. CASE Dispatcher
  BY <1>4 DEF Dispatcher, StartSwitch, Dispatch, SwitchEnds, Switched, UnloadEnds
<1>5. CASE Executor \/ Caller
  BY <1>5 DEF Executor, Caller, Execute, RunEnds, Ungate
<1>6. CASE WorkerThread
  BY <1>6 DEF WorkerThread, ReuseSession, AcquireBegins, AcquireEnds, StartRunner, LoadModel,
    LoadEnds, RunBatch, Fallback, BatchEnds, Yield, WorkerStops, Yielded
<1>7. CASE HookThread
  BY <1>7 DEF HookThread
<1>8. CASE \E e \in Ext : Reserve(e) \/ ReserveEnds(e) \/ HolderDies(e)
  BY <1>8 DEF Reserve, ReserveEnds, HolderDies
<1>9. CASE OperatorRelease \/ ConsentedRelease \/ Clock
  BY <1>9 DEF Clock, OperatorRelease, ConsentedRelease, Lapse, Age, Quiet, Cool
<1> QED
  BY <1>1, <1>2, <1>3, <1>4, <1>5, <1>6, <1>7, <1>8, <1>9 DEF Next, vars

\* The idle worker is changed by these steps only.
LEMMA ChangesBg ==
    ASSUME [Next]_vars
    PROVE  \/ UNCHANGED bg
           \/ BeginBatches
           \/ ReuseSession
           \/ AcquireBegins
           \/ AcquireEnds
           \/ StartRunner
           \/ LoadModel
           \/ LoadEnds
           \/ RunBatch
           \/ Fallback
           \/ BatchEnds
           \/ Yield
           \/ WorkerStops
           \/ Yielded
           \/ HookBegins
           \/ HookStops
<1>1. CASE \E j \in Jobs : Submit(j) \/ Leave(j)
  BY <1>1 DEF Submit, Leave
<1>2. CASE Poll \/ ClaimIdleUnload \/ GhostEnds \/ BeginBatches
  BY <1>2 DEF Poll, ClaimIdleUnload, GhostEnds
<1>3. CASE (\E m \in Models : Prewarm(m)) \/ WarmEnds \/ WarmDone
  BY <1>3 DEF Prewarm, WarmEnds, WarmDone
<1>4. CASE Dispatcher
  BY <1>4 DEF Dispatcher, StartSwitch, Dispatch, SwitchEnds, Switched, UnloadEnds
<1>5. CASE Executor \/ Caller
  BY <1>5 DEF Executor, Caller, Execute, RunEnds, StartHook, Ungate
<1>6. CASE WorkerThread
  BY <1>6 DEF WorkerThread
<1>7. CASE HookThread
  BY <1>7 DEF HookThread, HookEnds
<1>8. CASE \E e \in Ext : Reserve(e) \/ ReserveEnds(e) \/ HolderDies(e)
  BY <1>8 DEF Reserve, ReserveEnds, HolderDies
<1>9. CASE OperatorRelease \/ ConsentedRelease \/ Clock
  BY <1>9 DEF Clock, OperatorRelease, ConsentedRelease, Lapse, Age, Quiet, Cool
<1> QED
  BY <1>1, <1>2, <1>3, <1>4, <1>5, <1>6, <1>7, <1>8, <1>9 DEF Next, vars

\* Its model server is changed by these steps only.
LEMMA ChangesRunner ==
    ASSUME [Next]_vars
    PROVE  \/ UNCHANGED runner
           \/ StartRunner
           \/ LoadModel
           \/ WorkerStops
           \/ HookStops
<1>1. CASE \E j \in Jobs : Submit(j) \/ Leave(j)
  BY <1>1 DEF Submit, Leave
<1>2. CASE Poll \/ ClaimIdleUnload \/ GhostEnds \/ BeginBatches
  BY <1>2 DEF Poll, ClaimIdleUnload, GhostEnds, BeginBatches
<1>3. CASE (\E m \in Models : Prewarm(m)) \/ WarmEnds \/ WarmDone
  BY <1>3 DEF Prewarm, WarmEnds, WarmDone
<1>4. CASE Dispatcher
  BY <1>4 DEF Dispatcher, StartSwitch, Dispatch, SwitchEnds, Switched, UnloadEnds
<1>5. CASE Executor \/ Caller
  BY <1>5 DEF Executor, Caller, Execute, RunEnds, StartHook, Ungate
<1>6. CASE WorkerThread
  BY <1>6 DEF WorkerThread, ReuseSession, AcquireBegins, AcquireEnds, LoadEnds, RunBatch,
    Fallback, BatchEnds, Yield, Yielded
<1>7. CASE HookThread
  BY <1>7 DEF HookThread, HookBegins, HookEnds
<1>8. CASE \E e \in Ext : Reserve(e) \/ ReserveEnds(e) \/ HolderDies(e)
  BY <1>8 DEF Reserve, ReserveEnds, HolderDies
<1>9. CASE OperatorRelease \/ ConsentedRelease \/ Clock
  BY <1>9 DEF Clock, OperatorRelease, ConsentedRelease, Lapse, Age, Quiet, Cool
<1> QED
  BY <1>1, <1>2, <1>3, <1>4, <1>5, <1>6, <1>7, <1>8, <1>9 DEF Next, vars

\* The external processes are changed by these steps only.
LEMMA ChangesExt ==
    ASSUME [Next]_vars
    PROVE  \/ UNCHANGED ext
           \/ \E e \in Ext : Reserve(e)
           \/ \E e \in Ext : ReserveEnds(e)
           \/ \E e \in Ext : HolderDies(e)
<1>1. CASE \E j \in Jobs : Submit(j) \/ Leave(j)
  BY <1>1 DEF Submit, Leave
<1>2. CASE Poll \/ ClaimIdleUnload \/ GhostEnds \/ BeginBatches
  BY <1>2 DEF Poll, ClaimIdleUnload, GhostEnds, BeginBatches
<1>3. CASE (\E m \in Models : Prewarm(m)) \/ WarmEnds \/ WarmDone
  BY <1>3 DEF Prewarm, WarmEnds, WarmDone
<1>4. CASE Dispatcher
  BY <1>4 DEF Dispatcher, StartSwitch, Dispatch, SwitchEnds, Switched, UnloadEnds
<1>5. CASE Executor \/ Caller
  BY <1>5 DEF Executor, Caller, Execute, RunEnds, StartHook, Ungate
<1>6. CASE WorkerThread
  BY <1>6 DEF WorkerThread, ReuseSession, AcquireBegins, AcquireEnds, StartRunner, LoadModel,
    LoadEnds, RunBatch, Fallback, BatchEnds, Yield, WorkerStops, Yielded
<1>7. CASE HookThread
  BY <1>7 DEF HookThread, HookBegins, HookStops, HookEnds
<1>8. CASE \E e \in Ext : Reserve(e) \/ ReserveEnds(e) \/ HolderDies(e)
  BY <1>8
<1>9. CASE OperatorRelease \/ ConsentedRelease \/ Clock
  BY <1>9 DEF Clock, OperatorRelease, ConsentedRelease, Lapse, Age, Quiet, Cool
<1> QED
  BY <1>1, <1>2, <1>3, <1>4, <1>5, <1>6, <1>7, <1>8, <1>9 DEF Next, vars

\* A call of unknown outcome is changed by these steps only.
LEMMA ChangesGhost ==
    ASSUME [Next]_vars
    PROVE  \/ UNCHANGED ghost
           \/ SwitchEnds
           \/ WarmEnds
           \/ \E j \in Jobs : RunEnds(j)
           \/ GhostEnds
<1>1. CASE \E j \in Jobs : Submit(j) \/ Leave(j)
  BY <1>1 DEF Submit, Leave
<1>2. CASE Poll \/ ClaimIdleUnload \/ GhostEnds \/ BeginBatches
  BY <1>2 DEF Poll, ClaimIdleUnload, BeginBatches
<1>3. CASE (\E m \in Models : Prewarm(m)) \/ WarmEnds \/ WarmDone
  BY <1>3 DEF Prewarm, WarmDone
<1>4. CASE Dispatcher
  BY <1>4 DEF Dispatcher, StartSwitch, Dispatch, Switched, UnloadEnds
<1>5. CASE Executor \/ Caller
  BY <1>5 DEF Executor, Caller, Execute, StartHook, Ungate
<1>6. CASE WorkerThread
  BY <1>6 DEF WorkerThread, ReuseSession, AcquireBegins, AcquireEnds, StartRunner, LoadModel,
    LoadEnds, RunBatch, Fallback, BatchEnds, Yield, WorkerStops, Yielded
<1>7. CASE HookThread
  BY <1>7 DEF HookThread, HookBegins, HookStops, HookEnds
<1>8. CASE \E e \in Ext : Reserve(e) \/ ReserveEnds(e) \/ HolderDies(e)
  BY <1>8 DEF Reserve, ReserveEnds, HolderDies
<1>9. CASE OperatorRelease \/ ConsentedRelease \/ Clock
  BY <1>9 DEF Clock, OperatorRelease, ConsentedRelease, Lapse, Age, Quiet, Cool
<1> QED
  BY <1>1, <1>2, <1>3, <1>4, <1>5, <1>6, <1>7, <1>8, <1>9 DEF Next, vars

\* The bounds are changed by these steps only.
LEMMA ChangesEnv ==
    ASSUME [Next]_vars
    PROVE  \/ UNCHANGED env
           \/ \E j \in Jobs : Leave(j)
           \/ SwitchEnds
           \/ WarmEnds
           \/ \E j \in Jobs : RunEnds(j)
           \/ BeginBatches
           \/ Fallback
           \/ BatchEnds
           \/ Yield
           \/ WorkerStops
           \/ Yielded
           \/ HookStops
           \/ \E e \in Ext : Reserve(e)
           \/ \E e \in Ext : HolderDies(e)
<1>1. CASE \E j \in Jobs : Submit(j) \/ Leave(j)
  BY <1>1 DEF Submit
<1>2. CASE Poll \/ ClaimIdleUnload \/ GhostEnds \/ BeginBatches
  BY <1>2 DEF Poll, ClaimIdleUnload, GhostEnds
<1>3. CASE (\E m \in Models : Prewarm(m)) \/ WarmEnds \/ WarmDone
  BY <1>3 DEF Prewarm, WarmDone
<1>4. CASE Dispatcher
  BY <1>4 DEF Dispatcher, StartSwitch, Dispatch, Switched, UnloadEnds
<1>5. CASE Executor \/ Caller
  BY <1>5 DEF Executor, Caller, Execute, StartHook, Ungate
<1>6. CASE WorkerThread
  BY <1>6 DEF WorkerThread, ReuseSession, AcquireBegins, AcquireEnds, StartRunner, LoadModel,
    LoadEnds, RunBatch
<1>7. CASE HookThread
  BY <1>7 DEF HookThread, HookBegins, HookEnds
<1>8. CASE \E e \in Ext : Reserve(e) \/ ReserveEnds(e) \/ HolderDies(e)
  BY <1>8 DEF ReserveEnds
<1>9. CASE OperatorRelease \/ ConsentedRelease \/ Clock
  BY <1>9 DEF Clock, OperatorRelease, ConsentedRelease, Lapse, Age, Quiet, Cool
<1> QED
  BY <1>1, <1>2, <1>3, <1>4, <1>5, <1>6, <1>7, <1>8, <1>9 DEF Next, vars

-----------------------------------------------------------------------------
(* Type correctness *)

\* release_background_gpu.
LEMMA ReleaseBackgroundKeeps ==
    ASSUME TypeOK
    PROVE  /\ ReleaseBackground(hub, file).file \in Files
           /\ ReleaseBackground(hub, file).hub \in Hubs
<1>1. [hub EXCEPT !.lease = FALSE] \in Hubs
  BY TypeParts DEF Hubs
<1> QED
  BY <1>1, TypeParts, ReleaseKeeps DEF ReleaseBackground

\* The loop head removed nothing but an unused claim, and then observed f.
AfterHead(f) ==
    /\ f # file => /\ Pending = {} /\ InFlight = {} /\ ~hub.switching
                   /\ ~hub.uncertain /\ ~hub.preparing
                   /\ file.digest = "hub" /\ file.meta = None /\ f = Removed(file)
    /\ LoopHead.file.digest = Reaped(f).digest
    /\ LoopHead.file.meta = Reaped(f).meta
    /\ LoopHead.file.old = Reaped(f).old
    /\ LoopHead.file.lapsed = Reaped(f).lapsed
    /\ hub.uncertain /\ ~Free(Reaped(f)) => LoopHead.hub.uncertain

\* The head of the dispatcher's loop touches no gate; the files may be removed
\* only when nothing is in flight, prepared or of unknown outcome.
LEMMA LoopHeadKeeps ==
    ASSUME TypeOK
    PROVE  /\ LoopHead.hub \in Hubs /\ LoopHead.file \in Files
           /\ SameGates(hub, LoopHead.hub)
           /\ LoopHead.hub.uncertain => hub.uncertain
           /\ \E f \in Files : AfterHead(f)
<1> DEFINE unused == Pending = {} /\ InFlight = {} /\ ~hub.switching /\ ~hub.lease
           r == IF unused THEN ReleaseInternal(hub, file) ELSE [hub |-> hub, file |-> file]
<1>1. hub \in Hubs /\ file \in Files
  BY TypeParts
<1>2. SameGates(hub, hub)
  BY DEF SameGates
<1>3. /\ r.hub \in Hubs /\ r.file \in Files
      /\ SameGates(hub, r.hub) /\ r.hub.uncertain = hub.uncertain
      /\ r.file # file => /\ Pending = {} /\ InFlight = {} /\ ~hub.switching
                          /\ ~hub.uncertain /\ ~hub.preparing
                          /\ file.meta = None /\ file.digest = "hub"
                          /\ r.file = Removed(file)
  BY <1>1, <1>2, ReleaseKeeps
<1>4. LoopHead = Observe(r.hub, r.file)
  BY DEF LoopHead
<1> HIDE DEF r
<1>5. SameGates(hub, LoopHead.hub)
  BY <1>3, <1>4, ObserveKeeps DEF SameGates
<1>6. AfterHead(r.file)
  BY <1>3, <1>4, ObserveKeeps DEF AfterHead
<1> QED
  BY <1>3, <1>4, <1>5, <1>6, ObserveKeeps

\* Every step keeps the type of `file`.
LEMMA TypeFile ==
    ASSUME TypeOK, [Next]_vars
    PROVE  file' \in Files
<1> USE TypeParts
<1>a. Observed.hub \in Hubs /\ Observed.file \in Files
  BY ObserveKeeps DEF Observed
<1>b. LoopHead.hub \in Hubs /\ LoopHead.file \in Files
  BY LoopHeadKeeps
<1>c. ReleaseBackground(hub, file).file \in Files
  BY ReleaseBackgroundKeeps
<1>d. SchedulerAssumption
  BY SchedulerAssumption
<1>e. [File(None, None) EXCEPT !.marker = TRUE] \in Files
  BY DEF Files, File
<1>0. CASE UNCHANGED file
  BY <1>0
<1>1. ASSUME NEW j \in Jobs, Submit(j) PROVE file' \in Files
  BY <1>1, <1>a DEF Submit
<1>2. CASE Poll
  BY <1>2, <1>b, ClaimKeeps DEF Poll
<1>3. ASSUME NEW m \in Models, StartSwitch(m) PROVE file' \in Files
  BY <1>3, <1>b, ClaimKeeps DEF StartSwitch
<1>4. ASSUME NEW j \in Jobs, Dispatch(j) PROVE file' \in Files
  BY <1>4, <1>b, ClaimKeeps DEF Dispatch
<1>5. CASE ClaimIdleUnload
  BY <1>5, <1>b, ClaimKeeps DEF ClaimIdleUnload
<1>6. CASE UnloadEnds
  <2> DEFINE h == [hub EXCEPT !.active = None, !.switching = FALSE]
  <2>1. h \in Hubs
    BY DEF Hubs
  <2> QED
    BY <1>6, <2>1, ReleaseKeeps DEF UnloadEnds
<1>7. ASSUME NEW m \in Models, Prewarm(m) PROVE file' \in Files
  BY <1>7, <1>a, ClaimKeeps DEF Prewarm
<1>8. CASE WarmDone
  <2> DEFINE h == [hub EXCEPT !.preparing = FALSE, !.uncertain = hub.uncertain \/ warm.pc = "cold"]
  <2>1. h \in Hubs
    BY DEF Hubs
  <2> HIDE DEF h
  <2>2. ReleaseInternal(h, file).file \in Files
    BY <2>1, ReleaseKeeps
  <2>3. file' \in {file, ReleaseInternal(h, file).file}
    BY <1>8 DEF WarmDone, h
  <2> QED
    BY <2>2, <2>3
<1>9. CASE WorkerStops
  BY <1>9, <1>c DEF WorkerStops, StopConfirmed, StopUnconfirmed
<1>10. CASE HookStops
  BY <1>10, <1>c DEF HookStops, StopConfirmed, StopUnconfirmed
<1>11. CASE BeginBatches
  BY <1>11, <1>a DEF BeginBatches
<1>12. CASE ReuseSession
  BY <1>12, <1>a DEF ReuseSession
<1>13. CASE AcquireBegins
  BY <1>13, <1>a, ClaimKeeps DEF AcquireBegins
<1>14. CASE AcquireEnds
  <2> DEFINE h == [Observed.hub EXCEPT !.switching = FALSE]
  <2>1. h \in Hubs
    BY <1>a DEF Hubs
  <2> QED
    BY <1>14, <1>a, <2>1, ReleaseKeeps DEF AcquireEnds
<1>15. CASE StartRunner
  BY <1>15, <1>c DEF StartRunner
<1>16. CASE LoadModel
  BY <1>16, <1>a DEF LoadModel
<1>17. CASE LoadEnds
  BY <1>17, <1>a DEF LoadEnds
<1>18. CASE RunBatch
  BY <1>18, <1>a DEF RunBatch
<1>19. CASE BatchEnds
  BY <1>19, <1>a DEF BatchEnds
<1>20. ASSUME NEW e \in Ext, Reserve(e) PROVE file' \in Files
  BY <1>20, <1>d DEF Reserve, Files, File, Holders
<1>21. ASSUME NEW e \in Ext, ReserveEnds(e) PROVE file' \in Files
  BY <1>21, RemovedFile DEF ReserveEnds
<1>22. ASSUME NEW e \in Ext, HolderDies(e) PROVE file' \in Files
  <2>1. CASE UNCHANGED file
    BY <2>1
  <2>2. CASE ~UNCHANGED file
    <3>1. PICK d \in {"dead", None} : file' = [file EXCEPT !.digest = d, !.meta = "dead"]
      BY <1>22, <2>2 DEF HolderDies
    <3> QED
      BY <3>1 DEF Files, Holders
  <2> QED
    BY <2>1, <2>2
<1>23. CASE OperatorRelease
  BY <1>23, <1>e, ObserveKeeps DEF OperatorRelease
<1>24. CASE ConsentedRelease
  BY <1>24, RemovedFile DEF ConsentedRelease
<1>25. CASE Lapse
  BY <1>25 DEF Lapse, Files
<1>26. CASE Age
  BY <1>26 DEF Age, Files
<1> QED
  BY <1>0, <1>1, <1>2, <1>3, <1>4, <1>5, <1>6, <1>7, <1>8, <1>9, <1>10, <1>11, <1>12, <1>13,
    <1>14, <1>15, <1>16, <1>17, <1>18, <1>19, <1>20, <1>21, <1>22, <1>23, <1>24, <1>25, <1>26,
    ChangesFile

\* Every step keeps the type of `hub`.
LEMMA TypeHub ==
    ASSUME TypeOK, [Next]_vars
    PROVE  hub' \in Hubs
<1> USE TypeParts
<1>a. Observed.hub \in Hubs /\ Observed.file \in Files
  BY ObserveKeeps DEF Observed
<1>b. LoopHead.hub \in Hubs /\ LoopHead.file \in Files
  BY LoopHeadKeeps
<1>c. ReleaseBackground(hub, file).hub \in Hubs
  BY ReleaseBackgroundKeeps
<1>d. ClaimedHub(LoopHead) \in Hubs /\ ClaimedHub(Observed) \in Hubs
  BY <1>a, <1>b, ClaimKeeps
<1>e. [File(None, None) EXCEPT !.marker = TRUE] \in Files
  BY DEF Files, File
<1>0. CASE UNCHANGED hub
  BY <1>0
<1>1. ASSUME NEW j \in Jobs, Submit(j) PROVE hub' \in Hubs
  <2> DEFINE o == Observed
             hooked == Worker /\ ~o.hub.preempting
             acc == [o.hub EXCEPT !.quiet = 0, !.preempting = o.hub.preempting \/ hooked,
                                  !.lease = o.hub.lease \/ hooked]
  <2>1. hub' \in {o.hub, acc}
    BY <1>1 DEF Submit
  <2>2. \A h \in Hubs : \A p, q \in BOOLEAN :
          [h EXCEPT !.quiet = 0, !.preempting = p, !.lease = q] \in Hubs
    <3> TAKE h \in Hubs
    <3> TAKE p, q \in BOOLEAN
    <3>1. [h EXCEPT !.quiet = 0] \in Hubs
      BY DEF Hubs
    <3>2. [h EXCEPT !.quiet = 0, !.preempting = p] \in Hubs
      BY <3>1 DEF Hubs
    <3> QED
      BY <3>2 DEF Hubs
  <2>3. acc \in Hubs
    BY <1>a, <2>2
  <2> QED
    BY <1>a, <2>1, <2>3
<1>2. CASE Poll
  BY <1>2, <1>b, <1>d DEF Poll
<1>3. ASSUME NEW m \in Models, StartSwitch(m) PROVE hub' \in Hubs
  BY <1>3, <1>d DEF StartSwitch, Hubs
<1>4. ASSUME NEW j \in Jobs, Dispatch(j) PROVE hub' \in Hubs
  BY <1>4, <1>d DEF Dispatch, Hubs
<1>5. CASE ClaimIdleUnload
  BY <1>5, <1>d DEF ClaimIdleUnload, Hubs
<1>6. CASE UnloadEnds
  <2> DEFINE h == [hub EXCEPT !.active = None, !.switching = FALSE]
  <2>1. h \in Hubs
    BY DEF Hubs
  <2> QED
    BY <1>6, <2>1, ReleaseKeeps DEF UnloadEnds
<1>7. ASSUME NEW m \in Models, Prewarm(m) PROVE hub' \in Hubs
  BY <1>7, <1>d DEF Prewarm, Hubs
<1>8. CASE WarmDone
  <2> DEFINE h == [hub EXCEPT !.preparing = FALSE,
                              !.uncertain = hub.uncertain \/ warm.pc = "cold"]
  <2>1. h \in Hubs
    BY DEF Hubs
  <2> HIDE DEF h
  <2>2. ReleaseInternal(h, file).hub \in Hubs
    BY <2>1, ReleaseKeeps
  <2>3. hub' \in {h, ReleaseInternal(h, file).hub}
    BY <1>8 DEF WarmDone, h
  <2> QED
    BY <2>1, <2>2, <2>3
<1>9. CASE WorkerStops
  BY <1>9, <1>c DEF WorkerStops, StopConfirmed, StopUnconfirmed
<1>10. CASE HookStops
  BY <1>10, <1>c DEF HookStops, StopConfirmed, StopUnconfirmed
<1>11. CASE BeginBatches
  BY <1>11, <1>a DEF BeginBatches
<1>12. CASE ReuseSession
  BY <1>12, <1>a DEF ReuseSession
<1>13. CASE AcquireBegins
  <2>1. hub' \in {Observed.hub, [ClaimedHub(Observed) EXCEPT !.switching = TRUE]}
    BY <1>13 DEF AcquireBegins
  <2> QED
    BY <2>1, <1>a, <1>d DEF Hubs
<1>14. CASE AcquireEnds
  <2> DEFINE h == [Observed.hub EXCEPT !.switching = FALSE]
             g == [Observed.hub EXCEPT !.switching = FALSE, !.lease = TRUE, !.active = None]
  <2>1. h \in Hubs /\ g \in Hubs
    BY <1>a DEF Hubs
  <2>2. hub' \in {g, ReleaseInternal(h, Observed.file).hub}
    BY <1>14 DEF AcquireEnds
  <2> HIDE DEF h, g
  <2> QED
    BY <1>a, <2>1, <2>2, ReleaseKeeps
<1>15. CASE StartRunner
  BY <1>15, <1>c DEF StartRunner
<1>16. CASE LoadModel
  BY <1>16, <1>a DEF LoadModel
<1>17. CASE LoadEnds
  BY <1>17, <1>a DEF LoadEnds
<1>18. CASE RunBatch
  BY <1>18, <1>a DEF RunBatch
<1>19. CASE BatchEnds
  BY <1>19, <1>a DEF BatchEnds
<1>20. CASE OperatorRelease
  BY <1>20, <1>e, ObserveKeeps DEF OperatorRelease
<1>21. ASSUME NEW j \in Jobs, Ungate(j) PROVE hub' \in Hubs
  BY <1>21 DEF Ungate, Hubs
<1>22. CASE SwitchEnds
  BY <1>22 DEF SwitchEnds, Hubs, Dispatchers, Prepared, PrepareFails
<1>23. CASE Switched
  BY <1>23 DEF Switched, Hubs
<1>24. ASSUME NEW j \in Jobs, RunEnds(j) PROVE hub' \in Hubs
  <2>1. Touched(hub, j) \in Hubs
    BY DEF Hubs, Touched
  <2>2. \E a \in {hub.active, None} : hub' \in {[Touched(hub, j) EXCEPT !.active = a],
                                              [Touched(hub, j) EXCEPT !.uncertain = TRUE]}
    BY <1>24 DEF RunEnds
  <2> QED
    BY <2>1, <2>2 DEF Hubs
<1>25. CASE WarmEnds
  <2>1. hub' \in {[hub EXCEPT !.switching = FALSE, !.active = warm.target, !.fresh = TRUE],
                 [hub EXCEPT !.switching = FALSE, !.active = None],
                 [hub EXCEPT !.switching = FALSE, !.active = None, !.uncertain = TRUE], hub}
    BY <1>25 DEF WarmEnds, Prepared, PrepareFails
  <2> QED
    BY <2>1, ZenonT(60) DEF Hubs, Warmers
<1>26. CASE HookEnds
  BY <1>26 DEF HookEnds, Hubs
<1>27. CASE Quiet
  BY <1>27 DEF Quiet, Hubs
<1>28. CASE Cool
  BY <1>28 DEF Cool, Hubs
<1> QED
  BY <1>0, <1>1, <1>2, <1>3, <1>4, <1>5, <1>6, <1>7, <1>8, <1>9, <1>10, <1>11, <1>12, <1>13,
    <1>14, <1>15, <1>16, <1>17, <1>18, <1>19, <1>20, <1>21, <1>22, <1>23, <1>24, <1>25, <1>26,
    <1>27, <1>28, ChangesHub

\* Every step keeps the type of `job`.
LEMMA TypeJob ==
    ASSUME TypeOK, [Next]_vars
    PROVE  job' \in [Jobs -> Requests]
<1> USE TypeParts
<1>0. CASE UNCHANGED job
  BY <1>0
<1>1. ASSUME NEW j \in Jobs, Submit(j) PROVE job' \in [Jobs -> Requests]
  BY <1>1 DEF Submit, Requests
<1>2. ASSUME NEW j \in Jobs, StartHook(j) PROVE job' \in [Jobs -> Requests]
  BY <1>2 DEF StartHook, Requests
<1>3. ASSUME NEW j \in Jobs, Ungate(j) PROVE job' \in [Jobs -> Requests]
  BY <1>3 DEF Ungate, Requests
<1>4. ASSUME NEW j \in Jobs, Leave(j) PROVE job' \in [Jobs -> Requests]
  BY <1>4, ZenonT(60) DEF Leave, Requests
<1>5. ASSUME NEW j \in Jobs, Dispatch(j) PROVE job' \in [Jobs -> Requests]
  BY <1>5 DEF Dispatch, Requests
<1>6. CASE SwitchEnds
  BY <1>6 DEF SwitchEnds, Requests, Prepared, PrepareFails, Failed
<1>7. CASE WarmEnds
  BY <1>7 DEF WarmEnds, Requests, Prepared, PrepareFails, Failed
<1>8. ASSUME NEW j \in Jobs, Execute(j) PROVE job' \in [Jobs -> Requests]
  BY <1>8 DEF Execute, Requests
<1>9. ASSUME NEW j \in Jobs, RunEnds(j) PROVE job' \in [Jobs -> Requests]
  BY <1>9 DEF RunEnds, Requests
<1> QED
  BY <1>0, <1>1, <1>2, <1>3, <1>4, <1>5, <1>6, <1>7, <1>8, <1>9, ChangesJob

\* Every step keeps the type of `disp`.
LEMMA TypeDisp ==
    ASSUME TypeOK, [Next]_vars
    PROVE  disp' \in Dispatchers
<1> USE TypeParts
<1>0. CASE UNCHANGED disp
  BY <1>0
<1>1. ASSUME NEW m \in Models, StartSwitch(m) PROVE disp' \in Dispatchers
  BY <1>1 DEF StartSwitch, Dispatchers
<1>2. CASE SwitchEnds
  BY <1>2 DEF SwitchEnds, Dispatchers
<1>3. CASE Switched
  BY <1>3 DEF Switched, Dispatchers
<1>4. CASE ClaimIdleUnload
  BY <1>4 DEF ClaimIdleUnload, Dispatchers
<1>5. CASE UnloadEnds
  BY <1>5 DEF UnloadEnds, Dispatchers
<1> QED
  BY <1>0, <1>1, <1>2, <1>3, <1>4, <1>5, ChangesDisp

\* Every step keeps the type of `warm`.
LEMMA TypeWarm ==
    ASSUME TypeOK, [Next]_vars
    PROVE  warm' \in Warmers
<1> USE TypeParts
<1>0. CASE UNCHANGED warm
  BY <1>0
<1>1. ASSUME NEW m \in Models, Prewarm(m) PROVE warm' \in Warmers
  BY <1>1 DEF Prewarm, Warmers
<1>2. CASE WarmEnds
  BY <1>2 DEF WarmEnds, Warmers
<1>3. CASE WarmDone
  BY <1>3 DEF WarmDone, Warmers
<1> QED
  BY <1>0, <1>1, <1>2, <1>3, ChangesWarm

\* Every step keeps the type of `hook`.
LEMMA TypeHook ==
    ASSUME TypeOK, [Next]_vars
    PROVE  hook' \in Hooks
<1> USE TypeParts
<1>0. CASE UNCHANGED hook
  BY <1>0
<1>1. ASSUME NEW j \in Jobs, StartHook(j) PROVE hook' \in Hooks
  BY <1>1 DEF StartHook, Hooks
<1>2. CASE HookBegins
  BY <1>2 DEF HookBegins, Hooks
<1>3. CASE HookStops
  BY <1>3 DEF HookStops, Hooks
<1>4. CASE HookEnds
  BY <1>4 DEF HookEnds, Hooks
<1> QED
  BY <1>0, <1>1, <1>2, <1>3, <1>4, ChangesHook

\* Every step keeps the type of `bg`.
LEMMA TypeBg ==
    ASSUME TypeOK, [Next]_vars
    PROVE  bg' \in Workers
<1> USE TypeParts
<1>0. CASE UNCHANGED bg
  BY <1>0
<1>1. CASE BeginBatches
  BY <1>1 DEF BeginBatches, Workers
<1>2. CASE ReuseSession
  BY <1>2 DEF ReuseSession, Workers
<1>3. CASE AcquireBegins
  BY <1>3 DEF AcquireBegins, Workers
<1>4. CASE AcquireEnds
  BY <1>4 DEF AcquireEnds, Workers
<1>5. CASE StartRunner
  BY <1>5 DEF StartRunner, Workers
<1>6. CASE LoadModel
  BY <1>6 DEF LoadModel, Workers
<1>7. CASE LoadEnds
  BY <1>7 DEF LoadEnds, Workers
<1>8. CASE RunBatch
  BY <1>8 DEF RunBatch, Workers
<1>9. CASE Fallback
  BY <1>9 DEF Fallback, Workers, Onward
<1>10. CASE BatchEnds
  BY <1>10, ZenonT(60) DEF BatchEnds, Workers, Onward
<1>11. CASE Yield
  <2>1. bg' \in {[bg EXCEPT !.pc = "yielding", !.lock = "worker"], [bg EXCEPT !.pc = "out"],
                [bg EXCEPT !.pc = "batch"]}
    BY <1>11 DEF Yield, Onward
  <2> QED
    BY <2>1 DEF Workers
<1>12. CASE WorkerStops
  BY <1>12 DEF WorkerStops, Workers, StopConfirmed, StopUnconfirmed
<1>13. CASE Yielded
  BY <1>13 DEF Yielded, Workers, Onward
<1>14. CASE HookBegins
  BY <1>14 DEF HookBegins, Workers
<1>15. CASE HookStops
  BY <1>15 DEF HookStops, Workers, StopConfirmed, StopUnconfirmed
<1> QED
  BY <1>0, <1>1, <1>2, <1>3, <1>4, <1>5, <1>6, <1>7, <1>8, <1>9, <1>10, <1>11, <1>12, <1>13,
    <1>14, <1>15, ChangesBg

\* Every step keeps the type of `runner`.
LEMMA TypeRunner ==
    ASSUME TypeOK, [Next]_vars
    PROVE  runner' \in {"off", "up", "loaded"}
<1> USE TypeParts
<1>0. CASE UNCHANGED runner
  BY <1>0
<1>1. CASE StartRunner
  BY <1>1 DEF StartRunner
<1>2. CASE LoadModel
  BY <1>2 DEF LoadModel
<1>3. CASE WorkerStops
  BY <1>3 DEF WorkerStops, StopConfirmed, StopUnconfirmed
<1>4. CASE HookStops
  BY <1>4 DEF HookStops, StopConfirmed, StopUnconfirmed
<1> QED
  BY <1>0, <1>1, <1>2, <1>3, <1>4, ChangesRunner

\* Every step keeps the type of `ext`.
LEMMA TypeExt ==
    ASSUME TypeOK, [Next]_vars
    PROVE  ext' \in [Ext -> {"out", "busy"}]
<1> USE TypeParts
<1>0. CASE UNCHANGED ext
  BY <1>0
<1>1. ASSUME NEW e \in Ext, Reserve(e) PROVE ext' \in [Ext -> {"out", "busy"}]
  BY <1>1 DEF Reserve
<1>2. ASSUME NEW e \in Ext, ReserveEnds(e) PROVE ext' \in [Ext -> {"out", "busy"}]
  BY <1>2 DEF ReserveEnds
<1>3. ASSUME NEW e \in Ext, HolderDies(e) PROVE ext' \in [Ext -> {"out", "busy"}]
  BY <1>3 DEF HolderDies
<1> QED
  BY <1>0, <1>1, <1>2, <1>3, ChangesExt

\* Every step keeps the type of `ghost`.
LEMMA TypeGhost ==
    ASSUME TypeOK, [Next]_vars
    PROVE  ghost' \in BOOLEAN
<1> USE TypeParts
<1>0. CASE UNCHANGED ghost
  BY <1>0
<1>1. CASE SwitchEnds
  BY <1>1 DEF SwitchEnds, Prepared, PrepareFails
<1>2. CASE WarmEnds
  BY <1>2 DEF WarmEnds, Prepared, PrepareFails
<1>3. ASSUME NEW j \in Jobs, RunEnds(j) PROVE ghost' \in BOOLEAN
  BY <1>3 DEF RunEnds
<1>4. CASE GhostEnds
  BY <1>4 DEF GhostEnds
<1> QED
  BY <1>0, <1>1, <1>2, <1>3, <1>4, ChangesGhost

\* Every step keeps the type of `env`.
LEMMA TypeEnv ==
    ASSUME TypeOK, [Next]_vars
    PROVE  env' \in Budgets
<1> USE TypeParts
<1>a. MaxFaults \in Nat /\ MaxLeaves \in Nat /\ MaxReserves \in Nat /\ MaxBatches \in Nat
  BY SchedulerAssumption
<1>0. CASE UNCHANGED env
  BY <1>0
<1>1. ASSUME NEW j \in Jobs, Leave(j) PROVE env' \in Budgets
  BY <1>1, <1>a DEF Leave, Budgets
<1>2. CASE SwitchEnds
  BY <1>2, <1>a DEF SwitchEnds, Budgets, Prepared, PrepareFails
<1>3. CASE WarmEnds
  BY <1>3, <1>a DEF WarmEnds, Budgets, Prepared, PrepareFails
<1>4. ASSUME NEW j \in Jobs, RunEnds(j) PROVE env' \in Budgets
  BY <1>4, <1>a DEF RunEnds, Budgets
<1>5. CASE BeginBatches
  BY <1>5, <1>a DEF BeginBatches, Budgets
<1>6. CASE Fallback
  BY <1>6, <1>a DEF Fallback, Budgets, Onward
<1>7. CASE BatchEnds
  BY <1>7, <1>a DEF BatchEnds, Budgets, Onward
<1>8. CASE Yield
  BY <1>8, <1>a DEF Yield, Budgets, Onward
<1>9. CASE WorkerStops
  BY <1>9, <1>a DEF WorkerStops, Budgets, StopConfirmed, StopUnconfirmed
<1>10. CASE Yielded
  BY <1>10, <1>a DEF Yielded, Budgets, Onward
<1>11. CASE HookStops
  BY <1>11, <1>a DEF HookStops, Budgets, StopConfirmed, StopUnconfirmed
<1>12. ASSUME NEW e \in Ext, Reserve(e) PROVE env' \in Budgets
  BY <1>12, <1>a DEF Reserve, Budgets
<1>13. ASSUME NEW e \in Ext, HolderDies(e) PROVE env' \in Budgets
  BY <1>13, <1>a DEF HolderDies, Budgets
<1> QED
  BY <1>0, <1>1, <1>2, <1>3, <1>4, <1>5, <1>6, <1>7, <1>8, <1>9, <1>10, <1>11, <1>12, <1>13,
    ChangesEnv


\* The initial state is well typed.
LEMMA TypeInit == Init => TypeOK
<1> SUFFICES ASSUME Init PROVE TypeOK
  OBVIOUS
<1>1. file \in Files
  BY LeftoversAssumption DEF Init
<1>2. hub \in Hubs
  BY DEF Init, Hubs
<1>3. job \in [Jobs -> Requests] /\ ext \in [Ext -> {"out", "busy"}]
  BY DEF Init, Requests
<1>4. disp \in Dispatchers /\ warm \in Warmers /\ hook \in Hooks /\ bg \in Workers
  BY DEF Init, Dispatchers, Warmers, Hooks, Workers
<1>5. env \in Budgets
  BY SchedulerAssumption DEF Init, Budgets
<1> QED
  BY <1>1, <1>2, <1>3, <1>4, <1>5, TypeParts DEF Init

\* No step of any thread, clock or process leaves the types.
LEMMA TypeStep == TypeOK /\ [Next]_vars => TypeOK'
<1> SUFFICES ASSUME TypeOK, [Next]_vars PROVE TypeOK'
  OBVIOUS
<1>1. /\ file' \in Files /\ hub' \in Hubs
      /\ job' \in [Jobs -> Requests]
      /\ disp' \in Dispatchers /\ warm' \in Warmers
      /\ hook' \in Hooks /\ bg' \in Workers
      /\ runner' \in {"off", "up", "loaded"}
      /\ ext' \in [Ext -> {"out", "busy"}]
      /\ ghost' \in BOOLEAN /\ env' \in Budgets
  BY TypeFile, TypeHub, TypeJob, TypeDisp, TypeWarm, TypeHook, TypeBg, TypeRunner, TypeExt,
     TypeGhost, TypeEnv
<1> QED
  BY <1>1, Zenon DEF TypeOK, Hubs, Requests, Dispatchers, Warmers, Hooks, Workers, Budgets

\* Files, flags, requests and threads of the scheduler, the idle worker and the
\* external processes only take the values the code gives them, in every setting.
THEOREM TypeCorrect == Spec => []TypeOK
<1>1. Init => TypeOK
  BY TypeInit
<1>2. TypeOK /\ [Next]_vars => TypeOK'
  BY TypeStep
<1> QED
  BY <1>1, <1>2, PTL DEF Spec

-----------------------------------------------------------------------------
(* A hub without the idle worker *)

\* What can still happen then.
HubNext ==
    \/ \E j \in Jobs : Submit(j)
    \/ \E j \in Jobs : Leave(j)
    \/ \E j \in Jobs : Ungate(j)
    \/ Poll
    \/ \E m \in Models : StartSwitch(m)
    \/ \E j \in Jobs : Dispatch(j)
    \/ SwitchEnds
    \/ Switched
    \/ ClaimIdleUnload
    \/ UnloadEnds
    \/ \E j \in Jobs : Execute(j)
    \/ \E j \in Jobs : RunEnds(j)
    \/ GhostEnds
    \/ \E m \in Models : Prewarm(m)
    \/ WarmEnds
    \/ WarmDone
    \/ \E e \in Ext : Reserve(e)
    \/ \E e \in Ext : ReserveEnds(e)
    \/ \E e \in Ext : HolderDies(e)
    \/ OperatorRelease
    \/ ConsentedRelease
    \/ Lapse
    \/ Age
    \/ Quiet
    \/ Cool

\* Without the worker nobody calls generate_many, and no hook thread starts.
LEMMA WorkerOffNext ==
    ASSUME ~Worker, WorkerOff, [Next]_vars
    PROVE  HubNext \/ UNCHANGED vars
<1>1. CASE \E j \in Jobs : Submit(j) \/ Leave(j)
  BY <1>1 DEF HubNext
<1>2. CASE Poll \/ ClaimIdleUnload \/ GhostEnds \/ BeginBatches
  BY <1>2 DEF HubNext, WorkerOff, BeginBatches
<1>3. CASE (\E m \in Models : Prewarm(m)) \/ WarmEnds \/ WarmDone
  BY <1>3 DEF HubNext
<1>4. CASE Dispatcher
  BY <1>4 DEF Dispatcher, HubNext
<1>5. CASE Executor \/ Caller
  BY <1>5 DEF Executor, Caller, HubNext, WorkerOff, StartHook
<1>6. CASE WorkerThread
  BY <1>6 DEF WorkerThread, HubNext, WorkerOff, ReuseSession, AcquireBegins, AcquireEnds,
    StartRunner, LoadModel, LoadEnds, RunBatch, Fallback, BatchEnds, Yield, WorkerStops,
    Yielded
<1>7. CASE HookThread
  BY <1>7 DEF HookThread, HubNext, WorkerOff, HookBegins, HookStops, HookEnds
<1>8. CASE \E e \in Ext : Reserve(e) \/ ReserveEnds(e) \/ HolderDies(e)
  BY <1>8 DEF HubNext
<1>9. CASE OperatorRelease \/ ConsentedRelease \/ Clock
  BY <1>9 DEF Clock, HubNext
<1> QED
  BY <1>1, <1>2, <1>3, <1>4, <1>5, <1>6, <1>7, <1>8, <1>9 DEF Next


\* What the sections of the scheduler do to the gates, one fact per section.
LEMMA SectionGates ==
    ASSUME TypeOK
    PROVE  /\ SameGates(hub, Observed.hub) /\ SameGates(hub, ClaimedHub(Observed))
           /\ SameGates(hub, LoopHead.hub) /\ SameGates(hub, ClaimedHub(LoopHead))
           /\ {Observed.hub, ClaimedHub(Observed), LoopHead.hub, ClaimedHub(LoopHead)}
                \subseteq Hubs
<1>1. hub \in Hubs /\ file \in Files
  BY TypeParts
<1>2. Observed.hub \in Hubs /\ Observed.file \in Files /\ SameGates(hub, Observed.hub)
  BY <1>1, ObserveKeeps DEF Observed
<1>3. LoopHead.hub \in Hubs /\ LoopHead.file \in Files /\ SameGates(hub, LoopHead.hub)
  BY LoopHeadKeeps
<1>4. \A o : o.hub \in Hubs /\ o.file \in Files =>
               ClaimedHub(o) \in Hubs /\ SameGates(o.hub, ClaimedHub(o))
  BY ClaimKeeps
<1> QED
  BY <1>2, <1>3, <1>4 DEF SameGates

\* The flags after a step: who sets and who clears them.
Flags(s, p, a) ==
    /\ hub'.switching = s /\ hub'.preparing = p /\ hub'.active = a
    /\ hub'.lease = hub.lease /\ hub'.preempting = hub.preempting

\* The sections that observe the files: which flags they set.
LEMMA Gates ==
    ASSUME TypeOK, ~Worker
    PROVE  /\ Poll \/ OperatorRelease \/ (\E j \in Jobs : Submit(j))
                => Flags(hub.switching, hub.preparing, hub.active)
           /\ \A m : StartSwitch(m) => Flags(TRUE, TRUE, hub.active)
           /\ \A j : Dispatch(j) => Flags(hub.switching, hub.preparing, hub.active)
           /\ ClaimIdleUnload => Flags(TRUE, hub.preparing, hub.active)
           /\ UnloadEnds => Flags(FALSE, hub.preparing, None)
           /\ \A m : Prewarm(m) => Flags(TRUE, TRUE, hub.active)
           /\ WarmDone => Flags(hub.switching, FALSE, hub.active)
<1> USE SectionGates, TypeParts
<1>1. ASSUME NEW j \in Jobs, Submit(j) PROVE Flags(hub.switching, hub.preparing, hub.active)
  <2> DEFINE acc == [Observed.hub EXCEPT !.quiet = 0, !.preempting = Observed.hub.preempting,
                                         !.lease = Observed.hub.lease]
  <2>1. hub' \in {Observed.hub, acc}
    <3>1. Observed.hub.preempting \in BOOLEAN /\ Observed.hub.lease \in BOOLEAN
      BY DEF Hubs
    <3> QED
      BY <1>1, <3>1 DEF Submit
  <2>2. acc.switching = Observed.hub.switching /\ acc.preparing = Observed.hub.preparing
        /\ acc.active = Observed.hub.active /\ acc.lease = Observed.hub.lease
        /\ acc.preempting = Observed.hub.preempting
    BY DEF Hubs
  <2> QED
    BY <2>1, <2>2 DEF Flags, SameGates
<1>2. Poll => Flags(hub.switching, hub.preparing, hub.active)
  BY DEF Poll, Flags, SameGates
<1>3. OperatorRelease => Flags(hub.switching, hub.preparing, hub.active)
  <2>1. [File(None, None) EXCEPT !.marker = TRUE] \in Files
    BY DEF Files, File
  <2> QED
    BY <2>1, ObserveKeeps DEF OperatorRelease, Flags, SameGates
<1>4. ASSUME NEW m, StartSwitch(m) PROVE Flags(TRUE, TRUE, hub.active)
  BY <1>4 DEF StartSwitch, Flags, SameGates, Hubs
<1>5. ASSUME NEW j, Dispatch(j) PROVE Flags(hub.switching, hub.preparing, hub.active)
  BY <1>5 DEF Dispatch, Flags, SameGates, Hubs
<1>6. ClaimIdleUnload => Flags(TRUE, hub.preparing, hub.active)
  BY DEF ClaimIdleUnload, Flags, SameGates, Hubs
<1>7. ASSUME UnloadEnds PROVE Flags(FALSE, hub.preparing, None)
  <2> DEFINE h == [hub EXCEPT !.active = None, !.switching = FALSE]
  <2>1. h \in Hubs /\ h.switching = FALSE /\ h.active = None /\ h.preparing = hub.preparing
        /\ h.lease = hub.lease /\ h.preempting = hub.preempting
    BY DEF Hubs
  <2>2. hub' \in {h, ReleaseInternal(h, file).hub}
    BY <1>7 DEF UnloadEnds
  <2> HIDE DEF h
  <2> QED
    BY <2>1, <2>2, ReleaseKeeps DEF Flags, SameGates
<1>8. ASSUME NEW m, Prewarm(m) PROVE Flags(TRUE, TRUE, hub.active)
  BY <1>8 DEF Prewarm, Flags, SameGates, Hubs
<1>9. ASSUME WarmDone PROVE Flags(hub.switching, FALSE, hub.active)
  <2> DEFINE h == [hub EXCEPT !.preparing = FALSE,
                              !.uncertain = hub.uncertain \/ warm.pc = "cold"]
  <2>1. h \in Hubs /\ h.switching = hub.switching /\ h.active = hub.active
        /\ h.preparing = FALSE /\ h.lease = hub.lease /\ h.preempting = hub.preempting
    BY ZenonT(60) DEF Hubs
  <2>2. hub' \in {h, ReleaseInternal(h, file).hub}
    BY <1>9 DEF WarmDone
  <2> HIDE DEF h
  <2> QED
    BY <2>1, <2>2, ReleaseKeeps DEF Flags, SameGates
<1> QED
  BY <1>1, <1>2, <1>3, <1>4, <1>5, <1>6, <1>7, <1>8, <1>9

\* The ends of operations, and the clocks.
LEMMA GatesOfEnds ==
    ASSUME TypeOK, WorkerOff
    PROVE  /\ SwitchEnds => \E a : Flags(FALSE, hub.preparing, a)
           /\ Switched => Flags(hub.switching, FALSE, hub.active)
           /\ \A j : RunEnds(j) => \E a \in {hub.active, None} :
                                      Flags(hub.switching, hub.preparing, a)
           /\ WarmEnds => \E s, a : Flags(s, hub.preparing, a)
           /\ \A j : Ungate(j) => Flags(hub.switching, hub.preparing, hub.active)
           /\ Quiet \/ Cool => Flags(hub.switching, hub.preparing, hub.active)
<1> USE TypeParts
<1>1. SwitchEnds => \E a : Flags(FALSE, hub.preparing, a)
  BY DEF SwitchEnds, Prepared, PrepareFails, Flags, Hubs
<1>2. Switched => Flags(hub.switching, FALSE, hub.active)
  BY DEF Switched, Flags, Hubs
<1>3. ASSUME NEW j, RunEnds(j)
      PROVE  \E a \in {hub.active, None} : Flags(hub.switching, hub.preparing, a)
  <2>1. Touched(hub, j) \in Hubs /\ SameGates([hub EXCEPT !.quiet = Touched(hub, j).quiet],
                                              Touched(hub, j))
    BY DEF Hubs, Touched, SameGates
  <2>2. \E a \in {hub.active, None} : hub' \in {[Touched(hub, j) EXCEPT !.active = a],
                                              [Touched(hub, j) EXCEPT !.uncertain = TRUE]}
    BY <1>3 DEF RunEnds
  <2> QED
    BY <2>1, <2>2 DEF Hubs, Flags, SameGates
<1>4. WarmEnds => \E s, a : Flags(s, hub.preparing, a)
  BY DEF WarmEnds, Prepared, PrepareFails, Flags, Hubs
<1>5. ASSUME NEW j, Ungate(j) PROVE Flags(hub.switching, hub.preparing, hub.active)
  BY <1>5 DEF Ungate, Flags, Hubs, WorkerOff
<1>6. Quiet \/ Cool => Flags(hub.switching, hub.preparing, hub.active)
  BY DEF Quiet, Cool, Flags, Hubs
<1> QED
  BY <1>1, <1>2, <1>3, <1>4, <1>5, <1>6

\* Only the dispatcher puts a request in flight.
LEMMA FlightShrinks ==
    ASSUME TypeOK, [Next]_vars, ~(\E j \in Jobs : Dispatch(j))
    PROVE  InFlight' \subseteq InFlight
<1> USE TypeParts
<1>0. CASE UNCHANGED job
  BY <1>0 DEF InFlight
<1>1. ASSUME NEW j \in Jobs, Submit(j) PROVE InFlight' \subseteq InFlight
  BY <1>1 DEF Submit, InFlight, Requests
<1>2. ASSUME NEW j \in Jobs, StartHook(j) PROVE InFlight' \subseteq InFlight
  BY <1>2 DEF StartHook, InFlight, Requests
<1>3. ASSUME NEW j \in Jobs, Ungate(j) PROVE InFlight' \subseteq InFlight
  BY <1>3 DEF Ungate, InFlight, Requests
<1>4. ASSUME NEW j \in Jobs, Leave(j) PROVE InFlight' \subseteq InFlight
  BY <1>4 DEF Leave, InFlight, Requests
<1>5. CASE SwitchEnds
  BY <1>5 DEF SwitchEnds, InFlight, Requests, Prepared, PrepareFails, Failed, OfModel, Pending
<1>6. CASE WarmEnds
  BY <1>6 DEF WarmEnds, InFlight, Requests, Prepared, PrepareFails, Failed, OfModel, Pending
<1>7. ASSUME NEW j \in Jobs, Execute(j) PROVE InFlight' \subseteq InFlight
  BY <1>7 DEF Execute, InFlight, Requests
<1>8. ASSUME NEW j \in Jobs, RunEnds(j) PROVE InFlight' \subseteq InFlight
  BY <1>8 DEF RunEnds, InFlight, Requests
<1> QED
  BY <1>0, <1>1, <1>2, <1>3, <1>4, <1>5, <1>6, <1>7, <1>8, ChangesJob

\* Nothing brings the worker to life.
LEMMA WorkerOffStep ==
    ASSUME ~Worker, TypeOK, WorkerOff, [Next]_vars
    PROVE  WorkerOff'
<1>0. CASE UNCHANGED vars
  BY <1>0 DEF vars, WorkerOff
<1>1. ASSUME NEW j \in Jobs, Submit(j) PROVE WorkerOff'
  <2>1. \A i \in Jobs : job'[i].then \in {job[i].then, "none", "ungate"}
    BY <1>1, TypeParts DEF Submit, Requests
  <2>2. UNCHANGED <<bg, runner, hook>>
    BY <1>1 DEF Submit
  <2> QED
    BY <1>1, <2>1, <2>2, Gates DEF WorkerOff, Flags
<1>2. CASE SwitchEnds
  <2>1. \A i \in Jobs : job'[i].then = job[i].then
    BY <1>2, TypeParts DEF SwitchEnds, Prepared, PrepareFails, Failed, Requests
  <2>2. UNCHANGED <<bg, runner, hook>>
    BY <1>2 DEF SwitchEnds
  <2> QED
    BY <1>2, <2>1, <2>2, GatesOfEnds DEF WorkerOff, Flags
<1>3. CASE WarmEnds
  <2>1. \A i \in Jobs : job'[i].then = job[i].then
    BY <1>3, TypeParts DEF WarmEnds, Prepared, PrepareFails, Failed, Requests
  <2>2. UNCHANGED <<bg, runner, hook>>
    BY <1>3 DEF WarmEnds
  <2> QED
    BY <1>3, <2>1, <2>2, GatesOfEnds DEF WorkerOff, Flags
<1>4. CASE (\E j \in Jobs : Leave(j) \/ Execute(j))
  BY <1>4, TypeParts DEF Leave, Execute, WorkerOff, Requests
<1>5. ASSUME NEW j \in Jobs, Ungate(j) PROVE WorkerOff'
  BY <1>5, TypeParts, GatesOfEnds DEF Ungate, WorkerOff, Flags, Requests
<1>6. ASSUME NEW j \in Jobs, Dispatch(j) PROVE WorkerOff'
  BY <1>6, TypeParts, Gates DEF Dispatch, WorkerOff, Flags, Requests
<1>7. ASSUME NEW j \in Jobs, RunEnds(j) PROVE WorkerOff'
  BY <1>7, TypeParts, GatesOfEnds DEF RunEnds, WorkerOff, Flags, Requests
<1>8. CASE Poll \/ OperatorRelease
  BY <1>8, TypeParts, Gates DEF Poll, OperatorRelease, WorkerOff, Flags
<1>9. ASSUME NEW m \in Models, StartSwitch(m) PROVE WorkerOff'
  BY <1>9, TypeParts, Gates DEF StartSwitch, WorkerOff, Flags
<1>10. CASE ClaimIdleUnload
  BY <1>10, TypeParts, Gates DEF ClaimIdleUnload, WorkerOff, Flags
<1>11. CASE UnloadEnds
  BY <1>11, TypeParts, Gates DEF UnloadEnds, WorkerOff, Flags
<1>12. ASSUME NEW m \in Models, Prewarm(m) PROVE WorkerOff'
  BY <1>12, TypeParts, Gates DEF Prewarm, WorkerOff, Flags
<1>13. CASE WarmDone
  BY <1>13, TypeParts, Gates DEF WarmDone, WorkerOff, Flags
<1>14. CASE Switched
  BY <1>14, TypeParts, GatesOfEnds DEF Switched, WorkerOff, Flags
<1>15. CASE Quiet \/ Cool
  BY <1>15, TypeParts, GatesOfEnds DEF Quiet, Cool, WorkerOff, Flags
<1>16. CASE ConsentedRelease \/ Lapse \/ Age \/ GhostEnds \/ (\E e \in Ext : Reserve(e) \/
          ReserveEnds(e) \/ HolderDies(e))
  BY <1>16, TypeParts DEF Reserve, ReserveEnds, HolderDies, ConsentedRelease, Lapse, Age,
    GhostEnds, WorkerOff
<1> QED
  BY <1>0, <1>1, <1>2, <1>3, <1>4, <1>5, <1>6, <1>7, <1>8, <1>9, <1>10, <1>11, <1>12, <1>13,
    <1>14, <1>15, <1>16, WorkerOffNext DEF HubNext

\* The gates keep a second preparation, and requests, out.
LEMMA OnePreparationStep ==
    ASSUME ~Worker, ~Overtaking, TypeOK, WorkerOff, OnePreparation, [Next]_vars
    PROVE  OnePreparation'
<1>d. ASSUME NEW j \in Jobs, Dispatch(j) PROVE OnePreparation'
  BY <1>d, Gates DEF Dispatch, InLoop, Flags, OnePreparation
<1> SUFFICES ASSUME ~(\E j \in Jobs : Dispatch(j)) PROVE OnePreparation'
  BY <1>d
<1>s. InFlight' \subseteq InFlight
  BY FlightShrinks
<1>0. CASE UNCHANGED vars
  BY <1>0 DEF vars, OnePreparation, InFlight
<1>1. ASSUME NEW j \in Jobs, Submit(j) PROVE OnePreparation'
  BY <1>1, TypeParts, Gates, <1>s DEF Submit, OnePreparation, Flags
<1>2. CASE SwitchEnds
  BY <1>2, TypeParts, GatesOfEnds, <1>s DEF SwitchEnds, OnePreparation, Flags, Dispatchers,
    Warmers
<1>3. CASE WarmEnds
  BY <1>3, TypeParts, GatesOfEnds, <1>s DEF WarmEnds, OnePreparation, Flags, Dispatchers,
    Warmers
<1>4. CASE (\E j \in Jobs : Leave(j) \/ Execute(j))
  BY <1>4, TypeParts, <1>s DEF Leave, Execute, OnePreparation
<1>5. ASSUME NEW j \in Jobs, Ungate(j) PROVE OnePreparation'
  BY <1>5, TypeParts, GatesOfEnds, <1>s DEF Ungate, OnePreparation, Flags
<1>6. ASSUME NEW j \in Jobs, RunEnds(j) PROVE OnePreparation'
  BY <1>6, TypeParts, GatesOfEnds, <1>s DEF RunEnds, OnePreparation, Flags
<1>7. CASE Poll \/ OperatorRelease
  BY <1>7, TypeParts, Gates, <1>s DEF Poll, OperatorRelease, OnePreparation, Flags
<1>8. ASSUME NEW m \in Models, StartSwitch(m) PROVE OnePreparation'
  BY <1>8, TypeParts, Gates, <1>s DEF StartSwitch, OnePreparation, Flags, InLoop,
    SwitchAllowed
<1>9. CASE ClaimIdleUnload
  BY <1>9, TypeParts, Gates, <1>s DEF ClaimIdleUnload, OnePreparation, Flags, Dispatchers,
    Warmers, InLoop
<1>10. CASE UnloadEnds
  BY <1>10, TypeParts, Gates, <1>s DEF UnloadEnds, OnePreparation, Flags, Dispatchers, Warmers
<1>11. ASSUME NEW m \in Models, Prewarm(m) PROVE OnePreparation'
  BY <1>11, TypeParts, Gates, <1>s DEF Prewarm, OnePreparation, Flags
<1>12. CASE WarmDone
  BY <1>12, TypeParts, Gates, <1>s DEF WarmDone, OnePreparation, Flags
<1>13. CASE Switched
  BY <1>13, TypeParts, GatesOfEnds, <1>s DEF Switched, OnePreparation, Flags
<1>14. CASE Quiet \/ Cool
  BY <1>14, TypeParts, GatesOfEnds, <1>s DEF Quiet, Cool, OnePreparation, Flags
<1>15. CASE ConsentedRelease \/ Lapse \/ Age \/ GhostEnds \/ (\E e \in Ext : Reserve(e) \/
          ReserveEnds(e) \/ HolderDies(e))
  BY <1>15, TypeParts, <1>s DEF Reserve, ReserveEnds, HolderDies, ConsentedRelease, Lapse,
    Age, GhostEnds, OnePreparation
<1> QED
  BY <1>0, <1>1, <1>2, <1>3, <1>4, <1>5, <1>6, <1>7, <1>8, <1>9, <1>10, <1>11, <1>12, <1>13,
    <1>14, <1>15, WorkerOffNext DEF HubNext

\* The active model changes only while nothing is in flight, or is forgotten.
LEMMA ActiveKept ==
    ASSUME ~Worker, TypeOK, WorkerOff, OnePreparation, [Next]_vars
    PROVE  InFlight = {} \/ hub'.active \in {hub.active, None}
<1>0. CASE UNCHANGED hub
  BY <1>0
<1>1. CASE SwitchEnds \/ WarmEnds \/ UnloadEnds
  BY <1>1 DEF SwitchEnds, WarmEnds, UnloadEnds, OnePreparation
<1>2. CASE Poll \/ OperatorRelease \/ (\E j \in Jobs : Submit(j) \/ Dispatch(j))
  BY <1>2, Gates DEF Flags
<1>3. CASE ClaimIdleUnload \/ WarmDone \/ (\E m \in Models : StartSwitch(m) \/ Prewarm(m))
  BY <1>3, Gates DEF Flags
<1>4. CASE Switched \/ Quiet \/ Cool \/ (\E j \in Jobs : RunEnds(j) \/ Ungate(j))
  BY <1>4, GatesOfEnds DEF Flags
<1>5. CASE \/ ReuseSession \/ AcquireBegins \/ AcquireEnds \/ StartRunner \/ LoadModel
           \/ LoadEnds \/ RunBatch \/ BatchEnds \/ WorkerStops \/ BeginBatches
           \/ HookStops \/ HookEnds
  BY <1>5 DEF WorkerOff, ReuseSession, AcquireBegins, AcquireEnds, StartRunner, LoadModel,
     LoadEnds, RunBatch, BatchEnds, WorkerStops, BeginBatches, HookStops, HookEnds
<1> QED
  BY <1>0, <1>1, <1>2, <1>3, <1>4, <1>5, ChangesHub

\* A request joins others in flight only for the model that is active.
LEMMA OneModelStep ==
    ASSUME ~Worker, TypeOK, WorkerOff, OnePreparation, OneModel, [Next]_vars
    PROVE  OneModel'
<1>1. CASE \E j \in Jobs : Dispatch(j)
  <2>1. PICK j \in Jobs : Dispatch(j)
    BY <1>1
  <2>2. ModelOf[j] = hub.active /\ hub'.active = hub.active /\ hub.active # None
    BY <2>1, Gates, ModelsAssumption DEF Dispatch, Flags, Models
  <2>3. InFlight' \subseteq InFlight \cup {j}
    BY <2>1, TypeParts DEF Dispatch, InFlight, Requests
  <2> QED
    BY <2>2, <2>3 DEF OneModel
<1>2. CASE ~(\E j \in Jobs : Dispatch(j))
  <2>1. InFlight' \subseteq InFlight
    BY <1>2, FlightShrinks
  <2>2. InFlight = {} \/ hub'.active \in {hub.active, None}
    BY ActiveKept
  <2> QED
    BY <2>1, <2>2 DEF OneModel
<1> QED
  BY <1>1, <1>2

\* The initial state satisfies the invariant.
LEMMA QuietInit == Init => QInv
<1> SUFFICES ASSUME Init PROVE QInv
  OBVIOUS
<1>1. TypeOK
  BY TypeInit
<1>2. WorkerOff
  BY DEF Init, WorkerOff
<1>3. InFlight = {}
  BY DEF Init, InFlight
<1> QED
  BY <1>1, <1>2, <1>3 DEF Init, QInv, OnePreparation, OneModel

\* The invariant gives the property: one model in flight is a set of models with
\* at most one element.
LEMMA QuietFollows == QInv => QuietSwitch
<1> SUFFICES ASSUME QInv PROVE QuietSwitch
  OBVIOUS
<1> DEFINE S == {ModelOf[j] : j \in InFlight}
<1>1. Cardinality(S) <= 1
  <2>1. CASE S = {}
    BY <2>1, FS_EmptySet
  <2>2. CASE S # {}
    <3>1. PICK m : S = {m}
      BY <2>2 DEF QInv, OneModel
    <3> QED
      BY <3>1, FS_Singleton
  <2> QED
    BY <2>1, <2>2
<1> QED
  BY <1>1 DEF QInv, OnePreparation, QuietSwitch

\* A hub without the idle worker, whose prewarming does not fall between the
\* last two sections of a switch, prepares and unloads models only with nothing
\* in flight, and has one model in flight at a time.
THEOREM SwitchesQuiet ==
    ASSUME ~Worker, ~Overtaking
    PROVE  Spec => []QuietSwitch
<1>1. Init => QInv
  BY QuietInit
<1>2. QInv /\ [Next]_vars => QInv'
  <2> SUFFICES ASSUME QInv, [Next]_vars PROVE QInv'
    OBVIOUS
  <2> USE DEF QInv
  <2> QED
    BY TypeStep, WorkerOffStep, OnePreparationStep, OneModelStep
<1>3. QInv => QuietSwitch
  BY QuietFollows
<1> QED
  BY <1>1, <1>2, <1>3, PTL DEF Spec

-----------------------------------------------------------------------------
(* The fence between the hub and the external processes *)

\* A fence in force: its fields.
LEMMA ForceMeans ==
    ASSUME Consistent(file), NEW p \in Ext \cup {"hub"}, InForce(p)
    PROVE  /\ file.digest = p /\ p # None /\ Reaped(file) = file
           /\ p = "hub" => file.meta = None /\ ~file.old
           /\ p # "hub" => Valid(file) /\ file.meta = p /\ ~file.lapsed
<1>1. p # None
  BY SchedulerAssumption
<1>2. file.digest = p /\ Reaped(file) = file
  BY DEF InForce
<1>3. Removed(file).digest = None
  BY DEF Removed, File
<1>4. ~(Valid(file) /\ file.lapsed) /\ ~(file.meta = None /\ file.digest # None /\ file.old)
  BY <1>1, <1>2, <1>3 DEF Reaped
<1>5. p \in Ext => file.meta = p
  BY <1>2 DEF Consistent
<1> QED
  BY <1>1, <1>2, <1>4, <1>5 DEF Consistent, Valid

\* Where the hub is on the GPU.
LEMMA HubOn ==
    /\ OnGpu("hub") <=> HubComputes \/ disp.pc = "unload"
    /\ OnGpu("hub")' <=> HubComputes' \/ disp'.pc = "unload"
BY DEF OnGpu, HubComputes

\* Where an external process is.
LEMMA ExtOn ==
    ASSUME NEW e \in Ext
    PROVE  /\ e # "hub"
           /\ OnGpu(e) <=> ext[e] = "busy"
           /\ OnGpu(e)' <=> ext'[e] = "busy"
BY SchedulerAssumption DEF OnGpu

\* What a section has observed: fenced like the state itself, and an operator's
\* release that it leaves unseen keeps it from going on.
Seen(o) ==
    /\ o.hub \in Hubs /\ o.file \in Files
    /\ Consistent(o.file) /\ Reaped(o.file) = o.file
    /\ o.file.marker => file.marker
    /\ ~o.reserved => ~o.file.marker
    /\ o.hub.uncertain => hub.uncertain
    /\ ghost => o.hub.uncertain
    /\ \A p \in Ext \cup {"hub"} : OnGpu(p) /\ InForce(p) => o.file.digest = p

\* The operator's marker in what _external_gpu_reserved returns.
LEMMA ObserveMarker ==
    ASSUME NEW h \in Hubs, NEW f \in Files
    PROVE  LET o == Observe(h, f) IN
           /\ ~f.marker => o.hub.uncertain = h.uncertain
           /\ o.file.marker => f.marker
           /\ ~o.reserved => ~o.file.marker
<1> DEFINE r == Reaped(f)
           stuck == r.marker /\ Free(r) /\ ~SchedulerIdle
           g == IF r.marker /\ Free(r) /\ SchedulerIdle THEN Forgiven(h) ELSE h
           seen == IF stuck THEN r ELSE [r EXCEPT !.marker = FALSE]
           c == g.claimed /\ (g.uncertain \/ seen.digest # None)
           k == [g EXCEPT !.claimed = c]
<1>1. r \in Files /\ r.marker = f.marker
  BY ReapedFile, RemovedFile
<1>2. CASE stuck
  <2>1. Observe(h, f).hub = h /\ Observe(h, f).file = r /\ Observe(h, f).reserved
    BY <1>2 DEF Observe
  <2> QED
    BY <1>1, <2>1
<1>3. CASE ~stuck
  <2>1. Observe(h, f).hub = k /\ Observe(h, f).file = seen
    BY <1>3 DEF Observe
  <2>2. seen.marker = FALSE
    BY <1>1, <1>3 DEF Files
  <2>3. ~f.marker => g = h
    BY <1>1
  <2>4. g \in Hubs => k.uncertain = g.uncertain
    <3> HIDE DEF g, c
    <3> QED
      BY DEF Hubs
  <2> HIDE DEF g, k, seen
  <2> QED
    BY <2>1, <2>2, <2>3, <2>4
<1> QED
  BY <1>2, <1>3

\* _external_gpu_reserved, on files whose fence nobody uses or on the files as
\* they are.
LEMMA ObserveSeen ==
    ASSUME TypeOK, FenceParts, NEW h \in Hubs, h.uncertain = hub.uncertain, NEW f \in Files,
           f = file \/ (f = Removed(file)
                          /\ \A p \in Ext \cup {"hub"} : ~(OnGpu(p) /\ InForce(p)))
    PROVE  Seen(Observe(h, f))
<1> DEFINE o == Observe(h, f)
           r == Reaped(f)
<1>1. /\ o.hub \in Hubs /\ o.file \in Files
      /\ o.file.digest = r.digest /\ o.file.meta = r.meta
      /\ o.file.old = r.old /\ o.file.lapsed = r.lapsed
      /\ o.hub.uncertain => h.uncertain
  BY ObserveKeeps
<1>2. None # "hub" /\ None \notin Ext
  BY SchedulerAssumption
<1>3. file \in Files
  BY TypeParts
<1>4. /\ Removed(f).digest = None /\ Removed(f).meta = None
      /\ Removed(file).digest = None /\ Removed(file).marker = file.marker
  BY <1>3, RemovedFile DEF Free
<1>5. Consistent(file) /\ Consistent(Removed(file)) /\ Consistent(Removed(f))
  BY <1>2, <1>4 DEF FenceParts, Consistent
<1>6. Consistent(r)
  BY <1>5, ReapedFile
<1>7. Consistent(o.file)
  BY <1>1, <1>6 DEF Consistent
<1>8. Reaped(o.file) = o.file
  <2>1. ~(Valid(r) /\ r.lapsed) /\ ~(r.meta = None /\ r.digest # None /\ r.old)
    <3>1. CASE (Valid(f) /\ f.lapsed) \/ (f.meta = None /\ f.digest # None /\ f.old)
      BY <1>4, <3>1 DEF Reaped, Valid
    <3>2. CASE ~((Valid(f) /\ f.lapsed) \/ (f.meta = None /\ f.digest # None /\ f.old))
      BY <3>2 DEF Reaped
    <3> QED
      BY <3>1, <3>2
  <2>2. /\ ~(Valid(o.file) /\ o.file.lapsed)
        /\ ~(o.file.meta = None /\ o.file.digest # None /\ o.file.old)
    BY <1>1, <2>1 DEF Valid
  <2> QED
    BY <2>2 DEF Reaped
<1>9. f.marker = file.marker
  BY <1>4
<1>10. /\ o.file.marker => file.marker
       /\ ~o.reserved => ~o.file.marker
       /\ ~file.marker => o.hub.uncertain = hub.uncertain
  BY <1>9, ObserveMarker
<1>11. ghost => o.hub.uncertain
  BY <1>10 DEF FenceParts, HubComputes
<1>12. ASSUME NEW p \in Ext \cup {"hub"}, OnGpu(p), InForce(p) PROVE o.file.digest = p
  <2>1. f = file /\ r = file /\ file.digest = p
    BY <1>12, ForceMeans DEF FenceParts
  <2> QED
    BY <1>1, <2>1
<1> QED
  BY <1>1, <1>7, <1>8, <1>10, <1>11, <1>12 DEF Seen

\* _external_gpu_reserved by itself.
LEMMA ObservedSeen ==
    ASSUME TypeOK, FenceParts
    PROVE  Seen(Observed)
BY TypeParts, ObserveSeen DEF Observed

\* The loop gives back a claim only when the hub is off the GPU.
LEMMA LoopHeadSeen ==
    ASSUME TypeOK, OnePreparation, FenceParts
    PROVE  Seen(LoopHead)
<1> DEFINE unused == Pending = {} /\ InFlight = {} /\ ~hub.switching /\ ~hub.lease
           r == IF unused THEN ReleaseInternal(hub, file) ELSE [hub |-> hub, file |-> file]
<1>1. hub \in Hubs /\ file \in Files
  BY TypeParts
<1>2. /\ r.hub \in Hubs /\ r.file \in Files /\ r.hub.uncertain = hub.uncertain
      /\ r.file # file => /\ InFlight = {} /\ ~hub.switching
                          /\ ~hub.uncertain /\ ~hub.preparing
                          /\ file.digest = "hub" /\ r.file = Removed(file)
  BY <1>1, ReleaseKeeps
<1>3. r.file # file => ~OnGpu("hub")
  BY <1>2, HubOn DEF OnePreparation, FenceParts, HubComputes
<1>4. r.file # file => \A p \in Ext \cup {"hub"} : ~(OnGpu(p) /\ InForce(p))
  BY <1>2, <1>3 DEF InForce
<1>5. LoopHead = Observe(r.hub, r.file)
  BY DEF LoopHead
<1> HIDE DEF r
<1> QED
  BY <1>2, <1>4, <1>5, ObserveSeen

\* Whoever may claim finds no other fence in force, and claims with one.
LEMMA ClaimSeen ==
    ASSUME NEW o, Seen(o), CanClaim(o), ~o.reserved
    PROVE  LET c == ClaimedFile(o) IN
           /\ c.digest = "hub" /\ c.meta = None /\ ~c.old /\ ~c.marker
           /\ ~o.hub.uncertain /\ ~ghost
           /\ \A e \in Ext : ~(OnGpu(e) /\ InForce(e))
<1> DEFINE c == ClaimedFile(o)
<1>1. o.hub \in Hubs /\ o.file \in Files /\ Reaped(o.file) = o.file /\ ~o.file.marker
  BY DEF Seen
<1>2. ~o.hub.uncertain /\ ~ghost
  BY DEF CanClaim, Seen
<1>n. None # "hub" /\ None \notin Ext /\ "hub" \notin Ext
  BY SchedulerAssumption
<1>3. o.file.digest \notin Ext
  BY <1>1, <1>n DEF CanClaim, Claimable, Free
<1>4. c.digest = "hub" /\ c.meta = None /\ ~c.old /\ ~c.marker
  <2>1. CASE o.hub.claimed
    <3>1. o.file.digest = "hub" /\ c = o.file
      BY <2>1 DEF CanClaim, ClaimedFile
    <3>2. o.file.meta = None
      BY <3>1 DEF Seen, Consistent
    <3>3. ~o.file.old
      <4>1. Removed(o.file).digest = None
        BY <1>1, RemovedFile DEF Free
      <4> QED
        BY <1>1, <1>n, <3>1, <3>2, <4>1 DEF Reaped
    <3> QED
      BY <1>1, <3>1, <3>2, <3>3
  <2>2. CASE ~o.hub.claimed
    <3>1. Free(o.file)
      BY <1>1, <2>2 DEF CanClaim, Claimable
    <3>2. c = [o.file EXCEPT !.digest = "hub", !.old = FALSE]
      BY <1>1, <2>2 DEF ClaimedFile
    <3> QED
      BY <1>1, <3>1, <3>2 DEF Free, Files
  <2> QED
    BY <2>1, <2>2
<1> QED
  BY <1>2, <1>3, <1>4 DEF Seen

\* What the sections do to the memory of an unknown outcome.
LEMMA UncertainKept ==
    ASSUME TypeOK, ~Worker
    PROVE  /\ \A j \in Jobs : Submit(j) => hub'.uncertain = Observed.hub.uncertain
           /\ Poll \/ ClaimIdleUnload \/ (\E m : StartSwitch(m)) \/ (\E j : Dispatch(j))
                => hub'.uncertain = LoopHead.hub.uncertain
           /\ \A m : Prewarm(m) => hub'.uncertain = Observed.hub.uncertain
           /\ UnloadEnds \/ Quiet \/ Cool \/ Switched \/ (\E j : Ungate(j))
                => hub'.uncertain = hub.uncertain
           /\ WarmDone /\ hub.uncertain => hub'.uncertain
<1>1. /\ Observed.hub \in Hubs /\ LoopHead.hub \in Hubs
      /\ Observed.file \in Files /\ LoopHead.file \in Files
      /\ hub \in Hubs /\ file \in Files
  BY TypeParts, ObserveKeeps, LoopHeadKeeps DEF Observed
<1>2. /\ ClaimedHub(Observed) \in Hubs /\ ClaimedHub(LoopHead) \in Hubs
      /\ ClaimedHub(Observed).uncertain = Observed.hub.uncertain
      /\ ClaimedHub(LoopHead).uncertain = LoopHead.hub.uncertain
  BY <1>1, ClaimKeeps
<1>3. ASSUME NEW j \in Jobs, Submit(j) PROVE hub'.uncertain = Observed.hub.uncertain
  <2> DEFINE acc == [Observed.hub EXCEPT !.quiet = 0, !.preempting = Observed.hub.preempting,
                                         !.lease = Observed.hub.lease]
  <2>1. hub' \in {Observed.hub, acc}
    <3>1. Observed.hub.preempting \in BOOLEAN /\ Observed.hub.lease \in BOOLEAN
      BY <1>1 DEF Hubs
    <3> QED
      BY <1>3, <3>1 DEF Submit
  <2>2. acc.uncertain = Observed.hub.uncertain
    BY <1>1 DEF Hubs
  <2> QED
    BY <2>1, <2>2
<1>4. Poll => hub'.uncertain = LoopHead.hub.uncertain
  BY <1>1, <1>2 DEF Poll
<1>5. ClaimIdleUnload => hub'.uncertain = LoopHead.hub.uncertain
  BY <1>1, <1>2 DEF ClaimIdleUnload, Hubs
<1>6. ASSUME NEW m, StartSwitch(m) PROVE hub'.uncertain = LoopHead.hub.uncertain
  BY <1>1, <1>2, <1>6 DEF StartSwitch, Hubs
<1>7. ASSUME NEW j, Dispatch(j) PROVE hub'.uncertain = LoopHead.hub.uncertain
  BY <1>1, <1>2, <1>7 DEF Dispatch, Hubs
<1>8. ASSUME NEW m, Prewarm(m) PROVE hub'.uncertain = Observed.hub.uncertain
  BY <1>1, <1>2, <1>8 DEF Prewarm, Hubs
<1>9. ASSUME UnloadEnds PROVE hub'.uncertain = hub.uncertain
  <2> DEFINE h == [hub EXCEPT !.active = None, !.switching = FALSE]
  <2>1. h \in Hubs /\ h.uncertain = hub.uncertain
    BY <1>1 DEF Hubs
  <2>2. hub' \in {h, ReleaseInternal(h, file).hub}
    BY <1>9 DEF UnloadEnds
  <2> HIDE DEF h
  <2> QED
    BY <1>1, <2>1, <2>2, ReleaseKeeps
<1>10. ASSUME Quiet \/ Cool \/ Switched \/ (\E j : Ungate(j))
       PROVE  hub'.uncertain = hub.uncertain
  BY <1>1, <1>10 DEF Quiet, Cool, Switched, Ungate, Hubs
<1>11. ASSUME WarmDone, hub.uncertain PROVE hub'.uncertain
  <2> DEFINE h == [hub EXCEPT !.preparing = FALSE,
                              !.uncertain = hub.uncertain \/ warm.pc = "cold"]
  <2>1. h \in Hubs /\ h.uncertain
    BY <1>1, <1>11 DEF Hubs
  <2>2. hub' \in {h, ReleaseInternal(h, file).hub}
    BY <1>11 DEF WarmDone
  <2> HIDE DEF h
  <2> QED
    BY <1>1, <2>1, <2>2, ReleaseKeeps
<1> QED
  BY <1>3, <1>4, <1>5, <1>6, <1>7, <1>8, <1>9, <1>10, <1>11

\* What a step has to show: the fence of whoever was on the GPU, the fence of
\* whoever joins, and what the fence rests on.
Honours == FenceStep /\ FenceParts'

\* A section that only observes lets nobody join and takes no fence away.
LEMMA AfterLook ==
    ASSUME FenceParts, NEW o, Seen(o), file' = o.file, UNCHANGED ext,
           HubComputes' => HubComputes, disp'.pc = "unload" => disp.pc = "unload",
           ghost' => ghost, hub'.uncertain = o.hub.uncertain
    PROVE  Honours
<1>1. FenceParts'
  BY DEF FenceParts, Seen, Consistent
<1>2. ASSUME NEW p \in Ext \cup {"hub"}, OnGpu(p)' PROVE OnGpu(p)
  BY <1>2, HubOn, ExtOn
<1>3. FenceStep
  BY <1>2 DEF Seen, FenceStep
<1> QED
  BY <1>1, <1>3 DEF Honours

\* A section that claims: the hub may join, with a claim in force.
LEMMA AfterClaim ==
    ASSUME FenceParts, NEW o, Seen(o), CanClaim(o), ~o.reserved,
           file' = ClaimedFile(o), UNCHANGED ext, ghost' => ghost,
           hub'.uncertain = o.hub.uncertain
    PROVE  Honours
<1>1. /\ file'.digest = "hub" /\ file'.meta = None /\ ~file'.old /\ ~file'.marker
      /\ ~o.hub.uncertain /\ ~ghost
      /\ \A e \in Ext : ~(OnGpu(e) /\ InForce(e))
  BY ClaimSeen
<1>2. None # "hub" /\ "hub" \notin Ext
  BY SchedulerAssumption
<1>3. FenceParts'
  BY <1>1, <1>2 DEF FenceParts, Consistent
<1>4. InForce("hub")'
  BY <1>1, <1>2 DEF InForce, Reaped, Valid
<1>5. FenceStep
  BY <1>1, <1>4, ExtOn DEF FenceStep
<1> QED
  BY <1>3, <1>5 DEF Honours

\* A step that leaves the files alone and lets nobody join.
LEMMA AfterStep ==
    ASSUME FenceParts, UNCHANGED file,
           \A e \in Ext : ext'[e] = "busy" => ext[e] = "busy",
           HubComputes' => HubComputes, disp'.pc = "unload" => disp.pc = "unload",
           ghost' => hub'.uncertain, disp'.pc = "unload" => ~hub'.uncertain
    PROVE  Honours
<1>1. FenceParts'
  BY DEF FenceParts, Consistent
<1>2. ASSUME NEW p \in Ext \cup {"hub"}, OnGpu(p)' PROVE OnGpu(p)
  BY <1>2, HubOn, ExtOn
<1>3. FenceStep
  BY <1>2 DEF InForce, FenceStep
<1> QED
  BY <1>1, <1>3 DEF Honours

\* A step that changes the files while no fence in force is needed after it: of the
\* parties on the GPU those that stay have none, and nobody joins.
LEMMA AfterRemoval ==
    ASSUME FenceParts, Consistent(file'), file'.marker => file.marker \/ ~HubComputes',
           HubComputes' => HubComputes, disp'.pc = "unload" => disp.pc = "unload",
           \A e \in Ext : ext'[e] = "busy" => ext[e] = "busy",
           ghost' => hub'.uncertain, disp'.pc = "unload" => ~hub'.uncertain,
           \A p \in Ext \cup {"hub"} :
               OnGpu(p) /\ InForce(p) /\ OnGpu(p)' => file'.digest = p
    PROVE  Honours
<1>1. FenceParts'
  BY DEF FenceParts, Consistent
<1>2. ASSUME NEW p \in Ext \cup {"hub"}, OnGpu(p)' PROVE OnGpu(p)
  BY <1>2, HubOn, ExtOn
<1>3. FenceStep
  BY <1>2 DEF FenceStep
<1> QED
  BY <1>1, <1>3 DEF Honours

\* The sections of the scheduler that observe.
LEMMA SectionsHonour ==
    ASSUME ~Worker, QInv, FenceParts, Poll \/ (\E j \in Jobs : Submit(j))
    PROVE  Honours
<1> USE DEF QInv
<1>b. Seen(Observed) /\ Seen(LoopHead)
  BY ObservedSeen, LoopHeadSeen
<1>1. CASE Poll
  <2>1. UNCHANGED <<job, disp, warm, ghost, ext>>
    BY <1>1 DEF Poll
  <2>2. HubComputes' => HubComputes
    BY <2>1 DEF HubComputes, InFlight
  <2>3. CASE Ready(LoopHead)
    <3>1. CanClaim(LoopHead) /\ file' = ClaimedFile(LoopHead) /\ ~LoopHead.reserved
      BY <1>1, <2>3 DEF Poll, Ready
    <3> QED
      BY <1>1, <1>b, <2>1, <3>1, UncertainKept, AfterClaim
  <2>4. CASE ~Ready(LoopHead)
    <3>1. file' = LoopHead.file
      BY <1>1, <2>4 DEF Poll
    <3> QED
      BY <1>1, <1>b, <2>1, <2>2, <3>1, UncertainKept, AfterLook
  <2> QED
    BY <2>3, <2>4
<1>2. ASSUME NEW j \in Jobs, Submit(j) PROVE Honours
  <2>1. UNCHANGED <<disp, warm, ghost, ext>> /\ file' = Observed.file
    BY <1>2 DEF Submit
  <2>2. InFlight' \subseteq InFlight
    BY <1>2, TypeParts DEF Submit, InFlight, Requests
  <2>3. HubComputes' => HubComputes
    BY <2>1, <2>2 DEF HubComputes
  <2> QED
    BY <1>2, <1>b, <2>1, <2>3, UncertainKept, AfterLook
<1> QED
  BY <1>1, <1>2

\* The sections that put the hub on the GPU.
LEMMA ClaimsHonour ==
    ASSUME ~Worker, QInv, FenceParts,
           \/ ClaimIdleUnload \/ (\E j \in Jobs : Dispatch(j))
           \/ (\E m \in Models : StartSwitch(m) \/ Prewarm(m))
    PROVE  Honours
<1> USE DEF QInv
<1>b. Seen(Observed) /\ Seen(LoopHead)
  BY ObservedSeen, LoopHeadSeen
<1>1. ASSUME NEW j \in Jobs, Dispatch(j) PROVE Honours
  <2>1. CanClaim(LoopHead) /\ file' = ClaimedFile(LoopHead) /\ UNCHANGED <<ghost, ext>>
        /\ ~LoopHead.reserved
    BY <1>1 DEF Dispatch, Ready
  <2> QED
    BY <1>1, <1>b, <2>1, UncertainKept, AfterClaim
<1>2. ASSUME NEW m \in Models, StartSwitch(m) PROVE Honours
  <2>1. CanClaim(LoopHead) /\ file' = ClaimedFile(LoopHead) /\ UNCHANGED <<ghost, ext>>
        /\ ~LoopHead.reserved
    BY <1>2 DEF StartSwitch, Ready
  <2> QED
    BY <1>2, <1>b, <2>1, UncertainKept, AfterClaim
<1>3. ASSUME NEW m \in Models, Prewarm(m) PROVE Honours
  <2>1. CanClaim(Observed) /\ file' = ClaimedFile(Observed) /\ UNCHANGED <<ghost, ext>>
        /\ ~Observed.reserved
    BY <1>3 DEF Prewarm
  <2> QED
    BY <1>3, <1>b, <2>1, UncertainKept, AfterClaim
<1>4. CASE ClaimIdleUnload
  <2>1. CanClaim(LoopHead) /\ file' = ClaimedFile(LoopHead) /\ UNCHANGED <<ghost, ext>>
        /\ ~LoopHead.reserved
    BY <1>4 DEF ClaimIdleUnload
  <2> QED
    BY <1>4, <1>b, <2>1, UncertainKept, AfterClaim
<1> QED
  BY <1>1, <1>2, <1>3, <1>4

\* Ends of operations that leave the files alone.
LEMMA EndsHonour ==
    ASSUME ~Worker, ~Overtaking, QInv, FenceParts, [Next]_vars,
           \/ SwitchEnds \/ WarmEnds \/ Switched \/ GhostEnds \/ Quiet \/ Cool
           \/ (\E j \in Jobs : RunEnds(j) \/ Leave(j) \/ Ungate(j) \/ Execute(j))
           \/ UNCHANGED vars
    PROVE  Honours
<1> USE DEF QInv
<1>c. hub \in Hubs
  BY TypeParts
<1>1. CASE SwitchEnds \/ WarmEnds
  <2>1. UNCHANGED <<file, ext>> /\ HubComputes
    BY <1>1 DEF SwitchEnds, WarmEnds, HubComputes
  <2>2. disp'.pc # "unload"
    BY <1>1, TypeParts DEF SwitchEnds, WarmEnds, OnePreparation, Dispatchers
  <2>3. ghost' => hub'.uncertain
    BY <1>1, <1>c DEF SwitchEnds, WarmEnds, Prepared, PrepareFails, FenceParts, Hubs
  <2> QED
    BY <2>1, <2>2, <2>3, AfterStep
<1>2. ASSUME NEW j \in Jobs, RunEnds(j) PROVE Honours
  <2>1. UNCHANGED <<file, ext, disp>> /\ HubComputes /\ InFlight # {}
    BY <1>2 DEF RunEnds, HubComputes, InFlight
  <2>2. disp'.pc # "unload"
    BY <2>1 DEF OnePreparation
  <2>3. Touched(hub, j) \in Hubs /\ Touched(hub, j).uncertain = hub.uncertain
    BY <1>c DEF Touched, Hubs
  <2>4. ghost' => hub'.uncertain
    BY <1>2, <2>3 DEF RunEnds, FenceParts, Hubs
  <2> QED
    BY <2>1, <2>2, <2>4, AfterStep
<1>3. CASE \/ Switched \/ GhostEnds \/ Quiet \/ Cool
           \/ (\E j \in Jobs : Leave(j) \/ Ungate(j) \/ Execute(j))
  <2>1. UNCHANGED <<file, ext, warm>> /\ (ghost' => ghost)
        /\ (disp'.pc # "loop" => disp' = disp)
    <3>1. CASE Switched
      BY <3>1 DEF Switched
    <3>2. CASE Quiet \/ Cool \/ GhostEnds
      BY <3>2 DEF Quiet, Cool, GhostEnds
    <3>3. CASE \E j \in Jobs : Leave(j) \/ Ungate(j) \/ Execute(j)
      BY <3>3 DEF Leave, Ungate, Execute
    <3> QED
      BY <1>3, <3>1, <3>2, <3>3
  <2>2. InFlight' \subseteq InFlight
    <3>1. CASE Switched \/ Quiet \/ Cool \/ GhostEnds
      BY <3>1 DEF Switched, Quiet, Cool, GhostEnds, InFlight
    <3>2. ASSUME NEW j \in Jobs, Leave(j) \/ Ungate(j) \/ Execute(j)
          PROVE  InFlight' \subseteq InFlight
      BY <3>2, TypeParts DEF Leave, Ungate, Execute, InFlight, Requests
    <3> QED
      BY <1>3, <3>1, <3>2
  <2>3. HubComputes' => HubComputes
    BY <2>1, <2>2 DEF HubComputes
  <2>4. hub'.uncertain = hub.uncertain
    BY <1>3, UncertainKept DEF GhostEnds, Leave, Execute
  <2> QED
    BY <2>1, <2>3, <2>4, AfterStep DEF FenceParts
<1>4. CASE UNCHANGED vars
  BY <1>4, AfterStep DEF vars, FenceParts, HubComputes, InFlight
<1> QED
  BY <1>1, <1>2, <1>3, <1>4

\* The ends that give the claim back keep it for a hub that is still on the GPU.
LEMMA ReleasesHonour ==
    ASSUME ~Worker, QInv, FenceParts, UnloadEnds \/ WarmDone
    PROVE  Honours
<1> USE DEF QInv
<1>c. hub \in Hubs /\ file \in Files
  BY TypeParts
<1>n. None # "hub" /\ None \notin Ext /\ "hub" \notin Ext
  BY SchedulerAssumption
<1>1. /\ UNCHANGED <<job, ghost, ext>>
      /\ "switch" \notin {disp'.pc, warm'.pc} /\ disp'.pc # "unload"
  <2>1. CASE UnloadEnds
    BY <2>1, TypeParts DEF UnloadEnds, OnePreparation, Dispatchers
  <2>2. CASE WarmDone
    BY <2>2, TypeParts DEF WarmDone, OnePreparation, Dispatchers
  <2> QED
    BY <2>1, <2>2
<1>2. InFlight' = InFlight
  BY <1>1 DEF InFlight
<1>3. ghost' => hub'.uncertain
  BY <1>1, UncertainKept DEF FenceParts
<1>4. file' # file => InFlight = {} /\ ~hub.uncertain /\ file' = Removed(file)
                      /\ file.digest = "hub"
  <2>1. CASE UnloadEnds
    <3> DEFINE h == [hub EXCEPT !.active = None, !.switching = FALSE]
    <3>1. h \in Hubs /\ h.uncertain = hub.uncertain
      BY <1>c DEF Hubs
    <3>2. file' = file \/ (InFlight = {} /\ file' = ReleaseInternal(h, file).file)
      BY <2>1 DEF UnloadEnds
    <3> HIDE DEF h
    <3> QED
      BY <1>c, <3>1, <3>2, ReleaseKeeps
  <2>2. CASE WarmDone
    <3> DEFINE h == [hub EXCEPT !.preparing = FALSE,
                                !.uncertain = hub.uncertain \/ warm.pc = "cold"]
    <3>1. h \in Hubs /\ (hub.uncertain => h.uncertain)
      BY <1>c DEF Hubs
    <3>2. file' = file \/ (InFlight = {} /\ file' = ReleaseInternal(h, file).file)
      BY <2>2 DEF WarmDone
    <3> HIDE DEF h
    <3> QED
      BY <1>c, <3>1, <3>2, ReleaseKeeps
  <2> QED
    BY <2>1, <2>2
<1>5. HubComputes' => HubComputes
  BY <1>1, <1>2 DEF HubComputes
<1>6. CASE file' = file
  BY <1>1, <1>3, <1>5, <1>6, AfterStep
<1>7. CASE file' # file
  <2>1. /\ Consistent(file') /\ file'.marker = file.marker
    BY <1>c, <1>n, <1>4, <1>7, RemovedFile DEF Free, Consistent
  <2>2. ~HubComputes'
    BY <1>1, <1>2, <1>4, <1>7 DEF HubComputes, FenceParts
  <2>3. ASSUME NEW p \in Ext \cup {"hub"}, OnGpu(p), InForce(p), OnGpu(p)'
        PROVE  FALSE
    <3>1. p = "hub"
      BY <1>4, <1>7, <2>3 DEF InForce
    <3> QED
      BY <1>1, <2>2, <2>3, <3>1, HubOn
  <2> QED
    BY <1>1, <1>3, <1>5, <2>1, <2>3, AfterRemoval
<1> QED
  BY <1>6, <1>7

\* What the other steps leave as it is.
LEMMA HubStays ==
    ASSUME UNCHANGED <<job, disp, warm, ghost>>, hub'.uncertain = hub.uncertain, FenceParts
    PROVE  /\ HubComputes' => HubComputes
           /\ disp'.pc = "unload" => disp.pc = "unload"
           /\ ghost' => hub'.uncertain
           /\ disp'.pc = "unload" => ~hub'.uncertain
BY DEF HubComputes, InFlight, FenceParts

\* External processes come, go and die beside each other and the hub.
LEMMA ExternalHonours ==
    ASSUME QInv, FenceParts, NEW e \in Ext, Reserve(e) \/ ReserveEnds(e) \/ HolderDies(e)
    PROVE  Honours
<1> USE DEF QInv
<1>c. file \in Files /\ ext \in [Ext -> {"out", "busy"}]
  BY TypeParts
<1>n. /\ None # "hub" /\ None # "dead" /\ None \notin Ext /\ "hub" \notin Ext
      /\ "dead" \notin Ext
  BY SchedulerAssumption
<1>h. UNCHANGED <<job, disp, warm, ghost, hub>>
  BY DEF Reserve, ReserveEnds, HolderDies
<1>k. /\ HubComputes' => HubComputes
      /\ disp'.pc = "unload" => disp.pc = "unload"
      /\ ghost' => hub'.uncertain
      /\ disp'.pc = "unload" => ~hub'.uncertain
  BY <1>h, HubStays
<1>1. CASE Reserve(e)
  <2>1. Free(Reaped(file)) /\ ext[e] = "out"
    BY <1>1 DEF Reserve, Claimable
  <2>2. ASSUME NEW p \in Ext \cup {"hub"}, InForce(p) PROVE FALSE
    BY <2>1, <2>2, ForceMeans DEF FenceParts, Free
  <2>3. \/ /\ file'.digest = e /\ file'.meta = e /\ ~file'.lapsed
           /\ file'.marker = file.marker /\ ext' = [ext EXCEPT ![e] = "busy"]
        \/ /\ file'.digest = "dead" /\ file'.marker = file.marker /\ UNCHANGED ext
    BY <1>1 DEF Reserve, File
  <2>4. FenceParts'
    BY <1>n, <1>k, <2>3 DEF FenceParts, Consistent
  <2>5. ASSUME NEW p \in Ext \cup {"hub"}, ~OnGpu(p), OnGpu(p)' PROVE InForce(p)'
    <3>1. p # "hub"
      BY <1>h, <1>k, <2>5, HubOn
    <3>2. p = e /\ file'.digest = e /\ file'.meta = e /\ ~file'.lapsed
      BY <1>c, <2>3, <2>5, <3>1, ExtOn
    <3> QED
      BY <1>n, <3>2 DEF InForce, Reaped, Valid
  <2> QED
    BY <2>2, <2>4, <2>5 DEF FenceStep, Honours
<1>2. CASE ReserveEnds(e) \/ HolderDies(e)
  <2>1. ext' = [ext EXCEPT ![e] = "out"]
    BY <1>2 DEF ReserveEnds, HolderDies
  <2>2. \/ file' = file
        \/ /\ Valid(file) /\ file.meta = e
           /\ file'.digest \in {"dead", None} /\ file'.meta \in {"dead", None}
           /\ file'.marker = file.marker
    <3>1. CASE ReserveEnds(e)
      BY <1>c, <3>1, RemovedFile DEF ReserveEnds, Free
    <3>2. CASE HolderDies(e)
      <4>1. \/ file' = file
            \/ /\ Valid(file) /\ file.meta = e
               /\ \E d \in {"dead", None} :
                     file' = [file EXCEPT !.digest = d, !.meta = "dead"]
        BY <3>2 DEF HolderDies
      <4> QED
        BY <1>c, <4>1 DEF Files
    <3> QED
      BY <1>2, <3>1, <3>2
  <2>3. Consistent(file') /\ file'.marker = file.marker
    BY <1>n, <2>2 DEF FenceParts, Consistent
  <2>4. \A x \in Ext : ext'[x] = "busy" => ext[x] = "busy" /\ x # e
    BY <1>c, <2>1
  <2>5. ASSUME NEW p \in Ext \cup {"hub"}, InForce(p), OnGpu(p)' PROVE file'.digest = p
    <3>1. file.digest = p /\ (p = "hub" => file.meta = None) /\ (p # "hub" => file.meta = p)
      BY <2>5, ForceMeans DEF FenceParts
    <3>2. p # e
      BY <2>4, <2>5, ExtOn
    <3>3. file.meta # e
      BY <1>n, <3>1, <3>2
    <3> QED
      BY <2>2, <3>1, <3>3
  <2> QED
    BY <1>k, <2>3, <2>4, <2>5, AfterRemoval
<1> QED
  BY <1>1, <1>2

\* The operator, the cleanup with consent, and the clocks of the files.
LEMMA OthersHonour ==
    ASSUME ~Worker, QInv, FenceParts, OperatorRelease \/ ConsentedRelease \/ Lapse \/ Age
    PROVE  Honours
<1> USE DEF QInv
<1>c. hub \in Hubs /\ file \in Files
  BY TypeParts
<1>n. /\ None # "hub" /\ None # "dead" /\ None \notin Ext /\ "hub" \notin Ext
      /\ "dead" \notin Ext /\ "hub" # "dead"
  BY SchedulerAssumption
<1>h. UNCHANGED <<job, disp, warm, ghost, ext>>
  BY DEF OperatorRelease, ConsentedRelease, Lapse, Age
<1>1. CASE OperatorRelease
  <2>1. ~HubComputes /\ (\A e \in Ext : ext[e] # "busy")
    BY <1>1 DEF OperatorRelease, Users, HubComputes
  <2> DEFINE f == [File(None, None) EXCEPT !.marker = TRUE]
  <2>2. f \in Files /\ Reaped(f) = f /\ f.digest = None
    BY DEF Files, File, Reaped, Valid
  <2>3. file' = Observe(hub, f).file /\ hub' = Observe(hub, f).hub
    BY <1>1 DEF OperatorRelease
  <2> HIDE DEF f
  <2>4. file'.digest = None /\ (hub'.uncertain => hub.uncertain)
    BY <1>c, <2>2, <2>3, ObserveKeeps
  <2>5. Consistent(file')
    BY <1>n, <2>4 DEF Consistent
  <2>6. ~HubComputes' /\ ~ghost'
    BY <1>h, <2>1 DEF HubComputes, InFlight
  <2>7. ASSUME NEW p \in Ext \cup {"hub"}, OnGpu(p), InForce(p) PROVE FALSE
    <3>1. p = "hub" /\ disp.pc = "unload"
      BY <2>1, <2>7, HubOn, ExtOn
    <3>2. file.digest = "hub" /\ file.meta = None
      BY <2>7, <3>1, ForceMeans DEF FenceParts
    <3> QED
      BY <1>1, <1>n, <3>1, <3>2 DEF OperatorRelease, FenceParts
  <2> QED
    BY <1>h, <2>4, <2>5, <2>6, <2>7, AfterRemoval DEF FenceParts
<1>2. CASE ConsentedRelease \/ Lapse \/ Age
  <2>1. UNCHANGED hub
    BY <1>2 DEF ConsentedRelease, Lapse, Age
  <2>2. /\ HubComputes' => HubComputes
        /\ disp'.pc = "unload" => disp.pc = "unload"
        /\ ghost' => hub'.uncertain
        /\ disp'.pc = "unload" => ~hub'.uncertain
    BY <1>h, <2>1, HubStays
  <2>3. \/ /\ file'.digest = file.digest /\ file'.meta = file.meta
           /\ file'.marker = file.marker
        \/ /\ file.meta # None /\ (file.lapsed \/ file.meta = "dead")
           /\ file'.digest = None /\ file'.marker = file.marker
    <3>1. CASE ConsentedRelease
      BY <1>c, <3>1, RemovedFile DEF ConsentedRelease, Free
    <3>2. CASE Lapse \/ Age
      BY <1>c, <3>2 DEF Lapse, Age, Files
    <3> QED
      BY <1>2, <3>1, <3>2
  <2>4. Consistent(file') /\ file'.marker = file.marker
    BY <1>n, <2>3 DEF FenceParts, Consistent
  <2>5. ASSUME NEW p \in Ext \cup {"hub"}, InForce(p) PROVE file'.digest = p
    BY <1>n, <2>3, <2>5, ForceMeans DEF FenceParts
  <2> QED
    BY <1>h, <2>2, <2>4, <2>5, AfterRemoval
<1> QED
  BY <1>1, <1>2

\* Files left behind by dead processes are nobody's fence.
LEMMA FenceInit == Init => FenceParts
<1> SUFFICES ASSUME Init PROVE FenceParts
  OBVIOUS
<1>1. InFlight = {}
  BY DEF Init, InFlight
<1>2. ~HubComputes
  BY <1>1 DEF Init, HubComputes
<1>3. file.digest # "hub" /\ file.digest \notin Ext
  BY LeftoversAssumption, SchedulerAssumption DEF Init
<1> QED
  BY <1>2, <1>3 DEF Init, FenceParts, Consistent

\* The hub without the idle worker and the external processes, whether they renew
\* their leases or not: nobody gets on the GPU without a fence in force, and no step
\* of another party, of an operator or of a crash takes a fence in force from one
\* that is on the GPU.  A prewarm must not overtake a switch.  It is not mutual
\* exclusion: a fence that has outlived its lifetime is no longer in force, and the
\* hub does not renew its own.
THEOREM FenceKept ==
    ASSUME ~Worker, ~Overtaking
    PROVE  Spec => FenceHonoured
<1>1. Init => QInv /\ FenceParts
  BY QuietInit, FenceInit
<1>2. (QInv /\ FenceParts) /\ [Next]_vars => QInv' /\ Honours
  <2> SUFFICES ASSUME QInv, FenceParts, [Next]_vars PROVE QInv' /\ Honours
    OBVIOUS
  <2>1. QInv'
    BY TypeStep, WorkerOffStep, OnePreparationStep, OneModelStep DEF QInv
  <2>2. HubNext \/ UNCHANGED vars
    BY WorkerOffNext DEF QInv
  <2>3. Honours
    BY <2>2, SectionsHonour, ClaimsHonour, EndsHonour, ReleasesHonour, ExternalHonours,
       OthersHonour DEF HubNext
  <2> QED
    BY <2>1, <2>3
<1>3. (QInv /\ FenceParts) /\ [Next]_vars => (QInv /\ FenceParts)' /\ [FenceStep]_vars
  BY <1>2 DEF Honours
<1> QED
  BY <1>1, <1>3, PTL DEF Spec, FenceHonoured, FenceStep

-----------------------------------------------------------------------------
(* The idle worker beside foreground requests                              *)

\* Where the worker is without _setup_lock.
Roaming == {"out", "batch", "gpu", "busy", "cpu", "fallback", "yield", "yielded"}

\* A step of the worker that leaves its session and its server as they are
Steady == /\ bg'.lease = bg.lease /\ bg'.unconfirmed = bg.unconfirmed
          /\ runner' = runner

\* A stop that was confirmed, and one that was not
Stopped == ~bg'.lease /\ ~bg'.unconfirmed /\ runner' = "off"
Doubted == bg'.unconfirmed /\ bg'.lease = bg.lease /\ runner' = runner

\* What the steps of the worker and of the hook do to session, server and lock
LEMMA SessionMoves ==
    ASSUME TypeOK
    PROVE  /\ BeginBatches \/ ReuseSession \/ RunBatch \/ Fallback \/ BatchEnds \/ Yielded
                => Steady /\ bg'.lock = bg.lock /\ {bg.pc, bg'.pc} \subseteq Roaming
           /\ BeginBatches => Worker
           /\ AcquireBegins =>
                /\ bg.pc = "batch" /\ ~bg.unconfirmed /\ ~(bg.lease /\ runner # "off")
                /\ bg'.unconfirmed = bg.unconfirmed /\ runner' = runner
                /\ \/ bg'.pc = "starting" /\ bg'.lock = "worker" /\ bg'.lease /\ Observed.hub.lease
                   \/ bg'.pc = "unloading" /\ bg'.lock = "worker" /\ bg'.lease = bg.lease
                   \/ bg'.pc = "fallback" /\ bg'.lock = bg.lock /\ bg'.lease = bg.lease
                /\ bg.lock = None
           /\ AcquireEnds =>
                /\ bg.pc = "unloading" /\ bg'.unconfirmed = bg.unconfirmed /\ runner' = runner
                /\ \/ bg'.pc = "starting" /\ bg'.lock = bg.lock /\ bg'.lease /\ hub'.lease
                   \/ bg'.pc = "fallback" /\ bg'.lock = None /\ bg'.lease = bg.lease
           /\ StartRunner =>
                /\ bg.pc = "starting" /\ Settled /\ bg'.unconfirmed = bg.unconfirmed
                /\ \/ /\ bg'.pc = "check" /\ bg'.lock = bg.lock /\ bg'.lease = bg.lease
                      /\ runner' = "up"
                   \/ /\ bg'.pc = "fallback" /\ bg'.lock = None /\ ~bg'.lease
                      /\ runner' = runner
                   \/ /\ bg'.pc = "stop" /\ bg'.lock = bg.lock /\ bg'.lease = bg.lease
                      /\ runner' = runner
           /\ LoadModel =>
                /\ bg.pc = "check" /\ bg'.lock = bg.lock /\ bg'.lease = bg.lease
                /\ bg'.unconfirmed = bg.unconfirmed
                /\ \/ bg'.pc = "stop" /\ runner' = runner
                   \/ /\ bg'.pc = "loading" /\ runner' = "loaded"
                      /\ ~ForegroundRequested(Observed)
           /\ LoadEnds =>
                /\ bg.pc = "loading" /\ Steady
                /\ \/ bg'.pc = "gpu" /\ bg'.lock = None
                   \/ bg'.pc = "stop" /\ bg'.lock = bg.lock
           /\ Yield =>
                /\ bg.pc = "yield" /\ bg.lock = None /\ Steady
                /\ \/ bg'.pc = "yielding" /\ bg'.lock = "worker"
                   \/ bg'.pc \in Roaming /\ bg'.lock = None
           /\ WorkerStops =>
                /\ bg.pc \in {"stop", "yielding"} /\ bg'.pc \in Roaming /\ bg'.lock = None
                /\ Stopped \/ Doubted
           /\ HookBegins =>
                /\ hook = "start" /\ bg.lock = None /\ Steady /\ bg'.pc = bg.pc
                /\ \/ hook' = "stopping" /\ bg'.lock = "hook"
                   \/ hook' = "stopped" /\ bg'.lock = None /\ ~bg.lease
           /\ HookStops =>
                /\ hook = "stopping" /\ bg'.pc = bg.pc /\ bg'.lock = None
                /\ (hook' = "stopped" /\ Stopped) \/ (hook' = "failed" /\ Doubted)
<1> USE TypeParts DEF Workers, Steady, Roaming
<1>1. BeginBatches => /\ Steady /\ bg'.lock = bg.lock /\ {bg.pc, bg'.pc} \subseteq Roaming
                      /\ Worker
  BY DEF BeginBatches
<1>2. ReuseSession => Steady /\ bg'.lock = bg.lock /\ {bg.pc, bg'.pc} \subseteq Roaming
  BY DEF ReuseSession
<1>3. RunBatch => Steady /\ bg'.lock = bg.lock /\ {bg.pc, bg'.pc} \subseteq Roaming
  BY DEF RunBatch
<1>4. Fallback => Steady /\ bg'.lock = bg.lock /\ {bg.pc, bg'.pc} \subseteq Roaming
  BY DEF Fallback, Onward
<1>5. BatchEnds => Steady /\ bg'.lock = bg.lock /\ {bg.pc, bg'.pc} \subseteq Roaming
  BY DEF BatchEnds, Onward
<1>6. Yielded => Steady /\ bg'.lock = bg.lock /\ {bg.pc, bg'.pc} \subseteq Roaming
  BY DEF Yielded, Onward
<1>7. AcquireBegins =>
        /\ bg.pc = "batch" /\ ~bg.unconfirmed /\ ~(bg.lease /\ runner # "off")
        /\ bg'.unconfirmed = bg.unconfirmed /\ runner' = runner
        /\ \/ bg'.pc = "starting" /\ bg'.lock = "worker" /\ bg'.lease /\ Observed.hub.lease
           \/ bg'.pc = "unloading" /\ bg'.lock = "worker" /\ bg'.lease = bg.lease
           \/ bg'.pc = "fallback" /\ bg'.lock = bg.lock /\ bg'.lease = bg.lease
        /\ bg.lock = None
  BY DEF AcquireBegins
<1>8. AcquireEnds =>
        /\ bg.pc = "unloading" /\ bg'.unconfirmed = bg.unconfirmed /\ runner' = runner
        /\ \/ bg'.pc = "starting" /\ bg'.lock = bg.lock /\ bg'.lease /\ hub'.lease
           \/ bg'.pc = "fallback" /\ bg'.lock = None /\ bg'.lease = bg.lease
  <2>1. Observed.hub \in Hubs
    BY SectionGates
  <2>2. [Observed.hub EXCEPT !.switching = FALSE, !.lease = TRUE, !.active = None].lease
    BY <2>1 DEF Hubs
  <2> QED
    BY <2>2 DEF AcquireEnds
<1>9. StartRunner =>
        /\ bg.pc = "starting" /\ Settled /\ bg'.unconfirmed = bg.unconfirmed
        /\ \/ /\ bg'.pc = "check" /\ bg'.lock = bg.lock /\ bg'.lease = bg.lease
              /\ runner' = "up"
           \/ /\ bg'.pc = "fallback" /\ bg'.lock = None /\ ~bg'.lease
              /\ runner' = runner
           \/ /\ bg'.pc = "stop" /\ bg'.lock = bg.lock /\ bg'.lease = bg.lease
              /\ runner' = runner
  BY DEF StartRunner
<1>10. LoadModel =>
        /\ bg.pc = "check" /\ bg'.lock = bg.lock /\ bg'.lease = bg.lease
        /\ bg'.unconfirmed = bg.unconfirmed
        /\ \/ bg'.pc = "stop" /\ runner' = runner
           \/ bg'.pc = "loading" /\ runner' = "loaded" /\ ~ForegroundRequested(Observed)
  BY DEF LoadModel
<1>11. LoadEnds =>
        /\ bg.pc = "loading" /\ Steady
        /\ \/ bg'.pc = "gpu" /\ bg'.lock = None
           \/ bg'.pc = "stop" /\ bg'.lock = bg.lock
  BY DEF LoadEnds
<1>12. Yield =>
        /\ bg.pc = "yield" /\ bg.lock = None /\ Steady
        /\ \/ bg'.pc = "yielding" /\ bg'.lock = "worker"
           \/ bg'.pc \in Roaming /\ bg'.lock = None
  BY DEF Yield, Onward
<1>13. WorkerStops =>
        /\ bg.pc \in {"stop", "yielding"} /\ bg'.pc \in Roaming /\ bg'.lock = None
        /\ Stopped \/ Doubted
  BY DEF WorkerStops, StopConfirmed, StopUnconfirmed, Stopped, Doubted
<1>14. HookBegins =>
        /\ hook = "start" /\ bg.lock = None /\ Steady /\ bg'.pc = bg.pc
        /\ \/ hook' = "stopping" /\ bg'.lock = "hook"
           \/ hook' = "stopped" /\ bg'.lock = None /\ ~bg.lease
  BY DEF HookBegins
<1>15. HookStops =>
        /\ hook = "stopping" /\ bg'.pc = bg.pc /\ bg'.lock = None
        /\ (hook' = "stopped" /\ Stopped) \/ (hook' = "failed" /\ Doubted)
  BY DEF HookStops, StopConfirmed, StopUnconfirmed, Stopped, Doubted
<1> QED
  BY <1>1, <1>2, <1>3, <1>4, <1>5, <1>6, <1>7, <1>8, <1>9, <1>10, <1>11, <1>12, <1>13, <1>14,
     <1>15

\* _setup_lock: the worker or the hook holds it, and where.
LockHeld ==
    /\ bg.lock = "worker" <=> bg.pc \notin Roaming
    /\ bg.lock = "hook" <=> hook = "stopping"

\* One hook at a time, behind the flag _foreground_preempting.
OneHook ==
    /\ hook # "off" => hub.preempting
    /\ \A j \in Jobs : job[j].then = "hook" =>
          /\ hook = "off" /\ hub.preempting
          /\ \A k \in Jobs : job[k].then = "hook" => k = j

\* The worker's server holds its model and can be told to go.
Standing == runner = "loaded" /\ ~bg.unconfirmed

\* A session that is being set up is leased, has no model loaded before its last
\* look, and while the hook is under way the dispatcher is gated.
Leased ==
    /\ bg.pc \in {"starting", "check", "loading"} => bg.lease
    /\ bg.pc \in {"unloading", "starting", "check"} => runner # "loaded"
    /\ bg.lease => hub.lease \/ ~hub.preempting
    /\ ~Worker => bg.pc = "out" /\ runner = "off"

\* The gate is about to be lifted: by the hook that is done, or by a request that
\* was accepted while the hook ran.
Lifting ==
    \/ hook \in {"stopped", "failed"}
    \/ ~hub.preempting /\ \E j \in Jobs : job[j].then = "ungate"

\* That happens after a stop, before the next server is started.
LiftedEmpty == Lifting => bg.pc \notin {"check", "loading"} /\ ~Standing

\* While the server holds its model nothing is in flight, and nothing waits that is
\* not behind the gate.
Gated == Standing => bg.lease /\ InFlight = {} /\ (hub.lease \/ Pending = {})

YInv == TypeOK /\ LockHeld /\ OneHook /\ Leased /\ LiftedEmpty /\ Gated

\* The gate and the flag of the hook after a step that touches neither
SameGuards == hub'.lease = hub.lease /\ hub'.preempting = hub.preempting

\* What an accepted or rejected request does to the gate
LEMMA SubmitMoves ==
    ASSUME TypeOK, Jobs = Foreground, NEW j \in Jobs, Submit(j)
    PROVE  /\ UNCHANGED <<disp, hook, bg, runner>>
           /\ \A k \in Jobs \ {j} : job'[k] = job[k]
           /\ \/ SameGuards /\ job'[j] = [job[j] EXCEPT !.st = "done"]
              \/ /\ Worker /\ ~hub.preempting /\ hub'.lease /\ hub'.preempting
                 /\ job'[j].then = "hook" /\ job'[j].st = "pending"
              \/ /\ ~Worker \/ hub.preempting
                 /\ SameGuards /\ job'[j].then = "ungate" /\ job'[j].st = "pending"
<1> USE TypeParts, SectionGates DEF SameGates
<1>0. job \in [Jobs -> Requests] /\ Observed.hub \in Hubs
  OBVIOUS
<1> DEFINE h == Observed.hub
           hooked == Worker /\ ~h.preempting
           acc == [h EXCEPT !.quiet = 0, !.preempting = h.preempting \/ hooked,
                            !.lease = h.lease \/ hooked]
           turn == IF hooked THEN "hook" ELSE "ungate"
<1>1. h.preempting = hub.preempting /\ h.lease = hub.lease
      /\ h.preempting \in BOOLEAN /\ h.lease \in BOOLEAN
  BY <1>0 DEF Hubs
<1>2. \/ job' = [job EXCEPT ![j].st = "done"] /\ hub' = h
      \/ job' = [job EXCEPT ![j].st = "pending", ![j].then = turn] /\ hub' = acc
  BY <1>0 DEF Submit
<1>3. acc.preempting = (h.preempting \/ hooked) /\ acc.lease = (h.lease \/ hooked)
  BY <1>0 DEF Hubs
<1>4. UNCHANGED <<disp, hook, bg, runner>>
  BY DEF Submit
<1>5. CASE job' = [job EXCEPT ![j].st = "done"] /\ hub' = h
  BY <1>0, <1>1, <1>4, <1>5 DEF SameGuards
<1>6. CASE job' = [job EXCEPT ![j].st = "pending", ![j].then = turn] /\ hub' = acc
  <2>1. \A k \in Jobs \ {j} : job'[k] = job[k]
    BY <1>0, <1>6
  <2>2. job'[j].then = turn /\ job'[j].st = "pending"
    BY <1>0, <1>6 DEF Requests
  <2>3. hub'.preempting = (h.preempting \/ hooked) /\ hub'.lease = (h.lease \/ hooked)
    BY <1>3, <1>6
  <2>4. CASE hooked
    BY <1>1, <1>4, <2>1, <2>2, <2>3, <2>4
  <2>5. CASE ~hooked
    <3>1. SameGuards /\ (~Worker \/ hub.preempting)
      BY <1>1, <2>3, <2>5 DEF SameGuards
    <3> QED
      BY <1>4, <2>1, <2>2, <2>5, <3>1
  <2> QED
    BY <2>4, <2>5
<1> QED
  BY <1>2, <1>5, <1>6

\* Who moves the gate
LEMMA GuardsMove ==
    ASSUME TypeOK, [Next]_vars
    PROVE  \/ SameGuards
           \/ \E j \in Jobs : Submit(j)
           \/ \E j \in Jobs : Ungate(j) /\ hub'.lease = (hub.lease /\ hub.preempting)
                                        /\ hub'.preempting = hub.preempting
           \/ HookEnds /\ ~hub'.preempting
           \/ (WorkerStops \/ HookStops \/ StartRunner) /\ ~bg'.lease
                /\ hub'.preempting = hub.preempting
           \/ AcquireEnds /\ hub'.lease /\ hub'.preempting = hub.preempting
<1> USE TypeParts, SectionGates DEF SameGates, SameGuards
<1>r. ReleaseBackground(hub, file).hub.preempting = hub.preempting
  <2> DEFINE h == [hub EXCEPT !.lease = FALSE]
  <2>1. h \in Hubs /\ h.preempting = hub.preempting
    BY DEF Hubs
  <2> HIDE DEF h
  <2>2. SameGates(h, ReleaseInternal(h, file).hub)
    BY <2>1, ReleaseKeeps
  <2> QED
    BY <2>1, <2>2 DEF ReleaseBackground, h
<1>0. CASE UNCHANGED hub
  BY <1>0
<1>1. CASE Poll \/ BeginBatches \/ ReuseSession \/ LoadModel \/ LoadEnds \/ RunBatch \/ BatchEnds
  BY <1>1 DEF Poll, BeginBatches, ReuseSession, LoadModel, LoadEnds, RunBatch, BatchEnds
<1>2. ASSUME NEW m \in Models, StartSwitch(m) PROVE SameGuards
  BY <1>2 DEF StartSwitch, Hubs
<1>3. ASSUME NEW j \in Jobs, Dispatch(j) PROVE SameGuards
  BY <1>3 DEF Dispatch, Hubs
<1>4. CASE ClaimIdleUnload
  BY <1>4 DEF ClaimIdleUnload, Hubs
<1>5. CASE UnloadEnds
  <2> DEFINE h == [hub EXCEPT !.active = None, !.switching = FALSE]
  <2>1. h \in Hubs /\ h.lease = hub.lease /\ h.preempting = hub.preempting
    BY DEF Hubs
  <2>2. hub' \in {h, ReleaseInternal(h, file).hub}
    BY <1>5 DEF UnloadEnds
  <2> HIDE DEF h
  <2> QED
    BY <2>1, <2>2, ReleaseKeeps
<1>6. ASSUME NEW m \in Models, Prewarm(m) PROVE SameGuards
  BY <1>6 DEF Prewarm, Hubs
<1>7. CASE WarmDone
  <2> DEFINE h == [hub EXCEPT !.preparing = FALSE,
                              !.uncertain = hub.uncertain \/ warm.pc = "cold"]
  <2>1. h \in Hubs /\ h.lease = hub.lease /\ h.preempting = hub.preempting
    BY ZenonT(60) DEF Hubs
  <2>2. hub' \in {h, ReleaseInternal(h, file).hub}
    BY <1>7 DEF WarmDone
  <2> HIDE DEF h
  <2> QED
    BY <2>1, <2>2, ReleaseKeeps
<1>8. CASE WorkerStops \/ HookStops
  <2>1. \/ UNCHANGED hub
        \/ hub' = ReleaseBackground(hub, file).hub /\ ~bg'.lease
    BY <1>8 DEF WorkerStops, HookStops, StopConfirmed, StopUnconfirmed, Workers
  <2> QED
    BY <1>8, <1>r, <2>1
<1>9. CASE StartRunner
  <2>1. \/ UNCHANGED hub
        \/ hub' = ReleaseBackground(hub, file).hub /\ ~bg'.lease
    BY <1>9 DEF StartRunner, Workers
  <2> QED
    BY <1>9, <1>r, <2>1
<1>10. CASE AcquireBegins
  <2>1. hub' \in {Observed.hub, [ClaimedHub(Observed) EXCEPT !.switching = TRUE]}
    BY <1>10 DEF AcquireBegins
  <2> QED
    BY <2>1 DEF Hubs
<1>11. CASE AcquireEnds
  <2> DEFINE h == [Observed.hub EXCEPT !.switching = FALSE]
             g == [Observed.hub EXCEPT !.switching = FALSE, !.lease = TRUE, !.active = None]
  <2>1. /\ h \in Hubs /\ h.lease = hub.lease /\ h.preempting = hub.preempting
        /\ g.lease /\ g.preempting = hub.preempting
    BY DEF Hubs
  <2>2. hub' \in {g, ReleaseInternal(h, Observed.file).hub}
    BY <1>11 DEF AcquireEnds
  <2> HIDE DEF h, g
  <2>3. SameGates(h, ReleaseInternal(h, Observed.file).hub)
    BY <2>1, ObserveKeeps, ReleaseKeeps DEF Observed
  <2> QED
    BY <1>11, <2>1, <2>2, <2>3
<1>12. CASE OperatorRelease
  <2>1. [File(None, None) EXCEPT !.marker = TRUE] \in Files
    BY DEF Files, File
  <2> QED
    BY <1>12, <2>1, ObserveKeeps DEF OperatorRelease
<1>13. ASSUME NEW j \in Jobs, Ungate(j)
       PROVE  /\ hub'.lease = (hub.lease /\ hub.preempting)
              /\ hub'.preempting = hub.preempting
  BY <1>13 DEF Ungate, Hubs
<1>14. CASE SwitchEnds \/ WarmEnds
  <2>1. CASE SwitchEnds
    BY <2>1 DEF SwitchEnds, Prepared, PrepareFails, Hubs
  <2>2. CASE WarmEnds
    BY <2>2 DEF WarmEnds, Prepared, PrepareFails, Hubs
  <2> QED
    BY <1>14, <2>1, <2>2
<1>15. CASE Switched \/ Quiet \/ Cool
  BY <1>15 DEF Switched, Quiet, Cool, Hubs
<1>16. ASSUME NEW j \in Jobs, RunEnds(j) PROVE SameGuards
  <2>1. Touched(hub, j) \in Hubs /\ Touched(hub, j).lease = hub.lease
        /\ Touched(hub, j).preempting = hub.preempting
    BY DEF Hubs, Touched
  <2>2. \E a \in {hub.active, None} : hub' \in {[Touched(hub, j) EXCEPT !.active = a],
                                              [Touched(hub, j) EXCEPT !.uncertain = TRUE]}
    BY <1>16 DEF RunEnds
  <2> QED
    BY <2>1, <2>2 DEF Hubs
<1>17. CASE HookEnds
  BY <1>17 DEF HookEnds, Hubs
<1> QED
  BY <1>0, <1>1, <1>2, <1>3, <1>4, <1>5, <1>6, <1>7, <1>8, <1>9, <1>10, <1>11, <1>12, <1>13,
     <1>14, <1>15, <1>16, <1>17, ChangesHub

\* The worker's own steps leave requests, hook and dispatcher alone.
LEMMA WorkerLeaves ==
    ASSUME \/ BeginBatches \/ ReuseSession \/ AcquireBegins \/ AcquireEnds \/ StartRunner
           \/ LoadModel \/ LoadEnds \/ RunBatch \/ Fallback \/ BatchEnds \/ Yield
           \/ WorkerStops \/ Yielded
    PROVE  UNCHANGED <<job, hook, disp>>
BY DEF BeginBatches, ReuseSession, AcquireBegins, AcquireEnds, StartRunner, LoadModel, LoadEnds,
  RunBatch, Fallback, BatchEnds, Yield, WorkerStops, Yielded

\* A step that moves no request between the sections of submit
SameTurns == \A k \in Jobs : job'[k].then = job[k].then

\* Only submit moves a request between its sections.
LEMMA TurnsMove ==
    ASSUME TypeOK, [Next]_vars
    PROVE  \/ SameTurns
           \/ \E j \in Jobs : Submit(j)
           \/ \E j \in Jobs : /\ StartHook(j) \/ Ungate(j)
                              /\ job'[j].then = "none"
                              /\ \A k \in Jobs \ {j} : job'[k].then = job[k].then
<1> USE TypeParts DEF SameTurns
<1>0. CASE UNCHANGED job
  BY <1>0
<1>1. ASSUME NEW j \in Jobs, StartHook(j) \/ Ungate(j)
      PROVE  /\ job'[j].then = "none"
             /\ \A k \in Jobs \ {j} : job'[k].then = job[k].then
  BY <1>1 DEF StartHook, Ungate, Requests
<1>2. ASSUME NEW j \in Jobs, Leave(j) PROVE SameTurns
  BY <1>2 DEF Leave, Requests
<1>3. ASSUME NEW j \in Jobs, Dispatch(j) PROVE SameTurns
  BY <1>3 DEF Dispatch, Requests
<1>4. CASE SwitchEnds
  BY <1>4 DEF SwitchEnds, Requests, Prepared, PrepareFails, Failed
<1>5. CASE WarmEnds
  BY <1>5 DEF WarmEnds, Requests, Prepared, PrepareFails, Failed
<1>6. ASSUME NEW j \in Jobs, Execute(j) PROVE SameTurns
  BY <1>6 DEF Execute, Requests
<1>7. ASSUME NEW j \in Jobs, RunEnds(j) PROVE SameTurns
  BY <1>7 DEF RunEnds, Requests
<1> QED
  BY <1>0, <1>1, <1>2, <1>3, <1>4, <1>5, <1>6, <1>7, ChangesJob

\* Only submit adds to the queue.
LEMMA PendingShrinks ==
    ASSUME TypeOK, [Next]_vars, ~(\E j \in Jobs : Submit(j))
    PROVE  Pending' \subseteq Pending
<1> USE TypeParts
<1>0. CASE UNCHANGED job
  BY <1>0 DEF Pending
<1>1. ASSUME NEW j \in Jobs, StartHook(j) \/ Ungate(j) PROVE Pending' \subseteq Pending
  BY <1>1 DEF StartHook, Ungate, Pending, Requests
<1>2. ASSUME NEW j \in Jobs, Leave(j) PROVE Pending' \subseteq Pending
  BY <1>2 DEF Leave, Pending, Requests
<1>3. ASSUME NEW j \in Jobs, Dispatch(j) PROVE Pending' \subseteq Pending
  BY <1>3 DEF Dispatch, Pending, Requests
<1>4. CASE SwitchEnds
  BY <1>4 DEF SwitchEnds, Pending, Requests, Prepared, PrepareFails, Failed, OfModel
<1>5. CASE WarmEnds
  BY <1>5 DEF WarmEnds, Pending, Requests, Prepared, PrepareFails, Failed, OfModel
<1>6. ASSUME NEW j \in Jobs, Execute(j) PROVE Pending' \subseteq Pending
  BY <1>6 DEF Execute, Pending, Requests
<1>7. ASSUME NEW j \in Jobs, RunEnds(j) PROVE Pending' \subseteq Pending
  BY <1>7 DEF RunEnds, Pending, Requests
<1> QED
  BY <1>0, <1>1, <1>2, <1>3, <1>4, <1>5, <1>6, <1>7, ChangesJob

\* The lock is taken and given back by its holder.
LEMMA LockStep ==
    ASSUME YInv, [Next]_vars
    PROVE  LockHeld'
<1> USE SchedulerAssumption DEF YInv, LockHeld
<1>0. bg.lock \in {None, "hook", "worker"} /\ LockHeld /\ OneHook
  BY TypeParts DEF Workers
<1>1. CASE UNCHANGED bg /\ ~HookBegins /\ ~HookStops
  <2>1. \/ UNCHANGED hook
        \/ hook' \in {"start", "off"} /\ hook # "stopping"
    BY <1>1, ChangesHook DEF StartHook, HookEnds, OneHook
  <2> QED
    BY <1>0, <1>1, <2>1
<1>2. CASE BeginBatches \/ ReuseSession \/ RunBatch \/ Fallback \/ BatchEnds \/ Yielded
  BY <1>0, <1>2, SessionMoves, WorkerLeaves
<1>3. CASE AcquireBegins \/ AcquireEnds
  BY <1>0, <1>3, SessionMoves, WorkerLeaves DEF Roaming
<1>4. CASE StartRunner \/ LoadModel \/ LoadEnds
  BY <1>0, <1>4, SessionMoves, WorkerLeaves DEF Roaming
<1>5. CASE Yield \/ WorkerStops
  BY <1>0, <1>5, SessionMoves, WorkerLeaves DEF Roaming
<1>6. CASE HookBegins
  BY <1>0, <1>6, SessionMoves
<1>7. CASE HookStops
  BY <1>0, <1>7, SessionMoves
<1> QED
  BY <1>1, <1>2, <1>3, <1>4, <1>5, <1>6, <1>7, ChangesBg

\* The flag _foreground_preempting keeps a second hook away.
LEMMA OneHookStep ==
    ASSUME Jobs = Foreground, YInv, [Next]_vars
    PROVE  OneHook'
<1> USE DEF YInv
<1>0. TypeOK /\ OneHook /\ job \in [Jobs -> Requests] /\ hook \in Hooks
  BY TypeParts
<1>1. ASSUME NEW j \in Jobs, Submit(j) PROVE OneHook'
  <2>1. /\ UNCHANGED hook
        /\ \A k \in Jobs \ {j} : job'[k] = job[k]
        /\ \/ SameGuards /\ job'[j] = [job[j] EXCEPT !.st = "done"]
           \/ /\ ~hub.preempting /\ hub'.preempting
              /\ job'[j].then = "hook"
           \/ SameGuards /\ job'[j].then = "ungate"
    BY <1>0, <1>1, SubmitMoves
  <2>2. [job[j] EXCEPT !.st = "done"].then = job[j].then
    BY <1>0 DEF Requests
  <2>3. CASE \A k \in Jobs : job'[k].then = "hook" => job[k].then = "hook"
    BY <1>0, <2>1, <2>3 DEF OneHook, SameGuards
  <2>4. CASE ~hub.preempting /\ hub'.preempting /\ job'[j].then = "hook"
    <3>1. hook' = "off" /\ \A k \in Jobs \ {j} : job'[k].then # "hook"
      BY <1>0, <2>1, <2>4 DEF OneHook
    <3> QED
      BY <2>4, <3>1 DEF OneHook
  <2> QED
    BY <2>1, <2>2, <2>3, <2>4
<1>2. ASSUME NEW j \in Jobs, StartHook(j) PROVE OneHook'
  <2>1. /\ job[j].then = "hook" /\ hook' = "start" /\ UNCHANGED hub
        /\ job'[j].then = "none" /\ \A k \in Jobs \ {j} : job'[k].then = job[k].then
    BY <1>0, <1>2 DEF StartHook, Requests
  <2> QED
    BY <1>0, <2>1 DEF OneHook
<1>3. ASSUME NEW j \in Jobs, Ungate(j) PROVE OneHook'
  <2>1. /\ UNCHANGED hook /\ hub'.preempting = hub.preempting
        /\ job'[j].then = "none" /\ \A k \in Jobs \ {j} : job'[k].then = job[k].then
    BY <1>0, <1>3, TypeParts DEF Ungate, Requests, Hubs
  <2> QED
    BY <1>0, <2>1 DEF OneHook
<1>4. CASE HookEnds
  BY <1>0, <1>4 DEF HookEnds, OneHook
<1>5. CASE /\ ~HookEnds
           /\ \A j \in Jobs : ~Submit(j) /\ ~StartHook(j) /\ ~Ungate(j)
  <2>1. SameTurns
    BY <1>0, <1>5, TurnsMove
  <2>2. hub'.preempting = hub.preempting
    BY <1>0, <1>5, GuardsMove DEF SameGuards
  <2>3. (hook = "off" <=> hook' = "off")
    BY <1>0, <1>5, ChangesHook DEF HookBegins, HookStops
  <2> QED
    BY <1>0, <2>1, <2>2, <2>3 DEF OneHook, SameTurns
<1> QED
  BY <1>1, <1>2, <1>3, <1>4, <1>5

\* Who gives the session its lease, and who is past _acquire_session
LEMMA LeasedStep ==
    ASSUME Jobs = Foreground, YInv, [Next]_vars
    PROVE  Leased'
<1> USE DEF YInv
<1>0. /\ TypeOK /\ LockHeld /\ Leased /\ Gated
      /\ bg.lock \in {None, "hook", "worker"} /\ hub.lease \in BOOLEAN
  BY TypeParts DEF Workers, Hubs
<1>1. hook = "stopping" => bg.pc \in Roaming
  BY <1>0, SchedulerAssumption DEF LockHeld
<1>2. bg'.pc \in {"starting", "check", "loading"} => bg'.lease
  <2>1. CASE UNCHANGED bg
    BY <1>0, <2>1 DEF Leased
  <2>2. CASE \/ BeginBatches \/ ReuseSession \/ RunBatch \/ Fallback \/ BatchEnds \/ Yielded
             \/ Yield \/ WorkerStops
    BY <1>0, <2>2, SessionMoves DEF Roaming
  <2>3. CASE AcquireBegins \/ AcquireEnds \/ StartRunner \/ LoadModel \/ LoadEnds
    BY <1>0, <2>3, SessionMoves DEF Leased
  <2>4. CASE HookBegins
    BY <1>0, <2>4, SessionMoves DEF Leased, Steady
  <2>5. CASE HookStops
    BY <1>0, <1>1, <2>5, SessionMoves DEF Roaming
  <2> QED
    BY <2>1, <2>2, <2>3, <2>4, <2>5, ChangesBg
<1>3. bg'.pc \in {"unloading", "starting", "check"} => runner' # "loaded"
  <2>1. CASE UNCHANGED bg
    <3>1. CASE UNCHANGED runner
      BY <1>0, <2>1, <3>1 DEF Leased
    <3>2. CASE StartRunner \/ LoadModel \/ WorkerStops \/ HookStops
      BY <1>0, <1>1, <2>1, <3>2, SessionMoves DEF Roaming
    <3> QED
      BY <3>1, <3>2, ChangesRunner
  <2>2. CASE \/ BeginBatches \/ ReuseSession \/ RunBatch \/ Fallback \/ BatchEnds \/ Yielded
             \/ Yield \/ WorkerStops
    BY <1>0, <2>2, SessionMoves DEF Roaming
  <2>3. CASE AcquireBegins
    BY <1>0, <2>3, SessionMoves DEF Gated, Standing
  <2>4. CASE AcquireEnds \/ StartRunner \/ LoadModel \/ LoadEnds
    BY <1>0, <2>4, SessionMoves DEF Leased
  <2>5. CASE HookBegins
    BY <1>0, <2>5, SessionMoves DEF Leased, Steady
  <2>6. CASE HookStops
    BY <1>0, <1>1, <2>6, SessionMoves DEF Roaming
  <2> QED
    BY <2>1, <2>2, <2>3, <2>4, <2>5, <2>6, ChangesBg
<1>4. bg'.lease => bg.lease \/ (AcquireBegins /\ hub.lease) \/ (AcquireEnds /\ hub'.lease)
  <2>1. Observed.hub.lease = hub.lease
    BY <1>0, SectionGates DEF SameGates
  <2>2. CASE \/ BeginBatches \/ ReuseSession \/ RunBatch \/ Fallback \/ BatchEnds \/ Yielded
             \/ Yield \/ LoadEnds \/ HookBegins
    BY <1>0, <2>2, SessionMoves DEF Steady
  <2>3. CASE AcquireBegins \/ AcquireEnds
    BY <1>0, <2>1, <2>3, SessionMoves
  <2>4. CASE StartRunner \/ LoadModel \/ WorkerStops \/ HookStops
    BY <1>0, <2>4, SessionMoves DEF Stopped, Doubted
  <2> QED
    BY <2>2, <2>3, <2>4, ChangesBg
<1>5. bg'.lease => hub'.lease \/ ~hub'.preempting
  <2>1. ASSUME NEW j \in Jobs, Submit(j), bg'.lease PROVE hub'.lease \/ ~hub'.preempting
    <3>1. UNCHANGED bg
      BY <1>0, <2>1, SubmitMoves
    <3>2. hub'.lease \/ SameGuards
      BY <1>0, <2>1, SubmitMoves
    <3> QED
      BY <1>0, <2>1, <3>1, <3>2 DEF Leased, SameGuards
  <2>2. ASSUME SameGuards, bg'.lease PROVE hub'.lease \/ ~hub'.preempting
    BY <1>0, <1>4, <2>2 DEF Leased, SameGuards
  <2>3. ASSUME NEW j \in Jobs, Ungate(j), bg'.lease,
               hub'.lease = (hub.lease /\ hub.preempting), hub'.preempting = hub.preempting
        PROVE  hub'.lease \/ ~hub'.preempting
    <3>1. UNCHANGED bg
      BY <2>3 DEF Ungate
    <3> QED
      BY <1>0, <2>3, <3>1 DEF Leased
  <2> QED
    BY <1>0, <2>1, <2>2, <2>3, GuardsMove
<1>6. ~Worker => bg'.pc = "out" /\ runner' = "off"
  <2> SUFFICES ASSUME ~Worker PROVE bg'.pc = "out" /\ runner' = "off"
    OBVIOUS
  <2>1. bg.pc = "out" /\ runner = "off"
    BY <1>0 DEF Leased
  <2>2. ~(\/ ReuseSession \/ AcquireBegins \/ AcquireEnds \/ StartRunner \/ LoadModel
          \/ LoadEnds \/ RunBatch \/ Fallback \/ BatchEnds \/ Yield \/ WorkerStops
          \/ Yielded)
    BY <2>1 DEF ReuseSession, AcquireBegins, AcquireEnds, StartRunner, LoadModel, LoadEnds,
      RunBatch, Fallback, BatchEnds, Yield, WorkerStops, Yielded
  <2>3. ~BeginBatches
    BY <1>0, SessionMoves
  <2>4. bg'.pc = bg.pc
    BY <1>0, <2>2, <2>3, ChangesBg, SessionMoves
  <2>5. runner' = "off"
    BY <1>0, <2>1, <2>2, ChangesRunner, SessionMoves DEF Stopped, Doubted
  <2> QED
    BY <2>1, <2>4, <2>5
<1> QED
  BY <1>2, <1>3, <1>5, <1>6 DEF Leased

\* A server starts to hold its model in LoadModel only.
LEMMA StandingStep ==
    ASSUME YInv, [Next]_vars, Standing'
    PROVE  \/ Standing /\ (bg.lease => bg'.lease)
           \/ /\ LoadModel /\ bg.pc = "check" /\ bg'.lease = bg.lease
              /\ ~ForegroundRequested(Observed)
<1> USE DEF YInv, Standing
<1>0. TypeOK /\ Leased
  OBVIOUS
<1>1. CASE UNCHANGED bg
  <2>1. CASE UNCHANGED runner
    BY <1>1, <2>1
  <2>2. CASE StartRunner \/ LoadModel \/ WorkerStops \/ HookStops
    BY <1>0, <1>1, <2>2, SessionMoves DEF Stopped, Doubted
  <2> QED
    BY <2>1, <2>2, ChangesRunner
<1>2. CASE \/ BeginBatches \/ ReuseSession \/ RunBatch \/ Fallback \/ BatchEnds \/ Yielded
           \/ Yield \/ LoadEnds \/ HookBegins
  BY <1>0, <1>2, SessionMoves DEF Steady
<1>3. CASE AcquireBegins
  BY <1>0, <1>3, SessionMoves
<1>4. CASE AcquireEnds \/ StartRunner
  BY <1>0, <1>4, SessionMoves DEF Leased
<1>5. CASE LoadModel
  BY <1>0, <1>5, SessionMoves
<1>6. CASE WorkerStops \/ HookStops
  BY <1>0, <1>6, SessionMoves DEF Stopped, Doubted
<1> QED
  BY <1>1, <1>2, <1>3, <1>4, <1>5, <1>6, ChangesBg

\* The gate is lifted between sessions.
LEMMA LiftedStep ==
    ASSUME Jobs = Foreground, YInv, [Next]_vars
    PROVE  LiftedEmpty'
<1> USE DEF YInv
<1> SUFFICES ASSUME Lifting' PROVE bg'.pc \notin {"check", "loading"} /\ ~Standing'
  BY DEF LiftedEmpty
<1>0. /\ TypeOK /\ LockHeld /\ OneHook /\ Leased /\ LiftedEmpty /\ Gated
      /\ bg.lock \in {None, "hook", "worker"}
  BY TypeParts DEF Workers
<1>1. CASE Lifting
  <2>1. bg.pc \notin {"check", "loading"} /\ ~Standing
    BY <1>0, <1>1 DEF LiftedEmpty
  <2>2. ~Settled
    BY <1>1 DEF Lifting, Settled
  <2>3. bg'.pc \notin {"check", "loading"}
    <3>1. CASE \/ BeginBatches \/ ReuseSession \/ RunBatch \/ Fallback \/ BatchEnds \/ Yielded
               \/ Yield \/ WorkerStops
      BY <1>0, <3>1, SessionMoves DEF Roaming
    <3>2. CASE AcquireBegins \/ AcquireEnds \/ StartRunner \/ LoadModel \/ LoadEnds
      BY <1>0, <2>1, <2>2, <3>2, SessionMoves
    <3>3. CASE HookBegins \/ HookStops \/ UNCHANGED bg
      BY <1>0, <2>1, <3>3, SessionMoves
    <3> QED
      BY <3>1, <3>2, <3>3, ChangesBg
  <2> QED
    BY <2>1, <2>3, StandingStep
<1>2. CASE HookBegins
  <2>1. bg.lock = None /\ Steady /\ bg'.pc = bg.pc /\ hook = "start"
    BY <1>0, <1>2, SessionMoves
  <2>2. bg.pc \in Roaming
    BY <1>0, <2>1, SchedulerAssumption DEF LockHeld
  <2>3. CASE ~bg.lease
    BY <1>0, <2>1, <2>2, <2>3 DEF Roaming, Gated, Standing, Steady
  <2>4. CASE bg.lease
    <3>1. hook' = "stopping" /\ UNCHANGED <<job, hub>>
      BY <1>2, <2>4 DEF HookBegins
    <3>2. Lifting
      BY <3>1 DEF Lifting
    <3> QED
      BY <1>1, <3>2
  <2> QED
    BY <2>3, <2>4
<1>3. CASE HookStops
  <2>1. bg.pc \in Roaming /\ bg'.pc = bg.pc
    BY <1>0, <1>3, SessionMoves, SchedulerAssumption DEF LockHeld
  <2>2. ~Standing'
    BY <1>0, <1>3, SessionMoves DEF Stopped, Doubted, Standing
  <2> QED
    BY <2>1, <2>2 DEF Roaming
<1>4. ASSUME NEW j \in Jobs, Submit(j), ~Lifting
      PROVE  bg'.pc \notin {"check", "loading"} /\ ~Standing'
  <2>1. /\ UNCHANGED <<hook, bg, runner>>
        /\ \A k \in Jobs \ {j} : job'[k] = job[k]
        /\ \/ SameGuards /\ job'[j] = [job[j] EXCEPT !.st = "done"]
           \/ hub'.preempting
           \/ ~Worker
    BY <1>0, <1>4, SubmitMoves DEF SameGuards
  <2>2. [job[j] EXCEPT !.st = "done"].then = job[j].then
    BY <1>0, TypeParts DEF Requests
  <2>3. ~Worker
    BY <1>4, <2>1, <2>2 DEF Lifting, SameGuards
  <2> QED
    BY <1>0, <2>1, <2>3 DEF Leased, Standing
<1>5. CASE ~Lifting /\ ~HookBegins /\ ~HookStops /\ ~(\E j \in Jobs : Submit(j))
  <2>1. hook' \in {"stopped", "failed"} => hook \in {"stopped", "failed"}
    BY <1>5, ChangesHook DEF StartHook, HookEnds
  <2>2. \A j \in Jobs : job'[j].then = "ungate" => job[j].then = "ungate"
    BY <1>0, <1>5, TurnsMove DEF SameTurns
  <2>3. hub'.preempting = hub.preempting \/ HookEnds
    BY <1>0, <1>5, GuardsMove DEF SameGuards
  <2>4. ~HookEnds
    BY <1>5 DEF HookEnds, Lifting
  <2> QED
    BY <1>5, <2>1, <2>2, <2>3, <2>4 DEF Lifting
<1> QED
  BY <1>1, <1>2, <1>3, <1>4, <1>5

\* Nothing goes in flight beside the worker's model.
LEMMA GatedStep ==
    ASSUME Jobs = Foreground, YInv, [Next]_vars
    PROVE  Gated'
<1> USE DEF YInv
<1> SUFFICES ASSUME Standing'
             PROVE  bg'.lease /\ InFlight' = {} /\ (hub'.lease \/ Pending' = {})
  BY DEF Gated
<1>0. TypeOK /\ Leased /\ LiftedEmpty /\ Gated /\ hub.lease \in BOOLEAN
  BY TypeParts DEF Hubs
<1>1. CASE /\ LoadModel /\ bg.pc = "check" /\ bg'.lease = bg.lease
           /\ ~ForegroundRequested(Observed)
  <2>1. UNCHANGED job
    BY <1>1, WorkerLeaves
  <2>2. InFlight = {} /\ Pending = {}
    BY <1>1 DEF ForegroundRequested, ForegroundBusy, InFlight, Pending
  <2> QED
    BY <1>0, <1>1, <2>1, <2>2 DEF Leased, InFlight, Pending
<1>2. CASE Standing /\ (bg.lease => bg'.lease)
  <2>0. bg.lease /\ bg'.lease /\ InFlight = {} /\ (hub.lease \/ Pending = {}) /\ ~Lifting
    BY <1>0, <1>2 DEF Gated, LiftedEmpty
  <2>1. ASSUME NEW j \in Jobs, Dispatch(j) PROVE FALSE
    <3>1. ~LoopHead.hub.lease /\ j \in Eligible
      BY <2>1 DEF Dispatch, Ready
    <3>2. ~hub.lease /\ Pending # {}
      BY <1>0, <3>1, SectionGates DEF SameGates, Eligible
    <3> QED
      BY <2>0, <3>2
  <2>2. InFlight' = {}
    BY <1>0, <2>0, <2>1, FlightShrinks
  <2>3. ASSUME NEW j \in Jobs, Submit(j) PROVE hub'.lease \/ Pending' = {}
    <3>1. Worker
      BY <1>0, <1>2 DEF Leased, Standing
    <3>2. CASE SameGuards /\ job'[j] = [job[j] EXCEPT !.st = "done"]
      <4>1. \A k \in Jobs \ {j} : job'[k] = job[k]
        BY <1>0, <2>3, SubmitMoves
      <4>2. job'[j].st = "done"
        BY <1>0, <3>2, TypeParts DEF Requests
      <4>3. Pending' \subseteq Pending
        BY <4>1, <4>2 DEF Pending
      <4> QED
        BY <2>0, <3>2, <4>3 DEF SameGuards
    <3>3. CASE hub.preempting /\ SameGuards
      BY <1>0, <2>0, <3>3 DEF Leased, SameGuards
    <3> QED
      BY <1>0, <2>3, <3>1, <3>2, <3>3, SubmitMoves
  <2>4. CASE SameGuards /\ ~(\E j \in Jobs : Submit(j))
    <3>1. Pending' \subseteq Pending
      BY <1>0, <2>4, PendingShrinks
    <3> QED
      BY <2>0, <2>2, <2>4, <3>1 DEF SameGuards
  <2>5. ASSUME NEW j \in Jobs, Ungate(j), hub'.lease = (hub.lease /\ hub.preempting)
        PROVE  hub'.lease
    <3>1. job[j].then = "ungate"
      BY <2>5 DEF Ungate
    <3>2. hub.preempting
      BY <2>0, <3>1 DEF Lifting
    <3> QED
      BY <1>0, <2>0, <2>5, <3>2 DEF Leased
  <2>6. ~HookEnds
    BY <2>0 DEF HookEnds, Lifting
  <2>7. hub'.lease \/ Pending' = {}
    BY <1>0, <2>0, <2>3, <2>4, <2>5, <2>6, GuardsMove
  <2> QED
    BY <2>0, <2>2, <2>7
<1> QED
  BY <1>1, <1>2, StandingStep

\* The invariant holds at the start: there is no session yet.
LEMMA YieldInit == Init => YInv
<1> SUFFICES ASSUME Init PROVE YInv
  OBVIOUS
<1>1. TypeOK
  BY TypeInit
<1>2. bg.pc = "out" /\ ~bg.lease /\ bg.lock = None /\ runner = "off" /\ hook = "off"
  BY DEF Init
<1>3. \A j \in Jobs : job[j].then = "none"
  BY DEF Init
<1>4. LockHeld
  BY <1>2, SchedulerAssumption DEF LockHeld, Roaming
<1>5. OneHook /\ ~Lifting
  BY <1>2, <1>3 DEF OneHook, Lifting
<1>6. Leased /\ ~Standing
  BY <1>2 DEF Leased, Standing
<1> QED
  BY <1>1, <1>4, <1>5, <1>6 DEF YInv, LiftedEmpty, Gated

\* Every step keeps the invariant of the worker beside foreground requests.
LEMMA YieldStep ==
    ASSUME Jobs = Foreground, YInv, [Next]_vars
    PROVE  YInv'
BY TypeStep, LockStep, OneHookStep, LeasedStep, LiftedStep, GatedStep DEF YInv

\* The worker's server never holds its model beside a request in flight: for any
\* requests of the foreground, callers that leave, unknown outcomes, prewarms and
\* reservations included, as long as the stop of the server was not refused.
THEOREM WorkerYields ==
    ASSUME Jobs = Foreground
    PROVE  Spec => [](Standing => InFlight = {})
<1>1. Init => YInv
  BY YieldInit
<1>2. YInv /\ [Next]_vars => YInv'
  BY YieldStep
<1>3. YInv => (Standing => InFlight = {})
  BY DEF YInv, Gated
<1> QED
  BY <1>1, <1>2, <1>3, PTL DEF Spec

-----------------------------------------------------------------------------
(* The dispatcher's load beside the worker's                               *)

\* A model is loaded for requests that still wait for it.
Awaited == disp.pc = "switch" => Pending # {}

\* The dispatcher loads no model beside the worker's.
LoadsApart == Standing => disp.pc # "switch"

\* The dispatcher starts a load only past the gate, the worker its own only when
\* nothing waits.
LEMMA LoadsApartStep ==
    ASSUME Jobs = Foreground, YInv, Awaited, LoadsApart, [Next]_vars
    PROVE  LoadsApart'
<1> USE DEF YInv
<1> SUFFICES ASSUME Standing' PROVE disp'.pc # "switch"
  BY DEF LoadsApart
<1>0. TypeOK /\ Gated
  OBVIOUS
<1>1. CASE LoadModel /\ ~ForegroundRequested(Observed)
  <2>1. UNCHANGED disp
    BY <1>1, WorkerLeaves
  <2>2. Pending = {}
    BY <1>1 DEF ForegroundRequested, ForegroundBusy, Pending
  <2> QED
    BY <2>1, <2>2 DEF Awaited
<1>2. CASE Standing
  <2>1. ASSUME NEW m \in Models, StartSwitch(m) PROVE FALSE
    <3>1. ~LoopHead.hub.lease /\ Eligible # {}
      BY <2>1 DEF StartSwitch, Ready
    <3>2. ~hub.lease /\ Pending # {}
      BY <1>0, <3>1, SectionGates DEF SameGates, Eligible
    <3> QED
      BY <1>0, <1>2, <3>2 DEF Gated
  <2>2. CASE UNCHANGED disp
    BY <1>2, <2>2 DEF LoadsApart
  <2>3. CASE SwitchEnds \/ Switched \/ ClaimIdleUnload \/ UnloadEnds
    BY <1>0, <2>3, TypeParts DEF SwitchEnds, Switched, ClaimIdleUnload, UnloadEnds, Dispatchers
  <2> QED
    BY <2>1, <2>2, <2>3, ChangesDisp
<1> QED
  BY <1>1, <1>2, StandingStep

\* Hence BackgroundYields, in every behaviour in which the dispatcher's loads are
\* awaited to their end.
THEOREM AwaitedYields ==
    ASSUME Jobs = Foreground
    PROVE  Spec /\ []Awaited => []BackgroundYields
<1> DEFINE I == YInv /\ LoadsApart
<1>1. Init => I
  <2>1. Init => ~Standing
    BY DEF Init, Standing
  <2> QED
    BY <2>1, YieldInit DEF LoadsApart
<1>2. I /\ Awaited /\ [Next]_vars => I'
  BY YieldStep, LoadsApartStep
<1>3. I => BackgroundYields
  BY DEF YInv, Gated, LoadsApart, Standing, BackgroundYields
<1> QED
  BY <1>1, <1>2, <1>3, PTL DEF Spec

\* One thread at a time prepares a model, and the dispatcher only for a request
\* that waits.
OneLoader ==
    /\ disp.pc \in {"switch", "switched"} \/ warm.pc \in {"switch", "warm", "cold"}
         => hub.preparing
    /\ disp.pc \in {"switch", "switched"} => warm.pc \notin {"switch", "warm", "cold"}
    /\ Awaited

\* Who raises and lowers the preparation gate
LEMMA PreparingMoves ==
    ASSUME TypeOK, [Next]_vars
    PROVE  \/ hub'.preparing = hub.preparing
           \/ (\E m \in Models : StartSwitch(m) \/ Prewarm(m)) /\ hub'.preparing
           \/ Switched \/ WarmDone
<1> USE TypeParts, SectionGates DEF SameGates
<1>0. CASE UNCHANGED hub
  BY <1>0
<1>1. CASE Poll \/ BeginBatches \/ ReuseSession \/ LoadModel \/ LoadEnds \/ RunBatch \/ BatchEnds
  BY <1>1 DEF Poll, BeginBatches, ReuseSession, LoadModel, LoadEnds, RunBatch, BatchEnds
<1>2. ASSUME NEW m \in Models, StartSwitch(m) \/ Prewarm(m) PROVE hub'.preparing
  BY <1>2 DEF StartSwitch, Prewarm, Hubs
<1>3. ASSUME NEW j \in Jobs, Dispatch(j) PROVE hub'.preparing = hub.preparing
  BY <1>3 DEF Dispatch, Hubs
<1>4. CASE ClaimIdleUnload
  BY <1>4 DEF ClaimIdleUnload, Hubs
<1>5. CASE UnloadEnds
  <2> DEFINE h == [hub EXCEPT !.active = None, !.switching = FALSE]
  <2>1. h \in Hubs /\ h.preparing = hub.preparing
    BY DEF Hubs
  <2>2. hub' \in {h, ReleaseInternal(h, file).hub}
    BY <1>5 DEF UnloadEnds
  <2> HIDE DEF h
  <2> QED
    BY <2>1, <2>2, ReleaseKeeps
<1>6. CASE WorkerStops \/ HookStops \/ StartRunner
  <2> DEFINE h == [hub EXCEPT !.lease = FALSE]
  <2>1. h \in Hubs /\ h.preparing = hub.preparing
    BY DEF Hubs
  <2>2. UNCHANGED hub \/ hub' = ReleaseInternal(h, file).hub
    BY <1>6 DEF WorkerStops, HookStops, StartRunner, StopConfirmed, StopUnconfirmed,
      ReleaseBackground
  <2> HIDE DEF h
  <2> QED
    BY <2>1, <2>2, ReleaseKeeps
<1>7. CASE AcquireBegins
  <2>1. hub' \in {Observed.hub, [ClaimedHub(Observed) EXCEPT !.switching = TRUE]}
    BY <1>7 DEF AcquireBegins
  <2> QED
    BY <2>1 DEF Hubs
<1>8. CASE AcquireEnds
  <2> DEFINE h == [Observed.hub EXCEPT !.switching = FALSE]
             g == [Observed.hub EXCEPT !.switching = FALSE, !.lease = TRUE, !.active = None]
  <2>1. h \in Hubs /\ h.preparing = hub.preparing /\ g.preparing = hub.preparing
    BY DEF Hubs
  <2>2. hub' \in {g, ReleaseInternal(h, Observed.file).hub}
    BY <1>8 DEF AcquireEnds
  <2> HIDE DEF h, g
  <2>3. SameGates(h, ReleaseInternal(h, Observed.file).hub)
    BY <2>1, ObserveKeeps, ReleaseKeeps DEF Observed
  <2> QED
    BY <2>1, <2>2, <2>3
<1>9. CASE OperatorRelease
  <2>1. [File(None, None) EXCEPT !.marker = TRUE] \in Files
    BY DEF Files, File
  <2> QED
    BY <1>9, <2>1, ObserveKeeps DEF OperatorRelease
<1>10. ASSUME NEW j \in Jobs, Ungate(j) PROVE hub'.preparing = hub.preparing
  BY <1>10 DEF Ungate, Hubs
<1>11. CASE SwitchEnds \/ WarmEnds
  <2>1. CASE SwitchEnds
    BY <2>1 DEF SwitchEnds, Prepared, PrepareFails, Hubs
  <2>2. CASE WarmEnds
    BY <2>2 DEF WarmEnds, Prepared, PrepareFails, Hubs
  <2> QED
    BY <1>11, <2>1, <2>2
<1>12. CASE Quiet \/ Cool \/ HookEnds
  BY <1>12 DEF Quiet, Cool, HookEnds, Hubs
<1>13. ASSUME NEW j \in Jobs, RunEnds(j) PROVE hub'.preparing = hub.preparing
  <2>1. Touched(hub, j) \in Hubs /\ Touched(hub, j).preparing = hub.preparing
    BY DEF Hubs, Touched
  <2>2. \E a \in {hub.active, None} : hub' \in {[Touched(hub, j) EXCEPT !.active = a],
                                              [Touched(hub, j) EXCEPT !.uncertain = TRUE]}
    BY <1>13 DEF RunEnds
  <2> QED
    BY <2>1, <2>2 DEF Hubs
<1>14. ASSUME NEW j \in Jobs, Submit(j) PROVE hub'.preparing = hub.preparing
  <2> DEFINE h == Observed.hub
  <2>1. \E p, l \in BOOLEAN :
          hub' \in {h, [h EXCEPT !.quiet = 0, !.preempting = p, !.lease = l]}
    BY <1>14 DEF Submit, Hubs
  <2>2. h \in Hubs /\ h.preparing = hub.preparing
    OBVIOUS
  <2> HIDE DEF h
  <2> QED
    BY <2>1, <2>2 DEF Hubs
<1> QED
  BY <1>0, <1>1, <1>2, <1>3, <1>4, <1>5, <1>6, <1>7, <1>8, <1>9, <1>10, <1>11, <1>12, <1>13,
     <1>14, ChangesHub

\* Where no caller leaves and no prewarm slips between two sections of the
\* dispatcher, the request that a load is for waits until the load ends.
LEMMA OneLoaderStep ==
    ASSUME MaxLeaves = 0, ~Overtaking, TypeOK, OneLoader, [Next]_vars
    PROVE  OneLoader'
<1> USE TypeParts
<1>0. disp \in Dispatchers /\ warm \in Warmers /\ job \in [Jobs -> Requests]
      /\ hub.preparing \in BOOLEAN
  BY DEF Hubs
<1>1. ASSUME NEW m \in Models, StartSwitch(m) PROVE OneLoader'
  <2>1. ~hub.preparing /\ Eligible # {} /\ UNCHANGED <<job, warm>> /\ disp'.pc = "switch"
    BY <1>1 DEF StartSwitch, InLoop, Ready
  <2>2. hub'.preparing
    BY <1>1, SectionGates DEF StartSwitch, Hubs
  <2>3. Pending' = Pending /\ Pending # {}
    BY <2>1 DEF Eligible, Pending
  <2> QED
    BY <2>1, <2>2, <2>3 DEF OneLoader, Awaited
<1>2. ASSUME NEW m \in Models, Prewarm(m) PROVE OneLoader'
  <2>1. /\ UNCHANGED <<job, disp>> /\ Pending = {} /\ disp.pc # "switched"
        /\ warm'.pc = "switch"
    BY <1>2 DEF Prewarm
  <2>2. hub'.preparing
    BY <1>2, SectionGates DEF Prewarm, Hubs
  <2>3. disp.pc # "switch"
    BY <2>1 DEF OneLoader, Awaited
  <2> QED
    BY <2>1, <2>2, <2>3 DEF OneLoader, Awaited
<1>3. CASE Switched
  BY <1>3 DEF Switched, OneLoader, Awaited
<1>4. CASE WarmDone
  BY <1>4 DEF WarmDone, OneLoader, Awaited, Pending
<1>5. CASE SwitchEnds
  <2>1. disp.pc = "switch" /\ disp'.pc = "switched" /\ UNCHANGED warm
    BY <1>0, <1>5 DEF SwitchEnds, Dispatchers
  <2>2. hub'.preparing = hub.preparing
    BY <1>5 DEF SwitchEnds, Prepared, PrepareFails, Hubs
  <2> QED
    BY <2>1, <2>2 DEF OneLoader, Awaited
<1>6. CASE WarmEnds
  <2>1. warm.pc = "switch" /\ warm'.pc \in {"warm", "cold"} /\ UNCHANGED disp
    BY <1>0, <1>6 DEF WarmEnds, Warmers
  <2>2. hub'.preparing = hub.preparing
    BY <1>6 DEF WarmEnds, Prepared, PrepareFails, Hubs
  <2> QED
    BY <2>1, <2>2 DEF OneLoader, Awaited
<1>7. CASE /\ \A m \in Models : ~StartSwitch(m) /\ ~Prewarm(m)
           /\ ~Switched /\ ~WarmDone /\ ~SwitchEnds /\ ~WarmEnds
  <2>1. hub'.preparing = hub.preparing /\ UNCHANGED warm
    BY <1>7, PreparingMoves, ChangesWarm
  <2>2. \/ UNCHANGED disp
        \/ disp'.pc \in {"unload", "loop"} /\ disp.pc \in {"unload", "loop"}
    BY <1>0, <1>7, ChangesDisp DEF ClaimIdleUnload, UnloadEnds, InLoop, Dispatchers
  <2>3. ASSUME disp.pc = "switch", NEW j \in Jobs, job[j].st = "pending"
        PROVE  job'[j].st = "pending"
    <3>1. ASSUME NEW k \in Jobs, Submit(k) PROVE job'[j].st = "pending"
      <4>1. job[k].st = "new"
        BY <3>1 DEF Submit
      <4> QED
        BY <1>0, <2>3, <3>1, <4>1 DEF Submit
    <3>2. ASSUME NEW k \in Jobs, Leave(k) PROVE FALSE
      BY <3>2 DEF Leave, Budgets
    <3>3. ASSUME NEW k \in Jobs, StartHook(k) \/ Ungate(k) PROVE job'[j].st = "pending"
      BY <1>0, <2>3, <3>3 DEF StartHook, Ungate, Requests
    <3>4. ASSUME NEW k \in Jobs, Execute(k) \/ RunEnds(k) PROVE job'[j].st = "pending"
      BY <1>0, <2>3, <3>4 DEF Execute, RunEnds, Requests
    <3>5. ASSUME NEW k \in Jobs, Dispatch(k) PROVE FALSE
      BY <2>3, <3>5 DEF Dispatch, InLoop
    <3> QED
      BY <1>7, <2>3, <3>1, <3>2, <3>3, <3>4, <3>5, ChangesJob
  <2>4. Awaited'
    BY <2>2, <2>3 DEF OneLoader, Awaited, Pending
  <2> QED
    BY <2>1, <2>2, <2>4 DEF OneLoader
<1> QED
  BY <1>1, <1>2, <1>3, <1>4, <1>5, <1>6, <1>7

\* The dispatcher loads a model only for a request that waits for it.
THEOREM LoadsAwaited ==
    ASSUME MaxLeaves = 0, ~Overtaking
    PROVE  Spec => []Awaited
<1>1. Init => TypeOK /\ OneLoader
  <2>1. Init => OneLoader
    BY DEF Init, OneLoader, Awaited
  <2> QED
    BY <2>1, TypeInit
<1>2. TypeOK /\ OneLoader /\ [Next]_vars => (TypeOK /\ OneLoader)'
  BY TypeStep, OneLoaderStep
<1>3. OneLoader => Awaited
  BY DEF OneLoader
<1> QED
  BY <1>1, <1>2, <1>3, PTL DEF Spec

\* Where every request is a foreground one, no caller leaves and no prewarm slips
\* between two sections of the dispatcher, the worker's server holds its model
\* neither beside a request in flight nor beside a load of the dispatcher.
THEOREM BackgroundGivesWay ==
    ASSUME Jobs = Foreground, MaxLeaves = 0, ~Overtaking
    PROVE  Spec => []BackgroundYields
<1>1. Spec => []Awaited
  BY LoadsAwaited
<1>2. Spec /\ []Awaited => []BackgroundYields
  BY AwaitedYields
<1> QED
  BY <1>1, <1>2
=============================================================================
