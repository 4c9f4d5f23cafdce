--------------------------- MODULE WorkOrdersProofs ---------------------------
(***************************************************************************)
(* Theorems about WorkOrders, for every set of orders and files and every  *)
(* bound.  Where a theorem needs that attempts do not lapse under a        *)
(* working thread or that one worker and one recovery thread run, it says  *)
(* so.                                                                     *)
(***************************************************************************)
EXTENDS WorkOrders, FiniteSetTheorems, SequenceTheorems, WellFoundedInduction, TLAPS

-----------------------------------------------------------------------------
(* Shapes *)

Journals == Seq(Entry)
Todos == UNION {[D -> Version] : D \in SUBSET File}

WorkPcs == {"idle", "picked", "checked", "begin", "plan", "step", "body", "verify", "apply",
            "unapply", "rollback", "restore", "clear", "ending", "delivered", "raise", "release"}
PassPcs == {"idle", "pass", "loaded", "claimed", "restore", "clear", "update", "release",
            "cleanup"}
\* Inside commit_guard
Inside == {"apply", "unapply", "restore", "clear"}
\* A recovery pass deals with one order.
Dealing == {"loaded", "claimed", "restore", "clear", "update", "release"}

RequestRec == [mode : {"execute", "bounded", "plan"}, keep : BOOLEAN]
ResultRec == [changed : BOOLEAN, checkpoint : BOOLEAN, handoff : BOOLEAN, unsafe : BOOLEAN]
RowRec == [state : State, cancel : BOOLEAN, answered : BOOLEAN, request : RequestRec,
           result : ResultRec]
AttemptRec == [token : Nat, live : BOOLEAN]
Holders == {None} \cup (Order \X {"work", "recovery"})
Picked == [order : Order, state : State, result : ResultRec]
ThreadRec ==
    [pc : WorkPcs \cup PassPcs, order : Order \cup {None}, token : Nat, journal : Journals,
     start : Nat, todo : Todos, steps : Int, edited : BOOLEAN, back : {"body", "verify"},
     goal : Terminal, rows : SUBSET (Picked \cup Order), seen : State, result : ResultRec,
     ok : BOOLEAN, late : BOOLEAN]

Tables ==
    /\ row \in [Order -> RowRec]
    /\ file \in [File -> Version]
    /\ journal \in [Order -> Journals]
    /\ attempt \in [Order -> AttemptRec]
    /\ lease \in [File -> Holders]
    /\ up \in [Instance -> {"down", "starting", "up", "stopping"}]
    /\ retry \subseteq Instance
    /\ patches \in 0..MaxPatches

Threads == th \in [Thread -> ThreadRec] /\ lock \in {None} \cup Thread

\* The write lock is held by exactly the thread inside commit_guard.
Locks == \A t \in Thread : lock = t <=> th[t].pc \in Inside

\* What the variables of thread t mean where it is
Placed(t, rec) ==
    /\ t \in Worker => /\ rec.pc \in WorkPcs
                       /\ rec.pc # "idle" => rec.order \in Order
    /\ t \in Recoverer => /\ rec.pc \in PassPcs
                          /\ rec.pc \in Dealing => rec.order \in Order
                          /\ rec.pc = "cleanup" => rec.rows \subseteq Order
                          /\ rec.pc \in Dealing \cup {"pass"} => rec.rows \subseteq Picked
    /\ rec.pc \in {"apply", "unapply"} => rec.start \in 0..Len(rec.journal)

Places == \A t \in Thread : Placed(t, th[t])

TInv == Tables /\ Threads /\ Locks /\ Places

-----------------------------------------------------------------------------
(* Sets of natural numbers, and sequences of a set's elements *)

\* A set of indices has a first one, which Min returns.
LEMMA MinIndex ==
    ASSUME NEW S \in SUBSET Nat, S # {}
    PROVE  Min(S) \in S /\ \A n \in S : Min(S) <= n
<1>1. IsWellFoundedOn(OpToRel(<, Nat), Nat)
  BY NatLessThanWellFounded
<1>2. PICK m \in S : \A n \in S : ~ (<<n, m>> \in OpToRel(<, Nat))
  BY <1>1, WFMin
<1>3. \A n \in S : ~ (n < m)
  BY <1>2, Zenon DEF OpToRel
<1>4. \A n \in S : m <= n
  BY <1>3
<1> QED
  BY <1>4 DEF Min

\* It has a last one when it is bounded.
LEMMA MaxIndex ==
    ASSUME NEW b \in Nat, NEW S \in SUBSET (0..b), S # {}
    PROVE  \E m \in S : \A n \in S : n <= m
<1> DEFINE T == {b - n : n \in S}
<1>1. T \in SUBSET Nat /\ T # {}
  <2>1. \A n \in S : b - n \in Nat
    OBVIOUS
  <2> QED
    BY <2>1
<1>2. Min(T) \in T /\ \A n \in T : Min(T) <= n
  BY <1>1, MinIndex
<1>3. PICK m \in S : Min(T) = b - m
  BY <1>2
<1>4. \A n \in S : b - m <= b - n
  BY <1>2, <1>3
<1> QED
  BY <1>4

\* SetToSeq lists every element of a finite set, each once.
LEMMA SetListed ==
    ASSUME NEW S, IsFiniteSet(S)
    PROVE  /\ Cardinality(S) \in Nat
           /\ SetToSeq(S) \in [1..Cardinality(S) -> S]
           /\ \A i, k \in 1..Cardinality(S) : SetToSeq(S)[i] = SetToSeq(S)[k] => i = k
           /\ \A x \in S : \E i \in 1..Cardinality(S) : SetToSeq(S)[i] = x
<1> DEFINE n == Cardinality(S)
           Lists(f) == f \in [1..n -> S] /\ IsInjective(f)
<1>1. n \in Nat
  BY FS_CardinalityType
<1>2. \E f : Lists(f)
  <2>1. ExistsBijection(1..n, S)
    BY FS_CardinalityType
  <2>2. PICK f : f \in Bijection(1..n, S)
    BY <2>1 DEF ExistsBijection
  <2> QED
    BY <2>2 DEF Bijection, Injection, IsInjective
<1> DEFINE f == SetToSeq(S)
<1>3. Lists(f)
  BY <1>2 DEF SetToSeq
<1>4. f \in [1..n -> S] /\ \A i, k \in 1..n : f[i] = f[k] => i = k
  BY <1>3 DEF IsInjective
<1> HIDE DEF f
<1>5. f \in Injection(1..n, S)
  BY <1>4 DEF Injection, IsInjective
<1>6. Cardinality(1..n) = n
  BY <1>1, FS_Interval
<1>7. f \in Surjection(1..n, S)
  BY <1>5, <1>6, FS_Injection
<1> QED
  BY <1>1, <1>4, <1>7 DEF f, Surjection

-----------------------------------------------------------------------------
(* Journals *)

\* Entry k is the first one of its file.
First(j, k) == \A l \in DOMAIN j : j[l].file = j[k].file => k <= l

\* A journal is a function on an interval of indices.
LEMMA JournalIndices ==
    ASSUME NEW j \in Journals
    PROVE  /\ Len(j) \in Nat /\ DOMAIN j = 1..Len(j)
           /\ \A k \in DOMAIN j : j[k] \in Entry
BY DEF Journals

\* Every entry of a file is preceded by the first one of that file.
LEMMA FirstEntry ==
    ASSUME NEW j \in Journals, NEW f \in FilesOf(j)
    PROVE  LET m == Min({k \in DOMAIN j : j[k].file = f})
           IN  m \in DOMAIN j /\ j[m].file = f /\ First(j, m)
<1> DEFINE S == {k \in DOMAIN j : j[k].file = f}
<1>1. S \in SUBSET Nat /\ S # {}
  BY JournalIndices DEF FilesOf
<1>2. Min(S) \in S /\ \A n \in S : Min(S) <= n
  BY <1>1, MinIndex
<1> QED
  BY <1>2 DEF First

\* An entry finds the content of the disk or what a later entry of its file put away.
LEMMA FoundType ==
    ASSUME NEW j \in Journals, NEW k \in DOMAIN j
    PROVE  \/ Later(j, k) = {} /\ Found(j, k) = file[j[k].file]
           \/ \E l \in Later(j, k) : /\ Found(j, k) = j[l].pre
                                     /\ \A m \in Later(j, k) : l <= m
<1>1. CASE Later(j, k) = {}
  BY <1>1 DEF Found
<1>2. CASE Later(j, k) # {}
  <2>1. Later(j, k) \in SUBSET Nat
    BY JournalIndices DEF Later
  <2>2. /\ Min(Later(j, k)) \in Later(j, k)
        /\ \A m \in Later(j, k) : Min(Later(j, k)) <= m
    BY <1>2, <2>1, MinIndex
  <2> QED
    BY <1>2, <2>2 DEF Found
<1> QED
  BY <1>1, <1>2

\* What a rollback writes: the first preimage of every file it undoes.
LEMMA PlanFirst ==
    ASSUME NEW j \in Journals
    PROVE  /\ DOMAIN RestorePlan(j) = {j[k].file : k \in Restored(j)}
           /\ \A f \in DOMAIN RestorePlan(j) :
                \E k \in DOMAIN j : /\ j[k].file = f /\ First(j, k)
                                    /\ RestorePlan(j)[f] = j[k].pre
<1> DEFINE D == {j[k].file : k \in Restored(j)}
<1>1. DOMAIN RestorePlan(j) = D
  BY DEF RestorePlan
<1>2. ASSUME NEW f \in D
      PROVE  \E k \in DOMAIN j : /\ j[k].file = f /\ First(j, k)
                                 /\ RestorePlan(j)[f] = j[k].pre
  <2>1. f \in FilesOf(j)
    BY DEF Restored, FilesOf
  <2>2. RestorePlan(j)[f] = j[Min({k \in DOMAIN j : j[k].file = f})].pre
    BY DEF RestorePlan
  <2> QED
    BY <2>1, <2>2, FirstEntry
<1> QED
  BY <1>1, <1>2

\* What a rollback writes is a version for some of the journal's files.
LEMMA PlanShape ==
    ASSUME NEW j \in Journals
    PROVE  RestorePlan(j) \in Todos /\ DOMAIN RestorePlan(j) \subseteq FilesOf(j)
<1> DEFINE D == {j[k].file : k \in Restored(j)}
<1>1. D \subseteq FilesOf(j) /\ D \subseteq File
  BY JournalIndices DEF Restored, FilesOf, Entry
<1>2. ASSUME NEW f \in D
      PROVE  RestorePlan(j)[f] \in Version
  <2>1. PICK k \in DOMAIN j : RestorePlan(j)[f] = j[k].pre
    BY PlanFirst
  <2>2. j[k] \in Entry
    BY JournalIndices
  <2> QED
    BY <2>1, <2>2 DEF Entry
<1>3. RestorePlan(j) = [f \in D |-> RestorePlan(j)[f]]
  BY DEF RestorePlan
<1> HIDE DEF D
<1>4. RestorePlan(j) \in [D -> Version]
  BY <1>2, <1>3
<1> QED
  BY <1>1, <1>4, PlanFirst DEF Todos, D

\* A part of a journal is a journal.
LEMMA PartShape ==
    ASSUME NEW j \in Journals, NEW n \in 0..Len(j)
    PROVE  /\ SubSeq(j, 1, n) \in Journals /\ SubSeq(j, n + 1, Len(j)) \in Journals
           /\ Len(SubSeq(j, 1, n)) = n /\ Len(SubSeq(j, n + 1, Len(j))) = Len(j) - n
           /\ \A k \in 1..n : SubSeq(j, 1, n)[k] = j[k]
           /\ \A k \in 1..(Len(j) - n) : SubSeq(j, n + 1, Len(j))[k] = j[n + k]
<1>1. j \in Seq(Entry) /\ Len(j) \in Nat /\ n \in Nat
  BY DEF Journals
<1>2. \A k \in 1..Len(j) : j[k] \in Entry
  BY <1>1
<1> QED
  BY <1>1, <1>2, SubSeqProperties DEF Journals

\* What a patch of worker w to the files P writes: the version, the entries and
\* the journal with the entries at its end
Patching(w) == [by |-> Mine(w), n |-> patches + 1, torn |-> FALSE]
Entries(w, P) == SetToSeq({[file |-> f, pre |-> file[f], post |-> Patching(w)] : f \in P})
Extended(w, P) == th[w].journal \o Entries(w, P)

\* The entries of one patch: one for each of its files.
LEMMA PatchEntries ==
    ASSUME NEW w, NEW P \in SUBSET File, Patching(w) \in Version, file \in [File -> Version]
    PROVE  LET new == Entries(w, P)
           IN  /\ new \in Journals
               /\ \A k \in DOMAIN new : /\ new[k].file \in P /\ new[k].post = Patching(w)
                                         /\ new[k].pre = file[new[k].file]
               /\ \A f \in P : \E k \in DOMAIN new : new[k].file = f
               /\ \A k, l \in DOMAIN new : new[k].file = new[l].file => k = l
<1> DEFINE v == Patching(w)
           new == Entries(w, P)
<1> HIDE DEF v
<1> DEFINE S == {[file |-> f, pre |-> file[f], post |-> v] : f \in P}
<1>1. IsFiniteSet(P)
  BY FileAssumption, FS_Subset
<1>2. IsFiniteSet(S)
  <2> DEFINE G == [f \in P |-> [file |-> f, pre |-> file[f], post |-> v]]
  <2>1. G \in Surjection(P, S)
    BY DEF Surjection
  <2> QED
    BY <1>1, <2>1, FS_Surjection
<1>3. S \subseteq Entry
  BY DEF Entry, v
<1> DEFINE n == Cardinality(S)
<1>4. /\ n \in Nat /\ new \in [1..n -> S]
      /\ \A i, k \in 1..n : new[i] = new[k] => i = k
      /\ \A x \in S : \E i \in 1..n : new[i] = x
  BY <1>2, SetListed DEF Entries, v
<1>5. \A e \in S : e.file \in P /\ e.post = v /\ e.pre = file[e.file]
  OBVIOUS
<1>6. ASSUME NEW f \in P
      PROVE  \E e \in S : e.file = f
  <2>1. [file |-> f, pre |-> file[f], post |-> v] \in S
    OBVIOUS
  <2>2. [file |-> f, pre |-> file[f], post |-> v].file = f
    OBVIOUS
  <2> HIDE DEF S
  <2> QED
    BY <2>1, <2>2
<1>7. \A d, e \in S : d.file = e.file => d = e
  OBVIOUS
<1> HIDE DEF S, n, new
<1>8. new \in Seq(Entry) /\ DOMAIN new = 1..n
  BY <1>3, <1>4, IsASeq
<1>9. \A k \in 1..n : new[k] \in S
  BY <1>4
<1>10. \A k, l \in 1..n : new[k].file = new[l].file => k = l
  BY <1>4, <1>7, <1>9
<1>11. ASSUME NEW f \in P
       PROVE  \E k \in 1..n : new[k].file = f
  <2>1. PICK e \in S : e.file = f
    BY <1>6
  <2> QED
    BY <1>4, <2>1
<1> QED
  BY <1>5, <1>8, <1>9, <1>10, <1>11 DEF Journals, v, new

-----------------------------------------------------------------------------
(* Types *)

\* How a step of thread t moves the lock
Moved(t, rec) ==
    \/ lock' = lock /\ (rec.pc \in Inside <=> th[t].pc \in Inside)
    \/ lock = None /\ lock' = t /\ rec.pc \in Inside
    \/ lock = t /\ lock' = None /\ rec.pc \notin Inside

\* A step of one thread keeps the threads and the lock as they should be.
LEMMA OneThread ==
    ASSUME TInv, Tables', NEW t \in Thread, NEW rec \in ThreadRec,
           th' = [th EXCEPT ![t] = rec], Placed(t, rec), Moved(t, rec)
    PROVE  TInv'
<1> USE DEF TInv, Threads
<1>1. Threads'
  BY DEF Moved
<1>2. /\ th'[t] = rec
      /\ \A u \in Thread \ {t} : th'[u] = th[u]
  OBVIOUS
<1>3. Places'
  BY <1>2 DEF Places, Placed
<1>4. None \notin Thread
  BY ThreadAssumption
<1>5. Locks'
  BY <1>1, <1>2, <1>4 DEF Locks, Moved
<1> QED
  BY <1>1, <1>3, <1>5

\* A step of no thread leaves threads and lock alone.
LEMMA NoThread ==
    ASSUME TInv, Tables', UNCHANGED <<th, lock>>
    PROVE  TInv'
BY DEF TInv, Threads, Locks, Places, Placed

\* An idle thread is in order.
LEMMA IdleShape ==
    /\ IdleThread \in ThreadRec
    /\ \A t \in Thread : Placed(t, IdleThread)
    /\ IdleThread.pc \notin Inside
<1>1. NoResult \in ResultRec
  BY DEF NoResult, ResultRec
<1>2. Nothing \in Todos
  BY DEF Nothing, Todos
<1>3. <<>> \in Journals
  BY DEF Journals
<1>4. IdleThread \in ThreadRec
  BY <1>1, <1>2, <1>3 DEF IdleThread, ThreadRec, WorkPcs, Terminal, State
<1> QED
  BY <1>4 DEF IdleThread, Placed, WorkPcs, PassPcs, Dealing, Inside

\* The initial state has its shape.
LEMMA InitTInv == Init => TInv
<1> SUFFICES ASSUME Init PROVE TInv
  OBVIOUS
<1> USE DEF Init
<1>1. NoResult \in ResultRec
  BY DEF NoResult, ResultRec
<1>2. row \in [Order -> RowRec]
  BY <1>1 DEF RowRec, RequestRec, State, Terminal
<1>3. file \in [File -> Version]
  BY BoundAssumption DEF Original, Version
<1>4. journal \in [Order -> Journals]
  BY DEF Journals
<1>5. attempt \in [Order -> AttemptRec]
  BY DEF AttemptRec
<1>6. th \in [Thread -> ThreadRec] /\ Places
  BY IdleShape DEF Places
<1>7. Locks
  BY IdleShape, ThreadAssumption DEF Locks
<1>8. lease \in [File -> Holders] /\ lock \in {None} \cup Thread
  BY DEF Holders
<1>9. up \in [Instance -> {"down", "starting", "up", "stopping"}] /\ retry \subseteq Instance
  OBVIOUS
<1>10. patches \in 0..MaxPatches
  BY BoundAssumption
<1> QED
  BY <1>2, <1>3, <1>4, <1>5, <1>6, <1>7, <1>8, <1>9, <1>10 DEF TInv, Tables, Threads

\* The rows that the actions write
LEMMA RowShape ==
    ASSUME row \in [Order -> RowRec], NEW o \in Order, NEW s \in State, NEW res \in ResultRec
    PROVE  WithState(o, s, res) \in [Order -> RowRec]
<1> DEFINE new == [row[o] EXCEPT !.state = s, !.result = res]
<1>1. new \in RowRec
  BY DEF RowRec
<1>2. WithState(o, s, res) = [row EXCEPT ![o] = new]
  BY DEF WithState
<1> QED
  BY <1>1, <1>2

\* The results that the code records are results.
LEMMA ResultShape ==
    /\ NoResult \in ResultRec
    /\ \A b \in BOOLEAN : /\ Changed(b) \in ResultRec
                          /\ [Changed(b) EXCEPT !.handoff = TRUE] \in ResultRec
                          /\ [NoResult EXCEPT !.unsafe = b] \in ResultRec
                          /\ \A c \in BOOLEAN : [Changed(b) EXCEPT !.unsafe = c] \in ResultRec
BY DEF NoResult, Changed, ResultRec

\* A worker moves on, outside commit_guard before and after.
LEMMA WorkerGoes ==
    ASSUME TInv, Tables', NEW w \in Worker, NEW p \in WorkPcs \ Inside, Go(w, p),
           th[w].pc \notin Inside \cup {"idle"}, lock' = lock
    PROVE  TInv'
<1> DEFINE rec == [th[w] EXCEPT !.pc = p]
<1>1. w \in Thread /\ th[w] \in ThreadRec /\ Placed(w, th[w])
  BY DEF TInv, Thread, Threads, Places
<1>2. th' = [th EXCEPT ![w] = rec] /\ rec \in ThreadRec
  BY <1>1 DEF TInv, Threads, Go, ThreadRec
<1>3. Placed(w, rec) /\ Moved(w, rec)
  BY <1>1, ThreadAssumption DEF Placed, Moved, Inside, ThreadRec
<1> QED
  BY <1>1, <1>2, <1>3, OneThread

\* The same when it notes how the order is to end.
LEMMA WorkerHeads ==
    ASSUME TInv, Tables', NEW w \in Worker, NEW p \in WorkPcs \ Inside, NEW g \in Terminal,
           th' = [th EXCEPT ![w].pc = p, ![w].goal = g],
           th[w].pc \notin Inside \cup {"idle"}, lock' = lock
    PROVE  TInv'
<1> DEFINE rec == [th[w] EXCEPT !.pc = p, !.goal = g]
<1>1. w \in Thread /\ th[w] \in ThreadRec /\ Placed(w, th[w])
  BY DEF TInv, Thread, Threads, Places
<1>2. th' = [th EXCEPT ![w] = rec] /\ rec \in ThreadRec
  BY <1>1 DEF TInv, Threads, ThreadRec
<1>3. Placed(w, rec) /\ Moved(w, rec)
  BY <1>1, ThreadAssumption DEF Placed, Moved, Inside, ThreadRec
<1> QED
  BY <1>1, <1>2, <1>3, OneThread

\* Taking an order
LEMMA TakeTypes ==
    ASSUME TInv, NEW w \in Worker,
           \/ Next_(w) \/ CheckPlanning(w) \/ RowUnavailable(w)
           \/ ClaimAttempt(w) \/ ClaimBusy(w) \/ Begin(w)
    PROVE  TInv'
<1> USE DEF TInv, disk, fence, env
<1>0. w \in Thread /\ th[w] \in ThreadRec /\ Placed(w, th[w])
  BY DEF Thread, Threads, Places
<1>1. CASE Next_(w)
  <2>1. PICK o \in Order : /\ row' = [row EXCEPT ![o].state = "planning"]
                           /\ th' = [th EXCEPT ![w].pc = "picked", ![w].order = o]
    BY <1>1 DEF Next_
  <2> DEFINE rec == [th[w] EXCEPT !.pc = "picked", !.order = o]
  <2>2. th' = [th EXCEPT ![w] = rec]
    BY <1>0, <2>1 DEF Threads
  <2>3. rec \in ThreadRec
    BY <1>0 DEF ThreadRec, WorkPcs
  <2>4. Placed(w, rec) /\ Moved(w, rec)
    BY <1>0, <1>1, ThreadAssumption DEF Placed, Moved, Inside, Next_, WorkPcs
  <2>5. Tables'
    BY <1>1, <2>1 DEF Tables, Next_, RowRec, State, Transient
  <2> QED
    BY <1>0, <2>2, <2>3, <2>4, <2>5, OneThread
<1>2. CASE CheckPlanning(w)
  <2> DEFINE rec == IF row[Mine(w)].state = "planning"
                    THEN [th[w] EXCEPT !.pc = "checked"] ELSE IdleThread
  <2>1. th' = [th EXCEPT ![w] = rec]
    BY <1>0, <1>2 DEF Threads, CheckPlanning, Go
  <2>2. [th[w] EXCEPT !.pc = "checked"] \in ThreadRec
    BY <1>0 DEF ThreadRec, WorkPcs
  <2>3. rec \in ThreadRec
    BY <2>2, IdleShape
  <2>4. Placed(w, [th[w] EXCEPT !.pc = "checked"])
    BY <1>0, <1>2, ThreadAssumption DEF Placed, ThreadRec, WorkPcs, CheckPlanning
  <2>5. Placed(w, rec) /\ Moved(w, rec)
    BY <1>0, <1>2, <2>4, IdleShape DEF Moved, Inside, CheckPlanning, ThreadRec
  <2>6. Tables'
    BY <1>2 DEF Tables, CheckPlanning
  <2> QED
    BY <1>0, <2>1, <2>3, <2>5, <2>6, OneThread
<1>3. CASE RowUnavailable(w)
  <2>1. th' = [th EXCEPT ![w] = IdleThread]
    BY <1>3 DEF RowUnavailable
  <2>2. Placed(w, IdleThread) /\ Moved(w, IdleThread)
    BY <1>0, <1>3, IdleShape DEF Moved, Inside, RowUnavailable
  <2>3. Mine(w) \in Order
    BY <1>0, <1>3 DEF Mine, Placed, RowUnavailable
  <2>4. row' \in [Order -> RowRec]
    BY <1>3, <2>3, RowShape, ResultShape DEF Tables, RowUnavailable, State, Terminal
  <2>5. Tables'
    BY <1>3, <2>4 DEF Tables, RowUnavailable
  <2> QED
    BY <1>0, <2>1, <2>2, <2>5, IdleShape, OneThread
<1>4. CASE ClaimAttempt(w) /\ attempt[Mine(w)].live
  <2>1. th' = [th EXCEPT ![w] = IdleThread]
    BY <1>4 DEF ClaimAttempt
  <2>2. Placed(w, IdleThread) /\ Moved(w, IdleThread)
    BY <1>0, <1>4, IdleShape DEF Moved, Inside, ClaimAttempt
  <2>3. Tables'
    BY <1>4 DEF Tables, ClaimAttempt
  <2> QED
    BY <1>0, <2>1, <2>2, <2>3, IdleShape, OneThread
<1>5. CASE ClaimAttempt(w) /\ ~attempt[Mine(w)].live
  <2> DEFINE rec == [th[w] EXCEPT !.pc = "begin", !.token = attempt[Mine(w)].token + 1]
  <2>1. th' = [th EXCEPT ![w] = rec]
    BY <1>0, <1>5 DEF Threads, ClaimAttempt
  <2>2. Mine(w) \in Order /\ attempt[Mine(w)].token + 1 \in Nat
    BY <1>0, <1>5 DEF Mine, Placed, ClaimAttempt, Tables, AttemptRec
  <2>3. rec \in ThreadRec
    BY <1>0, <2>2 DEF ThreadRec, WorkPcs
  <2>4. Placed(w, rec) /\ Moved(w, rec)
    BY <1>0, <1>5, ThreadAssumption DEF Placed, Moved, Inside, ThreadRec, WorkPcs, ClaimAttempt
  <2>5. attempt' = [attempt EXCEPT ![Mine(w)] = [token |-> attempt[Mine(w)].token + 1,
                                                  live |-> TRUE]]
    BY <1>5, <2>2 DEF ClaimAttempt, ClaimedBy, Tables
  <2>6. Tables'
    BY <1>5, <2>2, <2>5 DEF Tables, ClaimAttempt, AttemptRec
  <2> QED
    BY <1>0, <2>1, <2>3, <2>4, <2>6, OneThread
<1>6. CASE ClaimBusy(w)
  <2>1. th' = [th EXCEPT ![w] = IdleThread]
    BY <1>6 DEF ClaimBusy
  <2>2. Placed(w, IdleThread) /\ Moved(w, IdleThread)
    BY <1>0, <1>6, IdleShape DEF Moved, Inside, ClaimBusy
  <2>3. Tables'
    BY <1>0, <1>6, ThreadAssumption DEF Tables, ClaimBusy
  <2> QED
    BY <1>0, <2>1, <2>2, <2>3, IdleShape, OneThread
<1>7. CASE Begin(w)
  <2> DEFINE rec == IF Cancelled(w) THEN [th[w] EXCEPT !.pc = "release"]
                    ELSE [th[w] EXCEPT !.pc = "plan", !.steps = MaxSteps]
  <2>1. th' = [th EXCEPT ![w] = rec]
    BY <1>0, <1>7 DEF Threads, Begin, Go
  <2>2. Mine(w) \in Order
    BY <1>0, <1>7 DEF Mine, Placed, Begin
  <2>3. /\ [th[w] EXCEPT !.pc = "release"] \in ThreadRec
        /\ [th[w] EXCEPT !.pc = "plan", !.steps = MaxSteps] \in ThreadRec
    <3>1. MaxSteps \in Int
      BY BoundAssumption
    <3> QED
      BY <1>0, <3>1 DEF ThreadRec, WorkPcs
  <2>4. Placed(w, rec) /\ Moved(w, rec)
    BY <1>0, <1>7, ThreadAssumption DEF Placed, Moved, Inside, ThreadRec, WorkPcs, Begin
  <2>5. row' \in [Order -> RowRec]
    BY <1>7, <2>2, RowShape, ResultShape DEF Tables, Begin, State, Terminal, Transient
  <2>6. Tables'
    BY <1>7, <2>5 DEF Tables, Begin
  <2> QED
    BY <1>0, <2>1, <2>3, <2>4, <2>6, OneThread
<1> QED
  BY <1>1, <1>2, <1>3, <1>4, <1>5, <1>6, <1>7

\* Planning, and executing the plan outside commit_guard
LEMMA PlanTypes ==
    ASSUME TInv, NEW w \in Worker,
           \/ \E s \in {"complete", "needs_agent"} : PlanEnds(w, s)
           \/ PlanFails(w) \/ PlanDone(w) \/ StartStep(w)
           \/ StepDone(w) \/ ReviewAsks(w) \/ StartVerify(w) \/ StepFails(w)
    PROVE  TInv'
<1> USE DEF TInv, disk, fence, env
<1>0. w \in Thread /\ th[w] \in ThreadRec /\ Placed(w, th[w])
  BY DEF Thread, Threads, Places
<1>o. th[w].pc # "idle" => Mine(w) \in Order
  BY <1>0 DEF Mine, Placed
<1>e. th[w].edited \in BOOLEAN
  BY <1>0 DEF ThreadRec
<1>1. ASSUME NEW s \in {"complete", "needs_agent"}, PlanEnds(w, s)
      PROVE  TInv'
  <2>1. row' \in [Order -> RowRec]
    BY <1>o, <1>1, RowShape, ResultShape, SMTT(30) DEF Tables, PlanEnds, State, Terminal
  <2>2. Tables' /\ lock' = lock /\ th[w].pc = "plan" /\ (Go(w, "raise") \/ Go(w, "release"))
    BY <1>1, <2>1 DEF Tables, PlanEnds
  <2> QED
    BY <2>2, WorkerGoes DEF WorkPcs, Inside
<1>2. CASE PlanFails(w)
  <2>1. Tables' /\ lock' = lock /\ th[w].pc = "plan"
    BY <1>2 DEF Tables, PlanFails
  <2>2. \/ Go(w, "raise")
        \/ th' = [th EXCEPT ![w].pc = "ending", ![w].goal = "cancelled"]
    BY <1>2 DEF PlanFails
  <2> QED
    BY <2>1, <2>2, WorkerGoes, WorkerHeads DEF WorkPcs, Inside, Terminal
<1>3. CASE PlanDone(w)
  <2>1. row' \in [Order -> RowRec]
    BY <1>o, <1>3, RowShape, ResultShape DEF Tables, PlanDone, State, Transient
  <2>2. Tables' /\ lock' = lock /\ th[w].pc = "plan" /\ Go(w, "step")
    BY <1>3, <2>1 DEF Tables, PlanDone
  <2> QED
    BY <2>2, WorkerGoes DEF WorkPcs, Inside
<1>4. CASE StartStep(w)
  <2>1. Tables' /\ lock' = lock /\ th[w].pc = "step"
    BY <1>4 DEF Tables, StartStep
  <2>2. CASE \E g \in {"cancelled", "partial"} :
               th' = [th EXCEPT ![w].pc = "rollback", ![w].goal = g]
    BY <2>1, <2>2, WorkerHeads DEF WorkPcs, Inside, Terminal
  <2>3. CASE th' = [th EXCEPT ![w].pc = "body", ![w].steps = @ - 1]
    <3> DEFINE rec == [th[w] EXCEPT !.pc = "body", !.steps = @ - 1]
    <3>1. th' = [th EXCEPT ![w] = rec] /\ rec \in ThreadRec
      BY <1>0, <2>3 DEF Threads, ThreadRec, WorkPcs
    <3>2. Placed(w, rec) /\ Moved(w, rec)
      BY <1>0, <2>1, ThreadAssumption DEF Placed, Moved, Inside, ThreadRec, WorkPcs
    <3> QED
      BY <1>0, <2>1, <3>1, <3>2, OneThread
  <2> QED
    BY <1>4, <2>2, <2>3 DEF StartStep
<1>5. CASE StepDone(w)
  <2>1. row' \in [Order -> RowRec]
    BY <1>o, <1>e, <1>5, RowShape, ResultShape DEF Tables, StepDone, State, Transient
  <2>2. Tables' /\ lock' = lock /\ th[w].pc = "body" /\ Go(w, "step")
    BY <1>5, <2>1 DEF Tables, StepDone
  <2> QED
    BY <2>2, WorkerGoes DEF WorkPcs, Inside
<1>6. CASE ReviewAsks(w)
  <2>1. Tables' /\ lock' = lock /\ th[w].pc = "body"
    BY <1>6 DEF Tables, ReviewAsks
  <2>2. th' = [th EXCEPT ![w].pc = "rollback", ![w].goal = "needs_agent"]
    BY <1>6 DEF ReviewAsks
  <2> QED
    BY <2>1, <2>2, WorkerHeads DEF WorkPcs, Inside, Terminal
<1>7. CASE StartVerify(w)
  <2>1. row' \in [Order -> RowRec]
    BY <1>o, <1>e, <1>7, RowShape, ResultShape DEF Tables, StartVerify, State, Transient
  <2>2. Tables' /\ lock' = lock /\ th[w].pc = "step" /\ Go(w, "verify")
    BY <1>7, <2>1 DEF Tables, StartVerify
  <2> QED
    BY <2>2, WorkerGoes DEF WorkPcs, Inside
<1>8. CASE StepFails(w)
  <2>1. Tables' /\ lock' = lock /\ th[w].pc \in {"body", "verify", "step"}
    BY <1>8 DEF Tables, StepFails
  <2>2. \E g \in {"cancelled", "failed"} :
           th' = [th EXCEPT ![w].pc = "rollback", ![w].goal = g]
    BY <1>8 DEF StepFails
  <2> QED
    BY <2>1, <2>2, WorkerHeads DEF WorkPcs, Inside, Terminal
<1> QED
  BY <1>1, <1>2, <1>3, <1>4, <1>5, <1>6, <1>7, <1>8

\* The action in these terms
LEMMA PatchStep ==
    ASSUME NEW w, Patch(w)
    PROVE  /\ th[w].pc \in {"body", "verify"} /\ patches < MaxPatches /\ Guarded(w)
           /\ \E P \in (SUBSET File) \ {{}} :
                 /\ \A f \in P : lease[f] \in {None, Working(Mine(w))}
                 /\ lease' = [f \in File |-> IF f \in P THEN Working(Mine(w)) ELSE lease[f]]
                 /\ journal' = [journal EXCEPT ![Mine(w)] = Extended(w, P)]
                 /\ th' = [th EXCEPT ![w].pc = "apply", ![w].back = th[w].pc,
                                     ![w].journal = Extended(w, P),
                                     ![w].start = Len(th[w].journal),
                                     ![w].todo = [f \in P |-> Patching(w)]]
           /\ lock' = w /\ patches' = patches + 1
           /\ UNCHANGED <<row, file, attempt, up, retry, crashes>>
BY DEF Patch, Extended, Entries, Patching

\* The new entries come after those of the earlier patches, one for each file.
LEMMA PatchShape ==
    ASSUME TInv, NEW w \in Worker, th[w].pc # "idle", patches < MaxPatches,
           NEW P \in SUBSET File
    PROVE  LET m == Len(th[w].journal)
               j == Extended(w, P)
           IN  /\ Mine(w) \in Order /\ Patching(w) \in Version
               /\ m \in Nat /\ j \in Journals /\ Len(j) >= m
               /\ \A k \in 1..m : j[k] = th[w].journal[k]
               /\ \A k \in m + 1..Len(j) : /\ j[k].file \in P /\ j[k].post = Patching(w)
                                           /\ j[k].pre = file[j[k].file]
               /\ \A f \in P : \E k \in m + 1..Len(j) : j[k].file = f
               /\ \A k, l \in m + 1..Len(j) : j[k].file = j[l].file => k = l
<1>1. th[w] \in ThreadRec /\ Placed(w, th[w])
  BY DEF TInv, Thread, Threads, Places
<1>2. Mine(w) \in Order /\ th[w].journal \in Journals
  BY <1>1 DEF Placed, Mine, ThreadRec
<1>3. Patching(w) \in Version
  <2>1. patches + 1 \in 0..MaxPatches
    BY BoundAssumption DEF TInv, Tables
  <2> QED
    BY <1>2, <2>1 DEF Version, Patching
<1>4. file \in [File -> Version]
  BY DEF TInv, Tables
<1> DEFINE new == Entries(w, P)
           j == Extended(w, P)
           m == Len(th[w].journal)
<1>5. /\ new \in Journals
      /\ \A k \in DOMAIN new : /\ new[k].file \in P /\ new[k].post = Patching(w)
                               /\ new[k].pre = file[new[k].file]
      /\ \A f \in P : \E k \in DOMAIN new : new[k].file = f
      /\ \A k, l \in DOMAIN new : new[k].file = new[l].file => k = l
  BY <1>3, <1>4, PatchEntries
<1>6. j = th[w].journal \o new
  BY DEF Extended
<1> HIDE DEF new, j, m
<1>7. /\ new \in Seq(Entry) /\ th[w].journal \in Seq(Entry) /\ Len(new) \in Nat
      /\ m \in Nat /\ DOMAIN new = 1..Len(new)
  BY <1>2, <1>5 DEF Journals, m
<1>8. /\ j \in Journals /\ Len(j) = m + Len(new)
      /\ \A k \in 1..m : j[k] = th[w].journal[k]
      /\ \A k \in 1..Len(new) : j[m + k] = new[k]
  BY <1>6, <1>7 DEF m, Journals
<1>9. \A k \in m + 1..Len(j) : k - m \in 1..Len(new) /\ j[k] = new[k - m]
  <2>1. ASSUME NEW k \in m + 1..Len(j) PROVE k - m \in 1..Len(new) /\ j[m + (k - m)] = new[k - m]
    BY <1>7, <1>8
  <2> QED
    BY <1>7, <1>8, <2>1
<1>10. \A k \in m + 1..Len(j) : /\ j[k].file \in P /\ j[k].post = Patching(w)
                                /\ j[k].pre = file[j[k].file]
  BY <1>5, <1>7, <1>9
<1>11. \A k, l \in m + 1..Len(j) : j[k].file = j[l].file => k = l
  <2> SUFFICES ASSUME NEW k \in m + 1..Len(j), NEW l \in m + 1..Len(j),
                      j[k].file = j[l].file
               PROVE  k = l
    OBVIOUS
  <2>1. k - m = l - m
    <3>1. /\ k - m \in DOMAIN new /\ l - m \in DOMAIN new
          /\ new[k - m].file = new[l - m].file
      BY <1>7, <1>9
    <3> QED
      BY <1>5, <3>1
  <2> QED
    BY <1>7, <1>8, <2>1
<1>12. ASSUME NEW f \in P
       PROVE  \E k \in m + 1..Len(j) : j[k].file = f
  <2>1. PICK k \in 1..Len(new) : new[k].file = f
    BY <1>5, <1>7
  <2>2. m + k \in m + 1..Len(j) /\ j[m + k] = new[k]
    BY <1>7, <1>8
  <2> QED
    BY <2>1, <2>2
<1> QED
  BY <1>2, <1>3, <1>7, <1>8, <1>10, <1>11, <1>12 DEF j, m

\* Patching under commit_guard
LEMMA PatchTypes ==
    ASSUME TInv, NEW w \in Worker,
           Patch(w) \/ Patched(w) \/ ApplyFails(w) \/ Unapplied(w)
    PROVE  TInv'
<1> USE DEF TInv, disk, fence, env
<1>0. w \in Thread /\ th[w] \in ThreadRec /\ Placed(w, th[w])
  BY DEF Thread, Threads, Places
<1>j. th[w].journal \in Journals /\ Len(th[w].journal) \in Nat
  BY <1>0, JournalIndices DEF ThreadRec
<1>1. CASE Patch(w)
  <2>0. /\ th[w].pc \in {"body", "verify"} /\ patches < MaxPatches /\ lock = None
        /\ lock' = w /\ patches' = patches + 1
        /\ UNCHANGED <<row, file, attempt, up, retry, crashes>>
    BY <1>1, PatchStep DEF Guarded
  <2>1. PICK P \in (SUBSET File) \ {{}} :
            /\ \A f \in P : lease[f] \in {None, Working(Mine(w))}
            /\ lease' = [f \in File |-> IF f \in P THEN Working(Mine(w)) ELSE lease[f]]
            /\ journal' = [journal EXCEPT ![Mine(w)] = Extended(w, P)]
            /\ th' = [th EXCEPT ![w].pc = "apply", ![w].back = th[w].pc,
                                ![w].journal = Extended(w, P),
                                ![w].start = Len(th[w].journal),
                                ![w].todo = [f \in P |-> Patching(w)]]
    BY <1>1, PatchStep
  <2> DEFINE rec == [th[w] EXCEPT !.pc = "apply", !.back = th[w].pc,
                                  !.journal = Extended(w, P), !.start = Len(th[w].journal),
                                  !.todo = [f \in P |-> Patching(w)]]
  <2>2. /\ Mine(w) \in Order /\ Patching(w) \in Version
        /\ Extended(w, P) \in Journals /\ Len(Extended(w, P)) >= Len(th[w].journal)
    BY <2>0, PatchShape
  <2>3. th' = [th EXCEPT ![w] = rec]
    BY <1>0, <2>1 DEF Threads
  <2>4. [f \in P |-> Patching(w)] \in Todos
    BY <2>2 DEF Todos
  <2>5. rec \in ThreadRec
    BY <1>0, <1>j, <2>0, <2>2, <2>4 DEF ThreadRec, WorkPcs
  <2>6. Placed(w, rec)
    BY <1>0, <1>j, <2>0, <2>2, <2>5, JournalIndices, ThreadAssumption
    DEF Placed, ThreadRec, WorkPcs
  <2>7. Moved(w, rec)
    BY <1>0, <2>0 DEF Moved, Inside, ThreadRec
  <2>8. Working(Mine(w)) \in Holders
    BY <2>2 DEF Working, Holders
  <2>9. patches' \in 0..MaxPatches
    BY <2>0, BoundAssumption DEF Tables
  <2>10. Tables'
    BY <2>0, <2>1, <2>2, <2>8, <2>9 DEF Tables
  <2> QED
    BY <1>0, <2>3, <2>5, <2>6, <2>7, <2>10, OneThread
<1>w. \A h : \A S \in {WithoutPatch(w), Without(h)} : S \in [File -> Holders]
  BY DEF WithoutPatch, Without, Tables, Holders
<1>2. CASE Patched(w)
  <2> DEFINE rec == IF Own(w) THEN [th[w] EXCEPT !.pc = th[w].back, !.edited = TRUE]
                    ELSE [th[w] EXCEPT !.pc = "rollback", !.goal = "failed"]
  <2>1. th' = [th EXCEPT ![w] = rec]
    BY <1>0, <1>2 DEF Threads, Patched
  <2>2. /\ [th[w] EXCEPT !.pc = th[w].back, !.edited = TRUE] \in ThreadRec
        /\ [th[w] EXCEPT !.pc = "rollback", !.goal = "failed"] \in ThreadRec
    BY <1>0 DEF ThreadRec, WorkPcs, Terminal
  <2>3. th[w].back \in {"body", "verify"} /\ th[w].pc = "apply"
    BY <1>0, <1>2 DEF ThreadRec, Patched
  <2>4. lock = w
    BY <1>0, <2>3 DEF Locks, Inside
  <2>5. Placed(w, rec) /\ Moved(w, rec)
    BY <1>0, <1>2, <2>3, <2>4, ThreadAssumption
    DEF Placed, Moved, Inside, ThreadRec, WorkPcs, Patched
  <2>6. Tables'
    BY <1>2, <1>w DEF Tables, Patched
  <2> QED
    BY <1>0, <2>1, <2>2, <2>5, <2>6, OneThread
<1>3. CASE ApplyFails(w)
  <2> DEFINE rec == [th[w] EXCEPT !.pc = "unapply", !.todo = RestorePlan(Added(w))]
  <2>0. th[w].pc = "apply"
    BY <1>3 DEF ApplyFails
  <2>1. th[w].start \in 0..Len(th[w].journal)
    BY <1>0, <2>0 DEF Placed
  <2>2. Added(w) \in Journals
    BY <1>j, <2>1, PartShape DEF Added
  <2>3. RestorePlan(Added(w)) \in Todos
    BY <2>2, PlanShape
  <2>4. th' = [th EXCEPT ![w] = rec]
    BY <1>0, <1>3 DEF Threads, ApplyFails
  <2>5. rec \in ThreadRec
    BY <1>0, <2>3 DEF ThreadRec, WorkPcs
  <2>6. Placed(w, rec) /\ Moved(w, rec)
    BY <1>0, <1>3, <2>0, <2>1, ThreadAssumption
    DEF Placed, Moved, Inside, ThreadRec, WorkPcs, ApplyFails
  <2>7. Tables'
    BY <1>3 DEF Tables, ApplyFails
  <2> QED
    BY <1>0, <2>4, <2>5, <2>6, <2>7, OneThread
<1>4. CASE Unapplied(w)
  <2> DEFINE rec == [th[w] EXCEPT !.pc = th[w].back, !.journal = Earlier(w)]
  <2>0. th[w].pc = "unapply" /\ th[w].back \in {"body", "verify"} /\ Mine(w) \in Order
    BY <1>0, <1>4 DEF Unapplied, ThreadRec, Placed, Mine
  <2>1. th[w].start \in 0..Len(th[w].journal)
    BY <1>0, <2>0 DEF Placed
  <2>2. Earlier(w) \in Journals
    BY <1>j, <2>1, PartShape DEF Earlier
  <2>3. th' = [th EXCEPT ![w] = rec]
    BY <1>0, <1>4 DEF Threads, Unapplied
  <2>4. rec \in ThreadRec
    BY <1>0, <2>0, <2>2 DEF ThreadRec, WorkPcs
  <2>5. lock = w
    BY <1>0, <2>0 DEF Locks, Inside
  <2>6. Placed(w, rec) /\ Moved(w, rec)
    BY <1>0, <1>4, <2>0, <2>1, <2>5, ThreadAssumption
    DEF Placed, Moved, Inside, ThreadRec, WorkPcs, Unapplied
  <2>7. Tables'
    BY <1>4, <1>w, <2>0, <2>2 DEF Tables, Unapplied
  <2> QED
    BY <1>0, <2>3, <2>4, <2>6, <2>7, OneThread
<1> QED
  BY <1>1, <1>2, <1>3, <1>4

\* A failed rollback of a worker, before or inside commit_guard
LEMMA FailedRollbackTypes ==
    ASSUME TInv, Tables', NEW w \in Worker, th' = AfterFailedRollback(w),
           \/ th[w].pc = "rollback" /\ lock' = lock
           \/ th[w].pc = "restore" /\ lock' = None
    PROVE  TInv'
<1> DEFINE rec == IF th[w].goal = "cancelled" /\ Mode(Mine(w)) # "bounded"
                  THEN [th[w] EXCEPT !.pc = "raise"]
                  ELSE [th[w] EXCEPT !.pc = "ending", !.ok = FALSE,
                                     !.goal = IF @ = "cancelled" THEN @ ELSE "failed"]
<1>1. w \in Thread /\ th[w] \in ThreadRec /\ Placed(w, th[w])
  BY DEF TInv, Thread, Threads, Places
<1>2. th' = [th EXCEPT ![w] = rec]
  BY <1>1 DEF TInv, Threads, AfterFailedRollback
<1>3. /\ [th[w] EXCEPT !.pc = "raise"] \in ThreadRec
      /\ [th[w] EXCEPT !.pc = "ending", !.ok = FALSE,
                       !.goal = IF @ = "cancelled" THEN @ ELSE "failed"] \in ThreadRec
  BY <1>1, ZenonT(60) DEF ThreadRec, WorkPcs, Terminal
<1>4. Placed(w, rec)
  BY <1>1, ThreadAssumption DEF Placed, ThreadRec, WorkPcs
<1>5. th[w].pc = "restore" => lock = w
  BY <1>1 DEF TInv, Locks, Inside
<1>6. Moved(w, rec)
  BY <1>1, <1>5 DEF Moved, Inside, ThreadRec
<1> QED
  BY <1>1, <1>2, <1>3, <1>4, <1>6, OneThread

\* A clear leaves the journal of one order empty.
LEMMA ClearShape ==
    ASSUME Tables, NEW o \in Order
    PROVE  [journal EXCEPT ![o] = <<>>] \in [Order -> Journals]
BY DEF Tables, Journals

\* Finishing an order
LEMMA FinishTypes ==
    ASSUME TInv, NEW w \in Worker,
           \/ \E s \in {"complete", "needs_agent"} : Deliver(w, s)
           \/ ClearDelivered(w) \/ ClearDeliveredBusy(w)
           \/ DropJournal(w) \/ Rollback(w) \/ RollbackRefused(w)
    PROVE  TInv'
<1> USE DEF TInv, disk, fence, env
<1>0. w \in Thread /\ th[w] \in ThreadRec /\ Placed(w, th[w])
  BY DEF Thread, Threads, Places
<1>o. th[w].pc # "idle" => Mine(w) \in Order
  BY <1>0 DEF Mine, Placed
<1>e. th[w].edited \in BOOLEAN
  BY <1>0 DEF ThreadRec
<1>1. ASSUME NEW s \in {"complete", "needs_agent"}, Deliver(w, s)
      PROVE  TInv'
  <2>1. row' \in [Order -> RowRec]
    <3>1. [Changed(th[w].edited) EXCEPT !.handoff = TRUE] \in ResultRec /\ s \in State
      BY <1>e, ResultShape DEF State, Terminal
    <3>2. \/ row' = row
          \/ row' = WithState(Mine(w), s, [Changed(th[w].edited) EXCEPT !.handoff = TRUE])
      BY <1>1 DEF Deliver
    <3>3. Mine(w) \in Order
      BY <1>o, <1>1 DEF Deliver
    <3> QED
      BY <3>1, <3>2, <3>3, RowShape DEF Tables
  <2>2. Tables' /\ lock' = lock /\ th[w].pc = "verify"
    BY <1>1, <2>1 DEF Tables, Deliver
  <2>3. \/ Go(w, "delivered")
        \/ th' = [th EXCEPT ![w].pc = "rollback", ![w].goal = "cancelled"]
    BY <1>1 DEF Deliver
  <2> QED
    BY <2>2, <2>3, WorkerGoes, WorkerHeads DEF WorkPcs, Inside, Terminal
<1>2. CASE ClearDelivered(w)
  <2>1. journal' \in [Order -> Journals]
    BY <1>o, <1>2, ClearShape DEF Tables, ClearDelivered
  <2>2. Tables' /\ lock' = lock /\ th[w].pc = "delivered" /\ Go(w, "release")
    BY <1>2, <2>1 DEF Tables, ClearDelivered
  <2> QED
    BY <2>2, WorkerGoes DEF WorkPcs, Inside
<1>3. CASE ClearDeliveredBusy(w)
  <2>1. Tables' /\ lock' = lock /\ th[w].pc = "delivered"
    BY <1>3 DEF Tables, ClearDeliveredBusy
  <2>2. th' = [th EXCEPT ![w].pc = "rollback", ![w].goal = "failed"]
    BY <1>3 DEF ClearDeliveredBusy
  <2> QED
    BY <2>1, <2>2, WorkerHeads DEF WorkPcs, Inside, Terminal
<1>4. CASE DropJournal(w)
  <2>1. journal' \in [Order -> Journals]
    BY <1>o, <1>4, ClearShape DEF Tables, DropJournal
  <2>2. Tables' /\ lock' = lock /\ th[w].pc = "rollback" /\ Go(w, "ending")
    BY <1>4, <2>1 DEF Tables, DropJournal
  <2> QED
    BY <2>2, WorkerGoes DEF WorkPcs, Inside
<1>5. CASE Rollback(w)
  <2> DEFINE rec == [th[w] EXCEPT !.pc = "restore", !.todo = RestorePlan(th[w].journal)]
  <2>1. RestorePlan(th[w].journal) \in Todos
    BY <1>0, PlanShape DEF ThreadRec
  <2>2. th' = [th EXCEPT ![w] = rec]
    BY <1>0, <1>5 DEF Threads, Rollback
  <2>3. rec \in ThreadRec
    BY <1>0, <2>1 DEF ThreadRec, WorkPcs
  <2>4. Placed(w, rec) /\ Moved(w, rec)
    BY <1>0, <1>5, ThreadAssumption
    DEF Placed, Moved, Inside, ThreadRec, WorkPcs, Rollback, Guarded
  <2>5. Tables'
    BY <1>5 DEF Tables, Rollback
  <2> QED
    BY <1>0, <2>2, <2>3, <2>4, <2>5, OneThread
<1>6. CASE RollbackRefused(w)
  <2>1. /\ th[w].pc = "rollback" /\ th' = AfterFailedRollback(w)
        /\ UNCHANGED <<row, disk, fence, env>>
    BY <1>6 DEF RollbackRefused
  <2>2. Tables' /\ lock' = lock
    BY <2>1 DEF Tables
  <2> QED
    BY <2>1, <2>2, FailedRollbackTypes
<1> QED
  BY <1>1, <1>2, <1>3, <1>4, <1>5, <1>6

\* Recording the end of an order
LEMMA EndTypes ==
    ASSUME TInv, NEW w \in Worker,
           End(w) \/ Raise(w) \/ LoseAttempt(w) \/ UpdateBusy(w) \/ Release(w)
    PROVE  TInv'
<1> USE DEF TInv, disk, fence, env
<1>0. w \in Thread /\ th[w] \in ThreadRec /\ Placed(w, th[w])
  BY DEF Thread, Threads, Places
<1>o. th[w].pc # "idle" => Mine(w) \in Order
  BY <1>0 DEF Mine, Placed
<1>e. th[w].edited \in BOOLEAN /\ (~th[w].ok) \in BOOLEAN /\ th[w].goal \in Terminal
  BY <1>0 DEF ThreadRec
<1>r. retry \cup {Host[w]} \subseteq Instance
  BY <1>0, ThreadAssumption DEF Tables
<1>1. CASE End(w)
  <2> DEFINE o == Mine(w)
             g == IF th[w].goal = "failed" /\ row[o].cancel THEN "cancelled" ELSE th[w].goal
             res == [Changed(th[w].edited) EXCEPT !.unsafe = ~th[w].ok]
  <2>0. th[w].pc = "ending" /\ o \in Order
    BY <1>o, <1>1 DEF End
  <2>1. row' = row \/ row' = WithState(o, g, res)
    BY <1>1 DEF End
  <2>2. g \in State /\ res \in ResultRec
    <3>1. res \in ResultRec
      BY <1>e, ResultShape
    <3>2. g \in State
      BY <1>e DEF State, Terminal
    <3> QED
      BY <3>1, <3>2
  <2> HIDE DEF o, g, res
  <2>3. row' \in [Order -> RowRec]
    BY <2>0, <2>1, <2>2, RowShape DEF Tables
  <2>4. Tables' /\ lock' = lock
    BY <1>1, <2>3 DEF Tables, End
  <2>5. \/ Go(w, "release")
        \/ th' = [th EXCEPT ![w].pc = "rollback", ![w].goal = "cancelled"]
    BY <1>1 DEF End
  <2> QED
    BY <2>0, <2>4, <2>5, WorkerGoes, WorkerHeads DEF WorkPcs, Inside, Terminal
<1>2. CASE Raise(w)
  <2>1. row' \in [Order -> RowRec]
    <3>1. row' = row \/ row' = WithState(Mine(w), "failed", NoResult)
      BY <1>2 DEF Raise
    <3>2. Mine(w) \in Order /\ "failed" \in State
      BY <1>o, <1>2 DEF Raise, State, Terminal
    <3> QED
      BY <3>1, <3>2, RowShape, ResultShape DEF Tables
  <2>2. Tables' /\ lock' = lock /\ th[w].pc = "raise" /\ Go(w, "release")
    BY <1>2, <1>r, <2>1 DEF Tables, Raise
  <2> QED
    BY <2>2, WorkerGoes DEF WorkPcs, Inside
<1>3. CASE LoseAttempt(w)
  <2>1. /\ th[w].pc \in {"begin", "plan", "step", "rollback", "ending", "delivered", "raise"}
        /\ Go(w, "release")
    BY <1>3 DEF LoseAttempt
  <2>2. Tables' /\ lock' = lock
    BY <1>3, <1>r DEF Tables, LoseAttempt
  <2> QED
    BY <2>1, <2>2, WorkerGoes DEF WorkPcs, Inside
<1>4. CASE UpdateBusy(w)
  <2>1. /\ th[w].pc \in {"begin", "ending", "raise"}
        /\ Go(w, "release") \/ Go(w, "raise")
    BY <1>4 DEF UpdateBusy
  <2>2. Tables' /\ lock' = lock
    BY <1>4, <1>r DEF Tables, UpdateBusy
  <2> QED
    BY <2>1, <2>2, WorkerGoes DEF WorkPcs, Inside
<1>5. CASE Release(w)
  <2>1. th' = [th EXCEPT ![w] = IdleThread] /\ th[w].pc = "release" /\ lock' = lock
    BY <1>5 DEF Release
  <2>2. Placed(w, IdleThread) /\ Moved(w, IdleThread)
    BY <1>0, <2>1, IdleShape DEF Moved, Inside
  <2>3. lease' \in [File -> Holders]
    BY <1>5 DEF Release, Without, Tables, Holders
  <2>4. attempt' \in [Order -> AttemptRec]
    BY <1>o, <1>5 DEF Release, Released, Tables, AttemptRec
  <2>5. Tables'
    BY <1>5, <2>3, <2>4 DEF Tables, Release
  <2> QED
    BY <1>0, <2>1, <2>2, <2>5, IdleShape, OneThread
<1> QED
  BY <1>1, <1>2, <1>3, <1>4, <1>5

\* A recovery pass: selecting rows and taking one of them
LEMMA PassTypes ==
    ASSUME TInv, NEW r \in Recoverer,
           \/ StartPass(r) \/ LoadJournal(r) \/ RecoverClaim(r) \/ RecoverBusy(r)
           \/ RecoverRestore(r) \/ RecoverRefused(r)
    PROVE  TInv'
<1> USE DEF TInv, disk, fence, env
<1>0. r \in Thread /\ r \notin Worker /\ th[r] \in ThreadRec /\ Placed(r, th[r])
  BY ThreadAssumption DEF Thread, Threads, Places
<1>1. CASE StartPass(r)
  <2> DEFINE R == {[order |-> o, state |-> row[o].state, result |-> row[o].result] :
                     o \in {p \in Order : row[p].state \in Transient}}
             rec == [th[r] EXCEPT !.pc = "pass", !.rows = R]
  <2>1. R \subseteq Picked
    BY DEF Tables, Picked, RowRec
  <2>2. th' = [th EXCEPT ![r] = rec] /\ th[r].pc = "idle" /\ lock' = lock
    BY <1>0, <1>1 DEF Threads, StartPass
  <2> HIDE DEF R
  <2>3. rec \in ThreadRec
    BY <1>0, <2>1 DEF ThreadRec, PassPcs
  <2>4. Placed(r, rec) /\ Moved(r, rec)
    BY <1>0, <2>1, <2>2 DEF Placed, Moved, Inside, ThreadRec, PassPcs, Dealing
  <2>5. Tables'
    BY <1>1 DEF Tables, StartPass
  <2> QED
    BY <1>0, <2>2, <2>3, <2>4, <2>5, OneThread
<1>2. CASE LoadJournal(r)
  <2>0. th[r].pc = "pass" /\ UNCHANGED <<row, disk, fence, env>>
    BY <1>2 DEF LoadJournal
  <2>1. PICK q \in th[r].rows :
            th' = [th EXCEPT ![r].pc = "loaded", ![r].rows = @ \ {q},
                             ![r].order = q.order, ![r].seen = q.state,
                             ![r].result = q.result, ![r].journal = journal[q.order]]
    BY <1>2 DEF LoadJournal
  <2> DEFINE rec == [th[r] EXCEPT !.pc = "loaded", !.rows = @ \ {q}, !.order = q.order,
                                  !.seen = q.state, !.result = q.result,
                                  !.journal = journal[q.order]]
  <2>2. q \in Picked /\ th[r].rows \subseteq Picked
    BY <1>0, <2>0, <2>1 DEF Placed, Dealing
  <2>3. q.order \in Order /\ q.state \in State /\ q.result \in ResultRec
    BY <2>2 DEF Picked
  <2>4. journal[q.order] \in Journals
    BY <2>3 DEF Tables
  <2>5. th' = [th EXCEPT ![r] = rec]
    BY <1>0, <2>1 DEF Threads
  <2>6. rec \in ThreadRec
    BY <1>0, <2>3, <2>4 DEF ThreadRec, PassPcs
  <2>7. Placed(r, rec) /\ Moved(r, rec)
    BY <1>0, <2>0, <2>2, <2>3 DEF Placed, Moved, Inside, ThreadRec, PassPcs, Dealing
  <2>8. Tables'
    BY <2>0 DEF Tables
  <2> QED
    BY <1>0, <2>0, <2>5, <2>6, <2>7, <2>8, OneThread
<1>3. ASSUME Defer(r), th[r].pc = "loaded", UNCHANGED <<row, disk, fence, env>>
      PROVE  TInv'
  <2> DEFINE rec == [th[r] EXCEPT !.pc = "pass", !.order = None, !.late = TRUE]
  <2>1. th' = [th EXCEPT ![r] = rec]
    BY <1>0, <1>3 DEF Threads, Defer
  <2>2. rec \in ThreadRec
    BY <1>0 DEF ThreadRec, PassPcs
  <2>3. Placed(r, rec) /\ Moved(r, rec)
    BY <1>0, <1>3 DEF Placed, Moved, Inside, ThreadRec, PassPcs, Dealing
  <2>4. Tables'
    BY <1>3 DEF Tables
  <2> QED
    BY <1>0, <1>3, <2>1, <2>2, <2>3, <2>4, OneThread
<1>4. CASE RecoverBusy(r)
  BY <1>3, <1>4 DEF RecoverBusy
<1>5. CASE RecoverClaim(r) /\ Unavailable(Mine(r), th[r].journal)
  BY <1>3, <1>5 DEF RecoverClaim
<1>6. CASE RecoverClaim(r) /\ ~Unavailable(Mine(r), th[r].journal)
  <2> DEFINE o == Mine(r)
             safe == ~(th[r].journal = <<>> /\ th[r].result.changed
                         /\ ~th[r].result.checkpoint)
             at == IF th[r].journal = <<>> THEN "update" ELSE "claimed"
             rec == [th[r] EXCEPT !.token = attempt[o].token + 1, !.pc = at, !.ok = safe]
  <2>0. /\ th[r].pc = "loaded" /\ lock = None /\ UNCHANGED <<row, disk, env, lock>>
        /\ attempt' = ClaimedBy(o)
        /\ lease' = [f \in File |-> IF f \in FilesOf(th[r].journal) THEN Recovering(o)
                                     ELSE lease[f]]
        /\ th' = [th EXCEPT ![r].token = attempt[o].token + 1, ![r].pc = at, ![r].ok = safe]
    BY <1>6 DEF RecoverClaim
  <2>1. o \in Order
    BY <1>0, <2>0 DEF Placed, Mine, Dealing
  <2>2. attempt[o].token + 1 \in Nat /\ safe \in BOOLEAN /\ at \in {"update", "claimed"}
    BY <2>1 DEF Tables, AttemptRec
  <2>3. attempt' = [attempt EXCEPT ![o] = [token |-> attempt[o].token + 1, live |-> TRUE]]
    BY <2>0, <2>1 DEF ClaimedBy, Tables
  <2>4. attempt' \in [Order -> AttemptRec]
    BY <2>1, <2>2, <2>3 DEF Tables, AttemptRec
  <2>5. lease' \in [File -> Holders]
    BY <2>0, <2>1 DEF Tables, Holders, Recovering
  <2> HIDE DEF o, safe, at
  <2>6. th' = [th EXCEPT ![r] = rec]
    BY <1>0, <2>0 DEF Threads
  <2>7. rec \in ThreadRec
    BY <1>0, <2>2 DEF ThreadRec, PassPcs
  <2>8. Placed(r, rec) /\ Moved(r, rec)
    BY <1>0, <2>0, <2>2 DEF Placed, Moved, Inside, ThreadRec, PassPcs, Dealing
  <2>9. Tables'
    BY <2>0, <2>4, <2>5 DEF Tables
  <2> QED
    BY <1>0, <2>6, <2>7, <2>8, <2>9, OneThread
<1>7. CASE RecoverRestore(r)
  <2> DEFINE rec == [th[r] EXCEPT !.pc = "restore", !.todo = RestorePlan(th[r].journal)]
  <2>1. RestorePlan(th[r].journal) \in Todos
    BY <1>0, PlanShape DEF ThreadRec
  <2>2. th' = [th EXCEPT ![r] = rec]
    BY <1>0, <1>7 DEF Threads, RecoverRestore
  <2>3. rec \in ThreadRec
    BY <1>0, <2>1 DEF ThreadRec, PassPcs
  <2>4. Placed(r, rec) /\ Moved(r, rec)
    BY <1>0, <1>7 DEF Placed, Moved, Inside, ThreadRec, PassPcs, RecoverRestore, Guarded, Dealing
  <2>5. Tables'
    BY <1>7 DEF Tables, RecoverRestore
  <2> QED
    BY <1>0, <2>2, <2>3, <2>4, <2>5, OneThread
<1>8. CASE RecoverRefused(r)
  <2> DEFINE rec == [th[r] EXCEPT !.pc = "update", !.ok = FALSE]
  <2>1. th' = [th EXCEPT ![r] = rec] /\ th[r].pc = "claimed" /\ lock' = lock
    BY <1>0, <1>8 DEF Threads, RecoverRefused
  <2>2. rec \in ThreadRec
    BY <1>0 DEF ThreadRec, PassPcs
  <2>3. Placed(r, rec) /\ Moved(r, rec)
    BY <1>0, <2>1 DEF Placed, Moved, Inside, ThreadRec, PassPcs, Dealing
  <2>4. lease' \in [File -> Holders]
    BY <1>8 DEF RecoverRefused, Without, Tables, Holders
  <2>5. Tables'
    BY <1>8, <2>4 DEF Tables, RecoverRefused
  <2> QED
    BY <1>0, <2>1, <2>2, <2>3, <2>5, OneThread
<1> QED
  BY <1>1, <1>2, <1>4, <1>5, <1>6, <1>7, <1>8

\* A recovery pass: recording what it did, and the journals of complete orders
LEMMA RecordTypes ==
    ASSUME TInv, NEW r \in Recoverer,
           \/ RecoverUpdate(r) \/ RecoverLost(r) \/ RecoverAborts(r) \/ RecoverRelease(r)
           \/ StartCleanup(r) \/ Cleanup(r) \/ EndPass(r)
    PROVE  TInv'
<1> USE DEF TInv, disk, fence, env
<1>0. r \in Thread /\ r \notin Worker /\ th[r] \in ThreadRec /\ Placed(r, th[r])
  BY ThreadAssumption DEF Thread, Threads, Places
<1>o. th[r].pc \in Dealing => Mine(r) \in Order
  BY <1>0 DEF Mine, Placed
<1>h. Host[r] \in Instance
  BY <1>0, ThreadAssumption
<1>a. Mine(r) \in Order => Released(r) \in [Order -> AttemptRec]
  BY DEF Released, Tables, AttemptRec
<1>1. CASE RecoverUpdate(r)
  <2> DEFINE rec == [th[r] EXCEPT !.pc = "release"]
             o == Mine(r)
             unsafe == [NoResult EXCEPT !.unsafe = (Mode(o) = "bounded")]
  <2>1. th[r].pc = "update" /\ UNCHANGED <<disk, fence, env>> /\ Go(r, "release")
    BY <1>1 DEF RecoverUpdate
  <2>2. o \in Order
    BY <1>o, <2>1 DEF Dealing
  <2>3. \E s \in State : \/ row' = row
                         \/ row' = WithState(o, s, unsafe)
                         \/ row' = WithState(o, s, NoResult)
    BY <1>1 DEF RecoverUpdate, State, Terminal
  <2>4. unsafe \in ResultRec
    BY ResultShape
  <2> HIDE DEF o, unsafe
  <2>5. row' \in [Order -> RowRec]
    BY <2>2, <2>3, <2>4, RowShape, ResultShape DEF Tables
  <2>6. Tables'
    BY <2>1, <2>5 DEF Tables
  <2>7. th' = [th EXCEPT ![r] = rec] /\ rec \in ThreadRec
    BY <1>0, <2>1 DEF Threads, Go, ThreadRec, PassPcs
  <2>8. Placed(r, rec) /\ Moved(r, rec)
    BY <1>0, <2>1 DEF Placed, Moved, Inside, ThreadRec, PassPcs, Dealing
  <2> QED
    BY <1>0, <2>6, <2>7, <2>8, OneThread
<1>2. CASE RecoverLost(r)
  <2> DEFINE rec == [th[r] EXCEPT !.pc = "release", !.late = TRUE]
  <2>1. /\ th[r].pc = "update" /\ UNCHANGED <<row, disk, fence, env>>
        /\ th' = [th EXCEPT ![r] = rec]
    BY <1>0, <1>2 DEF RecoverLost, Threads
  <2>2. rec \in ThreadRec /\ Tables'
    BY <1>0, <2>1 DEF ThreadRec, PassPcs, Tables
  <2>3. Placed(r, rec) /\ Moved(r, rec)
    BY <1>0, <2>1 DEF Placed, Moved, Inside, ThreadRec, PassPcs, Dealing
  <2> QED
    BY <1>0, <2>1, <2>2, <2>3, OneThread
<1>3. CASE RecoverAborts(r)
  <2>1. /\ th[r].pc = "update" /\ th' = [th EXCEPT ![r] = IdleThread]
        /\ attempt' \in {attempt, Released(r)}
        /\ up' = [up EXCEPT ![Host[r]] = IF @ = "starting" THEN "down" ELSE @]
        /\ UNCHANGED <<row, disk, lease, lock, retry, patches>>
    BY <1>3 DEF RecoverAborts
  <2>2. Placed(r, IdleThread) /\ Moved(r, IdleThread)
    BY <1>0, <2>1, IdleShape DEF Moved, Inside
  <2>3. attempt' \in [Order -> AttemptRec]
    BY <1>a, <1>o, <2>1 DEF Dealing, Tables
  <2>4. up' \in [Instance -> {"down", "starting", "up", "stopping"}]
    BY <2>1 DEF Tables
  <2>5. Tables'
    BY <2>1, <2>3, <2>4 DEF Tables
  <2> QED
    BY <1>0, <2>1, <2>2, <2>5, IdleShape, OneThread
<1>p. ASSUME th[r].pc \in Dealing
      PROVE  LET rec == [IdleThread EXCEPT !.pc = "pass", !.rows = th[r].rows,
                                           !.late = th[r].late]
             IN  rec \in ThreadRec /\ Placed(r, rec) /\ rec.pc \notin Inside
  <2> DEFINE rec == [IdleThread EXCEPT !.pc = "pass", !.rows = th[r].rows, !.late = th[r].late]
  <2>1. IdleThread \in ThreadRec
    BY IdleShape
  <2>2. th[r].rows \subseteq Picked /\ th[r].late \in BOOLEAN
    BY <1>0, <1>p DEF Placed, ThreadRec
  <2>3. rec \in ThreadRec
    BY <2>1, <2>2 DEF ThreadRec, PassPcs
  <2>4. rec.pc = "pass" /\ rec.rows \subseteq Picked
    BY <2>1, <2>2 DEF ThreadRec
  <2> HIDE DEF rec
  <2>5. Placed(r, rec) /\ rec.pc \notin Inside
    BY <1>0, <2>4 DEF Placed, PassPcs, Dealing, Inside
  <2> QED
    BY <2>3, <2>5 DEF rec
<1>4. CASE RecoverRelease(r)
  <2> DEFINE rec == [IdleThread EXCEPT !.pc = "pass", !.rows = th[r].rows, !.late = th[r].late]
  <2>1. /\ th[r].pc = "release" /\ th' = [th EXCEPT ![r] = rec]
        /\ attempt' \in {attempt, Released(r)}
        /\ UNCHANGED <<row, disk, env, lease, lock>>
    BY <1>4 DEF RecoverRelease
  <2>2. rec \in ThreadRec /\ Placed(r, rec) /\ rec.pc \notin Inside
    BY <1>p, <2>1 DEF Dealing
  <2> HIDE DEF rec
  <2>3. Moved(r, rec)
    BY <2>1, <2>2 DEF Moved, Inside
  <2>4. attempt' \in [Order -> AttemptRec]
    BY <1>a, <1>o, <2>1 DEF Dealing, Tables
  <2>5. Tables'
    BY <2>1, <2>4 DEF Tables
  <2> QED
    BY <1>0, <2>1, <2>2, <2>3, <2>5, OneThread
<1>5. CASE StartCleanup(r)
  <2> DEFINE C == {o \in Order : row[o].state = "complete"}
             rec == [th[r] EXCEPT !.pc = "cleanup", !.rows = C]
  <2>1. /\ th[r].pc = "pass" /\ th' = [th EXCEPT ![r] = rec]
        /\ UNCHANGED <<row, disk, fence, env>>
    BY <1>0, <1>5 DEF StartCleanup, Threads
  <2>2. C \subseteq Order
    OBVIOUS
  <2> HIDE DEF C
  <2>3. rec \in ThreadRec /\ Tables'
    BY <1>0, <2>1, <2>2 DEF ThreadRec, PassPcs, Tables
  <2>4. Placed(r, rec) /\ Moved(r, rec)
    BY <1>0, <2>1, <2>2 DEF Placed, Moved, Inside, ThreadRec, PassPcs, Dealing
  <2> QED
    BY <1>0, <2>1, <2>3, <2>4, OneThread
<1>6. CASE Cleanup(r)
  <2> DEFINE clear(o) == journal[o] # <<>> /\ ~attempt[o].live /\ row[o].state = "complete"
             lt(o) == th[r].late \/ (journal[o] # <<>> /\ attempt[o].live)
  <2>0. th[r].pc = "cleanup" /\ UNCHANGED <<row, env, file, lease, lock>>
    BY <1>6 DEF Cleanup
  <2>1. PICK o \in th[r].rows :
            /\ journal' = IF clear(o) THEN [journal EXCEPT ![o] = <<>>] ELSE journal
            /\ attempt' = IF clear(o) THEN [attempt EXCEPT ![o].token = @ + 1] ELSE attempt
            /\ th' = [th EXCEPT ![r].rows = @ \ {o}, ![r].late = lt(o)]
    BY <1>0, <1>6 DEF Cleanup, Threads
  <2>2. o \in Order /\ th[r].rows \subseteq Order
    BY <1>0, <2>0, <2>1 DEF Placed
  <2>3. lt(o) \in BOOLEAN
    OBVIOUS
  <2> HIDE DEF clear, lt
  <2> DEFINE rec == [th[r] EXCEPT !.rows = @ \ {o}, !.late = lt(o)]
  <2>4. th' = [th EXCEPT ![r] = rec]
    BY <1>0, <2>1 DEF Threads
  <2>5. rec \in ThreadRec
    BY <1>0, <2>2, <2>3 DEF ThreadRec
  <2>6. Placed(r, rec) /\ Moved(r, rec)
    BY <1>0, <2>0, <2>2, <2>3 DEF Placed, Moved, Inside, ThreadRec, PassPcs, Dealing
  <2>7. journal' \in [Order -> Journals]
    BY <2>1, <2>2, ClearShape DEF Tables
  <2>8. attempt' \in [Order -> AttemptRec]
    <3> DEFINE new == [attempt[o] EXCEPT !.token = attempt[o].token + 1]
    <3>1. new \in AttemptRec
      BY <2>2 DEF Tables, AttemptRec
    <3>2. CASE clear(o)
      <4>1. attempt' = [attempt EXCEPT ![o] = new]
        BY <2>1, <2>2, <3>2 DEF Tables
      <4> QED
        BY <2>2, <3>1, <4>1 DEF Tables
    <3>3. CASE ~clear(o)
      BY <2>1, <3>3 DEF Tables
    <3> QED
      BY <3>2, <3>3
  <2>9. Tables'
    BY <2>0, <2>7, <2>8 DEF Tables
  <2> QED
    BY <1>0, <2>4, <2>5, <2>6, <2>9, OneThread
<1>7. CASE EndPass(r)
  <2>1. /\ th[r].pc = "cleanup" /\ th' = [th EXCEPT ![r] = IdleThread]
        /\ retry' \in {retry, retry \cup {Host[r]}}
        /\ up' = [up EXCEPT ![Host[r]] = IF @ = "starting" THEN "up" ELSE @]
        /\ UNCHANGED <<row, disk, fence, patches>>
    BY <1>7 DEF EndPass
  <2>2. Placed(r, IdleThread) /\ Moved(r, IdleThread)
    BY <1>0, <2>1, IdleShape DEF Moved, Inside
  <2>3. up' \in [Instance -> {"down", "starting", "up", "stopping"}] /\ retry' \subseteq Instance
    BY <1>h, <2>1 DEF Tables
  <2>4. Tables'
    BY <2>1, <2>3 DEF Tables
  <2> QED
    BY <1>0, <2>1, <2>2, <2>4, IdleShape, OneThread
<1> QED
  BY <1>1, <1>2, <1>3, <1>4, <1>5, <1>6, <1>7

\* Writing files under commit_guard, the checkpoint and the end of a restore
LEMMA RestoreTypes ==
    ASSUME TInv, NEW t \in Thread, RestoreStep(t)
    PROVE  TInv'
<1> USE DEF TInv, disk, fence, env
<1>0. th[t] \in ThreadRec /\ Placed(t, th[t])
  BY DEF Threads, Places
<1>k. t \in Worker \/ (t \in Recoverer /\ t \notin Worker)
  BY ThreadAssumption DEF Thread
<1>o. th[t].pc \in Inside => Mine(t) \in Order
  BY <1>0, <1>k DEF Mine, Placed, Inside, Dealing, PassPcs
<1>l. th[t].pc \in Inside => lock = t
  BY DEF Locks
<1>h. \A h : Without(h) \in [File -> Holders]
  BY DEF Without, Tables, Holders
<1>1. CASE WriteFile(t)
  <2>0. th[t].pc \in {"apply", "unapply", "restore"} /\ UNCHANGED <<row, fence, env, journal>>
    BY <1>1 DEF WriteFile
  <2>1. PICK f \in DOMAIN th[t].todo :
            /\ file' = [file EXCEPT ![f] = th[t].todo[f]]
            /\ th' = [th EXCEPT ![t].todo = [g \in DOMAIN th[t].todo \ {f} |-> th[t].todo[g]]]
    BY <1>1 DEF WriteFile
  <2> DEFINE rest == [g \in DOMAIN th[t].todo \ {f} |-> th[t].todo[g]]
             rec == [th[t] EXCEPT !.todo = rest]
  <2>2. PICK D \in SUBSET File : th[t].todo \in [D -> Version]
    BY <1>0 DEF ThreadRec, Todos
  <2>3. f \in File /\ th[t].todo[f] \in Version
    BY <2>1, <2>2
  <2>4. rest \in [D \ {f} -> Version]
    BY <2>2
  <2>5. rest \in Todos
    BY <2>4 DEF Todos
  <2>6. th' = [th EXCEPT ![t] = rec]
    BY <1>0, <2>1 DEF Threads
  <2> HIDE DEF rest
  <2>7. rec \in ThreadRec
    BY <1>0, <2>5 DEF ThreadRec
  <2>8. Placed(t, rec) /\ Moved(t, rec)
    BY <1>0, <2>0 DEF Placed, Moved, ThreadRec
  <2>9. Tables'
    BY <2>0, <2>1, <2>3 DEF Tables
  <2> QED
    BY <2>6, <2>7, <2>8, <2>9, OneThread
<1>2. CASE Checkpoint(t) /\ row[Mine(t)].state \in Transient
  <2> DEFINE rec == [th[t] EXCEPT !.pc = "clear"]
  <2>0. /\ th[t].pc = "restore" /\ UNCHANGED <<disk, env, attempt, lock, lease>>
        /\ row' = [row EXCEPT ![Mine(t)].result.checkpoint = TRUE]
        /\ th' = [th EXCEPT ![t] = rec]
    BY <1>0, <1>2 DEF Checkpoint, Go, Threads
  <2>1. Mine(t) \in Order
    BY <1>o, <2>0 DEF Inside
  <2>2. row' \in [Order -> RowRec]
    <3> DEFINE res == [row[Mine(t)].result EXCEPT !.checkpoint = TRUE]
               new == [row[Mine(t)] EXCEPT !.result = res]
    <3>0. res \in ResultRec
      <4>1. row[Mine(t)].result \in ResultRec
        BY <2>1 DEF Tables, RowRec
      <4> QED
        BY <4>1 DEF ResultRec
    <3>1. new \in RowRec
      BY <2>1, <3>0 DEF Tables, RowRec
    <3>2. row' = [row EXCEPT ![Mine(t)] = new]
      BY <2>0, <2>1 DEF Tables
    <3> QED
      BY <2>1, <3>1, <3>2 DEF Tables
  <2>3. rec \in ThreadRec
    BY <1>0 DEF ThreadRec, WorkPcs
  <2>4. Placed(t, rec) /\ Moved(t, rec)
    BY <1>0, <1>k, <2>0, ThreadAssumption
    DEF Placed, Moved, Inside, ThreadRec, WorkPcs, PassPcs, Dealing
  <2>5. Tables'
    BY <2>0, <2>2 DEF Tables
  <2> QED
    BY <2>0, <2>3, <2>4, <2>5, OneThread
<1>3. CASE Checkpoint(t) /\ row[Mine(t)].state \notin Transient
  <2>0. /\ th[t].pc = "restore" /\ lock' = None /\ lease' = Without(Recovering(Mine(t)))
        /\ th' = AfterFailedRestore(t) /\ UNCHANGED <<row, disk, env, attempt>>
    BY <1>3 DEF Checkpoint
  <2>1. Tables'
    BY <1>h, <2>0 DEF Tables
  <2>2. CASE t \in Worker
    BY <2>0, <2>1, <2>2, FailedRollbackTypes DEF AfterFailedRestore
  <2>3. CASE t \notin Worker
    <3> DEFINE rec == [th[t] EXCEPT !.pc = "update", !.ok = FALSE]
    <3>1. th' = [th EXCEPT ![t] = rec]
      BY <1>0, <2>0, <2>3 DEF AfterFailedRestore, Threads
    <3>2. rec \in ThreadRec
      BY <1>0 DEF ThreadRec, PassPcs
    <3>3. Placed(t, rec) /\ Moved(t, rec)
      BY <1>0, <1>k, <1>l, <2>0, <2>3, ThreadAssumption
      DEF Placed, Moved, Inside, ThreadRec, PassPcs, Dealing
    <3> QED
      BY <2>1, <3>1, <3>2, <3>3, OneThread
  <2> QED
    BY <2>2, <2>3
<1>4. CASE ClearJournal(t)
  <2> DEFINE at == IF t \in Worker THEN "ending" ELSE "update"
             ed == th[t].edited /\ ~Own(t)
             safe == Own(t)
             rec == [th[t] EXCEPT !.pc = at, !.journal = <<>>, !.edited = ed, !.ok = safe]
  <2>0. /\ th[t].pc = "clear" /\ UNCHANGED <<row, env, file, attempt>>
        /\ journal' = [journal EXCEPT ![Mine(t)] = <<>>]
        /\ lock' = None /\ lease' = Without(Recovering(Mine(t)))
        /\ th' = [th EXCEPT ![t].pc = at, ![t].journal = <<>>, ![t].edited = ed,
                            ![t].ok = safe]
    BY <1>0, <1>4 DEF ClearJournal, Threads
  <2>1. Mine(t) \in Order
    BY <1>o, <2>0 DEF Inside
  <2>2. ed \in BOOLEAN /\ safe \in BOOLEAN /\ at \in {"ending", "update"}
    BY <2>1 DEF Own, Tables, AttemptRec
  <2>3. (t \in Worker => at = "ending") /\ (t \notin Worker => at = "update")
    OBVIOUS
  <2> HIDE DEF at, ed, safe
  <2>4. th' = [th EXCEPT ![t] = rec]
    BY <1>0, <2>0 DEF Threads
  <2>5. rec \in ThreadRec
    <3>1. <<>> \in Journals
      BY DEF Journals
    <3>2. at \in WorkPcs \cup PassPcs
      BY <2>2 DEF WorkPcs, PassPcs
    <3> QED
      BY <1>0, <2>2, <3>1, <3>2 DEF ThreadRec
  <2>6. Placed(t, rec) /\ Moved(t, rec)
    BY <1>0, <1>k, <1>l, <2>0, <2>3, ThreadAssumption
    DEF Placed, Moved, Inside, ThreadRec, WorkPcs, PassPcs, Dealing
  <2>7. journal' \in [Order -> Journals]
    BY <2>0, <2>1, ClearShape
  <2>8. Tables'
    BY <1>h, <2>0, <2>7 DEF Tables
  <2> QED
    BY <2>4, <2>5, <2>6, <2>8, OneThread
<1> QED
  BY <1>1, <1>2, <1>3, <1>4 DEF RestoreStep

\* Callers, processes and time
LEMMA OutsideTypes ==
    ASSUME TInv,
           \/ \E o \in Order : Submit(o) \/ Cancel(o) \/ Continue(o) \/ ExpireAttempt(o)
           \/ \E i \in Instance : Start(i) \/ Crash(i) \/ Close(i) \/ Stopped(i)
           \/ \E f \in File : ExpireLease(f)
    PROVE  TInv'
<1> USE DEF TInv, disk, fence, env
<1>1. ASSUME NEW o \in Order, Submit(o)
      PROVE  TInv'
  <2>1. PICK q \in Requests :
            row' = [row EXCEPT ![o] = [@ EXCEPT !.state = "queued", !.request = q]]
    BY <1>1 DEF Submit, Tables
  <2>2. [row[o] EXCEPT !.state = "queued", !.request = q] \in RowRec
    BY RequestAssumption, ZenonT(60) DEF Tables, RowRec, RequestRec, State
  <2>3. Tables' /\ UNCHANGED <<th, lock>>
    BY <1>1, <2>1, <2>2, ZenonT(60) DEF Submit, Tables
  <2> QED
    BY <2>3, NoThread
<1>2. ASSUME NEW o \in Order, Cancel(o)
      PROVE  TInv'
  <2>1. row' = [row EXCEPT ![o] = [@ EXCEPT !.cancel = TRUE]]
    BY <1>2 DEF Cancel, Tables
  <2>2. [row[o] EXCEPT !.cancel = TRUE] \in RowRec
    BY DEF Tables, RowRec
  <2>3. Tables' /\ UNCHANGED <<th, lock>>
    BY <1>2, <2>1, <2>2 DEF Cancel, Tables
  <2> QED
    BY <2>3, NoThread
<1>3. ASSUME NEW o \in Order, Continue(o)
      PROVE  TInv'
  <2>1. row' = [row EXCEPT ![o] = [@ EXCEPT !.state = "queued", !.answered = TRUE]]
    BY <1>3 DEF Continue, Tables
  <2>2. [row[o] EXCEPT !.state = "queued", !.answered = TRUE] \in RowRec
    BY DEF Tables, RowRec, State
  <2>3. Tables' /\ UNCHANGED <<th, lock>>
    BY <1>3, <2>1, <2>2 DEF Continue, Tables
  <2> QED
    BY <2>3, NoThread
<1>4. ASSUME NEW o \in Order, ExpireAttempt(o)
      PROVE  TInv'
  <2>1. Tables' /\ UNCHANGED <<th, lock>>
    BY <1>4 DEF ExpireAttempt, Tables, AttemptRec
  <2> QED
    BY <2>1, NoThread
<1>5. ASSUME NEW f \in File, ExpireLease(f)
      PROVE  TInv'
  <2>1. Tables' /\ UNCHANGED <<th, lock>>
    BY <1>5 DEF ExpireLease, Tables, Holders
  <2> QED
    BY <2>1, NoThread
<1>6. ASSUME NEW i \in Instance, Start(i) \/ Close(i) \/ Stopped(i)
      PROVE  TInv'
  <2>1. Tables' /\ UNCHANGED <<th, lock>>
    BY <1>6 DEF Start, Close, Stopped, Tables
  <2> QED
    BY <2>1, NoThread
<1>7. ASSUME NEW i \in Instance, Crash(i)
      PROVE  TInv'
  <2>1. /\ th' = [t \in Thread |-> IF Host[t] = i THEN IdleThread ELSE th[t]]
        /\ lock' = IF lock # None /\ Host[lock] = i THEN None ELSE lock
        /\ up' = [up EXCEPT ![i] = "down"] /\ retry' = retry \ {i}
        /\ UNCHANGED <<row, journal, attempt, lease, patches>>
    BY <1>7 DEF Crash
  <2>2. /\ th' \in [Thread -> ThreadRec]
        /\ \A t \in Thread : th'[t] = IdleThread \/ (th'[t] = th[t] /\ Host[t] # i)
        /\ \A t \in Thread : Host[t] = i => th'[t] = IdleThread
    BY <2>1, IdleShape DEF Threads
  <2>3. Places'
    BY <2>2, IdleShape DEF Places
  <2>4. Threads'
    BY <2>1, <2>2 DEF Threads
  <2>5. Locks'
    BY <2>1, <2>2, IdleShape, ThreadAssumption DEF Locks, Threads
  <2>6. file' \in [File -> Version]
    <3>1. CASE file' = file
      BY <3>1 DEF Tables
    <3>2. CASE lock # None /\ \E f \in DOMAIN th[lock].todo :
                 file' = [file EXCEPT ![f] = [th[lock].todo[f] EXCEPT !.torn = TRUE]]
      <4>0. th[lock] \in ThreadRec
        BY <3>2 DEF Threads
      <4>1. PICK D \in SUBSET File : th[lock].todo \in [D -> Version]
        BY <4>0 DEF ThreadRec, Todos
      <4>2. \A v \in Version : [v EXCEPT !.torn = TRUE] \in Version
        BY DEF Version
      <4> QED
        BY <3>2, <4>1, <4>2 DEF Tables
    <3> QED
      BY <1>7, <3>1, <3>2 DEF Crash
  <2>7. Tables'
    BY <2>1, <2>6 DEF Tables
  <2> QED
    BY <2>3, <2>4, <2>5, <2>7
<1> QED
  BY <1>1, <1>2, <1>3, <1>4, <1>5, <1>6, <1>7

\* Every step keeps the types.
LEMMA NextTypes ==
    ASSUME TInv, [Next]_vars
    PROVE  TInv'
<1>1. CASE UNCHANGED vars
  BY <1>1, NoThread DEF vars, disk, fence, env, TInv, Tables
<1>2. CASE Next
  BY <1>2, OutsideTypes, TakeTypes, PlanTypes, PatchTypes, FinishTypes, EndTypes,
     PassTypes, RecordTypes, RestoreTypes
  DEF Next, WorkerStep, RecoveryStep
<1> QED
  BY <1>1, <1>2

\* The types that the runs check follow.
LEMMA TypesOK == TInv => TypeOK
BY DEF TInv, Tables, Threads, Locks, TypeOK, RowRec, RequestRec, ResultRec, Journals,
       AttemptRec, Holders, Inside

\* Whatever the orders, files, threads and bounds: the tables, the workspace and
\* the journals keep their types, and the write lock is held by exactly the thread
\* inside commit_guard (_apply_patch, _rollback_transaction, _recover).
THEOREM TypeCorrect == Spec => []TypeOK
<1>1. Init => TInv
  BY InitTInv
<1>2. TInv /\ [Next]_vars => TInv'
  BY NextTypes
<1>3. TInv => TypeOK
  BY TypesOK
<1> QED
  BY <1>1, <1>2, <1>3, PTL DEF Spec

-----------------------------------------------------------------------------
(* A rollback takes back only what its own order wrote *)

\* The entries of a journal of order o were written by patches of o, over versions
\* of the first n patches.
Written(o, j, n) == \A k \in DOMAIN j : j[k].post.by = o /\ j[k].pre.n <= n

\* What thread t is about to write.  While a patch is applied a file has the content
\* before or after it; what a restore replaces was written by the order it undoes.
Kept(t, rec) ==
    /\ t \in Worker => /\ Written(rec.order, rec.journal, patches)
                       /\ rec.pc = "idle" => rec.journal = <<>>
    /\ t \in Recoverer /\ rec.pc \in Dealing => Written(rec.order, rec.journal, patches)
    /\ rec.pc = "apply" =>
          /\ \A f \in DOMAIN rec.todo : rec.todo[f].n = patches
          /\ \A k \in rec.start + 1..Len(rec.journal) :
                /\ file[rec.journal[k].file] \in {rec.journal[k].pre, rec.journal[k].post}
                /\ rec.journal[k].file \in DOMAIN rec.todo =>
                      rec.todo[rec.journal[k].file] = rec.journal[k].post
                /\ \A l \in rec.start + 1..Len(rec.journal) :
                      rec.journal[k].file = rec.journal[l].file => k = l
    /\ rec.pc \in {"unapply", "restore"} =>
          \A f \in DOMAIN rec.todo : file[f].by = rec.order /\ rec.todo[f].n <= patches
    /\ rec.pc = "clear" => rec.todo = Nothing

History ==
    /\ \A f \in File : file[f].n <= patches
    /\ \A o \in Order : Written(o, journal[o], patches)
    /\ \A t \in Thread : Kept(t, th[t])

\* An empty journal
LEMMA NothingWritten ==
    /\ \A o, n : Written(o, <<>>, n)
    /\ \A t \in Thread : Kept(t, IdleThread)
BY DEF Written, Kept, IdleThread, Dealing

\* A journal restored without refusal undoes files that its order wrote last: an entry
\* that finds a version of someone else finds its own preimage, and so do those
\* before it.
LEMMA RestoresOwn ==
    ASSUME NEW j \in Journals, NEW o, \A k \in DOMAIN j : j[k].post.by = o, Restorable(j),
           NEW f \in {j[k].file : k \in Restored(j)}
    PROVE  file[f].by = o
<1> SUFFICES ASSUME file[f].by # o PROVE FALSE
  OBVIOUS
<1> DEFINE B == {k \in DOMAIN j : j[k].file = f /\ Found(j, k).by = o}
<1>1. PICK k \in Restored(j) : j[k].file = f
  OBVIOUS
<1>2. k \in B
  BY <1>1 DEF Restorable, Restored
<1>3. Len(j) \in Nat /\ B \subseteq 0..Len(j)
  BY JournalIndices
<1>4. PICK m \in B : \A n \in B : n <= m
  BY <1>2, <1>3, MaxIndex
<1>5. m \in DOMAIN j /\ j[m].file = f
  OBVIOUS
<1>6. PICK l \in Later(j, m) : Found(j, m) = j[l].pre
  BY <1>4, <1>5, FoundType
<1>7. l \in DOMAIN j /\ l > m /\ j[l].file = f
  BY <1>5 DEF Later
<1>8. l \in Restored(j) => Found(j, l).by = o
  BY <1>7 DEF Restorable
<1>9. l \notin Restored(j) => Found(j, l) = j[l].pre
  BY <1>7 DEF Restored
<1>10. l \in B
  BY <1>4, <1>6, <1>7, <1>8, <1>9
<1> QED
  BY <1>3, <1>4, <1>7, <1>10

\* What thread t may become in a step that writes no file
Calm(t, rec) ==
    \/ rec = th[t]
    \/ rec = IdleThread
    \/ /\ rec.pc \notin {"idle", "apply", "unapply", "restore"}
       /\ t \in Worker \/ th[t].pc \in Dealing \/ rec.pc \notin Dealing
       /\ t \in Worker => rec.order = th[t].order
       /\ rec.pc \in Dealing => rec.order = th[t].order
       /\ rec.journal \in {th[t].journal, <<>>}
       /\ rec.pc = "clear" => rec.todo = Nothing

\* Steps that write no file and no entry
LEMMA CalmStep ==
    ASSUME TInv, TInv', History, UNCHANGED <<file, patches>>,
           \A o \in Order : journal'[o] \in {journal[o], <<>>},
           \A t \in Thread : Calm(t, th'[t])
    PROVE  History'
<1>1. \A f \in File : file'[f].n <= patches'
  BY DEF History
<1>2. \A o \in Order : Written(o, journal[o], patches)'
  BY NothingWritten DEF History, Written
<1>3. ASSUME NEW t \in Thread
      PROVE  Kept(t, th[t])'
  <2>1. Kept(t, th[t])
    BY DEF History
  <2>3. CASE th'[t] = th[t]
    BY <2>1, <2>3 DEF Kept, Written
  <2>4. CASE th'[t] = IdleThread
    BY <2>4 DEF Kept, Written, IdleThread, Dealing
  <2>5. CASE th'[t] # th[t] /\ th'[t] # IdleThread
    <3>1. /\ th'[t].pc \notin {"idle", "apply", "unapply", "restore"}
          /\ t \in Worker \/ th[t].pc \in Dealing \/ th'[t].pc \notin Dealing
          /\ t \in Worker => th'[t].order = th[t].order
          /\ th'[t].pc \in Dealing => th'[t].order = th[t].order
          /\ th'[t].journal \in {th[t].journal, <<>>}
          /\ th'[t].pc = "clear" => th'[t].todo = Nothing
      BY <2>5 DEF Calm
    <3>2. Written(th[t].order, th[t].journal, patches) => Written(th[t].order, th'[t].journal, patches)
      BY <3>1, NothingWritten
    <3>3. t \in Worker => Written(th'[t].order, th'[t].journal, patches)
      BY <2>1, <3>1, <3>2 DEF Kept
    <3>4. t \in Recoverer /\ th'[t].pc \in Dealing =>
             Written(th'[t].order, th'[t].journal, patches)
      BY <2>1, <3>1, <3>2, ThreadAssumption DEF Kept
    <3> QED
      BY <3>1, <3>3, <3>4 DEF Kept, Written
  <2> QED
    BY <2>3, <2>4, <2>5
<1> QED
  BY <1>1, <1>2, <1>3 DEF History

\* One thread takes the calm step.
LEMMA CalmOne ==
    ASSUME TInv, NEW t \in Thread, NEW rec, th' = [th EXCEPT ![t] = rec], Calm(t, rec)
    PROVE  \A u \in Thread : Calm(u, th'[u])
<1>1. th'[t] = rec /\ \A u \in Thread \ {t} : th'[u] = th[u]
  BY DEF TInv, Threads
<1> QED
  BY <1>1 DEF Calm

\* A thread that becomes idle, and a worker that only moves on
LEMMA CalmMoves ==
    ASSUME TInv, NEW t \in Thread,
           \/ th' = [th EXCEPT ![t] = IdleThread]
           \/ /\ t \in Worker
              /\ \E p \in WorkPcs \ ({"idle"} \cup Inside) :
                   Go(t, p) \/ \E g : th' = [th EXCEPT ![t].pc = p, ![t].goal = g]
    PROVE  \A u \in Thread : Calm(u, th'[u])
<1>0. th[t] \in ThreadRec
  BY DEF TInv, Threads
<1>1. CASE th' = [th EXCEPT ![t] = IdleThread]
  BY <1>1, CalmOne DEF Calm
<1>2. ASSUME t \in Worker, NEW p \in WorkPcs \ ({"idle"} \cup Inside), Go(t, p)
      PROVE  \A u \in Thread : Calm(u, th'[u])
  <2> DEFINE rec == [th[t] EXCEPT !.pc = p]
  <2>1. th' = [th EXCEPT ![t] = rec]
    BY <1>2 DEF Go, TInv, Threads
  <2>2. rec.pc = p /\ rec.order = th[t].order /\ rec.journal = th[t].journal
    BY <1>0 DEF ThreadRec
  <2>3. Calm(t, rec)
    BY <1>2, <2>2 DEF Calm, Inside
  <2> QED
    BY <2>1, <2>3, CalmOne
<1>3. ASSUME t \in Worker, NEW p \in WorkPcs \ ({"idle"} \cup Inside), NEW g,
             th' = [th EXCEPT ![t].pc = p, ![t].goal = g]
      PROVE  \A u \in Thread : Calm(u, th'[u])
  <2> DEFINE rec == [th[t] EXCEPT !.pc = p, !.goal = g]
  <2>1. th' = [th EXCEPT ![t] = rec]
    BY <1>3 DEF TInv, Threads
  <2>2. rec.pc = p /\ rec.order = th[t].order /\ rec.journal = th[t].journal
    BY <1>0 DEF ThreadRec
  <2>3. Calm(t, rec)
    BY <1>3, <2>2 DEF Calm, Inside
  <2> QED
    BY <2>1, <2>3, CalmOne
<1> QED
  BY <1>1, <1>2, <1>3

\* A failed rollback of a worker
LEMMA CalmFailure ==
    ASSUME TInv, NEW w \in Worker, th' = AfterFailedRollback(w)
    PROVE  \A t \in Thread : Calm(t, th'[t])
<1>0. w \in Thread /\ th[w] \in ThreadRec
  BY DEF Thread, TInv, Threads
<1>1. CASE th' = [th EXCEPT ![w].pc = "raise"]
  BY <1>0, <1>1, CalmMoves DEF Go, WorkPcs, Inside
<1>2. ASSUME NEW g, th' = [th EXCEPT ![w].pc = "ending", ![w].ok = FALSE, ![w].goal = g]
      PROVE  \A t \in Thread : Calm(t, th'[t])
  <2> DEFINE rec == [th[w] EXCEPT !.pc = "ending", !.ok = FALSE, !.goal = g]
  <2>1. th' = [th EXCEPT ![w] = rec]
    BY <1>0, <1>2 DEF TInv, Threads
  <2>2. Calm(w, rec)
    BY <1>0 DEF Calm, ThreadRec
  <2> QED
    BY <1>0, <2>1, <2>2, CalmOne
<1> QED
  BY <1>1, <1>2 DEF AfterFailedRollback

\* Steps of a worker that write no file and no entry
LEMMA CalmWorker ==
    ASSUME TInv, NEW w \in Worker,
           \/ CheckPlanning(w) \/ RowUnavailable(w) \/ ClaimAttempt(w) \/ ClaimBusy(w)
           \/ Begin(w) \/ PlanFails(w) \/ PlanDone(w) \/ StartStep(w) \/ Patched(w)
           \/ StepDone(w) \/ ReviewAsks(w) \/ StartVerify(w) \/ StepFails(w)
           \/ ClearDelivered(w) \/ ClearDeliveredBusy(w) \/ DropJournal(w)
           \/ RollbackRefused(w) \/ End(w) \/ Raise(w) \/ LoseAttempt(w) \/ UpdateBusy(w)
           \/ Release(w)
           \/ \E s \in {"complete", "needs_agent"} : PlanEnds(w, s) \/ Deliver(w, s)
    PROVE  /\ UNCHANGED <<file, patches>>
           /\ \A o \in Order : journal'[o] \in {journal[o], <<>>}
           /\ \A t \in Thread : Calm(t, th'[t])
<1> USE DEF TInv, Threads, disk, fence, env
<1>0. w \in Thread /\ th[w] \in ThreadRec
  BY DEF Thread
<1>1. ASSUME UNCHANGED <<disk, patches>> \/ ClearDelivered(w) \/ DropJournal(w)
      PROVE  UNCHANGED <<file, patches>> /\ \A o \in Order : journal'[o] \in {journal[o], <<>>}
  BY <1>1 DEF ClearDelivered, DropJournal, Tables
<1>2. CASE RowUnavailable(w) \/ ClaimBusy(w) \/ Release(w)
  <2>1. th' = [th EXCEPT ![w] = IdleThread] /\ UNCHANGED <<disk, patches>>
    BY <1>2 DEF RowUnavailable, ClaimBusy, Release
  <2> QED
    BY <1>0, <1>1, <2>1, CalmMoves
<1>3. CASE CheckPlanning(w)
  <2>1. /\ UNCHANGED <<disk, patches>>
        /\ Go(w, "checked") \/ th' = [th EXCEPT ![w] = IdleThread]
    BY <1>3 DEF CheckPlanning
  <2> QED
    BY <1>0, <1>1, <2>1, CalmMoves DEF WorkPcs, Inside
<1>4. CASE ClaimAttempt(w)
  <2>1. /\ UNCHANGED <<disk, patches>>
        /\ \/ th' = [th EXCEPT ![w] = IdleThread]
           \/ th' = [th EXCEPT ![w].pc = "begin", ![w].token = attempt[Mine(w)].token + 1]
    BY <1>4 DEF ClaimAttempt
  <2> DEFINE rec == [th[w] EXCEPT !.pc = "begin", !.token = attempt[Mine(w)].token + 1]
  <2>2. Calm(w, rec)
    BY <1>0 DEF Calm, ThreadRec
  <2>3. CASE th' = [th EXCEPT ![w].pc = "begin", ![w].token = attempt[Mine(w)].token + 1]
    <3>1. th' = [th EXCEPT ![w] = rec]
      BY <1>0, <2>3
    <3> QED
      BY <1>0, <1>1, <2>1, <2>2, <3>1, CalmOne
  <2> QED
    BY <1>0, <1>1, <2>1, <2>3, CalmMoves
<1>5. CASE Begin(w)
  <2>1. /\ UNCHANGED <<disk, patches>>
        /\ \/ Go(w, "release")
           \/ th' = [th EXCEPT ![w].pc = "plan", ![w].steps = MaxSteps]
    BY <1>5 DEF Begin
  <2> DEFINE rec == [th[w] EXCEPT !.pc = "plan", !.steps = MaxSteps]
  <2>2. Calm(w, rec)
    BY <1>0 DEF Calm, ThreadRec
  <2>3. CASE th' = [th EXCEPT ![w].pc = "plan", ![w].steps = MaxSteps]
    <3>1. th' = [th EXCEPT ![w] = rec]
      BY <1>0, <2>3
    <3> QED
      BY <1>0, <1>1, <2>1, <2>2, <3>1, CalmOne
  <2> QED
    BY <1>0, <1>1, <2>1, <2>3, CalmMoves DEF WorkPcs, Inside
<1>6. CASE \/ PlanFails(w) \/ PlanDone(w) \/ StepDone(w) \/ ReviewAsks(w) \/ StartVerify(w)
           \/ StepFails(w) \/ ClearDeliveredBusy(w) \/ End(w) \/ Raise(w) \/ LoseAttempt(w)
           \/ UpdateBusy(w) \/ ClearDelivered(w) \/ DropJournal(w)
           \/ \E s \in {"complete", "needs_agent"} : PlanEnds(w, s) \/ Deliver(w, s)
  <2>1. UNCHANGED <<disk, patches>> \/ ClearDelivered(w) \/ DropJournal(w)
    BY <1>6 DEF PlanFails, PlanDone, StepDone, ReviewAsks, StartVerify, StepFails,
       ClearDeliveredBusy, End, Raise, LoseAttempt, UpdateBusy, PlanEnds, Deliver
  <2>2. \E p \in WorkPcs \ ({"idle"} \cup Inside) :
           Go(w, p) \/ \E g : th' = [th EXCEPT ![w].pc = p, ![w].goal = g]
    BY <1>6 DEF PlanFails, PlanDone, StepDone, ReviewAsks, StartVerify, StepFails,
       ClearDelivered, ClearDeliveredBusy, DropJournal, End, Raise, LoseAttempt, UpdateBusy,
       PlanEnds, Deliver, WorkPcs, Inside
  <2> QED
    BY <1>0, <1>1, <2>1, <2>2, CalmMoves
<1>7. CASE StartStep(w)
  <2>1. /\ UNCHANGED <<disk, patches>>
        /\ \/ \E g : th' = [th EXCEPT ![w].pc = "rollback", ![w].goal = g]
           \/ th' = [th EXCEPT ![w].pc = "body", ![w].steps = @ - 1]
    BY <1>7 DEF StartStep
  <2> DEFINE rec == [th[w] EXCEPT !.pc = "body", !.steps = @ - 1]
  <2>2. Calm(w, rec)
    BY <1>0 DEF Calm, ThreadRec
  <2>3. CASE th' = [th EXCEPT ![w].pc = "body", ![w].steps = @ - 1]
    <3>1. th' = [th EXCEPT ![w] = rec]
      BY <1>0, <2>3
    <3> QED
      BY <1>0, <1>1, <2>1, <2>2, <3>1, CalmOne
  <2> QED
    BY <1>0, <1>1, <2>1, <2>3, CalmMoves DEF WorkPcs, Inside
<1>8. CASE Patched(w)
  <2>1. /\ UNCHANGED <<disk, patches>>
        /\ \/ \E g : th' = [th EXCEPT ![w].pc = "rollback", ![w].goal = g]
           \/ th' = [th EXCEPT ![w].pc = th[w].back, ![w].edited = TRUE]
    BY <1>8 DEF Patched
  <2> DEFINE rec == [th[w] EXCEPT !.pc = th[w].back, !.edited = TRUE]
  <2>2. Calm(w, rec)
    BY <1>0 DEF Calm, ThreadRec
  <2>3. CASE th' = [th EXCEPT ![w].pc = th[w].back, ![w].edited = TRUE]
    <3>1. th' = [th EXCEPT ![w] = rec]
      BY <1>0, <2>3
    <3> QED
      BY <1>0, <1>1, <2>1, <2>2, <3>1, CalmOne
  <2> QED
    BY <1>0, <1>1, <2>1, <2>3, CalmMoves DEF WorkPcs, Inside
<1>9. CASE RollbackRefused(w)
  <2>1. UNCHANGED <<disk, patches>> /\ th' = AfterFailedRollback(w)
    BY <1>9 DEF RollbackRefused
  <2> QED
    BY <1>1, <2>1, CalmFailure
<1> QED
  BY <1>2, <1>3, <1>4, <1>5, <1>6, <1>7, <1>8, <1>9

\* Steps of a recovery pass that write no file and copy no journal
LEMMA CalmPass ==
    ASSUME TInv, NEW r \in Recoverer,
           \/ StartPass(r) \/ RecoverClaim(r) \/ RecoverBusy(r) \/ RecoverRefused(r)
           \/ RecoverUpdate(r) \/ RecoverLost(r) \/ RecoverAborts(r) \/ RecoverRelease(r)
           \/ StartCleanup(r) \/ Cleanup(r) \/ EndPass(r)
    PROVE  /\ UNCHANGED <<file, patches>>
           /\ \A o \in Order : journal'[o] \in {journal[o], <<>>}
           /\ \A t \in Thread : Calm(t, th'[t])
<1> USE DEF TInv, Threads, disk, fence, env
<1>0. r \in Thread /\ r \notin Worker /\ th[r] \in ThreadRec
  BY ThreadAssumption DEF Thread
<1>1. ASSUME UNCHANGED <<disk, patches>>
      PROVE  UNCHANGED <<file, patches>> /\ \A o \in Order : journal'[o] \in {journal[o], <<>>}
  BY <1>1
<1>2. CASE StartPass(r)
  <2>1. PICK R : th' = [th EXCEPT ![r].pc = "pass", ![r].rows = R]
    BY <1>2 DEF StartPass
  <2> DEFINE rec == [th[r] EXCEPT !.pc = "pass", !.rows = R]
  <2>2. th' = [th EXCEPT ![r] = rec] /\ UNCHANGED <<disk, patches>>
    BY <1>0, <1>2, <2>1 DEF StartPass
  <2>3. Calm(r, rec)
    BY <1>0 DEF Calm, ThreadRec, Dealing
  <2> QED
    BY <1>0, <1>1, <2>2, <2>3, CalmOne
<1>3. ASSUME Defer(r), UNCHANGED <<disk, patches>>
      PROVE  \A t \in Thread : Calm(t, th'[t])
  <2> DEFINE rec == [th[r] EXCEPT !.pc = "pass", !.order = None, !.late = TRUE]
  <2>1. th' = [th EXCEPT ![r] = rec]
    BY <1>0, <1>3 DEF Defer
  <2>2. Calm(r, rec)
    BY <1>0 DEF Calm, ThreadRec, Dealing
  <2> QED
    BY <1>0, <2>1, <2>2, CalmOne
<1>4. CASE RecoverBusy(r)
  BY <1>1, <1>3, <1>4 DEF RecoverBusy
<1>5. CASE RecoverClaim(r) /\ Defer(r)
  BY <1>1, <1>3, <1>5 DEF RecoverClaim
<1>6. CASE RecoverClaim(r) /\ ~Defer(r)
  <2> DEFINE n == attempt[Mine(r)].token + 1
             p == IF th[r].journal = <<>> THEN "update" ELSE "claimed"
             b == ~(th[r].journal = <<>> /\ th[r].result.changed
                      /\ ~th[r].result.checkpoint)
  <2>1. p \in {"update", "claimed"} /\
        th' = [th EXCEPT ![r].token = n, ![r].pc = p, ![r].ok = b]
    BY <1>6 DEF RecoverClaim
  <2> HIDE DEF n, p, b
  <2> DEFINE rec == [th[r] EXCEPT !.token = n, !.pc = p, !.ok = b]
  <2>2. th[r].pc = "loaded" /\ th' = [th EXCEPT ![r] = rec] /\ UNCHANGED <<disk, patches>>
    BY <1>0, <1>6, <2>1 DEF RecoverClaim
  <2>3. Calm(r, rec)
    BY <1>0, <2>1, <2>2 DEF Calm, ThreadRec, Dealing
  <2> QED
    BY <1>0, <1>1, <2>2, <2>3, CalmOne
<1>7. CASE RecoverRefused(r)
  <2> DEFINE rec == [th[r] EXCEPT !.pc = "update", !.ok = FALSE]
  <2>1. /\ th[r].pc = "claimed" /\ th' = [th EXCEPT ![r] = rec]
        /\ UNCHANGED <<disk, patches>>
    BY <1>0, <1>7 DEF RecoverRefused
  <2>2. Calm(r, rec)
    BY <1>0, <2>1 DEF Calm, ThreadRec, Dealing
  <2> QED
    BY <1>0, <1>1, <2>1, <2>2, CalmOne
<1>8. CASE RecoverUpdate(r)
  <2> DEFINE rec == [th[r] EXCEPT !.pc = "release"]
  <2>1. /\ th[r].pc = "update" /\ th' = [th EXCEPT ![r] = rec]
        /\ UNCHANGED <<disk, patches>>
    BY <1>0, <1>8 DEF RecoverUpdate, Go
  <2>2. Calm(r, rec)
    BY <1>0, <2>1 DEF Calm, ThreadRec, Dealing
  <2> QED
    BY <1>0, <1>1, <2>1, <2>2, CalmOne
<1>9. CASE RecoverLost(r)
  <2> DEFINE rec == [th[r] EXCEPT !.pc = "release", !.late = TRUE]
  <2>1. /\ th[r].pc = "update" /\ th' = [th EXCEPT ![r] = rec]
        /\ UNCHANGED <<disk, patches>>
    BY <1>0, <1>9 DEF RecoverLost
  <2>2. Calm(r, rec)
    BY <1>0, <2>1 DEF Calm, ThreadRec, Dealing
  <2> QED
    BY <1>0, <1>1, <2>1, <2>2, CalmOne
<1>10. CASE RecoverAborts(r) \/ EndPass(r)
  <2>1. th' = [th EXCEPT ![r] = IdleThread] /\ UNCHANGED <<disk, patches>>
    BY <1>10 DEF RecoverAborts, EndPass
  <2> QED
    BY <1>0, <1>1, <2>1, CalmMoves
<1>11. CASE RecoverRelease(r)
  <2> DEFINE rec == [IdleThread EXCEPT !.pc = "pass", !.rows = th[r].rows,
                                        !.late = th[r].late]
  <2>1. th' = [th EXCEPT ![r] = rec] /\ UNCHANGED <<disk, patches>>
    BY <1>11 DEF RecoverRelease
  <2>2. Calm(r, rec)
    BY <1>0 DEF Calm, IdleThread, Dealing
  <2> QED
    BY <1>0, <1>1, <2>1, <2>2, CalmOne
<1>12. CASE StartCleanup(r)
  <2>1. PICK R : th' = [th EXCEPT ![r].pc = "cleanup", ![r].rows = R]
    BY <1>12 DEF StartCleanup
  <2> DEFINE rec == [th[r] EXCEPT !.pc = "cleanup", !.rows = R]
  <2>2. th' = [th EXCEPT ![r] = rec] /\ UNCHANGED <<disk, patches>>
    BY <1>0, <1>12, <2>1 DEF StartCleanup
  <2>3. Calm(r, rec)
    BY <1>0 DEF Calm, ThreadRec, Dealing
  <2> QED
    BY <1>0, <1>1, <2>2, <2>3, CalmOne
<1>13. CASE Cleanup(r)
  <2>1. PICK R, b : th' = [th EXCEPT ![r].rows = R, ![r].late = b]
    BY <1>13 DEF Cleanup
  <2> DEFINE rec == [th[r] EXCEPT !.rows = R, !.late = b]
  <2>2. th[r].pc = "cleanup" /\ th' = [th EXCEPT ![r] = rec] /\ UNCHANGED <<file, patches>>
    BY <1>0, <1>13, <2>1 DEF Cleanup
  <2>3. Calm(r, rec)
    BY <1>0, <2>2 DEF Calm, ThreadRec, Dealing
  <2>4. \A o \in Order : journal'[o] \in {journal[o], <<>>}
    BY <1>13 DEF Cleanup, Tables
  <2> QED
    BY <1>0, <2>2, <2>3, <2>4, CalmOne
<1> QED
  BY <1>2, <1>4, <1>5, <1>6, <1>7, <1>8, <1>9, <1>10, <1>11, <1>12, <1>13

\* The checkpoint and the end of a restore
LEMMA CalmRestore ==
    ASSUME TInv, NEW t \in Thread, Checkpoint(t) \/ ClearJournal(t)
    PROVE  /\ UNCHANGED <<file, patches>>
           /\ \A o \in Order : journal'[o] \in {journal[o], <<>>}
           /\ \A u \in Thread : Calm(u, th'[u])
<1> USE DEF TInv, Threads, disk, fence, env
<1>0. th[t] \in ThreadRec /\ (t \in Worker \/ (t \in Recoverer /\ t \notin Worker))
  BY ThreadAssumption DEF Thread
<1>1. CASE Checkpoint(t)
  <2>0. th[t].pc = "restore" /\ th[t].todo = Nothing /\ UNCHANGED <<disk, patches>>
    BY <1>1 DEF Checkpoint
  <2>1. CASE Go(t, "clear")
    <3> DEFINE rec == [th[t] EXCEPT !.pc = "clear"]
    <3>1. th' = [th EXCEPT ![t] = rec]
      BY <1>0, <2>1 DEF Go
    <3>2. Calm(t, rec)
      BY <1>0, <2>0 DEF Calm, ThreadRec, Dealing
    <3> QED
      BY <2>0, <3>1, <3>2, CalmOne
  <2>2. CASE t \in Worker /\ th' = AfterFailedRollback(t)
    BY <2>0, <2>2, CalmFailure
  <2>3. CASE th' = [th EXCEPT ![t].pc = "update", ![t].ok = FALSE]
    <3> DEFINE rec == [th[t] EXCEPT !.pc = "update", !.ok = FALSE]
    <3>1. th' = [th EXCEPT ![t] = rec]
      BY <1>0, <2>3
    <3>2. Calm(t, rec)
      BY <1>0, <2>0 DEF Calm, ThreadRec, Dealing
    <3> QED
      BY <2>0, <3>1, <3>2, CalmOne
  <2> QED
    BY <1>1, <2>1, <2>2, <2>3 DEF Checkpoint, AfterFailedRestore
<1>2. CASE ClearJournal(t)
  <2>0. PICK p \in {"ending", "update"} : \E e, b :
            th' = [th EXCEPT ![t].pc = p, ![t].journal = <<>>, ![t].edited = e, ![t].ok = b]
    BY <1>0, <1>2 DEF ClearJournal
  <2>1. PICK e, b :
            th' = [th EXCEPT ![t].pc = p, ![t].journal = <<>>, ![t].edited = e, ![t].ok = b]
    BY <2>0
  <2> DEFINE rec == [th[t] EXCEPT !.pc = p, !.journal = <<>>, !.edited = e, !.ok = b]
  <2>2. /\ th[t].pc = "clear" /\ th' = [th EXCEPT ![t] = rec] /\ UNCHANGED <<file, patches>>
    BY <1>0, <1>2, <2>1 DEF ClearJournal
  <2>3. Calm(t, rec)
    BY <1>0, <2>2 DEF Calm, ThreadRec, Dealing
  <2>4. \A o \in Order : journal'[o] \in {journal[o], <<>>}
    BY <1>2 DEF ClearJournal, Tables
  <2> QED
    BY <2>2, <2>3, <2>4, CalmOne
<1> QED
  BY <1>1, <1>2

\* Taking an order, or a journal to recover from
LEMMA TakeHistory ==
    ASSUME TInv, TInv', History, NEW t \in Thread,
           (t \in Worker /\ Next_(t)) \/ (t \in Recoverer /\ LoadJournal(t))
    PROVE  History'
<1> USE DEF TInv, disk, fence, env
<1>0. th \in [Thread -> ThreadRec] /\ th[t] \in ThreadRec /\ Placed(t, th[t]) /\ Kept(t, th[t])
  BY DEF Threads, Places, History
<1>1. UNCHANGED <<file, journal, patches>> /\ \A u \in Thread \ {t} : th'[u] = th[u]
  BY <1>0 DEF Next_, LoadJournal
<1>2. Kept(t, th[t])'
  <2>1. CASE t \in Worker /\ Next_(t)
    <3>0. th[t].pc = "idle" /\ \E o : th' = [th EXCEPT ![t].pc = "picked", ![t].order = o]
      BY <2>1 DEF Next_
    <3>1. /\ th[t].journal = <<>> /\ t \notin Recoverer
          /\ th'[t].pc = "picked" /\ th'[t].journal = th[t].journal
      BY <1>0, <2>1, <3>0, ThreadAssumption DEF Kept, ThreadRec
    <3> QED
      BY <3>1, NothingWritten DEF Kept, Written
  <2>2. CASE t \in Recoverer /\ LoadJournal(t)
    <3>1. PICK q \in th[t].rows :
              th' = [th EXCEPT ![t].pc = "loaded", ![t].rows = @ \ {q},
                               ![t].order = q.order, ![t].seen = q.state,
                               ![t].result = q.result, ![t].journal = journal[q.order]]
      BY <2>2 DEF LoadJournal
    <3>2. /\ th'[t].pc = "loaded" /\ th'[t].order = q.order
          /\ th'[t].journal = journal[q.order]
      BY <1>0, <3>1 DEF ThreadRec
    <3>3. q \in Picked
      BY <1>0, <2>2, <3>1 DEF LoadJournal, Placed, Dealing
    <3>4. Written(q.order, journal[q.order], patches)
      BY <3>3 DEF Picked, History
    <3> QED
      BY <1>1, <2>2, <3>2, <3>4, ThreadAssumption DEF Kept, Written
  <2> QED
    BY <2>1, <2>2
<1>3. \A u \in Thread \ {t} : Kept(u, th[u])'
  BY <1>1 DEF History, Kept, Written
<1> QED
  BY <1>1, <1>2, <1>3 DEF History, Written

\* A new patch: its entries keep what the files hold and name the patch after it.
LEMMA PatchHistory ==
    ASSUME TInv, TInv', History, NEW w \in Worker, Patch(w)
    PROVE  History'
<1> USE DEF TInv
<1>0. /\ w \in Thread /\ th[w] \in ThreadRec /\ th \in [Thread -> ThreadRec]
      /\ Kept(w, th[w]) /\ th[w].journal \in Journals
      /\ file \in [File -> Version]
  BY DEF Thread, Threads, History, ThreadRec, Tables
<1>1. /\ th[w].pc \in {"body", "verify"} /\ patches < MaxPatches /\ lock = None
      /\ patches' = patches + 1 /\ file' = file /\ patches \in Nat
  <2>1. patches \in Nat
    BY BoundAssumption DEF Tables
  <2> QED
    BY <2>1, PatchStep DEF Guarded
<1>2. PICK P \in (SUBSET File) \ {{}} :
          /\ \A f \in P : lease[f] \in {None, Working(Mine(w))}
          /\ lease' = [f \in File |-> IF f \in P THEN Working(Mine(w)) ELSE lease[f]]
          /\ journal' = [journal EXCEPT ![Mine(w)] = Extended(w, P)]
          /\ th' = [th EXCEPT ![w].pc = "apply", ![w].back = th[w].pc,
                              ![w].journal = Extended(w, P),
                              ![w].start = Len(th[w].journal),
                              ![w].todo = [f \in P |-> Patching(w)]]
  BY PatchStep
<1> DEFINE m == Len(th[w].journal)
           j == Extended(w, P)
<1>3. /\ Mine(w) \in Order /\ m \in Nat /\ j \in Journals /\ Len(j) >= m
      /\ \A k \in 1..m : j[k] = th[w].journal[k]
      /\ \A k \in m + 1..Len(j) : /\ j[k].file \in P /\ j[k].post = Patching(w)
                                  /\ j[k].pre = file[j[k].file]
      /\ \A k, l \in m + 1..Len(j) : j[k].file = j[l].file => k = l
  BY <1>1, PatchShape
<1> HIDE DEF j
<1>4. Patching(w).by = Mine(w) /\ Patching(w).n = patches'
  BY <1>1 DEF Patching
<1>5. \A f \in File : file[f].n <= patches /\ file[f].n \in Nat
  BY <1>0 DEF History, Version
<1>6. ASSUME NEW o, NEW i \in Journals, Written(o, i, patches)
      PROVE  Written(o, i, patches')
  <2> SUFFICES ASSUME NEW k \in DOMAIN i
               PROVE  i[k].post.by = o /\ i[k].pre.n <= patches'
    BY DEF Written
  <2>1. i[k].pre.n \in Nat /\ i[k].pre.n <= patches /\ i[k].post.by = o
    BY <1>6, JournalIndices DEF Written, Entry, Version
  <2> QED
    BY <1>1, <2>1
<1>7. Written(Mine(w), j, patches')
  <2> SUFFICES ASSUME NEW k \in DOMAIN j
               PROVE  j[k].post.by = Mine(w) /\ j[k].pre.n <= patches'
    BY DEF Written
  <2>1. k \in 1..Len(j)
    BY <1>3, JournalIndices
  <2>2. CASE k \in 1..m
    <3>1. j[k] = th[w].journal[k] /\ k \in DOMAIN th[w].journal
      BY <1>0, <1>3, <2>2, JournalIndices
    <3>2. Written(Mine(w), th[w].journal, patches')
      BY <1>0, <1>6 DEF Kept, Mine
    <3> QED
      BY <3>1, <3>2 DEF Written
  <2>3. CASE k \in m + 1..Len(j)
    <3>1. j[k].file \in File /\ j[k].post = Patching(w) /\ j[k].pre = file[j[k].file]
      BY <1>3, <2>3
    <3> QED
      BY <1>1, <1>4, <1>5, <3>1
  <2> QED
    BY <1>3, <2>1, <2>2, <2>3
<1>8. /\ th'[w].pc = "apply" /\ th'[w].journal = j /\ th'[w].start = m
      /\ th'[w].todo = [f \in P |-> Patching(w)] /\ th'[w].order = Mine(w)
      /\ w \notin Recoverer
      /\ \A u \in Thread \ {w} : th'[u] = th[u] /\ th[u].pc \notin Inside
  BY <1>0, <1>1, <1>2, ThreadAssumption DEF ThreadRec, Mine, Locks, j
<1>9. Kept(w, th[w])'
  <2>1. \A f \in P : Patching(w).n = patches'
    BY <1>4
  <2>2. \A k \in m + 1..Len(j) :
          /\ file[j[k].file] = j[k].pre
          /\ j[k].file \in P => [f \in P |-> Patching(w)][j[k].file] = j[k].post
    BY <1>3
  <2> QED
    BY <1>1, <1>3, <1>7, <1>8, <2>1, <2>2 DEF Kept
<1>10. ASSUME NEW u \in Thread \ {w}
       PROVE  Kept(u, th[u])'
  <2>1. Kept(u, th[u]) /\ th[u].journal \in Journals
    BY DEF History, Threads, ThreadRec
  <2>2. Written(th[u].order, th[u].journal, patches)
           => Written(th[u].order, th[u].journal, patches')
    BY <1>6, <2>1
  <2> QED
    BY <1>8, <2>1, <2>2 DEF Kept, Inside
<1>11. ASSUME NEW o \in Order
       PROVE  Written(o, journal'[o], patches')
  <2>1. CASE o = Mine(w)
    BY <1>2, <1>3, <1>7, <2>1 DEF Tables, j
  <2>2. CASE o # Mine(w)
    <3>1. journal'[o] = journal[o] /\ journal[o] \in Journals
      BY <1>2, <2>2 DEF Tables
    <3>2. Written(o, journal[o], patches)
      BY DEF History
    <3> QED
      BY <1>6, <3>1, <3>2
  <2> QED
    BY <2>1, <2>2
<1>12. \A f \in File : file'[f].n <= patches'
  BY <1>1, <1>5
<1> QED
  BY <1>9, <1>10, <1>11, <1>12 DEF History

\* A failed patch is undone alone: every file it has already changed holds what it
\* wrote.
LEMMA UnapplyHistory ==
    ASSUME TInv, TInv', History, NEW w \in Worker, ApplyFails(w) \/ Unapplied(w)
    PROVE  History'
<1> USE DEF TInv, disk, fence, env
<1>0. /\ w \in Thread /\ w \notin Recoverer
      /\ th[w] \in ThreadRec /\ th \in [Thread -> ThreadRec]
      /\ Kept(w, th[w]) /\ th[w].journal \in Journals /\ Placed(w, th[w])
      /\ file \in [File -> Version]
  BY ThreadAssumption DEF Thread, Threads, History, ThreadRec, Tables, Places
<1>s. th[w].pc \in {"apply", "unapply"}
  BY DEF ApplyFails, Unapplied
<1>n. th[w].start \in 0..Len(th[w].journal) /\ Mine(w) \in Order
  BY <1>0, <1>s DEF Placed, Mine
<1> DEFINE m == th[w].start
           j == th[w].journal
           A == Added(w)
<1>p. /\ A \in Journals /\ Earlier(w) \in Journals
      /\ Len(Earlier(w)) = m /\ Len(A) = Len(j) - m
      /\ \A k \in 1..m : Earlier(w)[k] = j[k]
      /\ \A k \in 1..(Len(j) - m) : A[k] = j[m + k]
  BY <1>0, <1>n, PartShape DEF Added, Earlier
<1>j. /\ Len(j) \in Nat /\ m \in Nat
      /\ DOMAIN A = 1..Len(A) /\ Len(A) \in Nat
      /\ \A k \in 1..Len(A) : A[k] = j[m + k] /\ m + k \in m + 1..Len(j)
                              /\ m + k \in 1..Len(j)
  BY <1>0, <1>n, <1>p, JournalIndices
<1>w. \A k \in 1..Len(j) : j[k].post.by = Mine(w) /\ j[k].pre.n <= patches
  BY <1>0, JournalIndices DEF Kept, Written, Mine
<1>u. UNCHANGED <<file, patches>> /\ \A u \in Thread \ {w} : th'[u] = th[u]
  BY <1>0 DEF ApplyFails, Unapplied
<1>a. A = Added(w)
  OBVIOUS
<1> HIDE DEF A
<1>1. CASE ApplyFails(w)
  <2>0. th[w].pc = "apply" /\ journal' = journal
    BY <1>1 DEF ApplyFails
  <2>1. ASSUME NEW k \in 1..Len(A)
        PROVE  /\ file[A[k].file] \in {A[k].pre, A[k].post}
               /\ \A l \in 1..Len(A) : A[k].file = A[l].file => k = l
    <3>1. file[j[m + k].file] \in {j[m + k].pre, j[m + k].post}
      BY <1>0, <1>j, <2>0 DEF Kept
    <3>2. \A l \in 1..Len(A) : j[m + k].file = j[m + l].file => m + k = m + l
      BY <1>0, <1>j, <2>0 DEF Kept
    <3>3. \A l \in 1..Len(A) : m + k = m + l => k = l
      BY <1>j
    <3> QED
      BY <1>j, <3>1, <3>2, <3>3
  <2>2. ASSUME NEW f \in DOMAIN RestorePlan(A)
        PROVE  file[f].by = Mine(w) /\ RestorePlan(A)[f].n <= patches
    <3>0. f \in {A[k].file : k \in Restored(A)}
      BY <1>p, PlanFirst
    <3>1. PICK k \in Restored(A) : A[k].file = f
      BY <3>0
    <3>2. k \in 1..Len(A) /\ k \in DOMAIN A
      BY <1>j DEF Restored
    <3>3. Later(A, k) = {}
      BY <1>j, <2>1, <3>2 DEF Later
    <3>4. file[f] = A[k].post
      BY <2>1, <3>1, <3>2, <3>3 DEF Restored, Found
    <3>5. A[k] = j[m + k] /\ m + k \in 1..Len(j)
      BY <1>j, <3>2
    <3>6. PICK i \in DOMAIN A : RestorePlan(A)[f] = A[i].pre
      BY <1>p, PlanFirst
    <3>7. A[i] = j[m + i] /\ m + i \in 1..Len(j)
      BY <1>j, <3>6
    <3> QED
      BY <1>w, <3>4, <3>5, <3>6, <3>7
  <2>3. /\ th'[w].pc = "unapply" /\ th'[w].todo = RestorePlan(A)
        /\ th'[w].order = th[w].order /\ th'[w].journal = j
    BY <1>0, <1>1, <1>a DEF ApplyFails, ThreadRec
  <2>4. Kept(w, th[w])'
    BY <1>0, <1>u, <2>2, <2>3 DEF Kept, Mine
  <2>5. ASSUME NEW u \in Thread \ {w}
        PROVE  Kept(u, th[u])'
    BY <1>u DEF History, Kept
  <2> QED
    BY <1>u, <2>4, <2>0, <2>5 DEF History
<1>2. CASE Unapplied(w)
  <2>1. /\ journal' = [journal EXCEPT ![Mine(w)] = Earlier(w)]
        /\ th'[w].pc \in {"body", "verify"} /\ th'[w].journal = Earlier(w)
        /\ th'[w].order = th[w].order
    BY <1>0, <1>2 DEF Unapplied, ThreadRec
  <2>2. Written(Mine(w), Earlier(w), patches)
    <3>1. \A k \in DOMAIN Earlier(w) : k \in 1..Len(j) /\ Earlier(w)[k] = j[k]
      BY <1>p, <1>j, <1>n, JournalIndices
    <3> QED
      BY <1>w, <3>1 DEF Written
  <2>3. Kept(w, th[w])'
    BY <1>0, <1>u, <2>1, <2>2 DEF Kept, Mine
  <2>4. \A o \in Order : Written(o, journal'[o], patches)
    BY <1>n, <2>1, <2>2 DEF History, Tables
  <2>5. ASSUME NEW u \in Thread \ {w}
        PROVE  Kept(u, th[u])'
    BY <1>u DEF History, Kept
  <2> QED
    BY <1>u, <2>3, <2>4, <2>5 DEF History
<1> QED
  BY <1>1, <1>2

\* A rollback or a restore that is not refused
LEMMA RestoreHistory ==
    ASSUME TInv, TInv', History, NEW t \in Thread,
           (t \in Worker /\ Rollback(t)) \/ (t \in Recoverer /\ RecoverRestore(t))
    PROVE  History'
<1> USE DEF TInv, disk, fence, env
<1>0. /\ th[t] \in ThreadRec /\ th \in [Thread -> ThreadRec]
      /\ Kept(t, th[t]) /\ th[t].journal \in Journals
  BY DEF Threads, History, ThreadRec
<1> DEFINE j == th[t].journal
<1>1. /\ Restorable(j) /\ UNCHANGED <<file, journal, patches>>
      /\ th' = [th EXCEPT ![t].pc = "restore", ![t].todo = RestorePlan(j)]
  BY DEF Rollback, RecoverRestore
<1>2. Written(Mine(t), j, patches)
  BY <1>0 DEF Kept, RecoverRestore, Dealing, Mine
<1>3. ASSUME NEW f \in DOMAIN RestorePlan(j)
      PROVE  file[f].by = Mine(t) /\ RestorePlan(j)[f].n <= patches
  <2>1. f \in {j[k].file : k \in Restored(j)}
    BY <1>0, PlanFirst
  <2>2. file[f].by = Mine(t)
    BY <1>0, <1>1, <1>2, <2>1, RestoresOwn DEF Written
  <2>3. PICK k \in DOMAIN j : RestorePlan(j)[f] = j[k].pre
    BY <1>0, PlanFirst
  <2> QED
    BY <1>2, <2>2, <2>3 DEF Written
<1>4. /\ th'[t].pc = "restore" /\ th'[t].todo = RestorePlan(j)
      /\ th'[t].order = th[t].order /\ th'[t].journal = j
      /\ \A u \in Thread \ {t} : th'[u] = th[u]
  BY <1>0, <1>1 DEF ThreadRec
<1> HIDE DEF j
<1>5. Kept(t, th[t])'
  BY <1>1, <1>2, <1>3, <1>4 DEF Kept, Mine
<1>6. ASSUME NEW u \in Thread \ {t}
      PROVE  Kept(u, th[u])'
  <2>1. Kept(u, th[u]) /\ th'[u] = th[u] /\ UNCHANGED <<file, patches>>
    BY <1>1, <1>4 DEF History
  <2> QED
    BY <2>1 DEF Kept
<1>7. \A o \in Order : Written(o, journal'[o], patches')
  BY <1>1 DEF History
<1> QED
  BY <1>1, <1>5, <1>6, <1>7 DEF History

\* A file is written: by the thread that holds the write lock, or torn by its crash.
\* The property below follows from what was known about the file before.
LEMMA WriteHistory ==
    ASSUME TInv, TInv', History, NEW t \in Thread, WriteFile(t)
    PROVE  History'
<1> USE DEF TInv, disk, fence, env
<1>0. /\ th[t] \in ThreadRec /\ th \in [Thread -> ThreadRec]
      /\ Kept(t, th[t]) /\ file \in [File -> Version] /\ patches \in Nat
  BY BoundAssumption DEF Threads, History, Tables
<1>1. /\ th[t].pc \in {"apply", "unapply", "restore"}
      /\ UNCHANGED <<journal, patches>>
  BY DEF WriteFile
<1>2. PICK f \in DOMAIN th[t].todo :
          /\ file' = [file EXCEPT ![f] = th[t].todo[f]]
          /\ th' = [th EXCEPT ![t].todo = [g \in DOMAIN th[t].todo \ {f} |-> th[t].todo[g]]]
  BY DEF WriteFile
<1> DEFINE v == th[t].todo[f]
           rest == [g \in DOMAIN th[t].todo \ {f} |-> th[t].todo[g]]
<1>3. DOMAIN th[t].todo \subseteq File
  BY <1>0 DEF ThreadRec, Todos
<1>4. f \in File /\ file'[f] = v /\ \A g \in File \ {f} : file'[g] = file[g]
  BY <1>0, <1>2, <1>3
<1>5. /\ th'[t].todo = rest /\ th'[t].pc = th[t].pc /\ th'[t].order = th[t].order
      /\ th'[t].journal = th[t].journal /\ th'[t].start = th[t].start
      /\ \A u \in Thread \ {t} : th'[u] = th[u]
  BY <1>0, <1>2 DEF ThreadRec
<1>6. v.n <= patches
  BY <1>0, <1>1 DEF Kept
<1>7. \A g \in File : file'[g].n <= patches'
  BY <1>1, <1>4, <1>6 DEF History
<1>8. Kept(t, th[t])'
  <2>1. CASE th[t].pc = "apply"
    <3>1. ASSUME NEW k \in th[t].start + 1..Len(th[t].journal)
          PROVE  LET e == th[t].journal[k]
                 IN  /\ file'[e.file] \in {e.pre, e.post}
                     /\ e.file \in DOMAIN rest => rest[e.file] = e.post
      <4> DEFINE e == th[t].journal[k]
      <4>1. /\ file[e.file] \in {e.pre, e.post}
            /\ e.file \in DOMAIN th[t].todo => th[t].todo[e.file] = e.post
        BY <1>0, <2>1 DEF Kept
      <4>2. e.file \in File
        <5>1. k \in DOMAIN th[t].journal
          BY <1>0, <2>1, JournalIndices DEF Places, Placed, ThreadRec
        <5> QED
          BY <1>0, <5>1, JournalIndices DEF ThreadRec, Entry
      <4> QED
        BY <1>2, <1>4, <4>1, <4>2
    <3>2. \A g \in DOMAIN rest : rest[g].n = patches
      BY <1>0, <2>1 DEF Kept
    <3>3. \A k, l \in th[t].start + 1..Len(th[t].journal) :
             th[t].journal[k].file = th[t].journal[l].file => k = l
      BY <1>0, <2>1 DEF Kept
    <3>4. /\ t \in Worker => Written(th[t].order, th[t].journal, patches)
          /\ t \notin Recoverer \/ th[t].pc \notin Dealing
      BY <1>0, <2>1 DEF Kept, Dealing
    <3> HIDE DEF rest
    <3> QED
      BY <1>1, <1>5, <2>1, <3>1, <3>2, <3>3, <3>4 DEF Kept
  <2>2. CASE th[t].pc \in {"unapply", "restore"}
    <3>1. \A g \in DOMAIN rest : file'[g].by = th[t].order /\ rest[g].n <= patches
      BY <1>0, <1>3, <1>4, <2>2 DEF Kept
    <3> QED
      BY <1>0, <1>1, <1>5, <2>2, <3>1 DEF Kept
  <2> QED
    BY <1>1, <2>1, <2>2
<1>9. ASSUME NEW u \in Thread \ {t}
      PROVE  Kept(u, th[u])'
  <2>1. Kept(u, th[u]) /\ th'[u] = th[u]
    BY <1>5 DEF History
  <2>2. lock = t /\ th[u].pc \notin Inside
    BY <1>1 DEF Locks, Inside
  <2> QED
    BY <1>1, <2>1, <2>2 DEF Kept, Inside
<1> QED
  BY <1>1, <1>7, <1>8, <1>9 DEF History

\* A crash takes the threads of a process, and may tear the file being written.
LEMMA CrashHistory ==
    ASSUME TInv, TInv', History, NEW i \in Instance, Crash(i)
    PROVE  History'
<1> USE DEF TInv, disk, fence, env
<1>0. file \in [File -> Version] /\ th \in [Thread -> ThreadRec] /\ patches \in Nat
  BY BoundAssumption DEF Tables, Threads
<1>1. /\ UNCHANGED <<journal, patches>>
      /\ \A t \in Thread : IF Host[t] = i THEN th'[t] = IdleThread ELSE th'[t] = th[t]
  BY DEF Crash
<1>2. CASE file' = file
  <2>1. \A t \in Thread : Calm(t, th'[t])
    BY <1>1 DEF Calm
  <2> QED
    BY <1>1, <1>2, <2>1, CalmStep
<1>3. CASE /\ lock # None /\ Host[lock] = i
           /\ \E f \in DOMAIN th[lock].todo :
                 file' = [file EXCEPT ![f] = [th[lock].todo[f] EXCEPT !.torn = TRUE]]
  <2>1. PICK f \in DOMAIN th[lock].todo :
                 file' = [file EXCEPT ![f] = [th[lock].todo[f] EXCEPT !.torn = TRUE]]
    BY <1>3
  <2>2. lock \in Thread
    BY <1>3 DEF Threads
  <2>3. th[lock].todo[f].n <= patches
    <3>1. Kept(lock, th[lock]) /\ th[lock].pc \in Inside
      BY <2>2 DEF History, Locks
    <3>2. th[lock].pc # "clear"
      BY <2>1, <3>1 DEF Kept, Nothing
    <3> QED
      BY <1>0, <2>1, <3>1, <3>2 DEF Kept, Inside
  <2>4. ASSUME NEW t \in Thread
        PROVE  Kept(t, th[t])'
    <3>1. CASE Host[t] = i
      BY <1>1, <3>1 DEF Kept, Written, IdleThread, Dealing
    <3>2. CASE Host[t] # i
      <4>1. t # lock /\ th[t].pc \notin Inside /\ th'[t] = th[t] /\ Kept(t, th[t])
        BY <1>1, <1>3, <3>2 DEF Locks, History
      <4> QED
        BY <1>1, <4>1 DEF Kept, Inside
    <3> QED
      BY <3>1, <3>2
  <2>5. PICK D \in SUBSET File : th[lock].todo \in [D -> Version]
    <3>1. th[lock].todo \in Todos
      BY <1>0, <2>2 DEF ThreadRec
    <3> QED
      BY <3>1 DEF Todos
  <2>6. [th[lock].todo[f] EXCEPT !.torn = TRUE].n = th[lock].todo[f].n
    BY <2>1, <2>5 DEF Version
  <2>7. \A g \in File : file'[g].n <= patches'
    BY <1>0, <1>1, <2>1, <2>3, <2>5, <2>6 DEF History
  <2> QED
    BY <1>1, <2>4, <2>7 DEF History
<1> QED
  BY <1>2, <1>3 DEF Crash

\* Steps of callers, of processes and of time write no file.
LEMMA CalmOutside ==
    ASSUME TInv,
           \/ \E o \in Order : Submit(o) \/ Cancel(o) \/ Continue(o) \/ ExpireAttempt(o)
           \/ \E i \in Instance : Start(i) \/ Close(i) \/ Stopped(i)
           \/ \E f \in File : ExpireLease(f)
           \/ UNCHANGED vars
    PROVE  UNCHANGED <<file, journal, th, patches>>
BY DEF Submit, Cancel, Continue, ExpireAttempt, Start, Close, Stopped, ExpireLease, vars, disk,
       env, fence

\* Every step keeps the history.
LEMMA HistoryNext ==
    ASSUME TInv, History, [Next]_vars
    PROVE  History'
<1>0. TInv'
  BY NextTypes
<1>1. ASSUME UNCHANGED <<file, journal, th, patches>>
      PROVE  History'
  BY <1>0, <1>1, CalmStep DEF Calm
<1>2. ASSUME NEW i \in Instance, Start(i) \/ Crash(i) \/ Close(i) \/ Stopped(i)
      PROVE  History'
  BY <1>0, <1>1, <1>2, CalmOutside, CrashHistory
<1>3. ASSUME NEW w \in Worker, WorkerStep(w)
      PROVE  History'
  <2>1. w \in Thread
    BY DEF Thread
  <2>2. CASE Next_(w)
    BY <1>0, <2>1, <2>2, TakeHistory
  <2>3. CASE Patch(w)
    BY <1>0, <2>3, PatchHistory
  <2>4. CASE ApplyFails(w) \/ Unapplied(w)
    BY <1>0, <2>4, UnapplyHistory
  <2>5. CASE Rollback(w)
    BY <1>0, <2>1, <2>5, RestoreHistory
  <2>6. CASE ~(Next_(w) \/ Patch(w) \/ ApplyFails(w) \/ Unapplied(w) \/ Rollback(w))
    BY <1>0, <1>3, <2>6, CalmWorker, CalmStep DEF WorkerStep
  <2> QED
    BY <2>2, <2>3, <2>4, <2>5, <2>6
<1>4. ASSUME NEW r \in Recoverer, RecoveryStep(r)
      PROVE  History'
  <2>1. r \in Thread
    BY DEF Thread
  <2>2. CASE LoadJournal(r)
    BY <1>0, <2>1, <2>2, TakeHistory
  <2>3. CASE RecoverRestore(r)
    BY <1>0, <2>1, <2>3, RestoreHistory
  <2>4. CASE ~(LoadJournal(r) \/ RecoverRestore(r))
    BY <1>0, <1>4, <2>4, CalmPass, CalmStep DEF RecoveryStep
  <2> QED
    BY <2>2, <2>3, <2>4
<1>5. ASSUME NEW t \in Thread, RestoreStep(t)
      PROVE  History'
  <2>1. CASE WriteFile(t)
    BY <1>0, <2>1, WriteHistory
  <2>2. CASE Checkpoint(t) \/ ClearJournal(t)
    BY <1>0, <2>2, CalmRestore, CalmStep
  <2> QED
    BY <1>5, <2>1, <2>2 DEF RestoreStep
<1> QED
  BY <1>1, <1>2, <1>3, <1>4, <1>5, CalmOutside DEF Next

\* A step that makes a file older is a write of the thread that holds the write lock,
\* and replaces what the order of that thread wrote.
LEMMA OlderStep ==
    ASSUME TInv, History, [Next]_vars, NEW f \in File, file'[f] # file[f], file'[f].n < file[f].n
    PROVE  lock # None /\ file[f].by = Mine(lock)
<1>0. /\ file \in [File -> Version] /\ th \in [Thread -> ThreadRec] /\ patches \in Nat
      /\ file[f].n <= patches /\ file[f].n \in Nat
  BY BoundAssumption DEF TInv, Tables, Threads, History, Version
<1>1. ASSUME NEW t \in Thread, th[t].pc \in Inside, f \in DOMAIN th[t].todo,
             file'[f].n = th[t].todo[f].n
      PROVE  lock # None /\ file[f].by = Mine(lock)
  <2>1. lock = t /\ lock # None
    BY <1>1, ThreadAssumption DEF TInv, Locks
  <2>2. Kept(t, th[t])
    BY DEF History
  <2>3. th[t].pc # "apply"
    BY <1>0, <1>1, <2>2 DEF Kept
  <2>4. th[t].pc # "clear"
    BY <1>1, <2>2 DEF Kept, Nothing
  <2> QED
    BY <1>1, <2>1, <2>2, <2>3, <2>4 DEF Kept, Inside, Mine
<1>2. ASSUME NEW t \in Thread, WriteFile(t)
      PROVE  lock # None /\ file[f].by = Mine(lock)
  <2>1. th[t].pc \in Inside
    BY <1>2 DEF WriteFile, Inside
  <2>2. PICK g \in DOMAIN th[t].todo : file' = [file EXCEPT ![g] = th[t].todo[g]]
    BY <1>2 DEF WriteFile
  <2>3. g = f /\ file'[f] = th[t].todo[f]
    BY <1>0, <2>2
  <2> QED
    BY <1>1, <2>1, <2>2, <2>3
<1>3. ASSUME NEW i \in Instance, Crash(i)
      PROVE  lock # None /\ file[f].by = Mine(lock)
  <2>1. lock # None
    BY <1>3 DEF Crash
  <2>2. lock \in Thread /\ th[lock].pc \in Inside
    BY <2>1 DEF TInv, Threads, Locks
  <2>3. PICK g \in DOMAIN th[lock].todo :
            file' = [file EXCEPT ![g] = [th[lock].todo[g] EXCEPT !.torn = TRUE]]
    BY <1>3 DEF Crash
  <2>4. g = f /\ file'[f] = [th[lock].todo[f] EXCEPT !.torn = TRUE]
    BY <1>0, <2>3
  <2>5. th[lock].todo[f] \in Version
    BY <1>0, <2>2, <2>3, <2>4 DEF ThreadRec, Todos
  <2>6. file'[f].n = th[lock].todo[f].n
    BY <2>4, <2>5 DEF Version
  <2> QED
    BY <1>1, <2>2, <2>3, <2>4, <2>6
<1>4. (\A t \in Thread : ~WriteFile(t)) /\ (\A i \in Instance : ~Crash(i)) => file' = file
  <2> SUFFICES ASSUME \A t \in Thread : ~WriteFile(t), \A i \in Instance : ~Crash(i)
               PROVE  file' = file
    OBVIOUS
  <2>1. ASSUME NEW w \in Worker, WorkerStep(w)
        PROVE  file' = file
    <3>1. CASE Next_(w) \/ Patch(w) \/ ApplyFails(w) \/ Unapplied(w) \/ Rollback(w)
      BY <3>1, PatchStep DEF Next_, ApplyFails, Unapplied, Rollback, disk
    <3>2. CASE ~(Next_(w) \/ Patch(w) \/ ApplyFails(w) \/ Unapplied(w) \/ Rollback(w))
      BY <2>1, <3>2, CalmWorker DEF WorkerStep
    <3> QED
      BY <3>1, <3>2
  <2>2. ASSUME NEW r \in Recoverer, RecoveryStep(r)
        PROVE  file' = file
    <3>1. CASE LoadJournal(r) \/ RecoverRestore(r)
      BY <3>1 DEF LoadJournal, RecoverRestore, disk
    <3>2. CASE ~(LoadJournal(r) \/ RecoverRestore(r))
      BY <2>2, <3>2, CalmPass DEF RecoveryStep
    <3> QED
      BY <3>1, <3>2
  <2>3. ASSUME NEW t \in Thread, RestoreStep(t)
        PROVE  file' = file
    BY <2>3, CalmRestore DEF RestoreStep
  <2> QED
    BY <2>1, <2>2, <2>3, CalmOutside DEF Next
<1> QED
  BY <1>2, <1>3, <1>4

\* In the beginning nothing was written.
LEMMA InitHistory == Init => TInv /\ History
<1> SUFFICES ASSUME Init PROVE History
  BY InitTInv
<1>1. /\ \A f \in File : file[f].n <= patches
      /\ \A o \in Order : journal[o] = <<>>
      /\ \A t \in Thread : th[t] = IdleThread
  BY DEF Init, Original
<1> QED
  BY <1>1, NothingWritten DEF History

\* Whatever the orders, threads, crashes, lapsed attempts and bounds: a rollback never
\* takes back what a patch of another order wrote (_preflight_rollback).
THEOREM RollbacksSpareOthers == Spec => RollbackSparesOthers
<1>1. Init => TInv /\ History
  BY InitHistory
<1>2. TInv /\ History /\ [Next]_vars => (TInv /\ History)'
  BY NextTypes, HistoryNext
<1>3. TInv /\ History /\ [Next]_vars =>
         [\A f \in File : file'[f] # file[f] /\ file'[f].n < file[f].n
             => lock # None /\ file[f].by = Mine(lock)]_vars
  BY OlderStep
<1> QED
  BY <1>1, <1>2, <1>3, PTL DEF Spec, RollbackSparesOthers
=============================================================================
