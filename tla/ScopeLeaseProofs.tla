-------------------------- MODULE ScopeLeaseProofs -------------------------
(***************************************************************************)
(* Proofs for ScopeLease, for any number of owners, roots, paths, leases   *)
(* and overlapping calls: claims exclude each other, and the waits on      *)
(* record are free of cycles.                                              *)
(***************************************************************************)
EXTENDS ScopeLease, TLAPS

-----------------------------------------------------------------------------
(* The inductive invariant *)

\* A call's reading of the clock is not ahead of the clock.
PastReadings == \A c \in calls : c.now <= clock

\* A row was written under its root's project or under the root itself.
ScopesSettled ==
    \A x \in leases : x.scope = x.resource \/ x.scope = ScopeOf[x.resource]

IInv == /\ TypeOK
        /\ PastReadings
        /\ ScopesSettled
        /\ ClaimExclusion
        /\ NoSilentDeadlock

-----------------------------------------------------------------------------
(* Wait-for graphs *)

\* Fewer edges reach less.
LEMMA ReachesMonotone ==
    ASSUME NEW E, NEW G, E \subseteq G, NEW u \in Owner, NEW v \in Owner,
           Reaches(E, u, v)
    PROVE  Reaches(G, u, v)
  BY DEF Reaches

\* A graph with fewer edges than an acyclic one is acyclic.
LEMMA AcyclicMonotone ==
    ASSUME NEW E, NEW G, E \subseteq G, Acyclic(G)
    PROVE  Acyclic(E)
  BY ReachesMonotone DEF Acyclic

\* The search of claim is enough: it starts at one owner and sees only cycles
\* it can reach from there, but every new edge starts at that owner.  So if
\* the old graph E is acyclic and the search from o in G finds nothing, the
\* graph with the new edges N is acyclic.
LEMMA SearchFindsNewCycles ==
    ASSUME NEW E, NEW N, NEW G, E \cup N \subseteq G,
           NEW o \in Owner,
           \A x, y \in Owner : <<x, y>> \in N => x = o,
           Acyclic(E),
           ~DetectCycle(G, o)
    PROVE  Acyclic(E \cup N)
<1> SUFFICES ASSUME NEW v \in Owner, Reaches(E \cup N, v, v)
             PROVE  FALSE
  BY DEF Acyclic
<1>1. Reaches(G, v, v)
  BY ReachesMonotone
<1>2. v # o /\ ~Reaches(G, o, v)
  BY <1>1 DEF DetectCycle
<1>3. PICK T \in SUBSET Owner :
         /\ \A w \in Owner : <<o, w>> \in G => w \in T
         /\ \A x \in T, y \in Owner : <<x, y>> \in G => y \in T
         /\ v \notin T
  BY <1>2 DEF Reaches
<1>4. PICK S \in SUBSET Owner :
         /\ \A w \in Owner : <<v, w>> \in E => w \in S
         /\ \A x \in S, y \in Owner : <<x, y>> \in E => y \in S
         /\ v \notin S
  BY DEF Acyclic, Reaches
<1>5. \A w \in Owner : <<v, w>> \in E \cup N => w \in S \cup T
  BY <1>2, <1>4
<1>6. \A x \in S \cup T, y \in Owner : <<x, y>> \in E \cup N => y \in S \cup T
  BY <1>3, <1>4
<1>7. v \in S \cup T
  BY <1>5, <1>6 DEF Reaches
<1> QED
  BY <1>3, <1>4, <1>7

\* A later window counts fewer waits.
LEMMA WindowMonotone ==
    ASSUME NEW s, NEW t1 \in Int, NEW t2 \in Int, t1 <= t2,
           \A w \in waits : w.updated \in Int
    PROVE  Edges(s, t2) \subseteq Edges(s, t1)
  BY DEF Edges

-----------------------------------------------------------------------------
(* Exclusion *)

\* Removing rows, or changing their expiry only, keeps claims exclusive.
LEMMA FewerRows ==
    ASSUME NEW L, NEW M,
           \A x \in M : \E y \in L : /\ x.owner = y.owner
                                     /\ x.scope = y.scope
                                     /\ x.resource = y.resource
                                     /\ x.path = y.path,
           \A x, y \in L :
             x.owner # y.owner /\ (x.scope = y.scope \/ x.resource = y.resource)
               => ~PathsOverlap(x.path, y.path)
    PROVE  \A x, y \in M :
             x.owner # y.owner /\ (x.scope = y.scope \/ x.resource = y.resource)
               => ~PathsOverlap(x.path, y.path)
<1> SUFFICES ASSUME NEW x \in M, NEW y \in M, x.owner # y.owner,
                    x.scope = y.scope \/ x.resource = y.resource
             PROVE  ~PathsOverlap(x.path, y.path)
  OBVIOUS
<1>1. PICK a \in L : /\ x.owner = a.owner /\ x.scope = a.scope
                     /\ x.resource = a.resource /\ x.path = a.path
  OBVIOUS
<1>2. PICK b \in L : /\ y.owner = b.owner /\ y.scope = b.scope
                     /\ y.resource = b.resource /\ y.path = b.path
  OBVIOUS
<1> QED
  BY <1>1, <1>2

\* PathsOverlap is symmetric.
LEMMA OverlapSymmetric ==
    ASSUME NEW p, NEW q PROVE PathsOverlap(p, q) <=> PathsOverlap(q, p)
  BY DEF PathsOverlap

-----------------------------------------------------------------------------
(* Type correctness and the bookkeeping invariants *)

\* In the initial state there are at most the rows of first-release agents.
LEMMA InitIInv == Init => IInv
<1> SUFFICES ASSUME Init PROVE IInv
  OBVIOUS
<1> USE DEF Init
<1>1. TypeOK
  BY LegacyAssumption, TimeAssumption DEF TypeOK, Time
<1>2. PastReadings /\ ScopesSettled
  BY LegacyAssumption DEF PastReadings, ScopesSettled
<1>3. ClaimExclusion
  BY LegacyAssumption DEF ClaimExclusion
<1>4. NoSilentDeadlock
  <2>1. \A s : Edges(s, clock - WaitWindow) = {}
    BY DEF Edges
  <2>2. Acyclic({})
    BY DEF Acyclic, Reaches
  <2> QED
    BY <2>1, <2>2 DEF NoSilentDeadlock
<1> QED
  BY <1>1, <1>2, <1>3, <1>4 DEF IInv

\* What a call in flight says of itself.
LEMMA CallShape ==
    ASSUME TypeOK, NEW c \in calls
    PROVE  /\ c.now \in Time /\ c.now \in Int
           /\ c.kind = "claim" =>
                /\ c.owner \in Owner /\ c.resource \in Resource
                /\ c.paths \subseteq Path /\ c.expires \in Nat
                /\ ScopeOf[c.resource] \in Scope
           /\ c.kind = "renew" => c.expires \in Nat
  BY PathSetsAssumption, ScopeAssumption, TimeAssumption
     DEF TypeOK, Call, Time, Scope

\* Starting a call keeps its clock reading.
LEMMA StartIInv ==
    ASSUME IInv, NEW c \in Call, c.now = clock, Start(c)
    PROVE  IInv'
<1>1. TypeOK' /\ PastReadings'
  BY DEF IInv, TypeOK, Start, PastReadings, Time
<1>2. ScopesSettled' /\ ClaimExclusion' /\ NoSilentDeadlock'
  BY DEF IInv, Start, ScopesSettled, ClaimExclusion, NoSilentDeadlock, Edges
<1> QED
  BY <1>1, <1>2 DEF IInv

\* What holds after a step that only drops waits and only drops rows, or
\* changes their expiry, without touching the clock.
LEMMA ShrinkIInv ==
    ASSUME IInv,
           UNCHANGED clock, calls' \subseteq calls,
           waits' \subseteq waits,
           leases' \subseteq LeaseRow,
           \A x \in leases' : \E y \in leases : /\ x.owner = y.owner
                                                /\ x.scope = y.scope
                                                /\ x.resource = y.resource
                                                /\ x.path = y.path
    PROVE  IInv'
<1>1. TypeOK' /\ PastReadings'
  BY DEF IInv, TypeOK, PastReadings
<1>2. ScopesSettled'
  BY DEF IInv, ScopesSettled
<1>3. ClaimExclusion'
  BY FewerRows DEF IInv, ClaimExclusion
<1>4. NoSilentDeadlock'
  <2>1. \A s : Edges(s, clock - WaitWindow)' \subseteq Edges(s, clock - WaitWindow)
    BY DEF Edges
  <2> QED
    BY <2>1, AcyclicMonotone DEF IInv, NoSilentDeadlock
<1> QED
  BY <1>1, <1>2, <1>3, <1>4 DEF IInv

-----------------------------------------------------------------------------
(* Claims *)

\* A granted claim overlaps nobody: the rows it keeps were compared with it,
\* the ones it does not see belong to other roots and other projects.
LEMMA GrantedIInv ==
    ASSUME IInv, NEW c \in calls, NEW id \in LeaseId, ClaimGranted(c, id)
    PROVE  IInv'
<1> DEFINE row(p) == [lease |-> id, owner |-> c.owner, resource |-> c.resource,
                      scope |-> ScopeOf[c.resource], path |-> p,
                      expires |-> c.expires]
           new == {row(p) : p \in c.paths}
<1>1. /\ leases' = Unexpired(c.now) \cup new
      /\ waits' \subseteq waits /\ calls' \subseteq calls /\ clock' = clock
      /\ Conflicts(c) = {} /\ c.kind = "claim"
  BY DEF ClaimGranted, Done, RecentWaits
<1>2. new \subseteq LeaseRow
  BY <1>1, CallShape DEF IInv, LeaseRow
<1>3. TypeOK' /\ PastReadings'
  BY <1>1, <1>2 DEF IInv, TypeOK, PastReadings, Unexpired
<1>4. ScopesSettled'
  BY <1>1 DEF IInv, ScopesSettled, Unexpired
<1>5. \A x \in new, y \in Unexpired(c.now) :
         x.owner # y.owner /\ (x.scope = y.scope \/ x.resource = y.resource)
           => ~PathsOverlap(x.path, y.path)
  <2> SUFFICES ASSUME NEW p \in c.paths, NEW y \in Unexpired(c.now),
                      c.owner # y.owner,
                      ScopeOf[c.resource] = y.scope \/ c.resource = y.resource
               PROVE  ~PathsOverlap(p, y.path)
    OBVIOUS
  <2>1. Sees(c.resource, y)
    BY DEF Sees, IInv, ScopesSettled, Unexpired
  <2>2. <<p, y>> \in c.paths \X Unexpired(c.now)
    OBVIOUS
  <2>3. <<p, y>> \notin Conflicts(c)
    BY <1>1
  <2> QED
    BY <2>1, <2>2, <2>3 DEF Conflicts
<1>6. ClaimExclusion'
  <2>1. \A x, y \in Unexpired(c.now) :
           x.owner # y.owner /\ (x.scope = y.scope \/ x.resource = y.resource)
             => ~PathsOverlap(x.path, y.path)
    BY DEF IInv, ClaimExclusion, Unexpired
  <2>2. \A x, y \in new : x.owner = y.owner
    OBVIOUS
  <2> QED
    BY <1>1, <1>5, <2>1, <2>2, OverlapSymmetric DEF ClaimExclusion
<1>7. NoSilentDeadlock'
  <2>1. \A s : Edges(s, clock - WaitWindow)' \subseteq Edges(s, clock - WaitWindow)
    BY <1>1 DEF Edges
  <2> QED
    BY <2>1, AcyclicMonotone DEF IInv, NoSilentDeadlock
<1> QED
  BY <1>3, <1>4, <1>6, <1>7 DEF IInv

\* A refused claim that records its waits closes no cycle, although its search
\* used the window of an earlier clock reading.
LEMMA RefusedIInv ==
    ASSUME IInv, NEW c \in calls, ClaimRefused(c)
    PROVE  IInv'
<1> DEFINE scope == ScopeOf[c.resource]
           new == {[owner |-> c.owner, by |-> k[2].owner, scope |-> scope,
                    path |-> k[1], updated |-> c.now] : k \in Conflicts(c)}
           N == {<<c.owner, k[2].owner>> : k \in Conflicts(c)}
           E == Edges(scope, clock - WaitWindow)
<1>1. /\ leases' = Unexpired(c.now)
      /\ waits' \subseteq waits \cup new
      /\ calls' \subseteq calls /\ clock' = clock
      /\ c.kind = "claim"
      /\ ~DetectCycle(GraphWithClaim(c), c.owner)
  BY DEF ClaimRefused, Done, RecentWaits
<1>2. /\ c.owner \in Owner /\ scope \in Scope /\ c.now \in Time
      /\ c.paths \subseteq Path /\ c.now <= clock
  BY <1>1, CallShape DEF IInv, PastReadings
<1>3. \A k \in Conflicts(c) : k[1] \in Path /\ k[2] \in leases /\ k[2].owner \in Owner
  BY <1>2 DEF Conflicts, Unexpired, IInv, TypeOK, LeaseRow
<1>4. new \subseteq Wait
  BY <1>2, <1>3 DEF Wait
<1>5. TypeOK' /\ PastReadings'
  BY <1>1, <1>4 DEF IInv, TypeOK, PastReadings, Unexpired
<1>6. ScopesSettled' /\ ClaimExclusion'
  BY <1>1 DEF IInv, ScopesSettled, ClaimExclusion, Unexpired
<1>7. Acyclic(E \cup N)
  <2>1. E \subseteq Edges(scope, c.now - WaitWindow)
    <3>1. /\ c.now - WaitWindow \in Int /\ clock - WaitWindow \in Int
          /\ c.now - WaitWindow <= clock - WaitWindow
      BY <1>2, TimeAssumption DEF IInv, TypeOK, Time
    <3>2. \A w \in waits : w.updated \in Int
      BY TimeAssumption DEF IInv, TypeOK, Wait, Time
    <3> QED
      BY <3>1, <3>2, WindowMonotone
  <2>2. E \cup N \subseteq GraphWithClaim(c)
    BY <2>1 DEF GraphWithClaim
  <2>3. \A x, y \in Owner : <<x, y>> \in N => x = c.owner
    OBVIOUS
  <2>4. Acyclic(E)
    BY <1>2 DEF IInv, NoSilentDeadlock
  <2> HIDE DEF E, N
  <2> QED
    BY <1>1, <1>2, <2>2, <2>3, <2>4, SearchFindsNewCycles
<1>8. ASSUME NEW s \in Scope PROVE Acyclic(Edges(s, clock - WaitWindow))'
  <2>1. CASE s = scope
    <3>1. Edges(s, clock - WaitWindow)' \subseteq E \cup N
      BY <1>1, <2>1 DEF Edges
    <3> QED
      BY <3>1, <1>7, AcyclicMonotone
  <2>2. CASE s # scope
    <3>1. Edges(s, clock - WaitWindow)' \subseteq Edges(s, clock - WaitWindow)
      BY <1>1, <2>2 DEF Edges
    <3> QED
      BY <3>1, AcyclicMonotone DEF IInv, NoSilentDeadlock
  <2> QED
    BY <2>1, <2>2
<1> QED
  BY <1>5, <1>6, <1>8 DEF IInv, NoSilentDeadlock

-----------------------------------------------------------------------------
(* Every step *)

\* Every step preserves the invariant.
LEMMA NextIInv == IInv /\ [Next]_vars => IInv'
<1> SUFFICES ASSUME IInv, [Next]_vars PROVE IInv'
  OBVIOUS
<1>1. ASSUME NEW o \in Owner, NEW r \in Resource, NEW P \in PathSets,
             NEW ttl \in TTLs, Claim(o, r, P, ttl)
      PROVE  IInv'
  <2> DEFINE c == [kind |-> "claim", owner |-> o, resource |-> r, paths |-> P,
                   now |-> clock, expires |-> clock + ttl]
  <2>1. c \in Call /\ c.now = clock
    BY TimeAssumption DEF Call, IInv, TypeOK, Time
  <2>2. Start(c)
    BY <1>1 DEF Claim
  <2> QED
    BY <2>1, <2>2, StartIInv
<1>2. ASSUME NEW c \in calls, NEW id \in LeaseId, ClaimGranted(c, id)
      PROVE  IInv'
  BY <1>2, GrantedIInv
<1>3. ASSUME NEW c \in calls, ClaimRefused(c)
      PROVE  IInv'
  BY <1>3, RefusedIInv
<1>4. ASSUME NEW c \in calls, ClaimDeadlock(c) \/ Abandon(c)
      PROVE  IInv'
  <2>1. UNCHANGED <<clock, leases, waits>> /\ calls' \subseteq calls
    BY <1>4 DEF ClaimDeadlock, Abandon, Done
  <2> QED
    BY <2>1, ShrinkIInv DEF IInv, TypeOK
<1>5. ASSUME NEW c \in calls, RenewWrite(c)
      PROVE  IInv'
  <2> DEFINE mine == {x \in leases : x.owner = c.owner /\ x.lease = c.lease}
             renewed == {[x EXCEPT !.expires = c.expires] : x \in mine}
  <2>1. /\ leases' = (leases \ mine) \cup renewed
        /\ UNCHANGED <<clock, waits>> /\ calls' \subseteq calls
        /\ c.kind = "renew"
    BY <1>5 DEF RenewWrite, Done
  <2>2. c.expires \in Nat
    BY <2>1, CallShape DEF IInv
  <2>3. \A x \in leases : x \in LeaseRow
    BY DEF IInv, TypeOK
  <2>4. ASSUME NEW x \in leases' PROVE /\ x \in LeaseRow
                                        /\ \E y \in leases :
                                             /\ x.owner = y.owner
                                             /\ x.scope = y.scope
                                             /\ x.resource = y.resource
                                             /\ x.path = y.path
    <3>1. CASE x \in leases
      BY <2>3, <3>1
    <3>2. CASE x \in renewed
      <4>1. PICK y \in mine : x = [y EXCEPT !.expires = c.expires]
        BY <3>2
      <4>2. y \in leases /\ y \in LeaseRow
        BY <2>3
      <4>3. /\ x \in LeaseRow
            /\ x.owner = y.owner /\ x.scope = y.scope
            /\ x.resource = y.resource /\ x.path = y.path
        BY <2>2, <4>1, <4>2 DEF LeaseRow
      <4> QED
        BY <4>2, <4>3
    <3> QED
      BY <2>1, <3>1, <3>2
  <2> QED
    BY <2>1, <2>4, ShrinkIInv
<1>6. ASSUME NEW c \in calls, ReapExpiredWrite(c)
      PROVE  IInv'
  <2>1. /\ leases' \subseteq leases /\ waits' \subseteq waits
        /\ clock' = clock /\ calls' \subseteq calls
    BY <1>6 DEF ReapExpiredWrite, Done, Unexpired, RecentWaits
  <2> QED
    BY <2>1, ShrinkIInv DEF IInv, TypeOK
<1>7. ASSUME NEW o \in Owner, NEW rows, ReleaseRows(o, rows)
      PROVE  IInv'
  <2>1. /\ leases' \subseteq leases /\ waits' \subseteq waits
        /\ clock' = clock /\ calls' \subseteq calls
    BY <1>7 DEF ReleaseRows
  <2> QED
    BY <2>1, ShrinkIInv DEF IInv, TypeOK
<1>8. ASSUME NEW x \in leases, Release(x.owner, x.lease)
      PROVE  IInv'
  <2>1. x.owner \in Owner
    BY DEF IInv, TypeOK, LeaseRow
  <2> QED
    BY <1>7, <1>8, <2>1 DEF Release
<1>9. ASSUME NEW o \in Owner, ReleaseOwner(o)
      PROVE  IInv'
  BY <1>7, <1>9 DEF ReleaseOwner
<1>10. ASSUME NEW x \in leases, NEW ttl \in TTLs, Renew(x.owner, x.lease, ttl)
       PROVE  IInv'
  <2> DEFINE c == [kind |-> "renew", owner |-> x.owner, lease |-> x.lease,
                   now |-> clock, expires |-> clock + ttl]
  <2>1. c \in Call /\ c.now = clock
    BY TimeAssumption DEF Call, IInv, TypeOK, Time, LeaseRow
  <2>2. Start(c)
    BY <1>10 DEF Renew
  <2> QED
    BY <2>1, <2>2, StartIInv
<1>11. CASE ReapExpired
  <2> DEFINE c == [kind |-> "reap_expired", now |-> clock]
  <2>1. c \in Call /\ c.now = clock
    BY DEF Call, IInv, TypeOK
  <2>2. Start(c)
    BY <1>11 DEF ReapExpired
  <2> QED
    BY <2>1, <2>2, StartIInv
<1>12. CASE Tick
  <2>1. TypeOK' /\ PastReadings'
    BY <1>12, CallShape, TimeAssumption DEF IInv, TypeOK, PastReadings, Tick, Time
  <2>2. ScopesSettled' /\ ClaimExclusion'
    BY <1>12 DEF IInv, ScopesSettled, ClaimExclusion, Tick
  <2>3. NoSilentDeadlock'
    <3>1. /\ clock - WaitWindow \in Int /\ clock' - WaitWindow \in Int
          /\ clock - WaitWindow <= clock' - WaitWindow
      BY <1>12, TimeAssumption DEF IInv, TypeOK, Time, Tick
    <3>2. \A w \in waits : w.updated \in Int
      BY TimeAssumption DEF IInv, TypeOK, Wait, Time
    <3>3. \A s : Edges(s, clock' - WaitWindow) \subseteq Edges(s, clock - WaitWindow)
      BY <3>1, <3>2, WindowMonotone
    <3>4. \A s : Edges(s, clock - WaitWindow)' = Edges(s, clock' - WaitWindow)
      BY <1>12 DEF Edges, Tick
    <3> QED
      BY <3>3, <3>4, AcyclicMonotone DEF IInv, NoSilentDeadlock
  <2> QED
    BY <2>1, <2>2, <2>3 DEF IInv
<1>13. CASE UNCHANGED vars
  BY <1>13, ShrinkIInv DEF vars, IInv, TypeOK
<1> QED
  BY <1>1, <1>2, <1>3, <1>4, <1>5, <1>6, <1>8, <1>9, <1>10, <1>11, <1>12, <1>13
     DEF Next

-----------------------------------------------------------------------------
(* The theorems *)

\* The invariant holds in every reachable state.
THEOREM Invariance == Spec => []IInv
  BY InitIInv, NextIInv, PTL DEF Spec

\* Rows, waits and calls of leases.py always have the shapes of the schema.
THEOREM TypeCorrect == Spec => []TypeOK
<1>1. IInv => TypeOK
  BY DEF IInv
<1> QED
  BY <1>1, Invariance, PTL

\* claim never puts overlapping paths on record for two owners: not between
\* worktrees of a project, not against the rows of first-release agents, and
\* not because of stale clock readings or late renewals.
THEOREM Exclusion == Spec => []ClaimExclusion
<1>1. IInv => ClaimExclusion
  BY DEF IInv
<1> QED
  BY <1>1, Invariance, PTL

\* The waits that claim's deadlock search counts never contain a cycle, for
\* any number of owners: a claim that would close one is refused with
\* `deadlock`, though the search starts at a single owner.
THEOREM DeadlocksReported == Spec => []NoSilentDeadlock
<1>1. IInv => NoSilentDeadlock
  BY DEF IInv
<1> QED
  BY <1>1, Invariance, PTL
=============================================================================
