----------------------------- MODULE ScopeLease ----------------------------
(***************************************************************************)
(* The advisory write-scope leases of leases.py: agents claim paths, a     *)
(* refused claim leaves wait-for edges behind, and a claim that would      *)
(* close a cycle of waits is reported as a deadlock.                       *)
(*                                                                         *)
(* As in the writer fence, claim, renew and reap_expired read the clock    *)
(* before their transaction; release does not read it.                     *)
(***************************************************************************)
EXTENDS PathScopes, FiniteSets

CONSTANTS
    Owner,         \* agents, tasks
    Resource,      \* repository roots
    Project,       \* coordination ids
    ScopeOf,       \* the root_id under which a root's claims are made
    Legacy,        \* rows left by callers without a coordination id
    LeaseId,       \* uuids
    PathSets,      \* sets of paths callers ask for
    TTLs,          \* lifetimes callers ask for
    WaitWindow,    \* age after which a wait leaves the graph (3600 s)
    WaitRetention, \* age after which a wait is deleted (7200 s)
    MaxClock,      \* bound on the clock
    MaxCalls       \* bound on calls between clock reading and transaction

Scope == Resource \cup Project
Time == 0..MaxClock

LeaseRow == [lease : LeaseId, owner : Owner, resource : Resource,
             scope : Scope, path : Path, expires : Nat]

Wait == [owner : Owner, by : Owner, scope : Scope, path : Path, updated : Time]

ASSUME ScopeAssumption == /\ Resource \cap Project = {}
                          /\ ScopeOf \in [Resource -> Project]
ASSUME LegacyAssumption ==
    /\ Legacy \subseteq LeaseRow
    /\ \A x \in Legacy : x.scope = x.resource
    /\ \A x, y \in Legacy : x.scope = y.scope /\ x.owner # y.owner
                              => ~PathsOverlap(x.path, y.path)
ASSUME PathSetsAssumption == PathSets \subseteq (SUBSET Path) \ {{}}
ASSUME TimeAssumption == /\ MaxClock \in Nat /\ MaxCalls \in Nat
                         /\ TTLs \subseteq Nat \ {0}
                         /\ WaitWindow \in Nat /\ WaitRetention \in Nat
                         /\ WaitWindow <= WaitRetention

VARIABLES
    clock,    \* time.time()
    leases,   \* table leases: one row per path of a lease
    waits,    \* table lease_waits
    calls     \* calls that have read the clock and not yet written

vars == <<clock, leases, waits, calls>>

Call == [kind : {"claim"}, owner : Owner, resource : Resource,
         paths : PathSets, now : Time, expires : Nat]
   \cup [kind : {"renew"}, owner : Owner, lease : LeaseId, now : Time,
         expires : Nat]
   \cup [kind : {"reap_expired"}, now : Time]

-----------------------------------------------------------------------------
(* The wait-for graph: a set of edges <<waiting owner, holder>> *)

\* v can be reached from u by one edge or more: it is in every set that holds
\* the successors of u and is closed under the edges.
Reaches(E, u, v) ==
    \A S \in SUBSET Owner :
        /\ \A w \in Owner : <<u, w>> \in E => w \in S
        /\ \A x \in S, y \in Owner : <<x, y>> \in E => y \in S
        => v \in S

\* The depth-first search from `o` meets a cycle.
DetectCycle(E, o) ==
    \E v \in Owner : (v = o \/ Reaches(E, o, v)) /\ Reaches(E, v, v)

Acyclic(E) == \A v \in Owner : ~Reaches(E, v, v)

Edges(scope, since) ==
    {<<w.owner, w.by>> : w \in {x \in waits : x.scope = scope /\ x.updated > since}}

-----------------------------------------------------------------------------
(* Claiming *)

Start(c) == /\ Cardinality(calls) < MaxCalls
            /\ calls' = calls \cup {c}
            /\ UNCHANGED <<clock, leases, waits>>

Done(c) == calls' = calls \ {c}

\* root_id=? OR (root_id=<physical> AND root_path=?).
Sees(r, row) == \/ row.scope = ScopeOf[r]
                \/ row.scope = r /\ row.resource = r

Unexpired(now) == {x \in leases : x.expires > now}

\* (faulty) Conflicts are looked for by the exact path.
ConflictsExact(c) ==
    {k \in c.paths \X Unexpired(c.now) :
        /\ k[2].owner # c.owner
        /\ Sees(c.resource, k[2])
        /\ k[1] = k[2].path}

\* Pairs <<requested path, row of another owner>> that overlap.
Conflicts(c) ==
    {k \in c.paths \X Unexpired(c.now) :
        /\ k[2].owner # c.owner
        /\ Sees(c.resource, k[2])
        /\ PathsOverlap(k[1], k[2].path)}

RecentWaits(now) == {w \in waits : w.updated > now - WaitRetention}

\* (faulty) Only the waits already on record are searched.
GraphWithoutClaim(c) == Edges(ScopeOf[c.resource], c.now - WaitWindow)

\* Waits on record and the ones this claim would add.
GraphWithClaim(c) ==
    Edges(ScopeOf[c.resource], c.now - WaitWindow)
      \cup {<<c.owner, k[2].owner>> : k \in Conflicts(c)}

\* (faulty) The sign of the lifetime is wrong.
ClaimBackwards(o, r, P, ttl) ==
    Start([kind |-> "claim", owner |-> o, resource |-> r, paths |-> P,
           now |-> clock, expires |-> clock - ttl])

Claim(o, r, P, ttl) ==
    Start([kind |-> "claim", owner |-> o, resource |-> r, paths |-> P,
           now |-> clock, expires |-> clock + ttl])

ClaimGranted(c, id) ==
    /\ c.kind = "claim"
    /\ Conflicts(c) = {}
    /\ \A x \in leases : x.lease # id
    /\ leases' = Unexpired(c.now) \cup
                   {[lease |-> id, owner |-> c.owner, resource |-> c.resource,
                     scope |-> ScopeOf[c.resource], path |-> p,
                     expires |-> c.expires] : p \in c.paths}
    /\ waits' = {w \in RecentWaits(c.now) :
                   ~(w.owner = c.owner /\ w.scope = ScopeOf[c.resource])}
    /\ Done(c)
    /\ UNCHANGED clock

\* The waits are recorded; an older wait with the same key is replaced.
ClaimRefused(c) ==
    LET new == {[owner |-> c.owner, by |-> k[2].owner,
                 scope |-> ScopeOf[c.resource], path |-> k[1],
                 updated |-> c.now] : k \in Conflicts(c)}
        replaced == {w \in waits : \E n \in new :
                       w = [n EXCEPT !.updated = w.updated]}
    IN  /\ c.kind = "claim"
        /\ Conflicts(c) # {}
        /\ ~DetectCycle(GraphWithClaim(c), c.owner)
        /\ leases' = Unexpired(c.now)
        /\ waits' = (RecentWaits(c.now) \ replaced) \cup new
        /\ Done(c)
        /\ UNCHANGED clock

\* ROLLBACK: the deletions of expired rows are undone too.
ClaimDeadlock(c) ==
    /\ c.kind = "claim"
    /\ Conflicts(c) # {}
    /\ DetectCycle(GraphWithClaim(c), c.owner)
    /\ Done(c)
    /\ UNCHANGED <<clock, leases, waits>>

-----------------------------------------------------------------------------
(* Releasing, renewing, reaping *)

\* Deletes `rows` of owner o, o's own waits where it released something, and
\* the waits on o for exactly the released paths.
ReleaseRows(o, rows) ==
    /\ leases' = leases \ rows
    /\ waits' = {w \in waits :
                   ~ \E x \in rows :
                       /\ w.scope = x.scope
                       /\ w.owner = o \/ (w.by = o /\ w.path = x.path)}
    /\ UNCHANGED <<clock, calls>>

Release(o, id) == ReleaseRows(o, {x \in leases : x.owner = o /\ x.lease = id})

ReleaseOwner(o) == ReleaseRows(o, {x \in leases : x.owner = o})

Renew(o, id, ttl) ==
    Start([kind |-> "renew", owner |-> o, lease |-> id, now |-> clock,
           expires |-> clock + ttl])

RenewWrite(c) ==
    /\ c.kind = "renew"
    /\ LET mine == {x \in leases : x.owner = c.owner /\ x.lease = c.lease}
       IN  /\ \E x \in mine : x.expires > c.now
           /\ leases' = (leases \ mine) \cup
                          {[x EXCEPT !.expires = c.expires] : x \in mine}
    /\ Done(c)
    /\ UNCHANGED <<clock, waits>>

ReapExpired == Start([kind |-> "reap_expired", now |-> clock])

ReapExpiredWrite(c) ==
    /\ c.kind = "reap_expired"
    /\ leases' = Unexpired(c.now)
    /\ waits' = RecentWaits(c.now)
    /\ Done(c)
    /\ UNCHANGED clock

\* Renewal refused, database busy to the last retry, or the caller died.
Abandon(c) == /\ Done(c)
              /\ UNCHANGED <<clock, leases, waits>>

Tick == /\ clock < MaxClock
        /\ clock' = clock + 1
        /\ UNCHANGED <<leases, waits, calls>>

-----------------------------------------------------------------------------
Init == /\ clock = 0
        /\ leases = Legacy
        /\ waits = {}
        /\ calls = {}

Next ==
    \/ \E o \in Owner, r \in Resource, P \in PathSets, ttl \in TTLs :
         Claim(o, r, P, ttl)
    \/ \E c \in calls : \/ \E id \in LeaseId : ClaimGranted(c, id)
                        \/ ClaimRefused(c)
                        \/ ClaimDeadlock(c)
                        \/ RenewWrite(c)
                        \/ ReapExpiredWrite(c)
                        \/ Abandon(c)
    \/ \E x \in leases : Release(x.owner, x.lease)
    \/ \E o \in Owner : ReleaseOwner(o)
    \/ \E x \in leases, ttl \in TTLs : Renew(x.owner, x.lease, ttl)
    \/ ReapExpired
    \/ Tick

Spec == Init /\ [][Next]_vars

-----------------------------------------------------------------------------
(* Properties *)

\* The rows and calls have the shapes of the schema.
TypeOK == /\ clock \in Time
          /\ leases \subseteq LeaseRow
          /\ waits \subseteq Wait
          /\ calls \subseteq Call

\* No path is on record for two owners at once within a project, or between a
\* project and the rows its root had before it: claims with stale clock
\* readings and late renewals included.
ClaimExclusion ==
    \A x, y \in leases :
        /\ x.owner # y.owner
        /\ x.scope = y.scope \/ x.resource = y.resource
        => ~PathsOverlap(x.path, y.path)

\* The waits that claim takes into account never form a cycle in a project:
\* no deadlock goes unreported because of interleaved claims, replaced or
\* expired waits.
NoSilentDeadlock ==
    \A s \in Scope : Acyclic(Edges(s, clock - WaitWindow))
=============================================================================
