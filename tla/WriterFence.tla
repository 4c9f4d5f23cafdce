---------------------------- MODULE WriterFence ----------------------------
(***************************************************************************)
(* The SQLite-backed writer fence of work_fencing.py.                      *)
(*                                                                         *)
(* A work order is executed by an ATTEMPT (an execution epoch); an attempt *)
(* takes path LEASES; files are written only inside commit_guard, work     *)
(* orders change state only inside attempt_guard.  Every mutating call is  *)
(* two steps: it reads the clock, then runs a BEGIN IMMEDIATE transaction, *)
(* possibly much later and after busy retries, with the time read before.  *)
(* A guard holds the database's only write lock for as long as its body    *)
(* runs.                                                                   *)
(*                                                                         *)
(* A handle (WorkAttemptFence, FencingLease) is the id of its row.  The    *)
(* identity columns of a row are written once, so the comparison of a      *)
(* handle with them fails only for a row that does not exist.              *)
(***************************************************************************)
EXTENDS PathScopes, FiniteSets

CONSTANTS
    Resource,    \* canonical filesystem roots
    Project,     \* coordination ids, "project:<namespace>"
    Work,        \* work order ids
    PathSets,    \* the path scopes and write sets callers ask for
    AttemptId,   \* uuids of attempts
    LeaseId,     \* uuids of leases
    TTLs,        \* lifetimes callers ask for
    MaxClock,    \* bound: clock readings are in 0..MaxClock
    MaxCalls,    \* bound: calls between their clock reading and their write
    Rescopings   \* configuration edits: <<old scope, new scope>>

\* Rows are kept per coordination scope: a project, or the resource itself
\* for callers that give no coordination id (the physical scope).
Scope == Resource \cup Project

ASSUME ScopeAssumption == Resource \cap Project = {}
ASSUME PathSetsAssumption == PathSets \subseteq (SUBSET Path) \ {{}}
ASSUME TimeAssumption == /\ MaxClock \in Nat
                         /\ TTLs \subseteq Nat \ {0}
                         /\ MaxCalls \in Nat
ASSUME RescopingAssumption == Rescopings \subseteq Scope \X Scope

VARIABLES
    clock,          \* what time.time() returns; may be set back
    context,        \* context[r]: the scope resolve_project_context gives r
    attempts,       \* writer_fence_attempts, by attempt_id
    leases,         \* writer_fence_leases, by lease_id
    attemptCounter, \* writer_fence_counters, rows "<scope>\nwork-order:<work>"
    leaseCounter,   \* writer_fence_counters, rows "<scope>"
    calls,          \* calls that have read the clock and not yet written
    guard,          \* the open commit_guard or attempt_guard, if any
    lastWrite,      \* lastWrite[<<r, f>>]: token of the last write to f
    lastState       \* lastState[<<r, w>>]: token of w's last transition

tables == <<attempts, leases, attemptCounter, leaseCounter>>
effects == <<lastWrite, lastState>>
vars == <<clock, context, tables, calls, guard, effects>>

-----------------------------------------------------------------------------
(* Paths *)

\* (faulty) Only a request above an existing path is a conflict.
OverlapsBelow(P, Q) == \E p \in P, q \in Q : Ancestor(p, q)

Overlaps(P, Q) == \E p \in P, q \in Q : PathsOverlap(p, q)

Covers(P, f) == \E p \in P : Ancestor(p, f)

-----------------------------------------------------------------------------
(* Rows, calls and guards *)

Time == 0..MaxClock
Expiry == Nat

AttemptRow == [resource : Resource, scope : Scope, work : Work, token : Nat,
               expires : Expiry, active : {0, 1}]

LeaseRow == [resource : Resource, scope : Scope, token : Nat,
             expires : Expiry, paths : PathSets, attempt : AttemptId,
             attemptToken : Nat, active : {0, 1}]

Call ==
    [kind : {"claim_attempt"}, resource : Resource, scope : Scope,
     work : Work, now : Time, expires : Expiry]
  \cup [kind : {"renew_attempt"}, attempt : AttemptId, expires : Expiry]
  \cup [kind : {"acquire"}, resource : Resource, scope : Scope,
        attempt : AttemptId, paths : PathSets, now : Time, expires : Expiry]
  \cup [kind : {"renew"}, lease : LeaseId, expires : Expiry]
  \cup [kind : {"prune_expired"}, now : Time]

NoGuard == [kind |-> "none"]

Guard == {NoGuard}
  \cup [kind : {"attempt_guard"}, attempt : AttemptId]
  \cup [kind : {"commit_guard"}, lease : LeaseId, paths : PathSets]

\* Rows a caller working on `r` in `scope` sees:
\* scope_id=? OR (resource=? AND scope_id=resource).
Sees(r, scope, row) ==
    \/ row.scope = scope
    \/ row.resource = r /\ row.scope = row.resource

Live(row, now) == row.active = 1 /\ row.expires > now

\* (faulty) Expired rows keep active=1.
KeepActive(table, ids) == table

\* UPDATE ... SET active=0 on the rows `ids`.
Deactivate(table, ids) ==
    [i \in DOMAIN table |->
        IF i \in ids THEN [table[i] EXCEPT !.active = 0] ELSE table[i]]

Insert(table, id, row) ==
    [i \in DOMAIN table \cup {id} |-> IF i = id THEN row ELSE table[i]]

\* (faulty) The counter, or a row, without max().
AnyOf(m, S) == m \in S

IsMax(m, S) == m \in S /\ \A n \in S : n <= m

\* (faulty) The expiry is checked, active is not.
AttemptUnexpired(a) == a \in DOMAIN attempts /\ attempts[a].expires > clock

AttemptCurrent(a) == a \in DOMAIN attempts /\ Live(attempts[a], clock)

\* (faulty) The expiry is checked, active is not.
LeaseUnexpired(l) ==
    /\ l \in DOMAIN leases
    /\ leases[l].expires > clock
    /\ AttemptCurrent(leases[l].attempt)

LeaseCurrent(l) ==
    /\ l \in DOMAIN leases
    /\ Live(leases[l], clock)
    /\ AttemptCurrent(leases[l].attempt)
    /\ attempts[leases[l].attempt].resource = leases[l].resource
    /\ attempts[leases[l].attempt].scope = leases[l].scope
    /\ attempts[leases[l].attempt].token = leases[l].attemptToken

\* (faulty) Guards open a deferred transaction, which takes no lock.
NeverLocked == TRUE

\* A transaction can begin: no guard holds the write lock.
Unlocked == guard = NoGuard

Start(c) ==
    /\ Cardinality(calls) < MaxCalls
    /\ calls' = calls \cup {c}
    /\ UNCHANGED <<clock, context, tables, guard, effects>>

\* The call returns or raises; a raised error has rolled its writes back.
Done(c) == calls' = calls \ {c}

-----------------------------------------------------------------------------
(* Attempts *)

ClaimAttempt(r, w, ttl) ==
    Start([kind |-> "claim_attempt", resource |-> r, scope |-> context[r],
           work |-> w, now |-> clock, expires |-> clock + ttl])

\* Refused while an attempt of the work order is live at the captured time.
ClaimAttemptWrite(c, a) ==
    LET mine == {i \in DOMAIN attempts :
                   /\ Sees(c.resource, c.scope, attempts[i])
                   /\ attempts[i].work = c.work
                   /\ attempts[i].active = 1}
        expired == {i \in mine : attempts[i].expires <= c.now}
        seen == {attempts[i].token : i \in {j \in DOMAIN attempts :
                                              /\ attempts[j].resource = c.resource
                                              /\ attempts[j].work = c.work}}
    IN  /\ c.kind = "claim_attempt"
        /\ Unlocked
        /\ a \notin DOMAIN attempts
        /\ mine \subseteq expired
        /\ \E prior \in {attemptCounter[<<c.scope, c.work>>]} \cup seen :
             /\ IsMax(prior, {attemptCounter[<<c.scope, c.work>>]} \cup seen)
             /\ attemptCounter' =
                  [attemptCounter EXCEPT ![<<c.scope, c.work>>] = prior + 1]
             /\ attempts' = Insert(Deactivate(attempts, expired), a,
                  [resource |-> c.resource, scope |-> c.scope,
                   work |-> c.work, token |-> prior + 1,
                   expires |-> c.expires, active |-> 1])
        /\ Done(c)
        /\ UNCHANGED <<clock, context, leases, leaseCounter, guard, effects>>

\* (faulty) The sign of the lifetime is wrong.
RenewAttemptBackwards(a, ttl) ==
    Start([kind |-> "renew_attempt", attempt |-> a, expires |-> clock - ttl])

RenewAttempt(a, ttl) ==
    Start([kind |-> "renew_attempt", attempt |-> a, expires |-> clock + ttl])

RenewAttemptWrite(c) ==
    /\ c.kind = "renew_attempt"
    /\ Unlocked
    /\ AttemptCurrent(c.attempt)
    /\ attempts' = [attempts EXCEPT ![c.attempt].expires = c.expires]
    /\ Done(c)
    /\ UNCHANGED <<clock, context, leases, attemptCounter, leaseCounter,
                   guard, effects>>

ReleaseAttempt(a) ==
    /\ Unlocked
    /\ attempts[a].active = 1
    /\ attempts' = [attempts EXCEPT ![a].active = 0]
    /\ UNCHANGED <<clock, context, leases, attemptCounter, leaseCounter,
                   calls, guard, effects>>

-----------------------------------------------------------------------------
(* Leases *)

Acquire(r, a, P, ttl) ==
    Start([kind |-> "acquire", resource |-> r, scope |-> context[r],
           attempt |-> a, paths |-> P, now |-> clock,
           expires |-> clock + ttl])

\* The parent attempt of lease i is gone at time `now`.
Orphaned(i, now) ==
    LET a == leases[i].attempt
    IN  ~ /\ a \in DOMAIN attempts
          /\ attempts[a].token = leases[i].attemptToken
          /\ Live(attempts[a], now)

\* Expired and orphaned leases in sight are retired; refused if one of the
\* remaining ones overlaps the requested paths.
AcquireWrite(c, l) ==
    LET visible == {i \in DOMAIN leases :
                      /\ Sees(c.resource, c.scope, leases[i])
                      /\ leases[i].active = 1}
        retired == {i \in visible :
                      leases[i].expires <= c.now \/ Orphaned(i, c.now)}
        seen == {leases[i].token : i \in {j \in DOMAIN leases :
                   /\ leases[j].resource = c.resource
                   /\ leases[j].scope \in {c.scope, c.resource}}}
    IN  /\ c.kind = "acquire"
        /\ Unlocked
        /\ l \notin DOMAIN leases
        /\ attempts[c.attempt].resource = c.resource
        /\ attempts[c.attempt].scope = c.scope
        /\ AttemptCurrent(c.attempt)
        /\ \A i \in visible \ retired : ~Overlaps(c.paths, leases[i].paths)
        /\ \E prior \in {leaseCounter[c.scope]} \cup seen :
             /\ IsMax(prior, {leaseCounter[c.scope]} \cup seen)
             /\ leaseCounter' = [leaseCounter EXCEPT ![c.scope] = prior + 1]
             /\ leases' = Insert(Deactivate(leases, retired), l,
                  [resource |-> c.resource, scope |-> c.scope,
                   token |-> prior + 1, expires |-> c.expires,
                   paths |-> c.paths, attempt |-> c.attempt,
                   attemptToken |-> attempts[c.attempt].token, active |-> 1])
        /\ Done(c)
        /\ UNCHANGED <<clock, context, attempts, attemptCounter, guard, effects>>

Renew(l, ttl) ==
    Start([kind |-> "renew", lease |-> l, expires |-> clock + ttl])

RenewWrite(c) ==
    /\ c.kind = "renew"
    /\ Unlocked
    /\ LeaseCurrent(c.lease)
    /\ leases' = [leases EXCEPT ![c.lease].expires = c.expires]
    /\ Done(c)
    /\ UNCHANGED <<clock, context, attempts, attemptCounter, leaseCounter,
                   guard, effects>>

Release(l) ==
    /\ Unlocked
    /\ leases[l].active = 1
    /\ leases' = [leases EXCEPT ![l].active = 0]
    /\ UNCHANGED <<clock, context, attempts, attemptCounter, leaseCounter,
                   calls, guard, effects>>

PruneExpired == Start([kind |-> "prune_expired", now |-> clock])

PruneExpiredWrite(c) ==
    LET expired(table) == {i \in DOMAIN table :
                             table[i].active = 1 /\ table[i].expires <= c.now}
    IN  /\ c.kind = "prune_expired"
        /\ Unlocked
        /\ attempts' = Deactivate(attempts, expired(attempts))
        /\ leases' = Deactivate(leases, expired(leases))
        /\ Done(c)
        /\ UNCHANGED <<clock, context, attemptCounter, leaseCounter, guard,
                       effects>>

\* LeaseLostError, LeaseUnavailableError, "database is locked" after the last
\* retry, or the death of the caller.
Abandon(c) ==
    /\ Done(c)
    /\ UNCHANGED <<clock, context, tables, guard, effects>>

-----------------------------------------------------------------------------
(* Guards *)

EnterAttemptGuard(a) ==
    /\ Unlocked
    /\ AttemptCurrent(a)
    /\ guard' = [kind |-> "attempt_guard", attempt |-> a]
    /\ UNCHANGED <<clock, context, tables, calls, effects>>

\* The guarded body: the work order's durable state transition.
Transition ==
    /\ guard.kind = "attempt_guard"
    /\ LET row == attempts[guard.attempt]
       IN  lastState' = [lastState EXCEPT ![<<row.resource, row.work>>] = row.token]
    /\ UNCHANGED <<clock, context, tables, calls, guard, lastWrite>>

EnterCommitGuard(l, P) ==
    /\ Unlocked
    /\ \A f \in P : Covers(leases[l].paths, f)
    /\ LeaseCurrent(l)
    /\ guard' = [kind |-> "commit_guard", lease |-> l, paths |-> P]
    /\ UNCHANGED <<clock, context, tables, calls, effects>>

\* The guarded body: one protected filesystem write.
Write(f) ==
    /\ guard.kind = "commit_guard"
    /\ f \in guard.paths
    /\ LET row == leases[guard.lease]
       IN  lastWrite' = [lastWrite EXCEPT ![<<row.resource, f>>] = row.token]
    /\ UNCHANGED <<clock, context, tables, calls, guard, lastState>>

\* commit_guard checks the lease once more before its COMMIT.
ExitCommitGuard ==
    /\ guard.kind = "commit_guard"
    /\ LeaseCurrent(guard.lease)
    /\ guard' = NoGuard
    /\ UNCHANGED <<clock, context, tables, calls, effects>>

ExitAttemptGuard ==
    /\ guard.kind = "attempt_guard"
    /\ guard' = NoGuard
    /\ UNCHANGED <<clock, context, tables, calls, effects>>

\* ROLLBACK because the body or the second check raised, or the death of the
\* process: the write lock is freed, the writes already made stay.
AbortGuard ==
    /\ ~Unlocked
    /\ guard' = NoGuard
    /\ UNCHANGED <<clock, context, tables, calls, effects>>

-----------------------------------------------------------------------------
(* Environment *)

\* Time passes, or the wall clock is set back.
SetClock(t) ==
    /\ t # clock
    /\ clock' = t
    /\ UNCHANGED <<context, tables, calls, guard, effects>>

\* The root is given another coordination id and the service is restarted.
\* The tables survive, and so do handles that other processes hold.
Rescope(r, s) ==
    /\ <<context[r], s>> \in Rescopings
    /\ context' = [context EXCEPT ![r] = s]
    /\ calls' = {}
    /\ guard' = NoGuard
    /\ UNCHANGED <<clock, tables, effects>>

-----------------------------------------------------------------------------
Init ==
    /\ clock = 0
    /\ context \in [Resource -> Scope]
    /\ \A r \in Resource : context[r] = r \/ context[r] \in Project
    /\ attempts = [a \in {} |-> 0]
    /\ leases = [l \in {} |-> 0]
    /\ attemptCounter = [k \in Scope \X Work |-> 0]
    /\ leaseCounter = [s \in Scope |-> 0]
    /\ calls = {}
    /\ guard = NoGuard
    /\ lastWrite = [k \in Resource \X Path |-> 0]
    /\ lastState = [k \in Resource \X Work |-> 0]

StartCall ==
    \/ \E r \in Resource, w \in Work, ttl \in TTLs : ClaimAttempt(r, w, ttl)
    \/ \E a \in DOMAIN attempts, ttl \in TTLs : RenewAttempt(a, ttl)
    \/ \E r \in Resource, a \in DOMAIN attempts, P \in PathSets, ttl \in TTLs :
         Acquire(r, a, P, ttl)
    \/ \E l \in DOMAIN leases, ttl \in TTLs : Renew(l, ttl)
    \/ PruneExpired

FinishCall ==
    \E c \in calls :
      \/ \E a \in AttemptId : ClaimAttemptWrite(c, a)
      \/ RenewAttemptWrite(c)
      \/ \E l \in LeaseId : AcquireWrite(c, l)
      \/ RenewWrite(c)
      \/ PruneExpiredWrite(c)
      \/ Abandon(c)

ReleaseCall ==
    \/ \E a \in DOMAIN attempts : ReleaseAttempt(a)
    \/ \E l \in DOMAIN leases : Release(l)

GuardStep ==
    \/ \E a \in DOMAIN attempts : EnterAttemptGuard(a)
    \/ Transition
    \/ \E l \in DOMAIN leases, P \in PathSets : EnterCommitGuard(l, P)
    \/ \E f \in Path : Write(f)
    \/ ExitAttemptGuard
    \/ ExitCommitGuard
    \/ AbortGuard

Environment ==
    \/ \E t \in Time : SetClock(t)
    \/ \E r \in Resource, s \in Scope : Rescope(r, s)

Next == StartCall \/ FinishCall \/ ReleaseCall \/ GuardStep \/ Environment

Spec == Init /\ [][Next]_vars
-----------------------------------------------------------------------------
(* Implementation of FencedFiles *)

\* Tokens ever granted on file k = <<root, path>>, and 0.
GrantedTokens(k) ==
    {0} \cup {leases[l].token : l \in {m \in DOMAIN leases :
                 leases[m].resource = k[1] /\ Covers(leases[m].paths, k[2])}}

Newest(k) == CHOOSE t \in GrantedTokens(k) : IsMax(t, GrantedTokens(k))

Granted == [k \in Resource \X Path |-> Newest(k)]

Files == INSTANCE FencedFiles WITH granted <- Granted, written <- lastWrite

\* The fence implements FencedFiles: whatever the interleaving of calls,
\* expiries, guards and crashes, a file is written only under the newest token
\* ever granted on it.
FencedFilesSpec == Files!Spec

-----------------------------------------------------------------------------
(* Properties *)

\* Tables, calls and guard have the shapes of the schema and of the handles.
TypeOK ==
    /\ clock \in Time
    /\ context \in [Resource -> Scope]
    /\ DOMAIN attempts \subseteq AttemptId
    /\ attempts \in [DOMAIN attempts -> AttemptRow]
    /\ DOMAIN leases \subseteq LeaseId
    /\ leases \in [DOMAIN leases -> LeaseRow]
    /\ attemptCounter \in [Scope \X Work -> Nat]
    /\ leaseCounter \in [Scope -> Nat]
    /\ calls \subseteq Call
    /\ guard \in Guard
    /\ lastWrite \in [Resource \X Path -> Nat]
    /\ lastState \in [Resource \X Work -> Nat]

SameDomain(x, y) == x.resource = y.resource \/ x.scope = y.scope

\* Two active leases of one resource, or of one project, never overlap: no
\* stale clock reading, retry, clock jump or scope migration lets acquire
\* grant a path that another active lease covers.
LeaseExclusion ==
    \A l, m \in DOMAIN leases :
        /\ l # m
        /\ leases[l].active = 1
        /\ leases[m].active = 1
        /\ SameDomain(leases[l], leases[m])
        => ~Overlaps(leases[l].paths, leases[m].paths)

\* A work order has at most one active attempt per resource and per project:
\* claim_attempt never opens a second epoch beside one that can still renew.
AttemptExclusion ==
    \A a, b \in DOMAIN attempts :
        /\ a # b
        /\ attempts[a].work = attempts[b].work
        /\ attempts[a].active = 1
        /\ attempts[b].active = 1
        => ~SameDomain(attempts[a], attempts[b])

\* While a commit_guard is open, no lease with a higher token has ever been
\* granted on what it writes, and no attempt of its work order is newer than
\* its own, even if both expired after the guard was entered.
OnlyNewestWrites ==
    guard.kind = "commit_guard" =>
        LET row == leases[guard.lease]
            parent == attempts[row.attempt]
        IN  /\ \A m \in DOMAIN leases :
                 /\ leases[m].resource = row.resource
                 /\ leases[m].token > row.token
                 => ~Overlaps(leases[m].paths, guard.paths)
            /\ \A b \in DOMAIN attempts :
                 /\ attempts[b].resource = row.resource
                 /\ attempts[b].work = parent.work
                 => attempts[b].token <= parent.token

\* UNIQUE(resource, work_id, fencing_token) never rejects an insert of
\* claim_attempt, whichever scopes the resource has gone through.
AttemptTokensUnique ==
    \A a, b \in DOMAIN attempts :
        /\ a # b
        /\ attempts[a].resource = attempts[b].resource
        /\ attempts[a].work = attempts[b].work
        => attempts[a].token # attempts[b].token

\* Protected writes to one file happen in the order of the fencing tokens: a
\* writer that stalled and lost its lease never overwrites its successor.
WritesInTokenOrder ==
    [][\A k \in Resource \X Path : lastWrite'[k] >= lastWrite[k]]_vars

\* Guarded transitions of a work order happen in the order of its attempts: a
\* superseded epoch never publishes a state after its successor has.
TransitionsInTokenOrder ==
    [][\A k \in Resource \X Work : lastState'[k] >= lastState[k]]_vars

\* "Tokens increase monotonically per canonical resource": a new lease has a
\* higher token than every lease ever granted on its resource.
TokensIncreasePerResource ==
    [][\A l \in DOMAIN leases' \ DOMAIN leases, m \in DOMAIN leases :
         leases[m].resource = leases'[l].resource
           => leases[m].token < leases'[l].token]_vars
=============================================================================
