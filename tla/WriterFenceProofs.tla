------------------------- MODULE WriterFenceProofs -------------------------
(***************************************************************************)
(* Theorems about WriterFence, for every set of roots, projects, paths,    *)
(* callers and every bound.                                                *)
(***************************************************************************)
EXTENDS WriterFence, TLAPS

-----------------------------------------------------------------------------
(* Paths *)

\* Two path scopes that cover one file overlap: _overlaps sees every conflict
\* that _assert_current could let through.
LEMMA CommonFileOverlaps ==
    ASSUME NEW P \in PathSets, NEW Q \in PathSets, NEW f \in Path,
           Covers(P, f), Covers(Q, f)
    PROVE  Overlaps(P, Q)
<1>1. PICK p \in P : Ancestor(p, f)
  BY DEF Covers
<1>2. PICK q \in Q : Ancestor(q, f)
  BY DEF Covers
<1>3. /\ p \in Seq(Name) /\ q \in Seq(Name) /\ f \in Seq(Name)
  BY PathAssumption, PathSetsAssumption
<1>4. Len(p) \in Nat /\ Len(q) \in Nat /\ Len(f) \in Nat
  BY <1>3
<1>5. CASE Len(p) <= Len(q)
  <2>1. Ancestor(p, q)
    BY <1>1, <1>2, <1>4, <1>5 DEF Ancestor
  <2> QED
    BY <2>1 DEF Overlaps, PathsOverlap
<1>6. CASE Len(q) <= Len(p)
  <2>1. Ancestor(q, p)
    BY <1>1, <1>2, <1>4, <1>6 DEF Ancestor
  <2> QED
    BY <2>1 DEF Overlaps, PathsOverlap
<1> QED
  BY <1>4, <1>5, <1>6

\* A path scope that overlaps a write set overlaps the lease that covers it.
LEMMA OverlapsThroughCover ==
    ASSUME NEW P \in PathSets, NEW Q \in PathSets, NEW W \in PathSets,
           \A f \in W : Covers(Q, f), Overlaps(P, W)
    PROVE  Overlaps(Q, P)
<1>1. PICK p \in P, w \in W : Ancestor(p, w) \/ Ancestor(w, p)
  BY DEF Overlaps, PathsOverlap
<1>2. PICK q \in Q : Ancestor(q, w)
  BY DEF Covers
<1>3. p \in Path /\ q \in Path /\ w \in Path
  BY PathAssumption, PathSetsAssumption
<1>4. Len(p) \in Nat /\ Len(q) \in Nat /\ Len(w) \in Nat
  BY <1>3, PathAssumption
<1>5. CASE Ancestor(p, w)
  <2>1. Covers(P, w) /\ Covers(Q, w)
    BY <1>2, <1>5 DEF Covers
  <2> QED
    BY <2>1, <1>3, CommonFileOverlaps
<1>6. CASE Ancestor(w, p)
  <2>1. Ancestor(q, p)
    BY <1>2, <1>4, <1>6 DEF Ancestor
  <2> QED
    BY <2>1 DEF Overlaps, PathsOverlap
<1> QED
  BY <1>1, <1>5, <1>6

\* _overlaps does not depend on the order of its arguments.
LEMMA OverlapsSymmetric ==
    ASSUME NEW P, NEW Q, Overlaps(P, Q)
    PROVE  Overlaps(Q, P)
BY DEF Overlaps, PathsOverlap

-----------------------------------------------------------------------------
(* Types *)

\* A call's parameters have the types its kind gives them.
LEMMA CallTypes ==
    ASSUME NEW c \in Call
    PROVE  /\ c.kind = "claim_attempt" =>
                /\ c.resource \in Resource /\ c.scope \in Scope
                /\ c.work \in Work /\ c.now \in Nat /\ c.expires \in Nat
           /\ c.kind = "renew_attempt" =>
                c.attempt \in AttemptId /\ c.expires \in Nat
           /\ c.kind = "acquire" =>
                /\ c.resource \in Resource /\ c.scope \in Scope
                /\ c.attempt \in AttemptId /\ c.paths \in PathSets
                /\ c.now \in Nat /\ c.expires \in Nat
           /\ c.kind = "renew" => c.lease \in LeaseId /\ c.expires \in Nat
           /\ c.kind = "prune_expired" => c.now \in Nat
BY TimeAssumption DEF Call, Time, Expiry

\* Starting a call adds a call of the declared types.
LEMMA StartTypes ==
    ASSUME TypeOK, StartCall
    PROVE  calls' \subseteq Call
<1>1. \A ttl \in TTLs : clock \in Time /\ clock + ttl \in Expiry
  BY TimeAssumption DEF TypeOK, Time, Expiry
<1>2. ASSUME NEW r \in Resource, NEW w \in Work, NEW ttl \in TTLs,
             ClaimAttempt(r, w, ttl)
      PROVE  calls' \subseteq Call
  BY <1>1, <1>2 DEF ClaimAttempt, Start, Call, TypeOK
<1>3. ASSUME NEW a \in DOMAIN attempts, NEW ttl \in TTLs, RenewAttempt(a, ttl)
      PROVE  calls' \subseteq Call
  BY <1>1, <1>3 DEF RenewAttempt, Start, Call, TypeOK
<1>4. ASSUME NEW r \in Resource, NEW a \in DOMAIN attempts,
             NEW P \in PathSets, NEW ttl \in TTLs, Acquire(r, a, P, ttl)
      PROVE  calls' \subseteq Call
  BY <1>1, <1>4 DEF Acquire, Start, Call, TypeOK
<1>5. ASSUME NEW l \in DOMAIN leases, NEW ttl \in TTLs, Renew(l, ttl)
      PROVE  calls' \subseteq Call
  BY <1>1, <1>5 DEF Renew, Start, Call, TypeOK
<1>6. ASSUME PruneExpired
      PROVE  calls' \subseteq Call
  BY <1>1, <1>6 DEF PruneExpired, Start, Call, TypeOK
<1> QED
  BY <1>2, <1>3, <1>4, <1>5, <1>6 DEF StartCall

-----------------------------------------------------------------------------
(* The inductive invariant *)

\* Configuration edits only move a root from its physical scope to a project.
OneWay == Rescopings \subseteq Resource \X Project

\* A guard is open on rows that exist and are still active, and the write set
\* is inside the lease: nothing but the guard's own process could change that.
GuardHolds ==
    /\ guard.kind = "attempt_guard" =>
         /\ guard.attempt \in DOMAIN attempts
         /\ attempts[guard.attempt].active = 1
    /\ guard.kind = "commit_guard" =>
         /\ guard.lease \in DOMAIN leases
         /\ leases[guard.lease].active = 1
         /\ attempts[leases[guard.lease].attempt].active = 1
         /\ \A f \in guard.paths : Covers(leases[guard.lease].paths, f)

\* The parent of a lease is an attempt on the same root.
Parented ==
    \A l \in DOMAIN leases :
        /\ leases[l].attempt \in DOMAIN attempts
        /\ attempts[leases[l].attempt].resource = leases[l].resource

\* A root's rows are in its physical scope or in its present one, and a call
\* in flight works in the present one.
ScopesSettled ==
    /\ \A r \in Resource : context[r] = r \/ context[r] \in Project
    /\ \A l \in DOMAIN leases :
         leases[l].scope \in {leases[l].resource, context[leases[l].resource]}
    /\ \A a \in DOMAIN attempts :
         attempts[a].scope \in {attempts[a].resource, context[attempts[a].resource]}
    /\ \A c \in calls : c.kind \in {"claim_attempt", "acquire"} =>
         c.scope = context[c.resource]

\* Tokens are within their scope's counter, and of two overlapping leases the
\* one with the lower token is inactive.
LeaseOrder ==
    /\ \A l \in DOMAIN leases :
         0 < leases[l].token /\ leases[l].token <= leaseCounter[leases[l].scope]
    /\ \A l, m \in DOMAIN leases :
         l # m /\ SameDomain(leases[l], leases[m]) =>
           /\ leases[l].token # leases[m].token
           /\ leases[l].token < leases[m].token
              /\ Overlaps(leases[l].paths, leases[m].paths)
                => leases[l].active = 0

\* The same of the attempts of one work order.
AttemptOrder ==
    /\ \A a \in DOMAIN attempts :
         /\ 0 < attempts[a].token
         /\ attempts[a].token
              <= attemptCounter[<<attempts[a].scope, attempts[a].work>>]
    /\ \A a, b \in DOMAIN attempts :
         /\ a # b
         /\ attempts[a].work = attempts[b].work
         /\ SameDomain(attempts[a], attempts[b])
         => /\ attempts[a].token # attempts[b].token
            /\ attempts[a].token < attempts[b].token => attempts[a].active = 0

\* What was written or published last was written or published under a row.
EffectsGranted ==
    /\ \A r \in Resource, f \in Path : lastWrite[<<r, f>>] > 0 =>
         \E l \in DOMAIN leases :
            /\ leases[l].resource = r
            /\ leases[l].token = lastWrite[<<r, f>>]
            /\ Covers(leases[l].paths, f)
    /\ \A r \in Resource, w \in Work : lastState[<<r, w>>] > 0 =>
         \E a \in DOMAIN attempts :
            /\ attempts[a].resource = r
            /\ attempts[a].work = w
            /\ attempts[a].token = lastState[<<r, w>>]

IInv == /\ TypeOK
        /\ GuardHolds
        /\ Parented
        /\ ScopesSettled
        /\ LeaseOrder
        /\ AttemptOrder
        /\ EffectsGranted

-----------------------------------------------------------------------------
(* How a step may change the tables *)

\* Rows keep their identity and are never reactivated.
AttemptsFade ==
    \A i \in DOMAIN attempts :
        /\ i \in DOMAIN attempts'
        /\ attempts'[i].resource = attempts[i].resource
        /\ attempts'[i].scope = attempts[i].scope
        /\ attempts'[i].work = attempts[i].work
        /\ attempts'[i].token = attempts[i].token
        /\ attempts'[i].active = 1 => attempts[i].active = 1

LeasesFade ==
    \A i \in DOMAIN leases :
        /\ i \in DOMAIN leases'
        /\ leases'[i].resource = leases[i].resource
        /\ leases'[i].scope = leases[i].scope
        /\ leases'[i].token = leases[i].token
        /\ leases'[i].paths = leases[i].paths
        /\ leases'[i].attempt = leases[i].attempt
        /\ leases'[i].active = 1 => leases[i].active = 1

\* Nothing is inserted.
AttemptsKept == /\ AttemptsFade
                /\ DOMAIN attempts' = DOMAIN attempts
                /\ attempts' \in [DOMAIN attempts -> AttemptRow]
                /\ attemptCounter' = attemptCounter

LeasesKept == /\ LeasesFade
              /\ DOMAIN leases' = DOMAIN leases
              /\ leases' \in [DOMAIN leases -> LeaseRow]
              /\ leaseCounter' = leaseCounter

\* Row a is inserted, above and instead of the attempts of its work order.
AttemptInserted(a, c) ==
    /\ AttemptsFade
    /\ a \notin DOMAIN attempts
    /\ DOMAIN attempts' = DOMAIN attempts \cup {a}
    /\ attempts' \in [DOMAIN attempts' -> AttemptRow]
    /\ attempts'[a].resource = c.resource
    /\ attempts'[a].scope = c.scope
    /\ attempts'[a].work = c.work
    /\ attempts'[a].token \in Nat \ {0}
    /\ attemptCounter' =
         [attemptCounter EXCEPT ![<<c.scope, c.work>>] = attempts'[a].token]
    /\ attemptCounter[<<c.scope, c.work>>] < attempts'[a].token
    /\ \A i \in DOMAIN attempts :
         /\ attempts[i].resource = c.resource
         /\ attempts[i].work = c.work
         => attempts[i].token < attempts'[a].token
    /\ \A i \in DOMAIN attempts :
         /\ Sees(c.resource, c.scope, attempts[i])
         /\ attempts[i].work = c.work
         => attempts'[i].active = 0

\* Row l is inserted, above the leases of its root and scope and instead of
\* the ones it overlaps.
LeaseInserted(l, c) ==
    /\ LeasesFade
    /\ l \notin DOMAIN leases
    /\ DOMAIN leases' = DOMAIN leases \cup {l}
    /\ leases' \in [DOMAIN leases' -> LeaseRow]
    /\ leases'[l].resource = c.resource
    /\ leases'[l].scope = c.scope
    /\ leases'[l].paths = c.paths
    /\ leases'[l].attempt = c.attempt
    /\ leases'[l].token \in Nat \ {0}
    /\ leaseCounter' = [leaseCounter EXCEPT ![c.scope] = leases'[l].token]
    /\ leaseCounter[c.scope] < leases'[l].token
    /\ \A i \in DOMAIN leases :
         /\ leases[i].resource = c.resource
         /\ leases[i].scope \in {c.scope, c.resource}
         => leases[i].token < leases'[l].token
    /\ \A i \in DOMAIN leases :
         /\ Sees(c.resource, c.scope, leases[i])
         /\ Overlaps(c.paths, leases[i].paths)
         => leases'[i].active = 0

\* claim_attempt inserts one attempt.
LEMMA ClaimInserts ==
    ASSUME TypeOK, NEW c \in calls, NEW a \in AttemptId, ClaimAttemptWrite(c, a)
    PROVE  AttemptInserted(a, c)
<1>1. /\ c.resource \in Resource /\ c.scope \in Scope
      /\ c.work \in Work /\ c.expires \in Nat /\ c.now \in Nat
  BY CallTypes DEF ClaimAttemptWrite, TypeOK
<1> DEFINE mine == {i \in DOMAIN attempts :
                      /\ Sees(c.resource, c.scope, attempts[i])
                      /\ attempts[i].work = c.work
                      /\ attempts[i].active = 1}
           expired == {i \in mine : attempts[i].expires <= c.now}
           seen == {attempts[i].token : i \in {j \in DOMAIN attempts :
                      /\ attempts[j].resource = c.resource
                      /\ attempts[j].work = c.work}}
           S == {attemptCounter[<<c.scope, c.work>>]} \cup seen
           old == Deactivate(attempts, expired)
<1>2. S \subseteq Nat
  BY <1>1 DEF TypeOK, AttemptRow
<1>3. PICK prior \in S :
        /\ IsMax(prior, S)
        /\ attemptCounter' =
             [attemptCounter EXCEPT ![<<c.scope, c.work>>] = prior + 1]
        /\ attempts' = Insert(old, a,
             [resource |-> c.resource, scope |-> c.scope,
              work |-> c.work, token |-> prior + 1,
              expires |-> c.expires, active |-> 1])
  BY DEF ClaimAttemptWrite
<1>4. prior \in Nat /\ \A n \in S : n < prior + 1
  <2>1. \A n \in S : n <= prior
    BY <1>3 DEF IsMax
  <2> HIDE DEF S
  <2> QED
    BY <1>2, <1>3, <2>1
<1>5. mine \subseteq expired /\ a \notin DOMAIN attempts
  BY DEF ClaimAttemptWrite
<1>6. /\ DOMAIN old = DOMAIN attempts
      /\ old \in [DOMAIN attempts -> AttemptRow]
      /\ \A i \in DOMAIN attempts :
           /\ old[i].resource = attempts[i].resource
           /\ old[i].scope = attempts[i].scope
           /\ old[i].work = attempts[i].work
           /\ old[i].token = attempts[i].token
           /\ old[i].active = 1 => attempts[i].active = 1
           /\ i \in expired => old[i].active = 0
           /\ i \notin expired => old[i] = attempts[i]
  <2> HIDE DEF expired
  <2> QED
    BY DEF Deactivate, TypeOK, AttemptRow
<1>7. /\ DOMAIN attempts' = DOMAIN attempts \cup {a}
      /\ \A i \in DOMAIN attempts : attempts'[i] = old[i]
      /\ attempts'[a] = [resource |-> c.resource, scope |-> c.scope,
                         work |-> c.work, token |-> prior + 1,
                         expires |-> c.expires, active |-> 1]
      /\ attempts' \in [DOMAIN attempts' -> AttemptRow]
  <2> HIDE DEF old
  <2> QED
    BY <1>1, <1>3, <1>4, <1>5, <1>6 DEF Insert, AttemptRow, Expiry
<1>8. AttemptsFade
  <2> HIDE DEF old, expired
  <2> QED
    BY <1>6, <1>7 DEF AttemptsFade
<1>9. \A i \in DOMAIN attempts :
         /\ attempts[i].resource = c.resource
         /\ attempts[i].work = c.work
         => attempts[i].token < attempts'[a].token
  BY <1>4, <1>7
<1>10. \A i \in DOMAIN attempts :
         /\ Sees(c.resource, c.scope, attempts[i])
         /\ attempts[i].work = c.work
         => attempts'[i].active = 0
  <2> SUFFICES ASSUME NEW i \in DOMAIN attempts,
                      Sees(c.resource, c.scope, attempts[i]),
                      attempts[i].work = c.work
               PROVE  old[i].active = 0
    BY <1>7
  <2>1. attempts[i].active \in {0, 1}
    BY DEF TypeOK, AttemptRow
  <2>2. CASE attempts[i].active = 1
    BY <1>5, <1>6, <2>2
  <2>3. CASE attempts[i].active = 0
    <3>1. i \notin expired
      BY <2>3
    <3> QED
      BY <3>1, <1>6, <2>3
  <2> QED
    BY <2>1, <2>2, <2>3
<1>11. /\ attempts'[a].resource = c.resource
       /\ attempts'[a].scope = c.scope
       /\ attempts'[a].work = c.work
       /\ attempts'[a].token = prior + 1
  BY <1>7
<1>12. /\ attemptCounter[<<c.scope, c.work>>] < prior + 1
       /\ prior + 1 \in Nat \ {0}
  BY <1>4
<1>13. attemptCounter' =
         [attemptCounter EXCEPT ![<<c.scope, c.work>>] = attempts'[a].token]
  BY <1>3, <1>11
<1> QED
  <2> HIDE DEF S, old, expired, mine
  <2>1. DOMAIN attempts' = DOMAIN attempts \cup {a}
        /\ attempts' \in [DOMAIN attempts' -> AttemptRow]
    BY <1>7
  <2>2. a \notin DOMAIN attempts
    BY <1>5
  <2> QED
    BY <1>8, <1>9, <1>10, <1>11, <1>12, <1>13, <2>1, <2>2 DEF AttemptInserted

\* acquire inserts one lease.
LEMMA AcquireInserts ==
    ASSUME TypeOK, NEW c \in calls, NEW l \in LeaseId, AcquireWrite(c, l)
    PROVE  LeaseInserted(l, c)
<1>1. /\ c.resource \in Resource /\ c.scope \in Scope
      /\ c.attempt \in AttemptId /\ c.paths \in PathSets
      /\ c.expires \in Nat /\ c.now \in Nat
  BY CallTypes DEF AcquireWrite, TypeOK
<1>0. attempts[c.attempt].token \in Nat
  BY DEF AcquireWrite, AttemptCurrent, TypeOK, AttemptRow
<1> DEFINE visible == {i \in DOMAIN leases :
                         /\ Sees(c.resource, c.scope, leases[i])
                         /\ leases[i].active = 1}
           retired == {i \in visible :
                         leases[i].expires <= c.now \/ Orphaned(i, c.now)}
           seen == {leases[i].token : i \in {j \in DOMAIN leases :
                      /\ leases[j].resource = c.resource
                      /\ leases[j].scope \in {c.scope, c.resource}}}
           S == {leaseCounter[c.scope]} \cup seen
           old == Deactivate(leases, retired)
<1>2. S \subseteq Nat
  BY <1>1 DEF TypeOK, LeaseRow
<1>3. PICK prior \in S :
        /\ IsMax(prior, S)
        /\ leaseCounter' = [leaseCounter EXCEPT ![c.scope] = prior + 1]
        /\ leases' = Insert(old, l,
             [resource |-> c.resource, scope |-> c.scope,
              token |-> prior + 1, expires |-> c.expires,
              paths |-> c.paths, attempt |-> c.attempt,
              attemptToken |-> attempts[c.attempt].token, active |-> 1])
  BY DEF AcquireWrite
<1>4. prior \in Nat /\ \A n \in S : n < prior + 1
  <2>1. \A n \in S : n <= prior
    BY <1>3 DEF IsMax
  <2> HIDE DEF S
  <2> QED
    BY <1>2, <1>3, <2>1
<1>5. /\ l \notin DOMAIN leases
      /\ \A i \in visible \ retired : ~Overlaps(c.paths, leases[i].paths)
  BY DEF AcquireWrite
<1>6. /\ DOMAIN old = DOMAIN leases
      /\ old \in [DOMAIN leases -> LeaseRow]
      /\ \A i \in DOMAIN leases :
           /\ old[i].resource = leases[i].resource
           /\ old[i].scope = leases[i].scope
           /\ old[i].token = leases[i].token
           /\ old[i].paths = leases[i].paths
           /\ old[i].attempt = leases[i].attempt
           /\ old[i].active = 1 => leases[i].active = 1
           /\ i \in retired => old[i].active = 0
           /\ i \notin retired => old[i] = leases[i]
  <2> HIDE DEF retired
  <2> QED
    BY DEF Deactivate, TypeOK, LeaseRow
<1>7. /\ DOMAIN leases' = DOMAIN leases \cup {l}
      /\ \A i \in DOMAIN leases : leases'[i] = old[i]
      /\ leases'[l] = [resource |-> c.resource, scope |-> c.scope,
                       token |-> prior + 1, expires |-> c.expires,
                       paths |-> c.paths, attempt |-> c.attempt,
                       attemptToken |-> attempts[c.attempt].token, active |-> 1]
      /\ leases' \in [DOMAIN leases' -> LeaseRow]
  <2> HIDE DEF old
  <2> QED
    BY <1>0, <1>1, <1>3, <1>4, <1>5, <1>6 DEF Insert, LeaseRow, Expiry
<1>8. LeasesFade
  <2> HIDE DEF old, retired
  <2> QED
    BY <1>6, <1>7 DEF LeasesFade
<1>9. \A i \in DOMAIN leases :
         /\ leases[i].resource = c.resource
         /\ leases[i].scope \in {c.scope, c.resource}
         => leases[i].token < leases'[l].token
  BY <1>4, <1>7
<1>10. \A i \in DOMAIN leases :
         /\ Sees(c.resource, c.scope, leases[i])
         /\ Overlaps(c.paths, leases[i].paths)
         => leases'[i].active = 0
  <2> SUFFICES ASSUME NEW i \in DOMAIN leases,
                      Sees(c.resource, c.scope, leases[i]),
                      Overlaps(c.paths, leases[i].paths)
               PROVE  old[i].active = 0
    BY <1>7
  <2>1. leases[i].active \in {0, 1}
    BY DEF TypeOK, LeaseRow
  <2>2. CASE leases[i].active = 1
    <3>1. i \in visible
      BY <2>2
    <3>2. i \in retired
      BY <3>1, <1>5
    <3> QED
      BY <3>2, <1>6
  <2>3. CASE leases[i].active = 0
    <3>1. i \notin retired
      BY <2>3
    <3> QED
      BY <3>1, <1>6, <2>3
  <2> QED
    BY <2>1, <2>2, <2>3
<1>11. /\ leases'[l].resource = c.resource
       /\ leases'[l].scope = c.scope
       /\ leases'[l].paths = c.paths
       /\ leases'[l].attempt = c.attempt
       /\ leases'[l].token = prior + 1
  BY <1>7
<1>12. /\ leaseCounter[c.scope] < prior + 1
       /\ prior + 1 \in Nat \ {0}
  BY <1>4
<1>13. leaseCounter' = [leaseCounter EXCEPT ![c.scope] = leases'[l].token]
  BY <1>3, <1>11
<1> QED
  <2> HIDE DEF S, old, retired, visible
  <2>1. DOMAIN leases' = DOMAIN leases \cup {l}
        /\ leases' \in [DOMAIN leases' -> LeaseRow]
    BY <1>7
  <2>2. l \notin DOMAIN leases
    BY <1>5
  <2> QED
    BY <1>8, <1>9, <1>10, <1>11, <1>12, <1>13, <2>1, <2>2 DEF LeaseInserted

\* Only claim_attempt inserts attempts; the other steps keep them.
LEMMA AttemptsChange ==
    ASSUME TypeOK, [Next]_vars
    PROVE  \/ AttemptsKept
           \/ \E c \in calls, a \in AttemptId : ClaimAttemptWrite(c, a)
<1> USE DEF tables, effects
<1>1. UNCHANGED <<attempts, attemptCounter>> => AttemptsKept
  BY DEF AttemptsKept, AttemptsFade, TypeOK
<1>2. ASSUME NEW a \in DOMAIN attempts, NEW e \in Nat,
             attempts' = [attempts EXCEPT ![a].expires = e],
             UNCHANGED attemptCounter
      PROVE  AttemptsKept
  BY <1>2 DEF AttemptsKept, AttemptsFade, TypeOK, AttemptRow, Expiry
<1>3. ASSUME NEW ids, attempts' = Deactivate(attempts, ids),
             UNCHANGED attemptCounter
      PROVE  AttemptsKept
  BY <1>3 DEF AttemptsKept, AttemptsFade, Deactivate, TypeOK, AttemptRow
<1>4. ASSUME NEW c \in calls, RenewAttemptWrite(c)
      PROVE  AttemptsKept
  <2>1. c.expires \in Nat
    BY <1>4, CallTypes DEF RenewAttemptWrite, TypeOK
  <2> QED
    BY <1>2, <1>4, <2>1 DEF RenewAttemptWrite, AttemptCurrent
<1>5. ASSUME NEW c \in calls, PruneExpiredWrite(c)
      PROVE  AttemptsKept
  BY <1>3, <1>5 DEF PruneExpiredWrite
<1>6. ASSUME NEW a \in DOMAIN attempts, ReleaseAttempt(a)
      PROVE  AttemptsKept
  BY <1>6 DEF ReleaseAttempt, AttemptsKept, AttemptsFade, TypeOK, AttemptRow
<1>7. CASE StartCall
  BY <1>1, <1>7 DEF StartCall, ClaimAttempt, RenewAttempt, Acquire, Renew,
                    PruneExpired, Start
<1>8. ASSUME NEW c \in calls, \/ \E l \in LeaseId : AcquireWrite(c, l)
                              \/ RenewWrite(c)
                              \/ Abandon(c)
      PROVE  AttemptsKept
  BY <1>1, <1>8 DEF AcquireWrite, RenewWrite, Abandon
<1>9. ASSUME NEW l \in DOMAIN leases, Release(l)
      PROVE  AttemptsKept
  BY <1>1, <1>9 DEF Release
<1>10. CASE GuardStep
  BY <1>1, <1>10 DEF GuardStep, EnterAttemptGuard, Transition,
         EnterCommitGuard, Write, ExitAttemptGuard, ExitCommitGuard, AbortGuard
<1>11. CASE Environment
  BY <1>1, <1>11 DEF Environment, SetClock, Rescope
<1>12. CASE UNCHANGED vars
  BY <1>1, <1>12 DEF vars
<1> QED
  BY <1>4, <1>5, <1>6, <1>7, <1>8, <1>9, <1>10, <1>11, <1>12
     DEF Next, FinishCall, ReleaseCall

\* Only acquire inserts leases; the other steps keep them.
LEMMA LeasesChange ==
    ASSUME TypeOK, [Next]_vars
    PROVE  \/ LeasesKept
           \/ \E c \in calls, l \in LeaseId : AcquireWrite(c, l)
<1> USE DEF tables, effects
<1>1. UNCHANGED <<leases, leaseCounter>> => LeasesKept
  BY DEF LeasesKept, LeasesFade, TypeOK
<1>2. ASSUME NEW l \in DOMAIN leases, NEW e \in Nat,
             leases' = [leases EXCEPT ![l].expires = e],
             UNCHANGED leaseCounter
      PROVE  LeasesKept
  BY <1>2 DEF LeasesKept, LeasesFade, TypeOK, LeaseRow, Expiry
<1>3. ASSUME NEW ids, leases' = Deactivate(leases, ids),
             UNCHANGED leaseCounter
      PROVE  LeasesKept
  BY <1>3 DEF LeasesKept, LeasesFade, Deactivate, TypeOK, LeaseRow
<1>4. ASSUME NEW c \in calls, RenewWrite(c)
      PROVE  LeasesKept
  <2>1. c.expires \in Nat
    BY <1>4, CallTypes DEF RenewWrite, TypeOK
  <2> QED
    BY <1>2, <1>4, <2>1 DEF RenewWrite, LeaseCurrent
<1>5. ASSUME NEW c \in calls, PruneExpiredWrite(c)
      PROVE  LeasesKept
  BY <1>3, <1>5 DEF PruneExpiredWrite
<1>6. ASSUME NEW l \in DOMAIN leases, Release(l)
      PROVE  LeasesKept
  BY <1>6 DEF Release, LeasesKept, LeasesFade, TypeOK, LeaseRow
<1>7. CASE StartCall
  BY <1>1, <1>7 DEF StartCall, ClaimAttempt, RenewAttempt, Acquire, Renew,
                    PruneExpired, Start
<1>8. ASSUME NEW c \in calls, \/ \E a \in AttemptId : ClaimAttemptWrite(c, a)
                              \/ RenewAttemptWrite(c)
                              \/ Abandon(c)
      PROVE  LeasesKept
  BY <1>1, <1>8 DEF ClaimAttemptWrite, RenewAttemptWrite, Abandon
<1>9. ASSUME NEW a \in DOMAIN attempts, ReleaseAttempt(a)
      PROVE  LeasesKept
  BY <1>1, <1>9 DEF ReleaseAttempt
<1>10. CASE GuardStep
  BY <1>1, <1>10 DEF GuardStep, EnterAttemptGuard, Transition,
         EnterCommitGuard, Write, ExitAttemptGuard, ExitCommitGuard, AbortGuard
<1>11. CASE Environment
  BY <1>1, <1>11 DEF Environment, SetClock, Rescope
<1>12. CASE UNCHANGED vars
  BY <1>1, <1>12 DEF vars
<1> QED
  BY <1>4, <1>5, <1>6, <1>7, <1>8, <1>9, <1>10, <1>11, <1>12
     DEF Next, FinishCall, ReleaseCall

\* While a guard is open the tables do not change.
LEMMA GuardFreezesTables ==
    ASSUME TypeOK, [Next]_vars, ~Unlocked
    PROVE  UNCHANGED tables
<1> USE DEF tables, effects
<1>1. CASE StartCall
  BY <1>1 DEF StartCall, ClaimAttempt, RenewAttempt, Acquire, Renew,
              PruneExpired, Start
<1>2. CASE FinishCall
  BY <1>2 DEF FinishCall, ClaimAttemptWrite, RenewAttemptWrite, AcquireWrite,
              RenewWrite, PruneExpiredWrite, Abandon
<1>3. CASE ReleaseCall
  BY <1>3 DEF ReleaseCall, ReleaseAttempt, Release
<1>4. CASE GuardStep
  BY <1>4 DEF GuardStep, EnterAttemptGuard, Transition,
         EnterCommitGuard, Write, ExitAttemptGuard, ExitCommitGuard, AbortGuard
<1>5. CASE Environment
  BY <1>5 DEF Environment, SetClock, Rescope
<1>6. CASE UNCHANGED vars
  BY <1>6 DEF vars
<1> QED
  BY <1>1, <1>2, <1>3, <1>4, <1>5, <1>6 DEF Next

\* Files change only in the body of a commit_guard.
LEMMA OnlyWriteWrites ==
    ASSUME [Next]_vars
    PROVE  lastWrite' = lastWrite \/ \E g \in Path : Write(g)
BY DEF effects, vars, Next, StartCall, ClaimAttempt, RenewAttempt, Acquire,
       Renew, PruneExpired, Start, FinishCall, ClaimAttemptWrite,
       RenewAttemptWrite, AcquireWrite, RenewWrite, PruneExpiredWrite,
       Abandon, ReleaseCall, ReleaseAttempt, Release, GuardStep,
       EnterAttemptGuard, Transition, EnterCommitGuard, ExitAttemptGuard,
       ExitCommitGuard, AbortGuard, Environment, SetClock, Rescope

\* Work orders change state only in the body of an attempt_guard.
LEMMA OnlyTransitionPublishes ==
    ASSUME [Next]_vars
    PROVE  lastState' = lastState \/ Transition
BY DEF effects, vars, Next, StartCall, ClaimAttempt, RenewAttempt, Acquire,
       Renew, PruneExpired, Start, FinishCall, ClaimAttemptWrite,
       RenewAttemptWrite, AcquireWrite, RenewWrite, PruneExpiredWrite,
       Abandon, ReleaseCall, ReleaseAttempt, Release, GuardStep, Write,
       EnterAttemptGuard, EnterCommitGuard, ExitAttemptGuard,
       ExitCommitGuard, AbortGuard, Environment, SetClock, Rescope

\* Every step preserves the types.
LEMMA TypeStep ==
    ASSUME TypeOK, GuardHolds, [Next]_vars
    PROVE  TypeOK'
<1>1. /\ DOMAIN attempts' \subseteq AttemptId
      /\ attempts' \in [DOMAIN attempts' -> AttemptRow]
      /\ attemptCounter' \in [Scope \X Work -> Nat]
  <2>1. CASE AttemptsKept
    BY <2>1 DEF AttemptsKept, TypeOK
  <2>2. ASSUME NEW c \in calls, NEW a \in AttemptId, ClaimAttemptWrite(c, a)
        PROVE  /\ DOMAIN attempts' \subseteq AttemptId
               /\ attempts' \in [DOMAIN attempts' -> AttemptRow]
               /\ attemptCounter' \in [Scope \X Work -> Nat]
    <3>1. AttemptInserted(a, c)
      BY <2>2, ClaimInserts
    <3> QED
      BY <3>1 DEF AttemptInserted, TypeOK
  <2> QED
    BY <2>1, <2>2, AttemptsChange
<1>2. /\ DOMAIN leases' \subseteq LeaseId
      /\ leases' \in [DOMAIN leases' -> LeaseRow]
      /\ leaseCounter' \in [Scope -> Nat]
  <2>1. CASE LeasesKept
    BY <2>1 DEF LeasesKept, TypeOK
  <2>2. ASSUME NEW c \in calls, NEW l \in LeaseId, AcquireWrite(c, l)
        PROVE  /\ DOMAIN leases' \subseteq LeaseId
               /\ leases' \in [DOMAIN leases' -> LeaseRow]
               /\ leaseCounter' \in [Scope -> Nat]
    <3>1. LeaseInserted(l, c)
      BY <2>2, AcquireInserts
    <3> QED
      BY <3>1 DEF LeaseInserted, TypeOK
  <2> QED
    BY <2>1, <2>2, LeasesChange
<1>3. calls' \subseteq Call
  <2> USE DEF TypeOK
  <2>1. CASE StartCall
    BY <2>1, StartTypes
  <2>2. CASE FinishCall
    BY <2>2 DEF FinishCall, ClaimAttemptWrite, RenewAttemptWrite, AcquireWrite,
                RenewWrite, PruneExpiredWrite, Abandon, Done
  <2>3. CASE ReleaseCall \/ GuardStep \/ Environment
    BY <2>3 DEF ReleaseCall, ReleaseAttempt, Release, GuardStep,
         EnterAttemptGuard, Transition, EnterCommitGuard, Write,
         ExitAttemptGuard, ExitCommitGuard, AbortGuard, Environment, SetClock,
         Rescope
  <2>4. CASE UNCHANGED vars
    BY <2>4 DEF vars
  <2> QED
    BY <2>1, <2>2, <2>3, <2>4 DEF Next
<1>4. /\ clock' \in Time
      /\ context' \in [Resource -> Scope]
      /\ guard' \in Guard
      /\ lastWrite' \in [Resource \X Path -> Nat]
      /\ lastState' \in [Resource \X Work -> Nat]
  <2> USE DEF TypeOK, effects
  <2>1. CASE StartCall
    BY <2>1 DEF StartCall, ClaimAttempt, RenewAttempt, Acquire, Renew,
                PruneExpired, Start
  <2>2. CASE FinishCall
    BY <2>2 DEF FinishCall, ClaimAttemptWrite, RenewAttemptWrite, AcquireWrite,
                RenewWrite, PruneExpiredWrite, Abandon
  <2>3. CASE ReleaseCall \/ Environment
    BY <2>3 DEF ReleaseCall, ReleaseAttempt, Release, Environment, SetClock,
                Rescope, Guard
  <2>4. ASSUME NEW a \in DOMAIN attempts, EnterAttemptGuard(a)
        PROVE  guard' \in Guard
    BY <2>4 DEF EnterAttemptGuard, Guard
  <2>5. ASSUME NEW l \in DOMAIN leases, NEW P \in PathSets,
               EnterCommitGuard(l, P)
        PROVE  guard' \in Guard
    BY <2>5 DEF EnterCommitGuard, Guard
  <2>6. CASE Transition
    <3>1. /\ attempts[guard.attempt].token \in Nat
          /\ <<attempts[guard.attempt].resource, attempts[guard.attempt].work>>
               \in Resource \X Work
      BY <2>6 DEF Transition, GuardHolds, AttemptRow
    <3> QED
      BY <2>6, <3>1 DEF Transition
  <2>7. ASSUME NEW f \in Path, Write(f)
        PROVE  lastWrite' \in [Resource \X Path -> Nat]
    <3>1. /\ leases[guard.lease].token \in Nat
          /\ <<leases[guard.lease].resource, f>> \in Resource \X Path
      BY <2>7 DEF Write, GuardHolds, LeaseRow
    <3> QED
      BY <2>7, <3>1 DEF Write
  <2>8. CASE ExitAttemptGuard \/ ExitCommitGuard \/ AbortGuard
    BY <2>8 DEF ExitAttemptGuard, ExitCommitGuard, AbortGuard, Guard
  <2>9. CASE UNCHANGED vars
    BY <2>9 DEF vars
  <2> QED
    BY <2>1, <2>2, <2>3, <2>4, <2>5, <2>6, <2>7, <2>8, <2>9
       DEF Next, GuardStep, EnterAttemptGuard, EnterCommitGuard, Write
<1> QED
  BY <1>1, <1>2, <1>3, <1>4 DEF TypeOK

-----------------------------------------------------------------------------
(* Every step preserves the inductive invariant *)

\* A guard's rows stay active because its lock freezes the tables.
LEMMA GuardStepHolds ==
    ASSUME IInv, [Next]_vars
    PROVE  GuardHolds'
<1> USE DEF IInv, tables
<1>1. guard.kind \in {"none", "attempt_guard", "commit_guard"}
      /\ (Unlocked <=> guard.kind = "none")
  BY DEF TypeOK, Guard, NoGuard, Unlocked
<1>2. CASE UNCHANGED guard
  <2>1. CASE Unlocked
    BY <1>2, <2>1 DEF Unlocked, NoGuard, GuardHolds
  <2>2. CASE ~Unlocked
    BY <1>2, <2>2, GuardFreezesTables DEF GuardHolds
  <2> QED
    BY <2>1, <2>2
<1>3. CASE guard' = NoGuard
  BY <1>3 DEF NoGuard, GuardHolds
<1>4. ASSUME NEW a \in DOMAIN attempts, EnterAttemptGuard(a)
      PROVE  GuardHolds'
  BY <1>4 DEF EnterAttemptGuard, AttemptCurrent, Live, GuardHolds
<1>5. ASSUME NEW l \in DOMAIN leases, NEW P \in PathSets, EnterCommitGuard(l, P)
      PROVE  GuardHolds'
  BY <1>5 DEF EnterCommitGuard, LeaseCurrent, AttemptCurrent, Live, GuardHolds
<1>6. CASE StartCall
  BY <1>2, <1>6 DEF StartCall, ClaimAttempt, RenewAttempt, Acquire, Renew,
              PruneExpired, Start
<1>7. CASE FinishCall
  BY <1>2, <1>7 DEF FinishCall, ClaimAttemptWrite, RenewAttemptWrite,
              AcquireWrite, RenewWrite, PruneExpiredWrite, Abandon
<1>8. CASE ReleaseCall \/ Environment
  BY <1>2, <1>3, <1>8 DEF ReleaseCall, ReleaseAttempt, Release, Environment,
              SetClock, Rescope
<1>9. CASE Transition \/ (\E f \in Path : Write(f))
  BY <1>2, <1>9 DEF Transition, Write
<1>10. CASE ExitAttemptGuard \/ ExitCommitGuard \/ AbortGuard
  BY <1>3, <1>10 DEF ExitAttemptGuard, ExitCommitGuard, AbortGuard
<1>11. CASE UNCHANGED vars
  BY <1>2, <1>11 DEF vars
<1> QED
  BY <1>4, <1>5, <1>6, <1>7, <1>8, <1>9, <1>10, <1>11 DEF Next, GuardStep

\* Attempts are never deleted and never change their root.
LEMMA ParentedStep ==
    ASSUME IInv, [Next]_vars
    PROVE  Parented'
<1> USE DEF IInv
<1>1. AttemptsFade
  BY AttemptsChange, ClaimInserts DEF AttemptsKept, AttemptInserted
<1>2. CASE LeasesKept
  BY <1>1, <1>2 DEF LeasesKept, LeasesFade, AttemptsFade, Parented
<1>3. ASSUME NEW c \in calls, NEW l \in LeaseId, AcquireWrite(c, l)
      PROVE  Parented'
  <2>1. LeaseInserted(l, c)
    BY <1>3, AcquireInserts
  <2>2. c.attempt \in DOMAIN attempts
        /\ attempts[c.attempt].resource = c.resource
    BY <1>3 DEF AcquireWrite, AttemptCurrent
  <2> QED
    BY <1>1, <2>1, <2>2 DEF LeaseInserted, LeasesFade, AttemptsFade, Parented
<1> QED
  BY <1>2, <1>3, LeasesChange

\* Rows and calls stay in the scopes of their root, as long as roots only
\* move from the physical scope to a project.
LEMMA ScopesStep ==
    ASSUME OneWay, IInv, [Next]_vars
    PROVE  ScopesSettled'
<1> USE DEF IInv
<1>0. /\ \A l \in DOMAIN leases : leases[l].resource \in Resource
      /\ \A a \in DOMAIN attempts : attempts[a].resource \in Resource
  BY DEF TypeOK, LeaseRow, AttemptRow
<1>1. CASE UNCHANGED context
  <2>1. \A a \in DOMAIN attempts' :
          attempts'[a].scope \in {attempts'[a].resource,
                                  context[attempts'[a].resource]}
    <3>1. CASE AttemptsKept
      BY <3>1 DEF AttemptsKept, AttemptsFade, ScopesSettled
    <3>2. ASSUME NEW c \in calls, NEW a \in AttemptId, ClaimAttemptWrite(c, a)
          PROVE  \A b \in DOMAIN attempts' :
                   attempts'[b].scope \in {attempts'[b].resource,
                                           context[attempts'[b].resource]}
      <4>1. AttemptInserted(a, c) /\ c.scope = context[c.resource]
        BY <3>2, ClaimInserts DEF ClaimAttemptWrite, ScopesSettled
      <4> QED
        BY <4>1 DEF AttemptInserted, AttemptsFade, ScopesSettled
    <3> QED
      BY <3>1, <3>2, AttemptsChange
  <2>2. \A l \in DOMAIN leases' :
          leases'[l].scope \in {leases'[l].resource,
                                context[leases'[l].resource]}
    <3>1. CASE LeasesKept
      BY <3>1 DEF LeasesKept, LeasesFade, ScopesSettled
    <3>2. ASSUME NEW c \in calls, NEW l \in LeaseId, AcquireWrite(c, l)
          PROVE  \A m \in DOMAIN leases' :
                   leases'[m].scope \in {leases'[m].resource,
                                         context[leases'[m].resource]}
      <4>1. LeaseInserted(l, c) /\ c.scope = context[c.resource]
        BY <3>2, AcquireInserts DEF AcquireWrite, ScopesSettled
      <4> QED
        BY <4>1 DEF LeaseInserted, LeasesFade, ScopesSettled
    <3> QED
      BY <3>1, <3>2, LeasesChange
  <2>3. \A c \in calls' : c.kind \in {"claim_attempt", "acquire"} =>
          c.scope = context[c.resource]
    <3>1. CASE calls' \subseteq calls
      BY <3>1 DEF ScopesSettled
    <3>2. CASE StartCall
      BY <3>2 DEF StartCall, ClaimAttempt, RenewAttempt, Acquire, Renew,
                  PruneExpired, Start, ScopesSettled
    <3>3. CASE FinishCall
      BY <3>1, <3>3 DEF FinishCall, ClaimAttemptWrite, RenewAttemptWrite,
            AcquireWrite, RenewWrite, PruneExpiredWrite, Abandon, Done
    <3>4. CASE ReleaseCall \/ GuardStep \/ Environment
      BY <3>1, <3>4 DEF ReleaseCall, ReleaseAttempt, Release, GuardStep,
         EnterAttemptGuard, Transition, EnterCommitGuard, Write,
         ExitAttemptGuard, ExitCommitGuard, AbortGuard, Environment, SetClock,
         Rescope
    <3>5. CASE UNCHANGED vars
      BY <3>1, <3>5 DEF vars
    <3> QED
      BY <3>2, <3>3, <3>4, <3>5 DEF Next
  <2> QED
    BY <1>1, <2>1, <2>2, <2>3 DEF ScopesSettled
<1>2. ASSUME NEW r \in Resource, NEW s \in Scope, Rescope(r, s)
      PROVE  ScopesSettled'
  <2>1. s \in Project /\ context[r] = r
    BY <1>2, ScopeAssumption DEF Rescope, OneWay, ScopesSettled
  <2>2. /\ context' = [context EXCEPT ![r] = s]
        /\ context \in [Resource -> Scope]
        /\ calls' = {}
        /\ UNCHANGED <<attempts, leases>>
    BY <1>2 DEF Rescope, tables, TypeOK
  <2> QED
    BY <1>0, <2>1, <2>2 DEF ScopesSettled
<1>3. CASE StartCall
  BY <1>1, <1>3 DEF StartCall, ClaimAttempt, RenewAttempt, Acquire, Renew,
                    PruneExpired, Start
<1>4. CASE FinishCall
  BY <1>1, <1>4 DEF FinishCall, ClaimAttemptWrite, RenewAttemptWrite,
              AcquireWrite, RenewWrite, PruneExpiredWrite, Abandon
<1>5. CASE ReleaseCall \/ GuardStep
  BY <1>1, <1>5 DEF ReleaseCall, ReleaseAttempt, Release, GuardStep,
         EnterAttemptGuard, Transition, EnterCommitGuard, Write,
         ExitAttemptGuard, ExitCommitGuard, AbortGuard
<1>6. CASE \E t \in Time : SetClock(t)
  BY <1>1, <1>6 DEF SetClock
<1>7. CASE UNCHANGED vars
  BY <1>1, <1>7 DEF vars
<1> QED
  BY <1>2, <1>3, <1>4, <1>5, <1>6, <1>7 DEF Next, Environment

\* Every lease that shares a root or a scope with a call's is seen by it.
LEMMA SettledSees ==
    ASSUME TypeOK, ScopesSettled, NEW c \in calls,
           c.kind \in {"claim_attempt", "acquire"},
           NEW row \in LeaseRow \cup AttemptRow,
           row.scope \in {row.resource, context[row.resource]},
           row.resource = c.resource \/ row.scope = c.scope
    PROVE  /\ Sees(c.resource, c.scope, row)
           /\ row.resource = c.resource => row.scope \in {c.scope, c.resource}
<1>1. c.resource \in Resource /\ c.scope = context[c.resource]
  BY CallTypes DEF TypeOK, ScopesSettled
<1> QED
  BY <1>1 DEF Sees

\* A new lease is above every lease it could conflict with, and those that
\* overlap it have been retired.
LEMMA LeaseOrderStep ==
    ASSUME IInv, [Next]_vars
    PROVE  LeaseOrder'
<1> USE DEF IInv
<1>1. CASE LeasesKept
  BY <1>1 DEF LeasesKept, LeasesFade, LeaseOrder, SameDomain, TypeOK, LeaseRow
<1>2. ASSUME NEW c \in calls, NEW l \in LeaseId, AcquireWrite(c, l)
      PROVE  LeaseOrder'
  <2>1. LeaseInserted(l, c) /\ c.kind = "acquire"
    BY <1>2, AcquireInserts DEF AcquireWrite
  <2>2. c.scope \in Scope
    BY <2>1, CallTypes DEF TypeOK
  <2>3. \A i \in DOMAIN leases :
          /\ leases[i] \in LeaseRow
          /\ leases[i].token \in Nat
          /\ leases[i].scope \in Scope
          /\ leases[i].scope \in {leases[i].resource,
                                  context[leases[i].resource]}
    BY DEF TypeOK, LeaseRow, ScopesSettled
  <2>4. \A i \in DOMAIN leases :
          SameDomain(leases[i], leases'[l]) =>
            /\ leases[i].token < leases'[l].token
            /\ Overlaps(c.paths, leases[i].paths) => leases'[i].active = 0
    <3> SUFFICES ASSUME NEW i \in DOMAIN leases,
                        SameDomain(leases[i], leases'[l])
                 PROVE  /\ leases[i].token < leases'[l].token
                        /\ Overlaps(c.paths, leases[i].paths)
                             => leases'[i].active = 0
      OBVIOUS
    <3>1. leases[i].resource = c.resource \/ leases[i].scope = c.scope
      BY <2>1 DEF LeaseInserted, SameDomain
    <3>2. /\ Sees(c.resource, c.scope, leases[i])
          /\ leases[i].resource = c.resource
               => leases[i].scope \in {c.scope, c.resource}
      BY <2>1, <2>3, <3>1, SettledSees
    <3>3. CASE leases[i].resource = c.resource
      BY <2>1, <3>2, <3>3 DEF LeaseInserted
    <3>4. CASE leases[i].scope = c.scope
      <4>1. leases[i].token <= leaseCounter[c.scope]
        BY <3>4 DEF LeaseOrder
      <4>2. leaseCounter[c.scope] \in Nat
        BY <2>2 DEF TypeOK
      <4> QED
        BY <2>1, <2>3, <3>2, <4>1, <4>2 DEF LeaseInserted
    <3> QED
      BY <3>1, <3>3, <3>4
  <2>5. \A i \in DOMAIN leases' :
          /\ 0 < leases'[i].token
          /\ leases'[i].token <= leaseCounter'[leases'[i].scope]
    <3>1. leaseCounter \in [Scope -> Nat]
      BY DEF TypeOK
    <3>2. ASSUME NEW i \in DOMAIN leases
          PROVE  /\ 0 < leases'[i].token
                 /\ leases'[i].token <= leaseCounter'[leases'[i].scope]
      BY <2>1, <2>2, <2>3, <3>1 DEF LeaseInserted, LeasesFade, LeaseOrder
    <3>3. /\ 0 < leases'[l].token
          /\ leases'[l].token <= leaseCounter'[leases'[l].scope]
      BY <2>1, <2>2, <3>1 DEF LeaseInserted
    <3> QED
      BY <2>1, <3>2, <3>3 DEF LeaseInserted
  <2>6. ASSUME NEW i \in DOMAIN leases', NEW j \in DOMAIN leases',
               i # j, SameDomain(leases'[i], leases'[j])
        PROVE  /\ leases'[i].token # leases'[j].token
               /\ leases'[i].token < leases'[j].token
                  /\ Overlaps(leases'[i].paths, leases'[j].paths)
                    => leases'[i].active = 0
    <3>0. \A k \in DOMAIN leases' : leases'[k].active \in {0, 1}
      BY <2>1 DEF LeaseInserted, LeaseRow
    <3>1. CASE i \in DOMAIN leases /\ j \in DOMAIN leases
      BY <2>1, <2>6, <3>0, <3>1 DEF LeaseInserted, LeasesFade, LeaseOrder,
                                    SameDomain
    <3>2. CASE i \in DOMAIN leases /\ j = l
      <4>1. SameDomain(leases[i], leases'[l])
        BY <2>1, <2>6, <3>2 DEF LeaseInserted, LeasesFade, SameDomain
      <4>2. leases'[i].token = leases[i].token
            /\ leases'[i].paths = leases[i].paths
            /\ leases'[l].paths = c.paths
        BY <2>1, <3>2 DEF LeaseInserted, LeasesFade
      <4> QED
        BY <2>1, <2>3, <2>4, <3>2, <4>1, <4>2, OverlapsSymmetric
           DEF LeaseInserted
    <3>3. CASE i = l /\ j \in DOMAIN leases
      <4>1. SameDomain(leases[j], leases'[l])
        BY <2>1, <2>6, <3>3 DEF LeaseInserted, LeasesFade, SameDomain
      <4>2. leases'[j].token = leases[j].token
        BY <2>1, <3>3 DEF LeaseInserted, LeasesFade
      <4> QED
        BY <2>1, <2>3, <2>4, <3>3, <4>1, <4>2 DEF LeaseInserted
    <3> QED
      BY <2>1, <2>6, <3>1, <3>2, <3>3 DEF LeaseInserted
  <2> QED
    BY <2>5, <2>6 DEF LeaseOrder
<1> QED
  BY <1>1, <1>2, LeasesChange

\* A new attempt is above every attempt of its work order, and those have
\* been retired.
LEMMA AttemptOrderStep ==
    ASSUME IInv, [Next]_vars
    PROVE  AttemptOrder'
<1> USE DEF IInv
<1>1. CASE AttemptsKept
  BY <1>1 DEF AttemptsKept, AttemptsFade, AttemptOrder, SameDomain, TypeOK,
              AttemptRow
<1>2. ASSUME NEW c \in calls, NEW a \in AttemptId, ClaimAttemptWrite(c, a)
      PROVE  AttemptOrder'
  <2>1. AttemptInserted(a, c) /\ c.kind = "claim_attempt"
    BY <1>2, ClaimInserts DEF ClaimAttemptWrite
  <2>2. c.scope \in Scope /\ c.work \in Work
    BY <2>1, CallTypes DEF TypeOK
  <2>3. \A i \in DOMAIN attempts :
          /\ attempts[i] \in AttemptRow
          /\ attempts[i].token \in Nat
          /\ attempts[i].scope \in Scope
          /\ attempts[i].work \in Work
          /\ attempts[i].scope \in {attempts[i].resource,
                                    context[attempts[i].resource]}
    BY DEF TypeOK, AttemptRow, ScopesSettled
  <2>4. \A i \in DOMAIN attempts :
          /\ SameDomain(attempts[i], attempts'[a])
          /\ attempts[i].work = c.work
          => /\ attempts[i].token < attempts'[a].token
             /\ attempts'[i].active = 0
    <3> SUFFICES ASSUME NEW i \in DOMAIN attempts,
                        SameDomain(attempts[i], attempts'[a]),
                        attempts[i].work = c.work
                 PROVE  /\ attempts[i].token < attempts'[a].token
                        /\ attempts'[i].active = 0
      OBVIOUS
    <3>1. attempts[i].resource = c.resource \/ attempts[i].scope = c.scope
      BY <2>1 DEF AttemptInserted, SameDomain
    <3>2. Sees(c.resource, c.scope, attempts[i])
      BY <2>1, <2>3, <3>1, SettledSees
    <3>3. CASE attempts[i].resource = c.resource
      BY <2>1, <3>2, <3>3 DEF AttemptInserted
    <3>4. CASE attempts[i].scope = c.scope
      <4>1. attempts[i].token <= attemptCounter[<<c.scope, c.work>>]
        BY <3>4 DEF AttemptOrder
      <4>2. attemptCounter[<<c.scope, c.work>>] \in Nat
        BY <2>2 DEF TypeOK
      <4> QED
        BY <2>1, <2>3, <3>2, <4>1, <4>2 DEF AttemptInserted
    <3> QED
      BY <3>1, <3>3, <3>4
  <2>5. \A i \in DOMAIN attempts' :
          /\ 0 < attempts'[i].token
          /\ attempts'[i].token
               <= attemptCounter'[<<attempts'[i].scope, attempts'[i].work>>]
    <3>1. attemptCounter \in [Scope \X Work -> Nat]
      BY DEF TypeOK
    <3>2. ASSUME NEW i \in DOMAIN attempts
          PROVE  /\ 0 < attempts'[i].token
                 /\ attempts'[i].token
                      <= attemptCounter'[<<attempts'[i].scope, attempts'[i].work>>]
      BY <2>1, <2>2, <2>3, <3>1 DEF AttemptInserted, AttemptsFade, AttemptOrder
    <3>3. /\ 0 < attempts'[a].token
          /\ attempts'[a].token
               <= attemptCounter'[<<attempts'[a].scope, attempts'[a].work>>]
      BY <2>1, <2>2, <3>1 DEF AttemptInserted
    <3> QED
      BY <2>1, <3>2, <3>3 DEF AttemptInserted
  <2>6. ASSUME NEW i \in DOMAIN attempts', NEW j \in DOMAIN attempts',
               i # j, attempts'[i].work = attempts'[j].work,
               SameDomain(attempts'[i], attempts'[j])
        PROVE  /\ attempts'[i].token # attempts'[j].token
               /\ attempts'[i].token < attempts'[j].token
                    => attempts'[i].active = 0
    <3>0. \A k \in DOMAIN attempts' : attempts'[k].active \in {0, 1}
      BY <2>1 DEF AttemptInserted, AttemptRow
    <3>1. CASE i \in DOMAIN attempts /\ j \in DOMAIN attempts
      BY <2>1, <2>6, <3>0, <3>1 DEF AttemptInserted, AttemptsFade,
                                    AttemptOrder, SameDomain
    <3>2. CASE i \in DOMAIN attempts /\ j = a
      <4>1. /\ SameDomain(attempts[i], attempts'[a])
            /\ attempts[i].work = c.work
            /\ attempts'[i].token = attempts[i].token
        BY <2>1, <2>6, <3>2 DEF AttemptInserted, AttemptsFade, SameDomain
      <4> QED
        BY <2>1, <2>3, <2>4, <3>2, <4>1 DEF AttemptInserted
    <3>3. CASE i = a /\ j \in DOMAIN attempts
      <4>1. /\ SameDomain(attempts[j], attempts'[a])
            /\ attempts[j].work = c.work
            /\ attempts'[j].token = attempts[j].token
        BY <2>1, <2>6, <3>3 DEF AttemptInserted, AttemptsFade, SameDomain
      <4> QED
        BY <2>1, <2>3, <2>4, <3>3, <4>1 DEF AttemptInserted
    <3> QED
      BY <2>1, <2>6, <3>1, <3>2, <3>3 DEF AttemptInserted
  <2> QED
    BY <2>5, <2>6 DEF AttemptOrder
<1> QED
  BY <1>1, <1>2, AttemptsChange

\* Rows are never deleted, so what was granted stays on record.
LEMMA EffectsStep ==
    ASSUME IInv, [Next]_vars
    PROVE  EffectsGranted'
<1> USE DEF IInv
<1>1. AttemptsFade /\ LeasesFade
  BY AttemptsChange, ClaimInserts, LeasesChange, AcquireInserts
     DEF AttemptsKept, AttemptInserted, LeasesKept, LeaseInserted
<1>2. ASSUME NEW r \in Resource, NEW f \in Path, lastWrite'[<<r, f>>] > 0
      PROVE  \E l \in DOMAIN leases' :
               /\ leases'[l].resource = r
               /\ leases'[l].token = lastWrite'[<<r, f>>]
               /\ Covers(leases'[l].paths, f)
  <2>1. CASE lastWrite'[<<r, f>>] = lastWrite[<<r, f>>]
    <3>1. PICK l \in DOMAIN leases :
            /\ leases[l].resource = r
            /\ leases[l].token = lastWrite[<<r, f>>]
            /\ Covers(leases[l].paths, f)
      BY <1>2, <2>1 DEF EffectsGranted
    <3> QED
      BY <1>1, <2>1, <3>1 DEF LeasesFade
  <2>2. ASSUME NEW g \in Path, Write(g),
               lastWrite'[<<r, f>>] # lastWrite[<<r, f>>]
        PROVE  \E l \in DOMAIN leases' :
                 /\ leases'[l].resource = r
                 /\ leases'[l].token = lastWrite'[<<r, f>>]
                 /\ Covers(leases'[l].paths, f)
    <3>1. /\ guard.lease \in DOMAIN leases
          /\ Covers(leases[guard.lease].paths, g)
      BY <2>2 DEF Write, GuardHolds
    <3>2. /\ leases[guard.lease].resource = r
          /\ g = f
          /\ lastWrite'[<<r, f>>] = leases[guard.lease].token
      BY <2>2 DEF Write, TypeOK
    <3> QED
      BY <1>1, <3>1, <3>2 DEF LeasesFade
  <2>3. lastWrite' = lastWrite \/ \E g \in Path : Write(g)
    BY OnlyWriteWrites
  <2> QED
    BY <2>1, <2>2, <2>3
<1>3. ASSUME NEW r \in Resource, NEW w \in Work, lastState'[<<r, w>>] > 0
      PROVE  \E a \in DOMAIN attempts' :
               /\ attempts'[a].resource = r
               /\ attempts'[a].work = w
               /\ attempts'[a].token = lastState'[<<r, w>>]
  <2>1. CASE lastState'[<<r, w>>] = lastState[<<r, w>>]
    <3>1. PICK a \in DOMAIN attempts :
            /\ attempts[a].resource = r
            /\ attempts[a].work = w
            /\ attempts[a].token = lastState[<<r, w>>]
      BY <1>3, <2>1 DEF EffectsGranted
    <3> QED
      BY <1>1, <2>1, <3>1 DEF AttemptsFade
  <2>2. ASSUME Transition, lastState'[<<r, w>>] # lastState[<<r, w>>]
        PROVE  \E a \in DOMAIN attempts' :
                 /\ attempts'[a].resource = r
                 /\ attempts'[a].work = w
                 /\ attempts'[a].token = lastState'[<<r, w>>]
    <3>1. guard.attempt \in DOMAIN attempts
      BY <2>2 DEF Transition, GuardHolds
    <3>2. /\ attempts[guard.attempt].resource = r
          /\ attempts[guard.attempt].work = w
          /\ lastState'[<<r, w>>] = attempts[guard.attempt].token
      BY <2>2 DEF Transition, TypeOK
    <3> QED
      BY <1>1, <3>1, <3>2 DEF AttemptsFade
  <2>3. lastState' = lastState \/ Transition
    BY OnlyTransitionPublishes
  <2> QED
    BY <2>1, <2>2, <2>3
<1> QED
  BY <1>2, <1>3 DEF EffectsGranted

\* The invariant holds of the empty tables.
LEMMA InitIInv ==
    ASSUME Init
    PROVE  IInv
<1>1. TypeOK
  BY TimeAssumption DEF Init, TypeOK, Time, Guard
<1>2. GuardHolds /\ Parented
  BY DEF Init, GuardHolds, Parented, NoGuard
<1>3. ScopesSettled
  BY DEF Init, ScopesSettled
<1>4. LeaseOrder /\ AttemptOrder /\ EffectsGranted
  BY DEF Init, LeaseOrder, AttemptOrder, EffectsGranted
<1> QED
  BY <1>1, <1>2, <1>3, <1>4 DEF IInv

\* The inductive invariant holds as long as roots only move from the physical
\* scope to a project.
THEOREM Invariance ==
    ASSUME OneWay
    PROVE  Spec => []IInv
<1>1. IInv /\ [Next]_vars => IInv'
  <2> SUFFICES ASSUME IInv, [Next]_vars
               PROVE  IInv'
    OBVIOUS
  <2>1. TypeOK'
    BY TypeStep DEF IInv
  <2> QED
    BY <2>1, GuardStepHolds, ParentedStep, ScopesStep, LeaseOrderStep,
       AttemptOrderStep, EffectsStep DEF IInv
<1> QED
  BY <1>1, InitIInv, PTL DEF Spec

-----------------------------------------------------------------------------
(* The properties *)

\* The tables, calls and guards of work_fencing keep the types of its schema.
THEOREM TypeCorrect ==
    ASSUME OneWay
    PROVE  Spec => []TypeOK
<1>1. IInv => TypeOK
  BY DEF IInv
<1> QED
  BY <1>1, Invariance, PTL

\* Whatever is stale, retried or expired, acquire never leaves two active
\* leases of one root or project on overlapping paths.
THEOREM Exclusion ==
    ASSUME OneWay
    PROVE  Spec => []LeaseExclusion
<1>1. IInv => LeaseExclusion
  <2> SUFFICES ASSUME IInv,
                      NEW l \in DOMAIN leases, NEW m \in DOMAIN leases,
                      l # m, leases[l].active = 1, leases[m].active = 1,
                      SameDomain(leases[l], leases[m]),
                      Overlaps(leases[l].paths, leases[m].paths)
               PROVE  FALSE
    BY DEF LeaseExclusion
  <2>1. leases[l].token \in Nat /\ leases[m].token \in Nat
    BY DEF IInv, TypeOK, LeaseRow
  <2>2. SameDomain(leases[m], leases[l])
    BY DEF SameDomain
  <2>3. Overlaps(leases[m].paths, leases[l].paths)
    BY OverlapsSymmetric
  <2> QED
    BY <2>1, <2>2, <2>3 DEF IInv, LeaseOrder
<1> QED
  BY <1>1, Invariance, PTL

\* claim_attempt never leaves two active attempts of one work order.
THEOREM OneAttempt ==
    ASSUME OneWay
    PROVE  Spec => []AttemptExclusion
<1>1. IInv => AttemptExclusion
  <2> SUFFICES ASSUME IInv,
                      NEW a \in DOMAIN attempts, NEW b \in DOMAIN attempts,
                      a # b, attempts[a].work = attempts[b].work,
                      attempts[a].active = 1, attempts[b].active = 1,
                      SameDomain(attempts[a], attempts[b])
               PROVE  FALSE
    BY DEF AttemptExclusion
  <2>1. attempts[a].token \in Nat /\ attempts[b].token \in Nat
    BY DEF IInv, TypeOK, AttemptRow
  <2>2. SameDomain(attempts[b], attempts[a])
    BY DEF SameDomain
  <2> QED
    BY <2>1, <2>2 DEF IInv, AttemptOrder
<1> QED
  BY <1>1, Invariance, PTL

\* No two attempts of a work order on one root carry the same token, so the
\* UNIQUE constraint of the attempts table never rejects claim_attempt.
THEOREM UniqueAttempts ==
    ASSUME OneWay
    PROVE  Spec => []AttemptTokensUnique
<1>1. IInv => AttemptTokensUnique
  BY DEF IInv, AttemptOrder, AttemptTokensUnique, SameDomain
<1> QED
  BY <1>1, Invariance, PTL

\* Protected writes to a file happen in the order of the fencing tokens.
THEOREM FencedWrites ==
    ASSUME OneWay
    PROVE  Spec => WritesInTokenOrder
<1>1. ASSUME IInv, [Next]_vars
      PROVE  [\A k \in Resource \X Path : lastWrite'[k] >= lastWrite[k]]_vars
  <2> USE <1>1 DEF IInv
  <2>0. \A k \in Resource \X Path : lastWrite[k] \in Nat
    BY DEF TypeOK
  <2>1. ASSUME NEW f \in Path, Write(f)
        PROVE  \A k \in Resource \X Path : lastWrite'[k] >= lastWrite[k]
    <3> DEFINE row == leases[guard.lease]
    <3>1. /\ guard.lease \in DOMAIN leases
          /\ row.active = 1
          /\ Covers(row.paths, f)
      BY <2>1 DEF Write, GuardHolds
    <3>2. row.resource \in Resource /\ row.token \in Nat /\ row.paths \in PathSets
      BY <3>1 DEF TypeOK, LeaseRow
    <3>3. row.token >= lastWrite[<<row.resource, f>>]
      <4> SUFFICES ASSUME row.token < lastWrite[<<row.resource, f>>]
                   PROVE  FALSE
        BY <2>0, <3>2
      <4>1. PICK m \in DOMAIN leases :
              /\ leases[m].resource = row.resource
              /\ leases[m].token = lastWrite[<<row.resource, f>>]
              /\ Covers(leases[m].paths, f)
        BY <2>0, <3>2 DEF EffectsGranted
      <4>2. leases[m].paths \in PathSets
        BY DEF TypeOK, LeaseRow
      <4>3. Overlaps(row.paths, leases[m].paths)
        BY <3>1, <3>2, <4>1, <4>2, CommonFileOverlaps
      <4>4. SameDomain(row, leases[m]) /\ m # guard.lease
        BY <3>2, <4>1 DEF SameDomain
      <4> QED
        BY <3>1, <4>1, <4>3, <4>4 DEF LeaseOrder
    <3>4. lastWrite' = [lastWrite EXCEPT ![<<row.resource, f>>] = row.token]
      BY <2>1 DEF Write
    <3>5. lastWrite \in [Resource \X Path -> Nat]
      BY DEF TypeOK
    <3> QED
      BY <2>0, <3>2, <3>3, <3>4, <3>5
  <2>2. lastWrite' = lastWrite \/ \E g \in Path : Write(g)
    BY OnlyWriteWrites
  <2> QED
    BY <2>0, <2>1, <2>2
<1> QED
  BY <1>1, Invariance, PTL DEF Spec, WritesInTokenOrder

\* Guarded transitions of a work order happen in the order of its attempts.
THEOREM FencedTransitions ==
    ASSUME OneWay
    PROVE  Spec => TransitionsInTokenOrder
<1>1. ASSUME IInv, [Next]_vars
      PROVE  [\A k \in Resource \X Work : lastState'[k] >= lastState[k]]_vars
  <2> USE <1>1 DEF IInv
  <2>0. \A k \in Resource \X Work : lastState[k] \in Nat
    BY DEF TypeOK
  <2>1. CASE Transition
    <3> DEFINE row == attempts[guard.attempt]
    <3>1. guard.attempt \in DOMAIN attempts /\ row.active = 1
      BY <2>1 DEF Transition, GuardHolds
    <3>2. row.resource \in Resource /\ row.work \in Work /\ row.token \in Nat
      BY <3>1 DEF TypeOK, AttemptRow
    <3>3. row.token >= lastState[<<row.resource, row.work>>]
      <4> SUFFICES ASSUME row.token < lastState[<<row.resource, row.work>>]
                   PROVE  FALSE
        BY <2>0, <3>2
      <4>1. PICK b \in DOMAIN attempts :
              /\ attempts[b].resource = row.resource
              /\ attempts[b].work = row.work
              /\ attempts[b].token = lastState[<<row.resource, row.work>>]
        BY <2>0, <3>2 DEF EffectsGranted
      <4>2. SameDomain(row, attempts[b]) /\ b # guard.attempt
        BY <3>2, <4>1 DEF SameDomain
      <4> QED
        BY <3>1, <4>1, <4>2 DEF AttemptOrder
    <3>4. lastState' =
            [lastState EXCEPT ![<<row.resource, row.work>>] = row.token]
      BY <2>1 DEF Transition
    <3>5. lastState \in [Resource \X Work -> Nat]
      BY DEF TypeOK
    <3> QED
      BY <2>0, <3>2, <3>3, <3>4, <3>5
  <2>2. lastState' = lastState \/ Transition
    BY OnlyTransitionPublishes
  <2> QED
    BY <2>0, <2>1, <2>2
<1> QED
  BY <1>1, Invariance, PTL DEF Spec, TransitionsInTokenOrder

\* An open commit_guard belongs to the newest lease on what it writes and to
\* the newest attempt of its work order.
THEOREM NewestWriter ==
    ASSUME OneWay
    PROVE  Spec => []OnlyNewestWrites
<1>1. IInv => OnlyNewestWrites
  <2> SUFFICES ASSUME IInv, guard.kind = "commit_guard"
               PROVE  OnlyNewestWrites
    BY DEF OnlyNewestWrites
  <2> USE DEF IInv
  <2> DEFINE row == leases[guard.lease]
             parent == attempts[row.attempt]
  <2>1. /\ guard.lease \in DOMAIN leases
        /\ row.active = 1
        /\ parent.active = 1
        /\ \A f \in guard.paths : Covers(row.paths, f)
    BY DEF GuardHolds
  <2>2. guard.paths \in PathSets
    BY DEF TypeOK, Guard, NoGuard
  <2>3. /\ row.token \in Nat
        /\ row.paths \in PathSets
        /\ row.attempt \in DOMAIN attempts
        /\ parent.resource = row.resource
    BY <2>1 DEF TypeOK, LeaseRow, Parented
  <2>4. ASSUME NEW m \in DOMAIN leases,
               leases[m].resource = row.resource,
               leases[m].token > row.token,
               Overlaps(leases[m].paths, guard.paths)
        PROVE  FALSE
    <3>1. leases[m].paths \in PathSets /\ leases[m].token \in Nat
      BY DEF TypeOK, LeaseRow
    <3>2. Overlaps(row.paths, leases[m].paths)
      BY <2>1, <2>2, <2>3, <2>4, <3>1, OverlapsThroughCover
    <3>3. SameDomain(row, leases[m]) /\ m # guard.lease
      BY <2>3, <2>4 DEF SameDomain
    <3> QED
      BY <2>1, <2>3, <2>4, <3>1, <3>2, <3>3 DEF LeaseOrder
  <2>5. ASSUME NEW b \in DOMAIN attempts,
               attempts[b].resource = row.resource,
               attempts[b].work = parent.work
        PROVE  attempts[b].token <= parent.token
    <3>1. attempts[b].token \in Nat /\ parent.token \in Nat
      BY <2>3 DEF TypeOK, AttemptRow
    <3>2. SameDomain(parent, attempts[b])
      BY <2>3, <2>5 DEF SameDomain
    <3> QED
      BY <2>1, <2>3, <2>5, <3>1, <3>2 DEF AttemptOrder
  <2> QED
    BY <2>4, <2>5 DEF OnlyNewestWrites
<1> QED
  BY <1>1, Invariance, PTL

\* With a one-way migration, tokens do increase per canonical resource.
THEOREM IncreasingTokens ==
    ASSUME OneWay
    PROVE  Spec => TokensIncreasePerResource
<1>1. ASSUME IInv, [Next]_vars
      PROVE  [\A l \in DOMAIN leases' \ DOMAIN leases, m \in DOMAIN leases :
                leases[m].resource = leases'[l].resource
                  => leases[m].token < leases'[l].token]_vars
  <2> USE <1>1 DEF IInv
  <2>1. CASE LeasesKept
    BY <2>1 DEF LeasesKept
  <2>2. ASSUME NEW c \in calls, NEW l \in LeaseId, AcquireWrite(c, l),
               NEW m \in DOMAIN leases, leases[m].resource = leases'[l].resource
        PROVE  leases[m].token < leases'[l].token
    <3>1. LeaseInserted(l, c) /\ c.kind = "acquire"
      BY <2>2, AcquireInserts DEF AcquireWrite
    <3>2. /\ leases[m] \in LeaseRow
          /\ leases[m].scope \in {leases[m].resource, context[leases[m].resource]}
      BY DEF TypeOK, ScopesSettled
    <3>3. leases[m].scope \in {c.scope, c.resource}
      BY <2>2, <3>1, <3>2, SettledSees DEF LeaseInserted
    <3> QED
      BY <2>2, <3>1, <3>3 DEF LeaseInserted
  <2>3. ASSUME NEW c \in calls, NEW l \in LeaseId, AcquireWrite(c, l)
        PROVE  DOMAIN leases' = DOMAIN leases \cup {l}
    BY <2>3, AcquireInserts DEF LeaseInserted
  <2> QED
    BY <2>1, <2>2, <2>3, LeasesChange
<1> QED
  BY <1>1, Invariance, PTL DEF Spec, TokensIncreasePerResource
-----------------------------------------------------------------------------
(* Implementation of FencedFiles *)

\* One of the tokens granted on a file is the newest, although nothing bounds
\* the number of leases: the refinement mapping is defined.
NewestExists ==
    \A k \in Resource \X Path :
        \E t \in GrantedTokens(k) : IsMax(t, GrantedTokens(k))

\* Tokens are numbers.
LEMMA TokensAreNumbers ==
    ASSUME TypeOK, NEW k \in Resource \X Path
    PROVE  GrantedTokens(k) \subseteq Nat
BY DEF TypeOK, LeaseRow, GrantedTokens

\* A set of numbers has at most one maximum, and CHOOSE finds it.
LEMMA MaxUnique ==
    ASSUME NEW S \in SUBSET Nat, NEW t, IsMax(t, S)
    PROVE  (CHOOSE u \in S : IsMax(u, S)) = t
<1> DEFINE n == CHOOSE u \in S : IsMax(u, S)
<1>1. t \in S
  BY DEF IsMax
<1>2. n \in S /\ IsMax(n, S)
  BY <1>1
<1>3. n <= t /\ t <= n
  BY <1>1, <1>2 DEF IsMax
<1> QED
  BY <1>1, <1>2, <1>3

\* Leases that only fade leave the grants as they are.
LEMMA KeptGrants ==
    ASSUME LeasesKept, NEW k \in Resource \X Path
    PROVE  GrantedTokens(k)' = GrantedTokens(k)
BY DEF LeasesKept, LeasesFade, GrantedTokens, Covers

\* acquire grants its token on the files its paths cover, on no other, and the
\* token is above everything granted on them before.
LEMMA AcquireGrants ==
    ASSUME IInv, NEW c \in calls, NEW l \in LeaseId, AcquireWrite(c, l),
           NEW k \in Resource \X Path
    PROVE  /\ leases'[l].token \in Nat
           /\ k[1] = c.resource /\ Covers(c.paths, k[2]) =>
                /\ GrantedTokens(k)' = GrantedTokens(k) \cup {leases'[l].token}
                /\ \A t \in GrantedTokens(k) : t < leases'[l].token
           /\ ~(k[1] = c.resource /\ Covers(c.paths, k[2])) =>
                GrantedTokens(k)' = GrantedTokens(k)
<1> USE DEF IInv
<1>1. LeaseInserted(l, c) /\ c.kind = "acquire"
  BY AcquireInserts DEF AcquireWrite
<1>2. ASSUME NEW m \in DOMAIN leases, leases[m].resource = c.resource
      PROVE  leases[m].token < leases'[l].token
  <2>1. /\ leases[m] \in LeaseRow
        /\ leases[m].scope \in {leases[m].resource, context[leases[m].resource]}
    BY DEF TypeOK, ScopesSettled
  <2>2. leases[m].scope \in {c.scope, c.resource}
    BY <1>1, <1>2, <2>1, SettledSees
  <2> QED
    BY <1>1, <1>2, <2>2 DEF LeaseInserted
<1>3. leases'[l].token \in Nat \ {0}
  BY <1>1 DEF LeaseInserted
<1> DEFINE Row(m) == leases[m].resource = k[1] /\ Covers(leases[m].paths, k[2])
<1>4. \A m \in DOMAIN leases :
        /\ m \in DOMAIN leases'
        /\ m # l
        /\ leases'[m].resource = leases[m].resource
        /\ leases'[m].paths = leases[m].paths
        /\ leases'[m].token = leases[m].token
  BY <1>1 DEF LeaseInserted, LeasesFade
<1>5. /\ DOMAIN leases' = DOMAIN leases \cup {l}
      /\ leases'[l].resource = c.resource
      /\ leases'[l].paths = c.paths
  BY <1>1 DEF LeaseInserted
<1>6. CASE k[1] = c.resource /\ Covers(c.paths, k[2])
  <2>1. GrantedTokens(k)' = GrantedTokens(k) \cup {leases'[l].token}
    BY <1>4, <1>5, <1>6 DEF GrantedTokens, Covers
  <2>2. \A t \in GrantedTokens(k) : t < leases'[l].token
    BY <1>2, <1>3, <1>6 DEF GrantedTokens
  <2> QED
    BY <1>3, <1>6, <2>1, <2>2
<1>7. CASE ~(k[1] = c.resource /\ Covers(c.paths, k[2]))
  <2>1. GrantedTokens(k)' = GrantedTokens(k)
    BY <1>4, <1>5, <1>7 DEF GrantedTokens, Covers
  <2> QED
    BY <1>3, <1>7, <2>1
<1> QED
  BY <1>6, <1>7

\* A new lease is the newest on what it covers.
LEMMA NewestExistsStep ==
    ASSUME IInv, NewestExists, [Next]_vars
    PROVE  NewestExists'
<1> USE DEF IInv
<1> SUFFICES ASSUME NEW k \in Resource \X Path
             PROVE  \E t \in GrantedTokens(k)' : IsMax(t, GrantedTokens(k)')
  BY DEF NewestExists, IsMax
<1>1. PICK t \in GrantedTokens(k) : IsMax(t, GrantedTokens(k))
  BY DEF NewestExists
<1>2. CASE GrantedTokens(k)' = GrantedTokens(k)
  BY <1>1, <1>2
<1>3. ASSUME NEW c \in calls, NEW l \in LeaseId, AcquireWrite(c, l)
      PROVE  \E s \in GrantedTokens(k)' : IsMax(s, GrantedTokens(k)')
  <2>1. CASE k[1] = c.resource /\ Covers(c.paths, k[2])
    <3>1. GrantedTokens(k) \subseteq Nat
      BY TokensAreNumbers
    <3> QED
      BY <1>3, <2>1, <3>1, AcquireGrants DEF IsMax
  <2>2. CASE ~(k[1] = c.resource /\ Covers(c.paths, k[2]))
    BY <1>2, <1>3, <2>2, AcquireGrants
  <2> QED
    BY <2>1, <2>2
<1> QED
  BY <1>2, <1>3, LeasesChange, KeptGrants

\* acquire is a Grant on its root.
LEMMA AcquireIsGrant ==
    ASSUME IInv, IInv', NewestExists, NEW c \in calls, NEW l \in LeaseId,
           AcquireWrite(c, l)
    PROVE  [Files!Next]_<<Granted, lastWrite>>
<1> USE DEF IInv
<1> DEFINE tok == leases'[l].token
           Hit(k) == k[1] = c.resource /\ Covers(c.paths, k[2])
<1>1. c.resource \in Resource
  BY CallTypes DEF AcquireWrite, TypeOK
<1>2. lastWrite' = lastWrite
  BY DEF AcquireWrite, effects
<1>3. ASSUME NEW k \in Resource \X Path, Hit(k)
      PROVE  Newest(k)' = tok /\ Newest(k) < tok
  <2>1. /\ tok \in Nat
        /\ GrantedTokens(k)' = GrantedTokens(k) \cup {tok}
        /\ \A t \in GrantedTokens(k) : t < tok
    BY <1>3, AcquireGrants
  <2>2. GrantedTokens(k) \subseteq Nat
    BY TokensAreNumbers
  <2>3. IsMax(tok, GrantedTokens(k)')
    BY <2>1, <2>2 DEF IsMax
  <2>4. Newest(k)' = tok
    <3>1. GrantedTokens(k)' \subseteq Nat
      BY <2>1, <2>2
    <3> QED
      BY <2>3, <3>1, MaxUnique DEF Newest, IsMax
  <2>5. Newest(k) \in GrantedTokens(k)
    BY DEF NewestExists, Newest
  <2> QED
    BY <2>1, <2>4, <2>5
<1>4. ASSUME NEW k \in Resource \X Path, ~Hit(k)
      PROVE  Newest(k)' = Newest(k)
  BY <1>4, AcquireGrants DEF Newest, IsMax
<1>5. \A k \in Resource \X Path : Granted[k] = Newest(k) /\ Granted'[k] = Newest(k)'
  BY DEF Granted
<1>6. CASE Granted' = Granted
  BY <1>2, <1>6
<1>7. CASE Granted' # Granted
  <2> DEFINE F == {f \in Path : Granted'[<<c.resource, f>>]
                                   # Granted[<<c.resource, f>>]}
  <2>1. PICK k \in Resource \X Path : Granted'[k] # Granted[k]
    BY <1>7 DEF Granted
  <2>2. Hit(k)
    BY <1>4, <1>5, <2>1
  <2>3. k = <<c.resource, k[2]>> /\ k[2] \in F
    BY <2>1, <2>2
  <2>4. \A f \in F : /\ <<c.resource, f>> \in Resource \X Path
                      /\ Hit(<<c.resource, f>>)
    BY <1>1, <1>4, <1>5
  <2>5. \A f \in F : /\ Granted'[<<c.resource, f>>] = tok
                      /\ Granted[<<c.resource, f>>] < tok
    BY <1>3, <1>5, <2>4
  <2>6. \A j \in Resource \X Path : j[1] # c.resource => Granted'[j] = Granted[j]
    BY <1>4, <1>5
  <2>7. \A j \in Resource \X Path : Granted[j] \in Nat
    BY <1>5, TokensAreNumbers DEF NewestExists, Newest
  <2>8. tok \in Nat
    BY <2>1, AcquireGrants
  <2>9. Files!Grant(c.resource)
    BY <1>1, <1>2, <2>3, <2>4, <2>5, <2>6, <2>7, <2>8 DEF Files!Grant, Files!File
  <2> QED
    BY <1>1, <2>9 DEF Files!Next
<1> QED
  BY <1>6, <1>7

\* A protected write is a Write under the newest token of its file.
LEMMA WriteIsWrite ==
    ASSUME IInv, NEW f \in Path, Write(f)
    PROVE  Files!Next
<1> USE DEF IInv
<1> DEFINE row == leases[guard.lease]
           k == <<row.resource, f>>
<1>1. /\ guard.lease \in DOMAIN leases
      /\ row.active = 1
      /\ Covers(row.paths, f)
  BY DEF Write, GuardHolds
<1>2. /\ row.resource \in Resource /\ row.token \in Nat
      /\ row.paths \in PathSets /\ row.token > 0
      /\ k \in Resource \X Path
  BY <1>1 DEF TypeOK, LeaseRow, LeaseOrder
<1>3. ASSUME NEW m \in DOMAIN leases, leases[m].resource = row.resource,
             Covers(leases[m].paths, f)
      PROVE  leases[m].token <= row.token
  <2>1. leases[m].paths \in PathSets /\ leases[m].token \in Nat
    BY DEF TypeOK, LeaseRow
  <2>2. Overlaps(row.paths, leases[m].paths)
    BY <1>1, <1>2, <1>3, <2>1, CommonFileOverlaps
  <2>3. SameDomain(row, leases[m])
    BY <1>3 DEF SameDomain
  <2> QED
    BY <1>1, <1>2, <2>1, <2>2, <2>3 DEF LeaseOrder
<1>4. IsMax(row.token, GrantedTokens(k))
  BY <1>1, <1>2, <1>3 DEF IsMax, GrantedTokens
<1>5. Granted[k] = row.token
  BY <1>2, <1>4, TokensAreNumbers, MaxUnique DEF Granted, Newest
<1>6. lastWrite' = [lastWrite EXCEPT ![k] = row.token]
  BY DEF Write
<1>7. Granted' = Granted
  BY DEF Write, tables, Granted, Newest, GrantedTokens, IsMax
<1>8. Files!Write(k)
  BY <1>2, <1>5, <1>6, <1>7 DEF Files!Write
<1> QED
  BY <1>2, <1>8 DEF Files!Next, Files!File

\* The fence implements FencedFiles: grants on a file carry increasing tokens
\* and a file is written only under the newest of them, for any roots, paths,
\* clocks, retries and crashes, while roots only move to a project.
THEOREM ImplementsFencedFiles ==
    ASSUME OneWay
    PROVE  Spec => FencedFilesSpec
<1>1. Init => Files!Init
  <2> SUFFICES ASSUME Init
               PROVE  Files!Init
    OBVIOUS
  <2>1. ASSUME NEW k \in Resource \X Path
        PROVE  Newest(k) = 0
    <3>1. GrantedTokens(k) = {0}
      BY DEF Init, GrantedTokens
    <3> QED
      BY <3>1 DEF Newest, IsMax
  <2> QED
    BY <2>1 DEF Init, Granted, Files!Init, Files!File
<1>2. Init => NewestExists
  BY DEF Init, NewestExists, GrantedTokens, IsMax
<1>3. IInv /\ NewestExists /\ [Next]_vars => NewestExists'
  BY NewestExistsStep
<1>4. IInv /\ IInv' /\ NewestExists /\ [Next]_vars
        => [Files!Next]_<<Granted, lastWrite>>
  <2> SUFFICES ASSUME IInv, IInv', NewestExists, [Next]_vars
               PROVE  [Files!Next]_<<Granted, lastWrite>>
    OBVIOUS
  <2>1. CASE lastWrite' = lastWrite /\ LeasesKept
    <3>1. \A k \in Resource \X Path : GrantedTokens(k)' = GrantedTokens(k)
      BY <2>1, KeptGrants
    <3>2. Granted' = Granted
      BY <3>1 DEF Granted, Newest, IsMax
    <3> QED
      BY <2>1, <3>2
  <2> QED
    BY <2>1, OnlyWriteWrites, WriteIsWrite, LeasesChange, AcquireIsGrant
       DEF IInv
<1> QED
  BY <1>1, <1>2, <1>3, <1>4, Invariance, PTL
     DEF Spec, FencedFilesSpec, Files!Spec
=============================================================================
