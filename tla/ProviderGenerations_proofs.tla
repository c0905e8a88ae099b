--------------------- MODULE ProviderGenerations_proofs ---------------------
(***************************************************************************)
(* Proofs about ProviderGenerations, for any set of requests and any bound *)
(* on the number of runtimes.  The safety promises follow from the         *)
(* inductive invariant IInv: leases are accounted for (LeaseInv), cleanup  *)
(* runs only on retired generations without leases (LifecycleInv), no      *)
(* refresh of a replaced generation is left (RefreshInv), and the lock and *)
(* close() keep operations apart (ControlInv).                             *)
(***************************************************************************)
EXTENDS ProviderGenerations, ModelCatalog, Queues_proofs, SequenceTheorems, FiniteSetTheorems,
        TLAPS

USE GenerationsAssumption

------------------------------------------------------------------------------
(* Lemmas                                                                   *)

\* Whoever uses a generation through a lease is counted in active_leases.
LEMMA UserCounts ==
    ASSUME TypeOK, LeaseInv, NEW q \in Requests, request[q].at = "using"
    PROVE  request[q].on \in Runtimes /\ leases[request[q].on] > 0
<1> DEFINE r == request[q].on
<1>1. r \in Runtimes BY DEF TypeOK, LeaseInv
<1>2. q \in Users(r) BY DEF Users
<1>3. Cardinality(Users(r)) \in Nat /\ Cardinality(Users(r)) # 0
  BY <1>1, <1>2, FS_CardinalityType, FS_EmptySet DEF LeaseInv
<1> QED BY <1>1, <1>3 DEF LeaseInv, One

\* A running background refresh is counted in active_leases.
LEMMA BackgroundCounts ==
    ASSUME TypeOK, LeaseInv, NEW r \in Runtimes, background[r] \in {"listing", "cancelled"}
    PROVE  leases[r] > 0
BY FS_CardinalityType DEF LeaseInv, One

\* So is an explicit refresh.
LEMMA ExplicitCounts ==
    ASSUME TypeOK, LeaseInv, step = "listing"
    PROVE  leases[current] > 0
<1>1. current \in Runtimes BY DEF TypeOK
<1>2. Cardinality(Users(current)) \in Nat BY <1>1, FS_CardinalityType DEF LeaseInv
<1>3. leases[current] = Cardinality(Users(current))
            + One(background[current] \in {"listing", "cancelled"}) + 1
  BY <1>1 DEF LeaseInv, One
<1>4. One(background[current] \in {"listing", "cancelled"}) \in {0, 1} BY DEF One
<1> QED BY <1>2, <1>3, <1>4

\* A generation without leases is used by nobody.
LEMMA Unleased ==
    ASSUME TypeOK, LeaseInv, NEW r \in Runtimes, leases[r] = 0
    PROVE  background[r] \notin {"listing", "cancelled"} /\ Cardinality(Users(r)) = 0
<1>1. Cardinality(Users(r)) \in Nat BY FS_CardinalityType DEF LeaseInv
<1>2. 0 = Cardinality(Users(r)) + One(background[r] \in {"listing", "cancelled"})
            + One(step = "listing" /\ r = current)
  BY DEF LeaseInv
<1>3. /\ One(background[r] \in {"listing", "cancelled"}) \in {0, 1}
      /\ One(step = "listing" /\ r = current) \in {0, 1}
  BY DEF One
<1>4. One(background[r] \in {"listing", "cancelled"}) = 0 /\ Cardinality(Users(r)) = 0
  BY <1>1, <1>2, <1>3
<1> QED BY <1>4 DEF One

\* Steps that leave the users of every generation alone keep the accounts.
LEMMA LeaseUnchanged ==
    ASSUME LeaseInv, request' = request, leases' = leases,
           \A r \in Runtimes : background'[r] \in {"listing", "cancelled"}
                                <=> background[r] \in {"listing", "cancelled"},
           \A r \in Runtimes : (step' = "listing" /\ r = current')
                                <=> (step = "listing" /\ r = current)
    PROVE  LeaseInv'
BY DEF LeaseInv, Users, One

\* What _close_generation may do to the cleanup tasks.
LEMMA CleanupsAfterOf ==
    ASSUME NEW rs, NEW ls, NEW r \in Runtimes
    PROVE  CleanupsAfter(rs, ls)[r] = IF r \in rs \ cleaned /\ ls[r] = 0 /\ cleanups[r] = 0
                                      THEN 1 ELSE cleanups[r]
BY DEF CleanupsAfter

\* Its counts stay natural numbers.
LEMMA CleanupsAfterType ==
    ASSUME TypeOK, NEW rs, NEW ls
    PROVE  CleanupsAfter(rs, ls) \in [Runtimes -> Nat]
BY DEF CleanupsAfter, TypeOK

------------------------------------------------------------------------------
(* Every action preserves the invariant                                     *)

\* acquire() adds a user of the current generation, which is not retired.
LEMMA AcquireStep == ASSUME IInv, NEW q \in Requests, Acquire(q) PROVE IInv'
<1>1. TypeOK' BY DEF IInv, TypeOK, Acquire, ownership, refreshVars, adminVars, closeVars
<1>2. LeaseInv'
  <2>1. current \in Runtimes /\ request[q].at = "idle" BY DEF IInv, TypeOK, Acquire
  <2>2. q \notin Users(current) BY <2>1 DEF Users
  <2>3. Users(current)' = Users(current) \cup {q}
    BY <2>1 DEF IInv, TypeOK, Users, Acquire, ownership
  <2>4. IsFiniteSet(Users(current)') /\ Cardinality(Users(current)') = Cardinality(Users(current)) + 1
    BY <2>1, <2>2, <2>3, FS_AddElement DEF IInv, LeaseInv
  <2>5. \A r \in Runtimes \ {current} : Users(r)' = Users(r)
    BY <2>1 DEF IInv, TypeOK, Users, Acquire, ownership
  <2>6. \A r \in Runtimes : leases'[r] = IF r = current THEN leases[r] + 1 ELSE leases[r]
    BY DEF IInv, TypeOK, Acquire
  <2>7. \A p \in Requests : request'[p].at # "idle" => request'[p].on # 0
    BY DEF IInv, TypeOK, LeaseInv, Acquire, Runtimes
  <2>8. current' = current BY DEF Acquire, ownership
  <2>9. ASSUME NEW r \in Runtimes PROVE IsFiniteSet(Users(r)') /\ leases'[r] =
            Cardinality(Users(r)') + One(background[r] \in {"listing", "cancelled"})
              + One(step = "listing" /\ r = current)
    <3>1. Cardinality(Users(r)) \in Nat BY FS_CardinalityType DEF IInv, LeaseInv
    <3>2. /\ One(background[r] \in {"listing", "cancelled"}) \in {0, 1}
          /\ One(step = "listing" /\ r = current) \in {0, 1}
      BY DEF One
    <3>3. leases[r] = Cardinality(Users(r)) + One(background[r] \in {"listing", "cancelled"})
                        + One(step = "listing" /\ r = current) /\ IsFiniteSet(Users(r))
      BY DEF IInv, LeaseInv
    <3>4. CASE r = current BY <2>4, <2>6, <2>8, <3>1, <3>2, <3>3, <3>4
    <3>5. CASE r # current BY <2>5, <2>6, <3>3, <3>5
    <3> QED BY <3>4, <3>5
  <2> QED BY <2>7, <2>9 DEF LeaseInv, Acquire, ownership, refreshVars, adminVars
<1>3. LifecycleInv'
  BY DEF IInv, TypeOK, LifecycleInv, RefreshInv, ControlInv, Acquire, ownership,
         refreshVars, adminVars, closeVars
<1>4. TerminalMeansClosed'
  BY DEF IInv, TypeOK, TerminalMeansClosed, ControlInv, LifecycleInv, RefreshInv, Acquire,
         ownership, refreshVars, adminVars, closeVars
<1>5. RefreshInv' /\ ControlInv' /\ EveryRuntimeIsOwned'
  BY DEF IInv, RefreshInv, ControlInv, EveryRuntimeIsOwned, Acquire, ownership, refreshVars,
         adminVars, closeVars
<1> QED BY <1>1, <1>2, <1>3, <1>4, <1>5 DEF IInv

\* A lease is given back; the last one of a retired generation starts its cleanup.
LEMMA ReleaseStep == ASSUME IInv, NEW q \in Requests, Release(q) PROVE IInv'
<1>1. TypeOK'
  <2> DEFINE r == request[q].on
  <2>1. r \in Runtimes /\ leases[r] > 0 BY UserCounts DEF IInv, Release
  <2> QED BY <2>1, CleanupsAfterType
      DEF IInv, TypeOK, Release, ReleaseLease, ownership, refreshVars, adminVars, closeVars
<1>2. LeaseInv'
  <2> DEFINE on == request[q].on
  <2>1. on \in Runtimes /\ request[q].at = "using" BY UserCounts DEF IInv, Release
  <2>2. q \in Users(on) BY <2>1 DEF Users
  <2>3. Users(on)' = Users(on) \ {q} BY <2>1 DEF IInv, TypeOK, Users, Release
  <2>4. IsFiniteSet(Users(on)') /\ Cardinality(Users(on)') = Cardinality(Users(on)) - 1
    BY <2>1, <2>2, <2>3, FS_RemoveElement DEF IInv, LeaseInv
  <2>5. \A r \in Runtimes \ {on} : Users(r)' = Users(r)
    BY <2>1 DEF IInv, TypeOK, Users, Release
  <2>6. \A r \in Runtimes : leases'[r] = IF r = on THEN leases[r] - 1 ELSE leases[r]
    BY <2>1 DEF IInv, TypeOK, Release, ReleaseLease
  <2>7. \A p \in Requests : request'[p].at # "idle" => request'[p].on # 0
    BY DEF IInv, TypeOK, LeaseInv, Release
  <2>8. on' = on BY DEF IInv, TypeOK, Release
  <2>9. ASSUME NEW r \in Runtimes PROVE IsFiniteSet(Users(r)') /\ leases'[r] =
            Cardinality(Users(r)') + One(background[r] \in {"listing", "cancelled"})
              + One(step = "listing" /\ r = current)
    <3>1. Cardinality(Users(r)) \in Nat BY FS_CardinalityType DEF IInv, LeaseInv
    <3>2. /\ One(background[r] \in {"listing", "cancelled"}) \in {0, 1}
          /\ One(step = "listing" /\ r = current) \in {0, 1}
      BY DEF One
    <3>3. leases[r] = Cardinality(Users(r)) + One(background[r] \in {"listing", "cancelled"})
                        + One(step = "listing" /\ r = current) /\ IsFiniteSet(Users(r))
      BY DEF IInv, LeaseInv
    <3>4. CASE r = on BY <2>4, <2>6, <2>8, <3>1, <3>2, <3>3, <3>4
    <3>5. CASE r # on BY <2>5, <2>6, <3>3, <3>5
    <3> QED BY <3>4, <3>5
  <2> QED BY <2>7, <2>9 DEF LeaseInv, Release, ownership, refreshVars, adminVars
<1>3. LifecycleInv'
  BY UserCounts
  DEF IInv, TypeOK, LifecycleInv, Release, ReleaseLease, CleanupsAfter, ownership, closeVars
<1>4. TerminalMeansClosed'
  BY UserCounts
  DEF IInv, TypeOK, TerminalMeansClosed, Release, ReleaseLease, ownership, refreshVars, closeVars
<1>5. RefreshInv' /\ ControlInv' /\ EveryRuntimeIsOwned'
  BY DEF IInv, RefreshInv, ControlInv, EveryRuntimeIsOwned, Release, ReleaseLease,
         CleanupsAfter, ownership, refreshVars, adminVars, closeVars
<1> QED BY <1>1, <1>2, <1>3, <1>4, <1>5 DEF IInv

\* A request whose release returned uses nothing.
LEMMA ReleaseReturnsStep == ASSUME IInv, NEW q \in Requests, ReleaseReturns(q) PROVE IInv'
<1>1. TypeOK'
  <2>1. request[q].on \in Runtimes BY DEF IInv, TypeOK, LeaseInv, ReleaseReturns
  <2> QED
    BY <2>1 DEF IInv, TypeOK, Catalogs, ReleaseReturns, ownership, adminVars, closeVars
<1>2. LeaseInv'
  <2>1. \A r \in Runtimes : Users(r)' = Users(r)
    BY DEF IInv, TypeOK, Users, ReleaseReturns, ownership, adminVars, closeVars
  <2>2. \A p \in Requests : request'[p].at # "idle" => request'[p].on # 0
    BY DEF IInv, TypeOK, LeaseInv, ReleaseReturns, ownership, adminVars, closeVars
  <2> QED BY <2>1, <2>2 DEF IInv, LeaseInv, ReleaseReturns, ownership, adminVars, closeVars
<1>3. LifecycleInv' /\ RefreshInv' /\ ControlInv' /\ EveryRuntimeIsOwned' /\ TerminalMeansClosed'
  BY DEF IInv, LifecycleInv, RefreshInv, ControlInv, EveryRuntimeIsOwned,
         TerminalMeansClosed, ReleaseReturns, ownership, adminVars, closeVars
<1> QED BY <1>1, <1>2, <1>3 DEF IInv

\* Nor does one that was cancelled meanwhile.
LEMMA CancelReleaseStep == ASSUME IInv, NEW q \in Requests, CancelRelease(q) PROVE IInv'
<1>1. TypeOK'
  BY DEF IInv, TypeOK, CancelRelease, ownership, refreshVars, adminVars, closeVars
<1>2. LeaseInv'
  <2>1. \A r \in Runtimes : Users(r)' = Users(r)
    BY DEF IInv, TypeOK, Users, CancelRelease, ownership, refreshVars, adminVars, closeVars
  <2>2. \A p \in Requests : request'[p].at # "idle" => request'[p].on # 0
    BY DEF IInv, TypeOK, LeaseInv, CancelRelease, ownership, refreshVars, adminVars,
           closeVars
  <2> QED
    BY <2>1, <2>2
       DEF IInv, LeaseInv, CancelRelease, ownership, refreshVars, adminVars, closeVars
<1>3. LifecycleInv' /\ RefreshInv' /\ ControlInv' /\ EveryRuntimeIsOwned' /\ TerminalMeansClosed'
  BY DEF IInv, LifecycleInv, RefreshInv, ControlInv, EveryRuntimeIsOwned,
         TerminalMeansClosed, CancelRelease, ownership, refreshVars, adminVars, closeVars
<1> QED BY <1>1, <1>2, <1>3 DEF IInv

\* A cleaned generation had no leases, so no user is left behind.
LEMMA CleanupSucceedsStep == ASSUME IInv, NEW r \in Runtimes, CleanupSucceeds(r) PROVE IInv'
<1>1. TypeOK'
  BY DEF IInv, TypeOK, CleanupSucceeds, requestVars, refreshVars, adminVars, closeVars
<1>2. LifecycleInv'
  BY DEF IInv, TypeOK, LifecycleInv, RefreshInv, ControlInv, CleanupSucceeds, requestVars,
         refreshVars, adminVars, closeVars
<1>3. ControlInv'
  BY DEF IInv, TypeOK, LifecycleInv, ControlInv, CleanupSucceeds, requestVars, refreshVars,
         adminVars, closeVars
<1>4. EveryRuntimeIsOwned'
  BY DEF IInv, TypeOK, EveryRuntimeIsOwned, LifecycleInv, CleanupSucceeds, requestVars,
         refreshVars, adminVars, closeVars
<1>5. TerminalMeansClosed'
  BY DEF IInv, TypeOK, TerminalMeansClosed, ControlInv, LifecycleInv, RefreshInv,
         CleanupSucceeds, requestVars, refreshVars, adminVars, closeVars
<1>6. LeaseInv' /\ RefreshInv'
  BY DEF IInv, LeaseInv, RefreshInv, Users, CleanupSucceeds, requestVars, refreshVars,
         adminVars, closeVars
<1> QED BY <1>1, <1>2, <1>3, <1>4, <1>5, <1>6 DEF IInv

\* A failed cleanup changes no owner.
LEMMA CleanupFailsStep == ASSUME IInv, NEW r \in Runtimes, CleanupFails(r) PROVE IInv'
<1>1. TypeOK'
  BY DEF IInv, TypeOK, CleanupFails, requestVars, refreshVars, adminVars, closeVars
<1>2. LifecycleInv'
  BY DEF IInv, TypeOK, LifecycleInv, RefreshInv, ControlInv, CleanupFails, requestVars,
         refreshVars, adminVars, closeVars
<1>3. LeaseInv' /\ RefreshInv' /\ ControlInv' /\ EveryRuntimeIsOwned' /\ TerminalMeansClosed'
  BY DEF IInv, LeaseInv, RefreshInv, ControlInv, EveryRuntimeIsOwned, TerminalMeansClosed,
         Users, CleanupFails, requestVars, refreshVars, adminVars, closeVars
<1> QED BY <1>1, <1>2, <1>3 DEF IInv

\* The background refresh leases its generation, which is still the current one.
LEMMA BackgroundStartsStep == ASSUME IInv, NEW r \in Runtimes, BackgroundStarts(r) PROVE IInv'
<1>1. TypeOK'
  BY DEF IInv, TypeOK, Backgrounds, BackgroundStarts, ownership, requestVars, adminVars,
         closeVars
<1>2. LeaseInv'
  <2>1. \A x \in Runtimes : leases'[x] = IF x = r /\ r \notin cleaned THEN leases[x] + 1 ELSE leases[x]
    BY DEF IInv, TypeOK, BackgroundStarts
  <2>2. \A x \in Runtimes :
           One(background'[x] \in {"listing", "cancelled"}) =
             One(background[x] \in {"listing", "cancelled"})
               + One(x = r /\ r \notin cleaned)
    BY DEF IInv, TypeOK, One, BackgroundStarts
  <2>3. ASSUME NEW x \in Runtimes PROVE leases'[x] =
            Cardinality(Users(x)) + One(background'[x] \in {"listing", "cancelled"})
              + One(step = "listing" /\ x = current)
    <3>1. Cardinality(Users(x)) \in Nat BY FS_CardinalityType DEF IInv, LeaseInv
    <3>2. /\ One(background[x] \in {"listing", "cancelled"}) \in {0, 1}
          /\ One(step = "listing" /\ x = current) \in {0, 1}
          /\ One(x = r /\ r \notin cleaned) = IF x = r /\ r \notin cleaned THEN 1 ELSE 0
      BY DEF One
    <3> QED BY <2>1, <2>2, <3>1, <3>2 DEF IInv, LeaseInv
  <2> QED
    BY <2>3 DEF IInv, LeaseInv, Users, BackgroundStarts, ownership, requestVars, adminVars
<1>3. LifecycleInv'
  <2>1. refreshTask = r BY DEF IInv, RefreshInv, BackgroundStarts
  <2>2. r = current /\ ~closing BY <2>1 DEF IInv, RefreshInv, Runtimes
  <2>3. current \notin retired \cup cleaned BY <2>2 DEF IInv, LifecycleInv
  <2> QED
    BY <2>2, <2>3 DEF IInv, TypeOK, LifecycleInv, BackgroundStarts, ownership, closeVars
<1>4. RefreshInv'
  BY DEF IInv, TypeOK, LifecycleInv, RefreshInv, ControlInv, BackgroundStarts, ownership,
         requestVars, adminVars, closeVars
<1>5. TerminalMeansClosed'
  BY DEF IInv, TypeOK, TerminalMeansClosed, ControlInv, LifecycleInv, RefreshInv,
         BackgroundStarts, ownership, requestVars, adminVars, closeVars
<1>6. ControlInv' /\ EveryRuntimeIsOwned'
  BY DEF IInv, ControlInv, EveryRuntimeIsOwned, BackgroundStarts, ownership, requestVars,
         adminVars, closeVars
<1> QED BY <1>1, <1>2, <1>3, <1>4, <1>5, <1>6 DEF IInv

\* It gives its lease back when it ends,
LEMMA BackgroundEndsStep == ASSUME IInv, NEW r \in Runtimes, BackgroundEnds(r) PROVE IInv'
<1>1. TypeOK'
  <2>1. leases[r] > 0 BY BackgroundCounts DEF IInv, BackgroundEnds
  <2> QED
    BY <2>1, CleanupsAfterType
       DEF IInv, TypeOK, Backgrounds, Catalogs, Listed, ReleaseLease, BackgroundEnds,
           ownership, requestVars, adminVars, closeVars
<1>2. LeaseInv'
  <2>1. \A x \in Runtimes : leases'[x] = IF x = r THEN leases[x] - 1 ELSE leases[x]
    BY DEF IInv, TypeOK, BackgroundEnds, ReleaseLease
  <2>2. \A x \in Runtimes :
           One(background'[x] \in {"listing", "cancelled"}) =
             One(background[x] \in {"listing", "cancelled"})
               - One(x = r)
    BY DEF IInv, TypeOK, One, BackgroundEnds
  <2>3. ASSUME NEW x \in Runtimes PROVE leases'[x] =
            Cardinality(Users(x)) + One(background'[x] \in {"listing", "cancelled"})
              + One(step = "listing" /\ x = current)
    <3>1. Cardinality(Users(x)) \in Nat BY FS_CardinalityType DEF IInv, LeaseInv
    <3>2. /\ One(background[x] \in {"listing", "cancelled"}) \in {0, 1}
          /\ One(step = "listing" /\ x = current) \in {0, 1}
          /\ One(x = r) = IF x = r THEN 1 ELSE 0
      BY DEF One
    <3> QED BY <2>1, <2>2, <3>1, <3>2 DEF IInv, LeaseInv
  <2> QED
    BY <2>3 DEF IInv, LeaseInv, Users, BackgroundEnds, ownership, requestVars, adminVars
<1>3. LifecycleInv'
  <2>1. leases[r] > 0 BY BackgroundCounts DEF IInv, BackgroundEnds
  <2> QED
    BY <2>1
       DEF IInv, TypeOK, LifecycleInv, ReleaseLease, CleanupsAfter, BackgroundEnds,
           ownership, requestVars, adminVars, closeVars
<1>4. RefreshInv'
  BY DEF IInv, TypeOK, LifecycleInv, RefreshInv, ControlInv, BackgroundEnds, ReleaseLease,
         ownership, requestVars, adminVars, closeVars
<1>5. TerminalMeansClosed'
  <2>1. leases[r] > 0 BY BackgroundCounts DEF IInv, BackgroundEnds
  <2> QED
    BY <2>1
       DEF IInv, TypeOK, TerminalMeansClosed, ReleaseLease, BackgroundEnds, ownership,
           requestVars, adminVars, closeVars
<1>6. ControlInv' /\ EveryRuntimeIsOwned'
  BY DEF IInv, ControlInv, EveryRuntimeIsOwned, BackgroundEnds, ReleaseLease, ownership,
         requestVars, adminVars, closeVars
<1> QED BY <1>1, <1>2, <1>3, <1>4, <1>5, <1>6 DEF IInv

\* or when it was cancelled.
LEMMA BackgroundStopsStep == ASSUME IInv, NEW r \in Runtimes, BackgroundStops(r) PROVE IInv'
<1>1. TypeOK'
  <2>1. leases[r] > 0 BY BackgroundCounts DEF IInv, BackgroundStops
  <2> QED
    BY <2>1, CleanupsAfterType
       DEF IInv, TypeOK, Backgrounds, ReleaseLease, BackgroundStops, ownership, requestVars,
           adminVars, closeVars
<1>2. LeaseInv'
  <2>1. \A x \in Runtimes : leases'[x] = IF x = r THEN leases[x] - 1 ELSE leases[x]
    BY DEF IInv, TypeOK, BackgroundStops, ReleaseLease
  <2>2. \A x \in Runtimes :
           One(background'[x] \in {"listing", "cancelled"}) =
             One(background[x] \in {"listing", "cancelled"})
               - One(x = r)
    BY DEF IInv, TypeOK, One, BackgroundStops
  <2>3. ASSUME NEW x \in Runtimes PROVE leases'[x] =
            Cardinality(Users(x)) + One(background'[x] \in {"listing", "cancelled"})
              + One(step = "listing" /\ x = current)
    <3>1. Cardinality(Users(x)) \in Nat BY FS_CardinalityType DEF IInv, LeaseInv
    <3>2. /\ One(background[x] \in {"listing", "cancelled"}) \in {0, 1}
          /\ One(step = "listing" /\ x = current) \in {0, 1}
          /\ One(x = r) = IF x = r THEN 1 ELSE 0
      BY DEF One
    <3> QED BY <2>1, <2>2, <3>1, <3>2 DEF IInv, LeaseInv
  <2> QED
    BY <2>3 DEF IInv, LeaseInv, Users, BackgroundStops, ownership, requestVars, adminVars
<1>3. LifecycleInv'
  <2>1. leases[r] > 0 BY BackgroundCounts DEF IInv, BackgroundStops
  <2> QED
    BY <2>1
       DEF IInv, TypeOK, LifecycleInv, ReleaseLease, CleanupsAfter, BackgroundStops,
           ownership, requestVars, adminVars, closeVars
<1>4. RefreshInv'
  BY DEF IInv, TypeOK, LifecycleInv, RefreshInv, ControlInv, BackgroundStops, ReleaseLease,
         ownership, requestVars, adminVars, closeVars
<1>5. TerminalMeansClosed'
  <2>1. leases[r] > 0 BY BackgroundCounts DEF IInv, BackgroundStops
  <2> QED
    BY <2>1
       DEF IInv, TypeOK, TerminalMeansClosed, ReleaseLease, BackgroundStops, ownership,
           requestVars, adminVars, closeVars
<1>6. ControlInv' /\ EveryRuntimeIsOwned'
  BY DEF IInv, ControlInv, EveryRuntimeIsOwned, BackgroundStops, ReleaseLease, ownership,
         requestVars, adminVars, closeVars
<1> QED BY <1>1, <1>2, <1>3, <1>4, <1>5, <1>6 DEF IInv

\* Entering replace() or the explicit refresh stops the background refresh.
LEMMA EnterStep == ASSUME IInv, NEW op \in {"replace", "refresh"}, Enter(op) PROVE IInv'
<1>1. TypeOK'
  BY DEF IInv, TypeOK, Backgrounds, Steps, Enter, CancelRefresh, Hold, ownership,
         requestVars, closeVars
<1>2. LeaseInv'
  BY LeaseUnchanged
     DEF IInv, ControlInv, Enter, CancelRefresh, Hold, ownership, requestVars, closeVars
<1>3. RefreshInv'
  BY DEF IInv, TypeOK, LifecycleInv, RefreshInv, ControlInv, Enter, CancelRefresh, Hold,
         ownership, requestVars, closeVars
<1>4. ControlInv'
  BY DEF IInv, TypeOK, LifecycleInv, ControlInv, Enter, CancelRefresh, Hold, ownership,
         requestVars, closeVars
<1>5. TerminalMeansClosed'
  BY DEF IInv, TypeOK, TerminalMeansClosed, ControlInv, LifecycleInv, RefreshInv, Enter,
         CancelRefresh, Hold, ownership, requestVars, closeVars
<1>6. LifecycleInv' /\ EveryRuntimeIsOwned'
  BY DEF IInv, LifecycleInv, EveryRuntimeIsOwned, Enter, CancelRefresh, Hold, ownership,
         requestVars, closeVars
<1> QED BY <1>1, <1>2, <1>3, <1>4, <1>5, <1>6 DEF IInv

\* The change of a connected account holds the lock.
LEMMA ConnectStep == ASSUME IInv, Connect PROVE IInv'
<1>1. TypeOK'
  BY DEF IInv, TypeOK, Steps, Connect, Hold, ownership, requestVars, refreshVars, closeVars
<1>2. LeaseInv'
  BY LeaseUnchanged
     DEF IInv, ControlInv, Connect, Hold, ownership, requestVars, refreshVars, closeVars
<1>3. RefreshInv'
  BY DEF IInv, TypeOK, LifecycleInv, RefreshInv, ControlInv, Connect, Hold, ownership,
         requestVars, refreshVars, closeVars
<1>4. ControlInv'
  BY DEF IInv, TypeOK, LifecycleInv, ControlInv, Connect, Hold, ownership, requestVars,
         refreshVars, closeVars
<1>5. LifecycleInv' /\ EveryRuntimeIsOwned' /\ TerminalMeansClosed'
  BY DEF IInv, LifecycleInv, EveryRuntimeIsOwned, TerminalMeansClosed, Connect, Hold,
         ownership, requestVars, refreshVars, closeVars
<1> QED BY <1>1, <1>2, <1>3, <1>4, <1>5 DEF IInv

\* It ends without having touched a lease.
LEMMA ConnectEndsStep == ASSUME IInv, ConnectEnds PROVE IInv'
<1>1. TypeOK'
  BY DEF IInv, TypeOK, Catalogs, Listed, Steps, ConnectEnds, Unlock, ownership, requestVars,
         closeVars
<1>2. LeaseInv'
  BY LeaseUnchanged
     DEF IInv, ControlInv, ConnectEnds, Unlock, ownership, requestVars, closeVars
<1>3. RefreshInv'
  BY DEF IInv, TypeOK, LifecycleInv, RefreshInv, ControlInv, ConnectEnds, Unlock, ownership,
         requestVars, closeVars
<1>4. ControlInv'
  BY DEF IInv, TypeOK, LifecycleInv, ControlInv, ConnectEnds, Unlock, ownership,
         requestVars, closeVars
<1>5. LifecycleInv' /\ EveryRuntimeIsOwned' /\ TerminalMeansClosed'
  BY DEF IInv, LifecycleInv, EveryRuntimeIsOwned, TerminalMeansClosed, ConnectEnds, Unlock,
         ownership, requestVars, closeVars
<1> QED BY <1>1, <1>2, <1>3, <1>4, <1>5 DEF IInv

\* The explicit refresh leases the current generation,
LEMMA ExplicitStartsStep == ASSUME IInv, ExplicitStarts PROVE IInv'
<1>1. TypeOK'
  BY DEF IInv, TypeOK, Steps, ExplicitStarts, Hold, ownership, requestVars, refreshVars,
         closeVars
<1>2. LeaseInv'
  <2>1. current \in Runtimes BY DEF IInv, TypeOK
  <2>2. \A r \in Runtimes : leases'[r] = IF r = current THEN leases[r] + 1 ELSE leases[r]
    BY <2>1 DEF IInv, TypeOK, ExplicitStarts
  <2>3. step # "listing" /\ step' = "listing" BY DEF ExplicitStarts, Hold
  <2>4. ASSUME NEW r \in Runtimes PROVE leases'[r] =
            Cardinality(Users(r)) + One(background[r] \in {"listing", "cancelled"})
              + One(step' = "listing" /\ r = current)
    <3>1. Cardinality(Users(r)) \in Nat BY FS_CardinalityType DEF IInv, LeaseInv
    <3>2. /\ One(background[r] \in {"listing", "cancelled"}) \in {0, 1}
          /\ One(step = "listing" /\ r = current) = IF FALSE THEN 1 ELSE 0
          /\ One(step' = "listing" /\ r = current) = IF r = current THEN 1 ELSE 0
      BY <2>3 DEF One
    <3> QED BY <2>2, <3>1, <3>2 DEF IInv, LeaseInv
  <2> QED
    BY <2>4 DEF IInv, LeaseInv, Users, ExplicitStarts, ownership, requestVars, refreshVars
<1>3. LifecycleInv'
  BY DEF IInv, TypeOK, LifecycleInv, RefreshInv, ControlInv, ExplicitStarts, Hold,
         ownership, requestVars, refreshVars, closeVars
<1>4. RefreshInv'
  BY DEF IInv, TypeOK, LifecycleInv, RefreshInv, ControlInv, ExplicitStarts, Hold,
         ownership, requestVars, refreshVars, closeVars
<1>5. ControlInv'
  BY DEF IInv, TypeOK, LifecycleInv, ControlInv, ExplicitStarts, Hold, ownership,
         requestVars, refreshVars, closeVars
<1>6. TerminalMeansClosed'
  BY DEF IInv, TypeOK, TerminalMeansClosed, ControlInv, LifecycleInv, RefreshInv,
         ExplicitStarts, Hold, ownership, requestVars, refreshVars, closeVars
<1>7. EveryRuntimeIsOwned'
  BY DEF IInv, EveryRuntimeIsOwned, ExplicitStarts, Hold, ownership, requestVars,
         refreshVars, closeVars
<1> QED BY <1>1, <1>2, <1>3, <1>4, <1>5, <1>6, <1>7 DEF IInv

\* and gives the lease back.
LEMMA ExplicitEndsStep == ASSUME IInv, ExplicitEnds PROVE IInv'
<1>1. TypeOK'
  <2>1. leases[current] > 0 BY ExplicitCounts DEF IInv, ExplicitEnds
  <2> QED
    BY <2>1, CleanupsAfterType
       DEF IInv, TypeOK, Catalogs, Listed, Steps, ReleaseLease, Unlock, ExplicitEnds,
           ownership, requestVars, closeVars
<1>2. LeaseInv'
  <2>1. current \in Runtimes BY DEF IInv, TypeOK
  <2>2. \A r \in Runtimes : leases'[r] = IF r = current THEN leases[r] - 1 ELSE leases[r]
    BY <2>1 DEF IInv, TypeOK, ExplicitEnds, ReleaseLease
  <2>3. step = "listing" /\ step' # "listing" BY DEF ExplicitEnds, Unlock
  <2>4. ASSUME NEW r \in Runtimes PROVE leases'[r] =
            Cardinality(Users(r)) + One(background[r] \in {"listing", "cancelled"})
              + One(step' = "listing" /\ r = current)
    <3>1. Cardinality(Users(r)) \in Nat BY FS_CardinalityType DEF IInv, LeaseInv
    <3>2. /\ One(background[r] \in {"listing", "cancelled"}) \in {0, 1}
          /\ One(step = "listing" /\ r = current) = IF r = current THEN 1 ELSE 0
          /\ One(step' = "listing" /\ r = current) = IF FALSE THEN 1 ELSE 0
      BY <2>3 DEF One
    <3> QED BY <2>2, <3>1, <3>2 DEF IInv, LeaseInv
  <2> QED BY <2>4 DEF IInv, LeaseInv, Users, ExplicitEnds, ownership, requestVars
<1>3. LifecycleInv'
  <2>1. leases[current] > 0 BY ExplicitCounts DEF IInv, ExplicitEnds
  <2> QED
    BY <2>1
       DEF IInv, TypeOK, LifecycleInv, ReleaseLease, CleanupsAfter, ExplicitEnds, ownership,
           requestVars, closeVars
<1>4. RefreshInv'
  BY DEF IInv, TypeOK, LifecycleInv, RefreshInv, ControlInv, ExplicitEnds, Unlock,
         ownership, requestVars, closeVars
<1>5. ControlInv'
  BY DEF IInv, TypeOK, LifecycleInv, ControlInv, ExplicitEnds, Unlock, ownership,
         requestVars, closeVars
<1>6. TerminalMeansClosed'
  <2>1. leases[current] > 0 BY ExplicitCounts DEF IInv, ExplicitEnds
  <2> QED
    BY <2>1
       DEF IInv, TypeOK, TerminalMeansClosed, ReleaseLease, ExplicitEnds, ownership,
           requestVars, closeVars
<1>7. EveryRuntimeIsOwned'
  BY DEF IInv, EveryRuntimeIsOwned, ExplicitEnds, Unlock, ownership, requestVars, closeVars
<1> QED BY <1>1, <1>2, <1>3, <1>4, <1>5, <1>6, <1>7 DEF IInv

\* replace() takes the unpublished runtimes to clean up.
LEMMA ReplaceRetriesStep == ASSUME IInv, ReplaceRetries PROVE IInv'
<1>1. TypeOK'
  BY DEF IInv, TypeOK, Steps, ReplaceRetries, Hold, ownership, requestVars, refreshVars,
         closeVars
<1>2. LeaseInv'
  BY LeaseUnchanged
     DEF IInv, ControlInv, ReplaceRetries, Hold, ownership, requestVars, refreshVars,
         closeVars
<1>3. RefreshInv'
  BY DEF IInv, TypeOK, LifecycleInv, RefreshInv, ControlInv, ReplaceRetries, Hold,
         ownership, requestVars, refreshVars, closeVars
<1>4. ControlInv'
  BY DEF IInv, TypeOK, LifecycleInv, ControlInv, ReplaceRetries, Hold, ownership,
         requestVars, refreshVars, closeVars
<1>5. LifecycleInv' /\ EveryRuntimeIsOwned' /\ TerminalMeansClosed'
  BY DEF IInv, LifecycleInv, EveryRuntimeIsOwned, TerminalMeansClosed, ReplaceRetries, Hold,
         ownership, requestVars, refreshVars, closeVars
<1> QED BY <1>1, <1>2, <1>3, <1>4, <1>5 DEF IInv

\* An unpublished runtime is cleaned up, or stays owned.
LEMMA AdminCleansStep == ASSUME IInv, AdminCleans PROVE IInv'
<1>1. TypeOK'
  BY DEF IInv, TypeOK, AdminCleans, CleanUnpublished, requestVars, refreshVars, closeVars
<1>2. LifecycleInv'
  BY DEF IInv, TypeOK, LifecycleInv, RefreshInv, ControlInv, AdminCleans, CleanUnpublished,
         requestVars, refreshVars, closeVars
<1>3. ControlInv'
  BY DEF IInv, TypeOK, LifecycleInv, ControlInv, AdminCleans, CleanUnpublished, requestVars,
         refreshVars, closeVars
<1>4. EveryRuntimeIsOwned'
  BY DEF IInv, TypeOK, EveryRuntimeIsOwned, LifecycleInv, AdminCleans, CleanUnpublished,
         requestVars, refreshVars, closeVars
<1>5. TerminalMeansClosed'
  BY DEF IInv, TypeOK, TerminalMeansClosed, ControlInv, LifecycleInv, RefreshInv,
         AdminCleans, CleanUnpublished, requestVars, refreshVars, closeVars
<1>6. LeaseInv' /\ RefreshInv'
  BY DEF IInv, LeaseInv, RefreshInv, Users, AdminCleans, CleanUnpublished, requestVars,
         refreshVars, closeVars
<1> QED BY <1>1, <1>2, <1>3, <1>4, <1>5, <1>6 DEF IInv

\* Nothing was built.
LEMMA BuildFailsStep == ASSUME IInv, BuildFails PROVE IInv'
<1>1. TypeOK'
  BY DEF IInv, TypeOK, Steps, BuildFails, Unlock, ownership, requestVars, refreshVars,
         closeVars
<1>2. LeaseInv'
  BY LeaseUnchanged
     DEF IInv, ControlInv, BuildFails, Unlock, ownership, requestVars, refreshVars,
         closeVars
<1>3. RefreshInv'
  BY DEF IInv, TypeOK, LifecycleInv, RefreshInv, ControlInv, BuildFails, Unlock, ownership,
         requestVars, refreshVars, closeVars
<1>4. ControlInv'
  BY DEF IInv, TypeOK, LifecycleInv, ControlInv, BuildFails, Unlock, ownership, requestVars,
         refreshVars, closeVars
<1>5. LifecycleInv' /\ EveryRuntimeIsOwned' /\ TerminalMeansClosed'
  BY DEF IInv, LifecycleInv, EveryRuntimeIsOwned, TerminalMeansClosed, BuildFails, Unlock,
         ownership, requestVars, refreshVars, closeVars
<1> QED BY <1>1, <1>2, <1>3, <1>4, <1>5 DEF IInv

\* A candidate that was not committed is owned as unpublished.
LEMMA CommitFailsStep == ASSUME IInv, CommitFails PROVE IInv'
<1>1. TypeOK'
  <2>1. built + 1 \in Runtimes BY DEF IInv, TypeOK, Runtimes, CommitFails, Building
  <2> QED
    BY <2>1 DEF IInv, TypeOK, Steps, CommitFails, Hold, refreshVars, closeVars, requestVars
<1>2. LeaseInv'
  BY LeaseUnchanged
     DEF IInv, ControlInv, CommitFails, Building, Hold, requestVars, refreshVars, closeVars
<1>3. LifecycleInv'
  <2>1. built + 1 \in Runtimes /\ built + 1 \notin 1..built
    BY DEF IInv, TypeOK, Runtimes, CommitFails, Building
  <2>2. leases[built + 1] = 0 BY <2>1 DEF IInv, TypeOK, LifecycleInv, Runtimes
  <2>3. 1..built' = 1..built \cup {built + 1} /\ current \in 1..built
    BY DEF IInv, TypeOK, LifecycleInv, Runtimes, CommitFails
  <2> QED BY <2>1, <2>2, <2>3 DEF IInv, TypeOK, LifecycleInv, CommitFails, closeVars
<1>4. RefreshInv'
  BY DEF IInv, TypeOK, LifecycleInv, RefreshInv, ControlInv, Runtimes, CommitFails,
         Building, Hold, requestVars, refreshVars, closeVars
<1>5. ControlInv'
  BY DEF IInv, TypeOK, LifecycleInv, ControlInv, Runtimes, CommitFails, Building, Hold,
         requestVars, refreshVars, closeVars
<1>6. EveryRuntimeIsOwned'
  <2>1. 1..built' = 1..built \cup {built + 1} BY DEF IInv, TypeOK, Runtimes, CommitFails
  <2> QED BY <2>1 DEF IInv, EveryRuntimeIsOwned, CommitFails
<1>7. TerminalMeansClosed'
  BY DEF IInv, TypeOK, TerminalMeansClosed, ControlInv, LifecycleInv, RefreshInv, Runtimes,
         CommitFails, Building, Hold, requestVars, refreshVars, closeVars
<1> QED BY <1>1, <1>2, <1>3, <1>4, <1>5, <1>6, <1>7 DEF IInv

\* The failed replacement ends.
LEMMA DiscardedStep == ASSUME IInv, Discarded PROVE IInv'
<1>1. TypeOK'
  BY DEF IInv, TypeOK, Steps, Discarded, Unlock, ownership, requestVars, refreshVars,
         closeVars
<1>2. LeaseInv'
  BY LeaseUnchanged
     DEF IInv, ControlInv, Discarded, Unlock, ownership, requestVars, refreshVars, closeVars
<1>3. RefreshInv'
  BY DEF IInv, TypeOK, LifecycleInv, RefreshInv, ControlInv, Discarded, Unlock, ownership,
         requestVars, refreshVars, closeVars
<1>4. ControlInv'
  BY DEF IInv, TypeOK, LifecycleInv, ControlInv, Discarded, Unlock, ownership, requestVars,
         refreshVars, closeVars
<1>5. LifecycleInv' /\ EveryRuntimeIsOwned' /\ TerminalMeansClosed'
  BY DEF IInv, LifecycleInv, EveryRuntimeIsOwned, TerminalMeansClosed, Discarded, Unlock,
         ownership, requestVars, refreshVars, closeVars
<1> QED BY <1>1, <1>2, <1>3, <1>4, <1>5 DEF IInv

\* Publication retires the previous generation, whose refresh is stopped, and starts
\* its cleanup only without leases.
LEMMA PublishStep == ASSUME IInv, Publish PROVE IInv'
<1>1. TypeOK'
  <2>1. built + 1 \in Runtimes BY DEF IInv, TypeOK, Runtimes, Publish, Building
  <2> QED BY <2>1, CleanupsAfterType
      DEF IInv, TypeOK, Steps, Backgrounds, Publish, Hold, Unlock, closeVars, requestVars
<1>2. LeaseInv'
  <2>1. built + 1 \in Runtimes /\ built + 1 \notin 1..built
    BY DEF IInv, TypeOK, Runtimes, Publish, Building
  <2>2. leases[built + 1] = 0 BY <2>1 DEF IInv, TypeOK, LifecycleInv, Runtimes
  <2>3. background[built + 1] \notin {"listing", "cancelled"}
    BY <2>1, <2>2, Unleased DEF IInv
  <2>4. step = "retrying" /\ step' \in {"awaiting", "none"}
    BY DEF Publish, Building, Hold, Unlock
  <2> QED BY <2>1, <2>3, <2>4, LeaseUnchanged DEF IInv, TypeOK, Publish, requestVars
<1>3. LifecycleInv'
  <2>1. built + 1 \in Runtimes /\ built + 1 \notin 1..built
    BY DEF IInv, TypeOK, Runtimes, Publish, Building
  <2>2. leases[built + 1] = 0 BY <2>1 DEF IInv, TypeOK, LifecycleInv, Runtimes
  <2>3. 1..built' = 1..built \cup {built + 1} /\ current \in 1..built
    BY DEF IInv, TypeOK, LifecycleInv, Runtimes, Publish
  <2>4. current \in Runtimes BY DEF IInv, TypeOK
  <2>5. ~closing BY DEF IInv, ControlInv, Publish, Building
  <2> QED BY <2>1, <2>2, <2>3, <2>4, <2>5, CleanupsAfterOf
      DEF IInv, TypeOK, LifecycleInv, Publish, closeVars
<1>4. RefreshInv'
  <2>1. refreshTask = 0 /\ ~closing BY DEF IInv, RefreshInv, ControlInv, Publish, Building
  <2>2. holder' # "none" => step' = "awaiting" BY DEF Publish, Hold, Unlock
  <2>3. built + 1 \in Runtimes BY DEF IInv, TypeOK, Runtimes, Publish, Building
  <2>4. \A r \in Runtimes : background[r] \notin {"created", "listing"}
    BY <2>1 DEF IInv, RefreshInv, Runtimes
  <2> QED BY <2>1, <2>2, <2>3, <2>4 DEF IInv, TypeOK, RefreshInv, Publish, closeVars
<1>5. ControlInv'
  BY DEF IInv, TypeOK, LifecycleInv, ControlInv, Runtimes, Publish, Building, Hold, Unlock,
         requestVars, closeVars
<1>6. EveryRuntimeIsOwned'
  <2>1. 1..built' = 1..built \cup {built + 1}
    <3>1. built' = built + 1 BY DEF Publish
    <3> QED BY <3>1 DEF IInv, TypeOK, Runtimes
  <2> QED BY <2>1 DEF IInv, EveryRuntimeIsOwned, Publish
<1>7. TerminalMeansClosed'
  BY DEF IInv, ControlInv, TerminalMeansClosed, Publish, Building, closeVars
<1> QED BY <1>1, <1>2, <1>3, <1>4, <1>5, <1>6, <1>7 DEF IInv

\* replace() returns when the cleanup it awaited ended.
LEMMA ReplaceReturnsStep == ASSUME IInv, ReplaceReturns PROVE IInv'
<1>1. TypeOK'
  BY DEF IInv, TypeOK, Steps, ReplaceReturns, Unlock, ownership, requestVars, refreshVars,
         closeVars
<1>2. LeaseInv'
  BY LeaseUnchanged
     DEF IInv, ControlInv, ReplaceReturns, Unlock, ownership, requestVars, refreshVars,
         closeVars
<1>3. RefreshInv'
  BY DEF IInv, TypeOK, LifecycleInv, RefreshInv, ControlInv, ReplaceReturns, Unlock,
         ownership, requestVars, refreshVars, closeVars
<1>4. ControlInv'
  BY DEF IInv, TypeOK, LifecycleInv, ControlInv, ReplaceReturns, Unlock, ownership,
         requestVars, refreshVars, closeVars
<1>5. LifecycleInv' /\ EveryRuntimeIsOwned' /\ TerminalMeansClosed'
  BY DEF IInv, LifecycleInv, EveryRuntimeIsOwned, TerminalMeansClosed, ReplaceReturns,
         Unlock, ownership, requestVars, refreshVars, closeVars
<1> QED BY <1>1, <1>2, <1>3, <1>4, <1>5 DEF IInv

\* A cancelled operation gives back the lease of its refresh, and only that.
LEMMA CancelAdminStep == ASSUME IInv, CancelAdmin PROVE IInv'
<1>1. TypeOK'
  <2>1. CASE step = "listing"
    <3>1. leases[current] > 0 BY <2>1, ExplicitCounts DEF IInv
    <3> QED
      BY <2>1, <3>1, CleanupsAfterType
         DEF IInv, TypeOK, Steps, ReleaseLease, Unlock, CancelAdmin, ownership, requestVars,
             refreshVars, closeVars
  <2>2. CASE step # "listing"
    BY <2>2
       DEF IInv, TypeOK, Steps, Unlock, CancelAdmin, ownership, requestVars, refreshVars,
           closeVars
  <2> QED BY <2>1, <2>2
<1>2. LeaseInv'
  <2>1. CASE step = "listing"
    <3>1. current \in Runtimes BY DEF IInv, TypeOK
    <3>2. \A r \in Runtimes : leases'[r] = IF r = current THEN leases[r] - 1 ELSE leases[r]
      BY <2>1, <3>1 DEF IInv, TypeOK, CancelAdmin, ReleaseLease
    <3>3. step = "listing" /\ step' # "listing" BY <2>1 DEF CancelAdmin, Unlock
    <3>4. ASSUME NEW r \in Runtimes PROVE leases'[r] =
              Cardinality(Users(r)) + One(background[r] \in {"listing", "cancelled"})
                + One(step' = "listing" /\ r = current)
      <4>1. Cardinality(Users(r)) \in Nat BY FS_CardinalityType DEF IInv, LeaseInv
      <4>2. /\ One(background[r] \in {"listing", "cancelled"}) \in {0, 1}
            /\ One(step = "listing" /\ r = current) = IF r = current THEN 1 ELSE 0
            /\ One(step' = "listing" /\ r = current) = IF FALSE THEN 1 ELSE 0
        BY <3>3 DEF One
      <4> QED BY <3>2, <4>1, <4>2 DEF IInv, LeaseInv
    <3> QED
      BY <3>4 DEF IInv, LeaseInv, Users, CancelAdmin, ownership, requestVars, refreshVars
  <2>2. CASE step # "listing"
    BY <2>2, LeaseUnchanged
       DEF IInv, Unlock, CancelAdmin, ownership, requestVars, refreshVars, closeVars
  <2> QED BY <2>1, <2>2
<1>3. LifecycleInv'
  <2>1. CASE step = "listing"
    <3>1. leases[current] > 0 BY <2>1, ExplicitCounts DEF IInv
    <3> QED
      BY <2>1, <3>1
         DEF IInv, TypeOK, LifecycleInv, ReleaseLease, CleanupsAfter, CancelAdmin,
             ownership, requestVars, refreshVars, closeVars
  <2>2. CASE step # "listing"
    BY <2>2
       DEF IInv, LifecycleInv, CancelAdmin, ownership, requestVars, refreshVars, closeVars
  <2> QED BY <2>1, <2>2
<1>4. RefreshInv'
  BY DEF IInv, TypeOK, LifecycleInv, RefreshInv, ControlInv, CancelAdmin, Unlock, ownership,
         requestVars, refreshVars, closeVars
<1>5. ControlInv'
  BY DEF IInv, TypeOK, LifecycleInv, ControlInv, CancelAdmin, Unlock, ownership,
         requestVars, refreshVars, closeVars
<1>6. TerminalMeansClosed'
  <2>1. CASE step = "listing"
    <3>1. leases[current] > 0 BY <2>1, ExplicitCounts DEF IInv
    <3> QED
      BY <2>1, <3>1
         DEF IInv, TypeOK, TerminalMeansClosed, ReleaseLease, CancelAdmin, ownership,
             requestVars, refreshVars, closeVars
  <2>2. CASE step # "listing"
    BY <2>2
       DEF IInv, TerminalMeansClosed, CancelAdmin, ownership, requestVars, refreshVars,
           closeVars
  <2> QED BY <2>1, <2>2
<1>7. EveryRuntimeIsOwned'
  BY DEF IInv, EveryRuntimeIsOwned, CancelAdmin, Unlock, ownership, requestVars,
         refreshVars, closeVars
<1> QED BY <1>1, <1>2, <1>3, <1>4, <1>5, <1>6, <1>7 DEF IInv

\* close() stops the background refresh and lets nobody else in.
LEMMA CloseStartsStep == ASSUME IInv, CloseStarts PROVE IInv'
<1>1. TypeOK'
  BY DEF IInv, TypeOK, Backgrounds, Steps, CloseStarts, CancelRefresh, Hold, ownership,
         requestVars
<1>2. LeaseInv'
  BY LeaseUnchanged
     DEF IInv, ControlInv, CloseStarts, CancelRefresh, Hold, ownership, requestVars
<1>3. LifecycleInv'
  BY DEF IInv, TypeOK, LifecycleInv, RefreshInv, ControlInv, CloseStarts, CancelRefresh,
         Hold, ownership, requestVars
<1>4. RefreshInv'
  BY DEF IInv, TypeOK, LifecycleInv, RefreshInv, ControlInv, CloseStarts, CancelRefresh,
         Hold, ownership, requestVars
<1>5. ControlInv'
  BY DEF IInv, TypeOK, LifecycleInv, ControlInv, CloseStarts, CancelRefresh, Hold,
         ownership, requestVars
<1>6. TerminalMeansClosed'
  BY DEF IInv, TypeOK, TerminalMeansClosed, ControlInv, LifecycleInv, RefreshInv,
         CloseStarts, CancelRefresh, Hold, ownership, requestVars
<1>7. EveryRuntimeIsOwned'
  BY DEF IInv, EveryRuntimeIsOwned, CloseStarts, CancelRefresh, Hold, ownership, requestVars
<1> QED BY <1>1, <1>2, <1>3, <1>4, <1>5, <1>6, <1>7 DEF IInv

\* It retires the current generation.
LEMMA CloseRetiresStep == ASSUME IInv, CloseRetires PROVE IInv'
<1>1. TypeOK' BY DEF IInv, TypeOK, Steps, CloseRetires, requestVars, refreshVars
<1>2. LeaseInv'
  BY LeaseUnchanged DEF IInv, ControlInv, CloseRetires, requestVars, refreshVars
<1>3. LifecycleInv'
  <2>1. current \in 1..built BY DEF IInv, TypeOK, LifecycleInv, Runtimes
  <2>2. closing BY DEF IInv, ControlInv, CloseRetires
  <2>3. closing' BY <2>2 DEF CloseRetires
  <2> QED BY <2>1, <2>3 DEF IInv, LifecycleInv, CloseRetires
<1>4. RefreshInv'
  BY DEF IInv, TypeOK, LifecycleInv, RefreshInv, ControlInv, CloseRetires, requestVars,
         refreshVars
<1>5. ControlInv'
  BY DEF IInv, TypeOK, LifecycleInv, ControlInv, CloseRetires, requestVars, refreshVars
<1>6. EveryRuntimeIsOwned'
  BY DEF IInv, TypeOK, EveryRuntimeIsOwned, LifecycleInv, CloseRetires, requestVars,
         refreshVars
<1>7. TerminalMeansClosed'
  BY DEF IInv, TerminalMeansClosed, CloseRetires, requestVars, refreshVars
<1> QED BY <1>1, <1>2, <1>3, <1>4, <1>5, <1>6, <1>7 DEF IInv

\* Once drained it starts or joins the cleanups.
LEMMA CloseDrainedStep == ASSUME IInv, CloseDrained PROVE IInv'
<1>1. TypeOK'
  BY CleanupsAfterType
     DEF IInv, TypeOK, CloseDrained, CleanupsAfter, ownership, requestVars, refreshVars,
         adminVars
<1>2. LifecycleInv'
  BY DEF IInv, TypeOK, LifecycleInv, RefreshInv, ControlInv, CloseDrained, CleanupsAfter,
         ownership, requestVars, refreshVars, adminVars
<1>3. ControlInv'
  BY DEF IInv, TypeOK, LifecycleInv, ControlInv, CloseDrained, CleanupsAfter, ownership,
         requestVars, refreshVars, adminVars
<1>4. LeaseInv' /\ RefreshInv' /\ EveryRuntimeIsOwned' /\ TerminalMeansClosed'
  BY DEF IInv, LeaseInv, RefreshInv, EveryRuntimeIsOwned, TerminalMeansClosed, Users,
         CloseDrained, CleanupsAfter, ownership, requestVars, refreshVars, adminVars
<1> QED BY <1>1, <1>2, <1>3, <1>4 DEF IInv

\* When they ended it turns to the unpublished runtimes.
LEMMA CloseCollectsStep == ASSUME IInv, CloseCollects PROVE IInv'
<1>1. TypeOK' BY DEF IInv, TypeOK, CloseCollects, ownership, requestVars, refreshVars
<1>2. ControlInv'
  BY DEF IInv, TypeOK, LifecycleInv, ControlInv, CloseCollects, ownership, requestVars,
         refreshVars
<1>3. LeaseInv' /\ LifecycleInv' /\ RefreshInv' /\ EveryRuntimeIsOwned' /\ TerminalMeansClosed'
  BY DEF IInv, LeaseInv, LifecycleInv, RefreshInv, EveryRuntimeIsOwned, TerminalMeansClosed,
         Users, CloseCollects, ownership, requestVars, refreshVars
<1> QED BY <1>1, <1>2, <1>3 DEF IInv

\* An unpublished runtime is cleaned up, or stays owned.
LEMMA CloserCleansStep == ASSUME IInv, CloserCleans PROVE IInv'
<1>1. TypeOK'
  BY DEF IInv, TypeOK, CloserCleans, CleanUnpublished, requestVars, refreshVars, closeVars
<1>2. LifecycleInv'
  BY DEF IInv, TypeOK, LifecycleInv, RefreshInv, ControlInv, CloserCleans, CleanUnpublished,
         requestVars, refreshVars, closeVars
<1>3. ControlInv'
  BY DEF IInv, TypeOK, LifecycleInv, ControlInv, CloserCleans, CleanUnpublished,
         requestVars, refreshVars, closeVars
<1>4. EveryRuntimeIsOwned'
  BY DEF IInv, TypeOK, EveryRuntimeIsOwned, LifecycleInv, CloserCleans, CleanUnpublished,
         requestVars, refreshVars, closeVars
<1>5. TerminalMeansClosed'
  BY DEF IInv, TypeOK, TerminalMeansClosed, ControlInv, LifecycleInv, RefreshInv,
         CloserCleans, CleanUnpublished, requestVars, refreshVars, closeVars
<1>6. LeaseInv' /\ RefreshInv'
  BY DEF IInv, LeaseInv, RefreshInv, Users, CloserCleans, CleanUnpublished, requestVars,
         refreshVars, closeVars
<1> QED BY <1>1, <1>2, <1>3, <1>4, <1>5, <1>6 DEF IInv

\* Nothing left to own: every runtime is closed, so nothing is leased or refreshed.
LEMMA CloseReturnsStep == ASSUME IInv, CloseReturns PROVE IInv'
<1>1. TypeOK'
  BY DEF IInv, TypeOK, Catalogs, NoCatalog, CloseReturns, ownership, requestVars, adminVars
<1>2. ControlInv'
  BY DEF IInv, TypeOK, LifecycleInv, ControlInv, CloseReturns, ownership, requestVars,
         adminVars
<1>3. TerminalMeansClosed'
  <2>1. CASE retired \cup unpublished = {}
    <3>1. 1..built \subseteq cleaned
      BY <2>1 DEF IInv, EveryRuntimeIsOwned, ControlInv, CloseReturns
    <3>2. ASSUME NEW r \in Runtimes PROVE leases[r] = 0
      BY <2>1, <3>1 DEF IInv, TypeOK, LifecycleInv, Runtimes
    <3>3. ASSUME NEW r \in Runtimes PROVE background[r] \in {"none", "finished"}
      <4>1. background[r] \notin {"listing", "cancelled"} BY <3>2, Unleased DEF IInv
      <4>2. background[r] # "created"
        BY DEF IInv, TypeOK, RefreshInv, ControlInv, CloseReturns, Runtimes
      <4> QED BY <4>1, <4>2 DEF IInv, TypeOK, Backgrounds
    <3> QED BY <3>1, <3>2, <3>3 DEF TerminalMeansClosed, CloseReturns, ownership
  <2>2. CASE retired \cup unpublished # {}
    BY <2>2 DEF IInv, TerminalMeansClosed, CloseReturns, ownership
  <2> QED BY <2>1, <2>2
<1>4. LeaseInv' /\ LifecycleInv' /\ RefreshInv' /\ EveryRuntimeIsOwned'
  BY DEF IInv, LeaseInv, LifecycleInv, RefreshInv, EveryRuntimeIsOwned, Users, CloseReturns,
         ownership, requestVars, adminVars
<1> QED BY <1>1, <1>2, <1>3, <1>4 DEF IInv

\* A cancelled close() owns what it owned.
LEMMA CancelCloseStep == ASSUME IInv, CancelClose PROVE IInv'
<1>1. TypeOK'
  BY DEF IInv, TypeOK, Steps, CancelClose, Unlock, ownership, requestVars, refreshVars
<1>2. LeaseInv'
  BY LeaseUnchanged
     DEF IInv, ControlInv, CancelClose, Unlock, ownership, requestVars, refreshVars
<1>3. RefreshInv'
  BY DEF IInv, TypeOK, LifecycleInv, RefreshInv, ControlInv, CancelClose, Unlock, ownership,
         requestVars, refreshVars
<1>4. ControlInv'
  BY DEF IInv, TypeOK, LifecycleInv, ControlInv, CancelClose, Unlock, ownership,
         requestVars, refreshVars
<1>5. LifecycleInv' /\ EveryRuntimeIsOwned' /\ TerminalMeansClosed'
  BY DEF IInv, LifecycleInv, EveryRuntimeIsOwned, TerminalMeansClosed, CancelClose, Unlock,
         ownership, requestVars, refreshVars
<1> QED BY <1>1, <1>2, <1>3, <1>4, <1>5 DEF IInv

------------------------------------------------------------------------------
(* Theorems                                                                 *)

\* The invariant behind every promise below holds in every reachable state.
THEOREM Invariance == Spec => []IInv
<1>1. Init => IInv
  <2> SUFFICES ASSUME Init PROVE IInv OBVIOUS
  <2>1. TypeOK
    <3>1. 1 \in Runtimes BY DEF Runtimes
    <3>2. request \in [Requests -> [at : {"idle", "using", "awaiting"}, on : Runtimes \cup {0}]]
      BY DEF Init
    <3>3. catalog \in Catalogs BY DEF Init, Catalogs, NoCatalog
    <3> QED BY <3>1, <3>2, <3>3 DEF Init, TypeOK, Backgrounds, Steps
  <2>2. LeaseInv
    <3>1. \A r \in Runtimes : Users(r) = {} BY DEF Init, Users
    <3> QED BY <3>1, FS_EmptySet DEF Init, LeaseInv, One
  <2>3. LifecycleInv /\ RefreshInv /\ ControlInv
    BY DEF Init, LifecycleInv, RefreshInv, ControlInv, Runtimes
  <2>4. EveryRuntimeIsOwned /\ TerminalMeansClosed
    BY DEF Init, EveryRuntimeIsOwned, TerminalMeansClosed
  <2> QED BY <2>1, <2>2, <2>3, <2>4 DEF IInv
<1>2. IInv /\ [Next]_vars => IInv'
  <2> SUFFICES ASSUME IInv, [Next]_vars PROVE IInv' OBVIOUS
  <2>1. CASE Begin
    BY <2>1, AcquireStep, EnterStep, ConnectStep, CloseStartsStep DEF Begin
  <2>2. CASE Cancel
    BY <2>2, CancelReleaseStep, CancelAdminStep, CancelCloseStep DEF Cancel
  <2>3. CASE AdminStep
    BY <2>3, ConnectEndsStep, ExplicitStartsStep, ExplicitEndsStep, ReplaceRetriesStep,
       AdminCleansStep, BuildFailsStep, CommitFailsStep, PublishStep, DiscardedStep,
       ReplaceReturnsStep DEF AdminStep
  <2>4. CASE CloseStep
    BY <2>4, CloseRetiresStep, CloseDrainedStep, CloseCollectsStep, CloserCleansStep,
       CloseReturnsStep DEF CloseStep
  <2>5. CASE \E q \in Requests : Release(q) \/ ReleaseReturns(q)
    BY <2>5, ReleaseStep, ReleaseReturnsStep
  <2>6. CASE \E r \in Runtimes : BackgroundStep(r) \/ CleanupEnds(r)
    BY <2>6, BackgroundStartsStep, BackgroundEndsStep, BackgroundStopsStep,
       CleanupSucceedsStep, CleanupFailsStep DEF BackgroundStep, CleanupEnds
  <2>7. CASE UNCHANGED vars
    <3> USE <2>7 DEF vars, ownership, requestVars, refreshVars, adminVars, closeVars
    <3>1. TypeOK' BY DEF IInv, TypeOK
    <3>2. LeaseInv' BY LeaseUnchanged DEF IInv
    <3>3. LifecycleInv' /\ RefreshInv' /\ ControlInv'
      BY DEF IInv, LifecycleInv, RefreshInv, ControlInv
    <3>4. EveryRuntimeIsOwned' /\ TerminalMeansClosed'
      BY DEF IInv, EveryRuntimeIsOwned, TerminalMeansClosed
    <3> QED BY <3>1, <3>2, <3>3, <3>4 DEF IInv
  <2> QED BY <2>1, <2>2, <2>3, <2>4, <2>5, <2>6, <2>7 DEF Next
<1> QED BY <1>1, <1>2, PTL DEF Spec

\* The manager's state keeps its type; active_leases never becomes negative.
THEOREM Typing == Spec => []TypeOK
BY Invariance, PTL DEF IInv

\* A runtime somebody uses is neither being cleaned up nor closed: leases
\* protect requests and refreshes, the lock the change of an account.
THEOREM UsedRuntimesAreOpen == Spec => []RuntimeInUseIsOpen
<1>1. IInv => RuntimeInUseIsOpen
  <2> SUFFICES ASSUME IInv, NEW r \in Runtimes, InUse(r)
               PROVE  cleanups[r] = 0 /\ r \notin cleaned
    BY DEF RuntimeInUseIsOpen
  <2>1. CASE step = "connecting" /\ r = current
    BY <2>1 DEF IInv, TypeOK, LifecycleInv, ControlInv
  <2>2. CASE leases[r] > 0
    BY <2>2 DEF IInv, TypeOK, LifecycleInv
  <2>3. (step = "connecting" /\ r = current) \/ leases[r] > 0
    BY UserCounts, BackgroundCounts, ExplicitCounts DEF IInv, InUse
  <2> QED BY <2>1, <2>2, <2>3
<1> QED BY <1>1, Invariance, PTL

\* The last release, the replacement and close() close a generation once.
THEOREM NoDoubleCleanup == Spec => []ClosedExactlyOnce
<1>1. IInv => ClosedExactlyOnce BY DEF IInv, TypeOK, LifecycleInv, ClosedExactlyOnce
<1> QED BY <1>1, Invariance, PTL

\* No runtime is lost, whatever fails or is cancelled.
THEOREM Ownership == Spec => []EveryRuntimeIsOwned
BY Invariance, PTL DEF IInv

\* close() leaves nothing open and nothing running.
THEOREM Termination == Spec => []TerminalMeansClosed
BY Invariance, PTL DEF IInv

\* No refresh of a replaced generation overwrites the catalog.
THEOREM RefreshesAreCurrent == Spec => CatalogIsCurrent
<1>1. IInv /\ [Next]_vars =>
        [catalog' # catalog /\ catalog'.by = "refresh" => catalog'.gen = current]_vars
  <2> SUFFICES ASSUME IInv, Next, catalog' # catalog, catalog'.by = "refresh"
               PROVE  catalog'.gen = current
    OBVIOUS
  <2>1. CASE ConnectEnds \/ ExplicitEnds
    BY <2>1 DEF ConnectEnds, ExplicitEnds, Listed
  <2>2. CASE \E r \in Runtimes : BackgroundEnds(r)
    <3>1. PICK r \in Runtimes : BackgroundEnds(r) BY <2>2
    <3>2. refreshTask = r BY <3>1 DEF IInv, RefreshInv, BackgroundEnds
    <3>3. r = current BY <3>2 DEF IInv, RefreshInv, Runtimes
    <3> QED BY <3>1, <3>3 DEF BackgroundEnds, Listed
  <2>3. CASE \E q \in Requests : ReleaseReturns(q)
    BY <2>3 DEF ReleaseReturns
  <2>4. CASE CloseReturns
    BY <2>4 DEF CloseReturns, NoCatalog
  <2>5. CASE UNCHANGED catalog BY <2>5
  <2>6. \/ ConnectEnds \/ ExplicitEnds \/ \E r \in Runtimes : BackgroundEnds(r)
        \/ \E q \in Requests : ReleaseReturns(q)
        \/ CloseReturns \/ UNCHANGED catalog
    <3>1. CASE Begin
      BY <3>1 DEF Begin, Acquire, Enter, Connect, CloseStarts, refreshVars
    <3>2. CASE Cancel
      BY <3>2 DEF Cancel, CancelRelease, CancelAdmin, CancelClose, refreshVars
    <3>3. CASE AdminStep
      BY <3>3 DEF AdminStep, ExplicitStarts, ReplaceRetries, AdminCleans, CleanUnpublished,
                  BuildFails, CommitFails, Publish, Discarded, ReplaceReturns, refreshVars
    <3>4. CASE CloseStep
      BY <3>4 DEF CloseStep, CloseRetires, CloseDrained, CloseCollects, CloserCleans,
                  CleanUnpublished, refreshVars
    <3>5. CASE \E q \in Requests : Release(q) \/ ReleaseReturns(q)
      BY <3>5 DEF Release, refreshVars
    <3>6. CASE \E r \in Runtimes : BackgroundStep(r) \/ CleanupEnds(r)
      BY <3>6 DEF BackgroundStep, BackgroundStarts, BackgroundStops, CleanupEnds,
                  CleanupSucceeds, CleanupFails, refreshVars
    <3> QED BY <3>1, <3>2, <3>3, <3>4, <3>5, <3>6 DEF Next
  <2> QED BY <2>1, <2>2, <2>3, <2>4, <2>5, <2>6
<1> QED BY <1>1, Invariance, PTL DEF Spec, CatalogIsCurrent

\* No runtime is closed while it is used, and none is forgotten before it is closed.
THEOREM KeptRuntimes == Spec => []RuntimesAreKept
<1>1. RuntimeInUseIsOpen /\ EveryRuntimeIsOwned => RuntimesAreKept
  BY DEF RuntimesAreKept
<1> QED BY <1>1, UsedRuntimesAreOpen, Ownership, PTL

\* Each runtime is cleaned up once, and all of them before close() is final.
THEOREM ExactCleanups == Spec => []CleanupsAreExact
<1>1. ClosedExactlyOnce /\ TerminalMeansClosed => CleanupsAreExact
  BY DEF CleanupsAreExact
<1> QED BY <1>1, NoDoubleCleanup, Termination, PTL

-----------------------------------------------------------------------------
(***************************************************************************)
(* ModelCatalog.  The offers are good because every cached listing was     *)
(* read from an answer of its provider (CacheInv), and because every entry *)
(* of the catalog file was made for a model, and made anew with whatever   *)
(* changed, or the file is known to lag (CatalogFileInv).                  *)
(***************************************************************************)
\* The ids under which a model is listed, and what they promise.
IsGood(e) ==
    /\ e \in Entries
    /\ \/ e.id = Ref(e.target) /\ e.reasons
       \/ e.id = GatewayId(e.target) /\ e.reasons
       \/ e.id = NoThinkingId(e.target) /\ ~e.reasons

\* What a cache keeps: listings read from an answer of their provider.
IsRead(p, listing) == \E answer \in Answers[p] : listing \in Listings(p, answer)
IsCache(cache) ==
    /\ cache = [p \in DOMAIN cache |-> cache[p]]
    /\ \A p \in DOMAIN cache : p \in Providers /\ IsRead(p, cache[p])

CacheInv == IsCache(modelCache) /\ DOMAIN modelCache \subseteq scope

CatalogFileInv ==
    /\ starting => lagging /\ discovering = NoTask /\ locked = NoTask /\ checked = {}
    /\ ~lagging => codexFile = Codex(routing, modelCache)
    /\ \A e \in codexFile : IsGood(e)

CatalogInv == CatalogTypeOK /\ CacheInv /\ CatalogFileInv

LEMMA Prefixed ==
    ASSUME NEW S, NEW x \in S, NEW q \in Seq(S)
    PROVE  /\ <<x>> \o q \in Seq(S) /\ Len(<<x>> \o q) = Len(q) + 1
           /\ Head(<<x>> \o q) = x /\ Tail(<<x>> \o q) = q /\ Len(q) \in Nat
<1> DEFINE n == <<x>> \o q
<1>1. <<x>> \in Seq(S) /\ Len(<<x>>) = 1 /\ <<x>>[1] = x OBVIOUS
<1>2. Len(q) \in Nat /\ q = [k \in 1..Len(q) |-> q[k]] BY LenProperties
<1>3. /\ n \in Seq(S) /\ Len(n) = Len(q) + 1
      /\ \A k \in 1..Len(n) : n[k] = IF k <= 1 THEN <<x>>[k] ELSE q[k - 1]
  BY <1>1, <1>2, ConcatProperties
<1> HIDE DEF n
<1>4. n # << >> BY <1>2, <1>3
<1>5. Head(n) = x
  <2>1. Head(n) = n[1] BY <1>3, <1>4, HeadTailProperties
  <2>2. 1 \in 1..Len(n) BY <1>2, <1>3
  <2> QED BY <1>1, <1>3, <2>1, <2>2
<1>6. Tail(n) = q
  <2>1. /\ Tail(n) \in Seq(S) /\ Len(Tail(n)) = Len(q)
        /\ \A k \in 1..Len(Tail(n)) : Tail(n)[k] = n[k + 1]
    BY <1>2, <1>3, <1>4, HeadTailProperties
  <2>2. \A k \in 1..Len(q) : Tail(n)[k] = q[k]
    <3> TAKE k \in 1..Len(q)
    <3>1. k + 1 \in 1..Len(n) /\ ~(k + 1 <= 1) /\ (k + 1) - 1 = k BY <1>2, <1>3
    <3> QED BY <1>3, <2>1, <3>1
  <2> QED BY <2>1, <2>2, SeqEqual
<1> QED BY <1>2, <1>3, <1>5, <1>6 DEF n

\* Every id of a model decodes to it, and only the one without thinking turns
\* reasoning off.
LEMMA IdsDecode ==
    ASSUME NEW t \in Targets
    PROVE  /\ Direct(Ref(t)) = t /\ ~ForcesOff(Ref(t))
           /\ Direct(GatewayId(t)) = t /\ ~ForcesOff(GatewayId(t))
           /\ Direct(NoThinkingId(t)) = t /\ ForcesOff(NoThinkingId(t))
           /\ {Ref(t), GatewayId(t), NoThinkingId(t)} \subseteq Seq(Segments)
           /\ NoThinkingId(t) # Ref(t) /\ GatewayId(t) # Ref(t)
           /\ GatewayId(t) # NoThinkingId(t)
           /\ t # NoTarget
<1> DEFINE p == t.provider
           m == t.model
           r == Ref(t)
           g == GatewayId(t)
           o == NoThinkingId(t)
<1>1. /\ p \in Providers /\ m \in Seq(Segments) /\ m # << >> /\ m # <<NoSegment>>
      /\ t = [provider |-> p, model |-> m]
  BY DEF Targets, Models
<1>2. p \in Segments /\ p # Gateway /\ p # NoThinking /\ p # NoSegment
      /\ Gateway \in Segments /\ NoThinking \in Segments
  BY <1>1, NamesAssumption DEF IdPrefixes
<1>3. Gateway # NoThinking BY DEF Gateway, NoThinking
<1>4. Len(m) \in Nat /\ Len(m) >= 1 BY <1>1, EmptySeq, LenProperties
<1>5. r \in Seq(Segments) /\ Len(r) = Len(m) + 1 /\ Head(r) = p /\ Tail(r) = m
  BY <1>1, <1>2, Prefixed DEF Ref
<1>6. g \in Seq(Segments) /\ Len(g) = Len(r) + 1 /\ Head(g) = Gateway /\ Tail(g) = r
  BY <1>2, <1>5, Prefixed DEF GatewayId
<1>7. o \in Seq(Segments) /\ Len(o) = Len(r) + 1 /\ Head(o) = NoThinking /\ Tail(o) = r
  BY <1>2, <1>5, Prefixed DEF NoThinkingId
<1> HIDE DEF p, m, r, g, o
<1>8. ~IsGatewayId(r) BY <1>2, <1>5 DEF IsGatewayId, IdPrefixes
<1>9. IsGatewayId(g) /\ IsGatewayId(o)
  <2>1. Len(g) > 2 /\ Len(o) > 2 BY <1>4, <1>5, <1>6, <1>7
  <2>2. Tail(Tail(g)) = m /\ Tail(Tail(o)) = m BY <1>5, <1>6, <1>7
  <2>3. Head(g) \in IdPrefixes /\ Head(o) \in IdPrefixes BY <1>6, <1>7 DEF IdPrefixes
  <2> QED BY <1>1, <2>1, <2>2, <2>3, Zenon DEF IsGatewayId
<1>10. Direct(r) = t
  <2>1. Len(r) > 1 BY <1>4, <1>5
  <2>2. IsRef(r) BY <1>1, <1>5, <2>1, Zenon DEF IsRef
  <2>3. Head(r) \in Providers /\ [provider |-> Head(r), model |-> Tail(r)] = t BY <1>1, <1>5
  <2> QED BY <1>8, <2>2, <2>3, Zenon DEF Direct
<1>11. Direct(g) = t /\ Direct(o) = t
  BY <1>1, <1>5, <1>6, <1>7, <1>9 DEF Direct, Decoded
<1>12. ~ForcesOff(r) /\ ~ForcesOff(g) /\ ForcesOff(o)
  BY <1>3, <1>6, <1>7, <1>8, <1>9 DEF ForcesOff
<1>13. t # NoTarget
  <2>1. NoTarget.provider = NoSegment BY DEF NoTarget
  <2> QED BY <1>2, <2>1 DEF p
<1>14. g # r /\ o # r /\ g # o BY <1>2, <1>3, <1>5, <1>6, <1>7
<1> QED BY <1>5, <1>6, <1>7, <1>10, <1>11, <1>12, <1>13, <1>14 DEF r, g, o

\* A good entry routes back under any settings.
LEMMA GoodRoutesBack == ASSUME NEW c, NEW e, IsGood(e) PROVE RoutesBack(c, e)
<1> DEFINE t == e.target
<1>1. t \in Targets BY DEF IsGood, Entries
<1>2. /\ Direct(Ref(t)) = t /\ ~ForcesOff(Ref(t))
      /\ Direct(GatewayId(t)) = t /\ ~ForcesOff(GatewayId(t))
      /\ Direct(NoThinkingId(t)) = t /\ ForcesOff(NoThinkingId(t)) /\ t # NoTarget
  BY <1>1, IdsDecode
<1>3. CASE e.id = Ref(t) /\ e.reasons BY <1>2, <1>3 DEF RoutesBack, PrimaryOf, PreferenceOf
<1>4. CASE e.id = GatewayId(t) /\ e.reasons BY <1>2, <1>4 DEF RoutesBack, PrimaryOf, PreferenceOf
<1>5. CASE e.id = NoThinkingId(t) /\ ~e.reasons BY <1>2, <1>5 DEF RoutesBack, PrimaryOf, PreferenceOf
<1> QED BY <1>3, <1>4, <1>5 DEF IsGood

\* The entries that are made for a model are good.
LEMMA EntriesAreGood ==
    ASSUME NEW t \in Targets
    PROVE  /\ IsGood(Entry(Ref(t), t, TRUE)) /\ IsGood(Entry(GatewayId(t), t, TRUE))
           /\ IsGood(Entry(NoThinkingId(t), t, FALSE))
<1>1. {Ref(t), GatewayId(t), NoThinkingId(t)} \subseteq Seq(Segments) BY IdsDecode
<1> QED BY <1>1 DEF IsGood, Entry, Entries

LEMMA ReadListings ==
    ASSUME NEW p \in Providers, NEW l, IsRead(p, l)
    PROVE  DOMAIN l \subseteq Models /\ \A m \in DOMAIN l : l[m] \in Thinking
BY CatalogAssumption DEF IsRead

LEMMA InventoryIsTyped ==
    ASSUME NEW c \in Configs, NEW cache, IsCache(cache)
    PROVE  Inventory(c, cache) \subseteq Targets /\ Configured(c) \subseteq Targets
<1>1. /\ c.model \in Targets /\ c.tiers \in [Tiers -> Targets \cup {NoTarget}]
      /\ c.fallbacks \in Seq(Targets)
  BY CatalogAssumption DEF ValidRoutes, SettingsOf
<1>2. Configured(c) \subseteq Targets
  <2>1. \A i \in 1..Len(c.fallbacks) : c.fallbacks[i] \in Targets BY <1>1, LenProperties
  <2>2. \A t \in Tiers : c.tiers[t] # NoTarget => c.tiers[t] \in Targets BY <1>1
  <2> QED BY <1>1, <2>1, <2>2 DEF Configured
<1>3. Discovered(cache) \subseteq Targets
  <2> SUFFICES ASSUME NEW p \in DOMAIN cache, NEW m \in DOMAIN cache[p]
               PROVE  [provider |-> p, model |-> m] \in Targets
    BY DEF Discovered
  <2>1. p \in Providers /\ IsRead(p, cache[p]) BY DEF IsCache
  <2>2. m \in Models BY <2>1, ReadListings
  <2> QED BY <2>1, <2>2 DEF Targets
<1> QED BY <1>2, <1>3 DEF Inventory

LEMMA ViewsAreGood ==
    ASSUME NEW c \in Configs, NEW cache, IsCache(cache)
    PROVE  \A e \in ClaudeView(c, cache) \cup DirectView(c, cache) \cup Codex(c, cache) : IsGood(e)
<1>1. Inventory(c, cache) \subseteq Targets /\ Reasoning(c, cache) \subseteq Targets
  BY InventoryIsTyped DEF Reasoning
<1>2. \A e \in ClaudeView(c, cache) : IsGood(e)
  BY <1>1, EntriesAreGood DEF ClaudeView
<1>3. \A e \in DirectView(c, cache) :
         \E t \in Targets : e = Entry(Ref(t), t, TRUE) \/ e = Entry(NoThinkingId(t), t, FALSE)
  BY <1>1 DEF DirectView
<1>4. \A e \in DirectView(c, cache) : IsGood(e) BY <1>3, EntriesAreGood
<1>5. ASSUME NEW e \in Codex(c, cache) PROVE IsGood(e)
  <2>1. PICK d \in DirectView(c, cache) : e = Entry(d.id, d.target, d.id = Ref(d.target))
    BY DEF Codex, ClientModels
  <2>2. PICK t \in Targets : d = Entry(Ref(t), t, TRUE) \/ d = Entry(NoThinkingId(t), t, FALSE)
    BY <1>3
  <2>3. CASE d = Entry(Ref(t), t, TRUE)
    <3>1. d.id = Ref(t) /\ d.target = t BY <2>3 DEF Entry
    <3>2. (d.id = Ref(d.target)) = TRUE BY <3>1
    <3>3. e = Entry(Ref(t), t, TRUE) BY <2>1, <3>1, <3>2
    <3> QED BY <3>3, EntriesAreGood
  <2>4. CASE d = Entry(NoThinkingId(t), t, FALSE)
    <3>1. d.id = NoThinkingId(t) /\ d.target = t BY <2>4 DEF Entry
    <3>2. (d.id = Ref(d.target)) = FALSE BY <3>1, IdsDecode
    <3>3. e = Entry(NoThinkingId(t), t, FALSE) BY <2>1, <3>1, <3>2
    <3> QED BY <3>3, EntriesAreGood
  <2> QED BY <2>2, <2>3, <2>4
<1> QED BY <1>2, <1>4, <1>5

\* What the operations make of a cache.
LEMMA FoundIsRead ==
    ASSUME NEW asked \in SUBSET Providers, NEW found \in Found(asked)
    PROVE  DOMAIN found \subseteq asked /\ \A p \in DOMAIN found : IsRead(p, found[p])
<1>1. PICK s \in SUBSET asked :
         found \in [s -> UNION {Readings(p) : p \in s}] /\ \A p \in s : found[p] \in Readings(p)
  BY DEF Found
<1>2. DOMAIN found = s BY <1>1
<1>3. ASSUME NEW p \in s PROVE IsRead(p, found[p])
  <2>1. found[p] \in UNION {Listings(p, answer) : answer \in Answers[p]} BY <1>1 DEF Readings
  <2>2. PICK answer \in Answers[p] : found[p] \in Listings(p, answer) BY <2>1
  <2> QED BY <2>2 DEF IsRead
<1> QED BY <1>2, <1>3

LEMMA CachingKeeps ==
    ASSUME NEW cache, IsCache(cache), NEW asked \in SUBSET Providers, NEW found \in Found(asked),
           NEW kept
    PROVE  /\ IsCache(Caching(cache, found, kept))
           /\ DOMAIN cache \subseteq kept => DOMAIN Caching(cache, found, kept) \subseteq kept
<1> DEFINE new == Caching(cache, found, kept)
           dom == DOMAIN cache \cup (DOMAIN found \cap kept)
<1>1. DOMAIN found \subseteq asked /\ \A p \in DOMAIN found : IsRead(p, found[p]) BY FoundIsRead
<1>2. /\ new = [p \in dom |-> new[p]] /\ DOMAIN new = dom
      /\ \A p \in dom : new[p] = IF p \in DOMAIN found \cap kept THEN found[p] ELSE cache[p]
  BY DEF Caching
<1> HIDE DEF new
<1>3. \A p \in dom : p \in Providers /\ IsRead(p, new[p]) BY <1>1, <1>2 DEF IsCache
<1> QED BY <1>2, <1>3 DEF IsCache, new

LEMMA WithinKeeps ==
    ASSUME NEW cache, IsCache(cache), NEW kept
    PROVE  /\ IsCache(Within(cache, kept)) /\ DOMAIN Within(cache, kept) \subseteq kept
           /\ DOMAIN Within(cache, kept) \subseteq DOMAIN cache
           /\ DOMAIN Within(cache, kept) = DOMAIN cache => Within(cache, kept) = cache
<1> DEFINE new == Within(cache, kept)
           dom == DOMAIN cache \cap kept
<1>1. DOMAIN new = dom /\ new = [p \in dom |-> cache[p]] BY DEF Within
<1>2. new = [p \in DOMAIN new |-> new[p]] /\ \A p \in dom : new[p] = cache[p] BY <1>1
<1>3. ASSUME dom = DOMAIN cache PROVE new = cache
  <2>1. cache = [p \in DOMAIN cache |-> cache[p]] BY DEF IsCache
  <2> QED BY <1>1, <1>3, <2>1
<1> HIDE DEF new
<1>4. IsCache(new) BY <1>1, <1>2 DEF IsCache
<1> QED BY <1>1, <1>3, <1>4 DEF new

\* What is usable, and whom the discovery asks, is known.
LEMMA UsableIsKnown ==
    ASSUME NEW c \in Configs, NEW accounts \in SUBSET AccountProviders
    PROVE  /\ Usable(c, accounts) \in SUBSET Providers
           /\ Listable(c, accounts) \in SUBSET Providers
           /\ Referenced(c) \in SUBSET Providers
<1>1. c.usable \in SUBSET Providers BY CatalogAssumption DEF ValidRoutes, SettingsOf
<1>2. Usable(c, accounts) \in SUBSET Providers BY <1>1, NamesAssumption DEF Usable
<1>3. Listable(c, accounts) \in SUBSET Providers BY <1>2 DEF Listable
<1>4. IsCache(NoModels) BY DEF IsCache, NoModels
<1>5. Configured(c) \subseteq Targets BY <1>4, InventoryIsTyped
<1>6. \A t \in Targets : t.provider \in Providers BY DEF Targets
<1> QED BY <1>2, <1>3, <1>5, <1>6 DEF Referenced

\* What the catalog may be left as.
CatalogKept(c) ==
    /\ scope' \subseteq Providers /\ IsCache(modelCache') /\ DOMAIN modelCache' \subseteq scope'
    /\ lagging' \in BOOLEAN
    /\ ~lagging' => codexFile' = Codex(c, modelCache')
    /\ \A e \in codexFile' : IsGood(e)

LEMMA PublicationKeeps ==
    ASSUME NEW c \in Configs, NEW cache, IsCache(cache), connected \in SUBSET AccountProviders,
           \A e \in codexFile : IsGood(e), PublishCatalog(c, cache)
    PROVE  CatalogKept(c)
<1> DEFINE kept == Usable(c, connected)
           new == Within(cache, kept)
<1>1. kept \in SUBSET Providers BY UsableIsKnown
<1>2. IsCache(new) /\ DOMAIN new \subseteq kept BY WithinKeeps
<1>3. scope' = kept /\ modelCache' = new BY DEF PublishCatalog
<1>4. \/ codexFile' = Codex(c, new) /\ lagging' = FALSE
      \/ lagging' = TRUE /\ codexFile' = codexFile
  BY DEF PublishCatalog
<1> HIDE DEF kept, new
<1>5. \A e \in Codex(c, new) : IsGood(e) BY <1>2, ViewsAreGood
<1> QED BY <1>1, <1>2, <1>3, <1>4, <1>5 DEF CatalogKept

\* The rest of the invariant after a step.
LEMMA CatalogRebuilt ==
    ASSUME CatalogKept(routing'), starting' \in BOOLEAN, routing' \in Configs,
           connected' \in SUBSET AccountProviders, discovering' \in Task, locked' \in Task,
           checked' \in SUBSET Providers, discoveries' \in 0..MaxDiscoveries,
           starting' => lagging' /\ discovering' = NoTask /\ locked' = NoTask /\ checked' = {}
    PROVE  CatalogInv'
<1>1. \A p \in DOMAIN modelCache' : p \in Providers /\ IsRead(p, modelCache'[p])
  BY DEF CatalogKept, IsCache
<1>2. \A p \in DOMAIN modelCache' : \A m \in DOMAIN modelCache'[p] :
         m \in Models /\ modelCache'[p][m] \in Thinking
  BY <1>1, ReadListings
<1>3. codexFile' \subseteq Entries BY DEF CatalogKept, IsGood
<1>4. CatalogTypeOK' BY <1>1, <1>2, <1>3 DEF CatalogTypeOK, CatalogKept
<1>5. CacheInv' BY DEF CacheInv, CatalogKept
<1>6. CatalogFileInv' BY DEF CatalogFileInv, CatalogKept
<1> QED BY <1>4, <1>5, <1>6 DEF CatalogInv

\* The catalog is left as it was.
LEMMA CatalogUntouched ==
    ASSUME CatalogInv, UNCHANGED << scope, modelCache, codexFile, lagging >>
    PROVE  CatalogKept(routing)
BY DEF CatalogInv, CatalogTypeOK, CacheInv, CatalogFileInv, CatalogKept

LEMMA CatalogParts ==
    ASSUME CatalogInv
    PROVE  /\ starting \in BOOLEAN /\ routing \in Configs /\ connected \in SUBSET AccountProviders
           /\ scope \subseteq Providers /\ discovering \in Task /\ locked \in Task
           /\ checked \in SUBSET Providers /\ discoveries \in 0..MaxDiscoveries
           /\ IsCache(modelCache) /\ DOMAIN modelCache \subseteq scope
           /\ \A e \in codexFile : IsGood(e)
           /\ starting => lagging /\ discovering = NoTask /\ locked = NoTask /\ checked = {}
           /\ lagging \in BOOLEAN
BY DEF CatalogInv, CatalogTypeOK, CacheInv, CatalogFileInv

LEMMA TasksAreTyped ==
    /\ NoTask \in Task /\ [NoTask EXCEPT !.state = "missing"] \in Task
    /\ [NoTask EXCEPT !.state = "all"] \in Task
    /\ \A asked \in SUBSET Providers : Listing(asked) \in Task
    /\ \A task \in Task : task.asked \in SUBSET Providers
BY DEF NoTask, Task, Listing

LEMMA CatalogInitInv == CatalogInit => CatalogInv
<1> SUFFICES ASSUME CatalogInit PROVE CatalogInv OBVIOUS
<1> USE DEF CatalogInit, CatalogStarts
<1>1. routing \in Configs /\ connected \in SUBSET AccountProviders OBVIOUS
<1>2. scope \in SUBSET Providers BY <1>1, UsableIsKnown
<1>3. IsCache(NoModels) /\ DOMAIN NoModels = {} BY DEF IsCache, NoModels
<1>4. \A e \in codexFile : IsGood(e)
  <2>1. CASE codexFile = NoCatalogFile BY <2>1 DEF NoCatalogFile
  <2>2. ASSUME NEW c \in Configs, codexFile = Codex(c, NoModels) PROVE \A e \in codexFile : IsGood(e)
    BY <1>3, <2>2, ViewsAreGood
  <2> QED BY <2>1, <2>2
<1>5. codexFile \subseteq Entries BY <1>4 DEF IsGood
<1>6. discoveries \in 0..MaxDiscoveries BY CatalogAssumption
<1>7. CatalogTypeOK BY <1>1, <1>2, <1>3, <1>5, <1>6, TasksAreTyped DEF CatalogTypeOK
<1>8. CacheInv BY <1>3 DEF CacheInv
<1>9. CatalogFileInv BY <1>4 DEF CatalogFileInv
<1> QED BY <1>7, <1>8, <1>9 DEF CatalogInv

LEMMA WarmInv == CatalogInv /\ Warm => CatalogInv'
<1> SUFFICES ASSUME CatalogInv, Warm PROVE CatalogInv' OBVIOUS
<1>1. PICK found \in Found(Referenced(routing)) :
         IF codexFile = NoCatalogFile THEN PublishCatalog(routing, Caching(modelCache, found, scope))
         ELSE modelCache' = Caching(modelCache, found, scope) /\ UNCHANGED << scope, codexFile, lagging >>
  BY DEF Warm
<1> DEFINE cache == Caching(modelCache, found, scope)
<1>2. Referenced(routing) \in SUBSET Providers BY CatalogParts, UsableIsKnown
<1>3. IsCache(cache) /\ DOMAIN cache \subseteq scope BY <1>2, CatalogParts, CachingKeeps
<1>4. starting /\ lagging BY CatalogParts DEF Warm
<1>5. CatalogKept(routing)
  <2>1. CASE codexFile = NoCatalogFile BY <1>1, <1>3, <2>1, CatalogParts, PublicationKeeps
  <2>2. CASE codexFile # NoCatalogFile
    <3>1. modelCache' = cache /\ UNCHANGED << scope, codexFile, lagging >> BY <1>1, <2>2
    <3> HIDE DEF cache
    <3> QED BY <1>3, <1>4, <3>1, CatalogParts DEF CatalogKept
  <2> QED BY <2>1, <2>2
<1>6. discovering' \in Task BY TasksAreTyped DEF Warm
<1> QED BY <1>5, <1>6, CatalogParts, CatalogRebuilt DEF Warm

LEMMA BackgroundRunsInv == CatalogInv /\ BackgroundRuns => CatalogInv'
<1> SUFFICES ASSUME CatalogInv, BackgroundRuns PROVE CatalogInv' OBVIOUS
<1>1. ~starting
  <2>1. discovering # NoTask BY DEF BackgroundRuns, NoTask
  <2> QED BY <2>1, CatalogParts
<1>2. CatalogKept(routing) BY CatalogUntouched DEF BackgroundRuns
<1>3. Listable(routing, connected) \in SUBSET Providers BY CatalogParts, UsableIsKnown
<1>4. discovering' \in Task BY <1>3, TasksAreTyped DEF BackgroundRuns
<1> QED BY <1>1, <1>2, <1>4, CatalogParts, CatalogRebuilt DEF BackgroundRuns

\* Whoever listed models publishes them with what is cached.
LEMMA ListedKept ==
    ASSUME CatalogInv, NEW asked \in SUBSET Providers, NEW found \in Found(asked),
           PublishCatalog(routing, Caching(modelCache, found, scope))
    PROVE  CatalogKept(routing)
<1>1. IsCache(Caching(modelCache, found, scope)) BY CatalogParts, CachingKeeps
<1> QED BY <1>1, CatalogParts, PublicationKeeps

LEMMA BackgroundListedInv == CatalogInv /\ BackgroundListed => CatalogInv'
<1> SUFFICES ASSUME CatalogInv, BackgroundListed PROVE CatalogInv' OBVIOUS
<1>1. PICK found \in Found(discovering.asked) :
         PublishCatalog(routing, Caching(modelCache, found, scope))
  BY DEF BackgroundListed
<1>2. discovering.asked \in SUBSET Providers BY CatalogParts, TasksAreTyped
<1>3. CatalogKept(routing) BY <1>1, <1>2, ListedKept
<1>4. ~starting
  <2>1. discovering # NoTask BY DEF BackgroundListed, NoTask
  <2> QED BY <2>1, CatalogParts
<1> QED BY <1>3, <1>4, CatalogParts, TasksAreTyped, CatalogRebuilt DEF BackgroundListed

LEMMA LocksTyped == CatalogInv /\ Locks => ~starting /\ discoveries' \in 0..MaxDiscoveries
BY CatalogAssumption DEF CatalogInv, CatalogTypeOK, Locks

LEMMA ExplicitRefreshInv == CatalogInv /\ ExplicitRefresh => CatalogInv'
<1> SUFFICES ASSUME CatalogInv, ExplicitRefresh PROVE CatalogInv' OBVIOUS
<1>1. ~starting /\ discoveries' \in 0..MaxDiscoveries BY LocksTyped DEF ExplicitRefresh
<1>2. CatalogKept(routing) BY CatalogUntouched DEF ExplicitRefresh
<1>3. locked' \in Task
  <2>1. Listable(routing, connected) \in SUBSET Providers BY CatalogParts, UsableIsKnown
  <2> QED BY <2>1, TasksAreTyped DEF ExplicitRefresh
<1> QED BY <1>1, <1>2, <1>3, CatalogParts, TasksAreTyped, CatalogRebuilt DEF ExplicitRefresh, Locks

LEMMA ReplaceInv == ASSUME NEW c \in Configs PROVE CatalogInv /\ Replace(c) => CatalogInv'
<1> SUFFICES ASSUME CatalogInv, Replace(c) PROVE CatalogInv' OBVIOUS
<1>1. ~starting /\ discoveries' \in 0..MaxDiscoveries BY LocksTyped DEF Replace
<1>2. CASE routing' = c /\ discovering' = [NoTask EXCEPT !.state = "all"] /\ PublishCatalog(c, modelCache)
  <2>1. CatalogKept(c) BY <1>2, CatalogParts, PublicationKeeps
  <2> QED BY <1>1, <1>2, <2>1, CatalogParts, TasksAreTyped, CatalogRebuilt DEF Replace, Locks
<1>3. CASE discovering' = NoTask /\ UNCHANGED << routing, scope, modelCache, codexFile, lagging >>
  <2>1. CatalogKept(routing) BY <1>3, CatalogUntouched
  <2> QED BY <1>1, <1>3, <2>1, CatalogParts, TasksAreTyped, CatalogRebuilt DEF Replace, Locks
<1> QED BY <1>2, <1>3 DEF Replace

LEMMA AccountAddedInv ==
    ASSUME NEW p \in AccountProviders PROVE CatalogInv /\ AccountAdded(p) => CatalogInv'
<1> SUFFICES ASSUME CatalogInv, AccountAdded(p) PROVE CatalogInv' OBVIOUS
<1>1. ~starting /\ discoveries' \in 0..MaxDiscoveries BY LocksTyped DEF AccountAdded
<1>2. p \in Providers BY NamesAssumption
<1>3. CatalogKept(routing)
  <2>1. scope' \subseteq Providers /\ DOMAIN modelCache \subseteq scope'
    BY <1>2, CatalogParts DEF AccountAdded
  <2> QED BY <2>1 DEF AccountAdded, CatalogInv, CacheInv, CatalogTypeOK, CatalogFileInv, CatalogKept
<1>4. locked' \in Task
  <2>1. {p} \in SUBSET Providers BY <1>2
  <2> QED BY <2>1, TasksAreTyped DEF AccountAdded
<1> QED BY <1>1, <1>3, <1>4, CatalogParts, CatalogRebuilt DEF AccountAdded, Locks

LEMMA AccountRemovedInv ==
    ASSUME NEW p \in AccountProviders PROVE CatalogInv /\ AccountRemoved(p) => CatalogInv'
<1> SUFFICES ASSUME CatalogInv, AccountRemoved(p) PROVE CatalogInv' OBVIOUS
<1>1. ~starting /\ discoveries' \in 0..MaxDiscoveries BY LocksTyped DEF AccountRemoved
<1>2. IsCache(Within(modelCache, Providers \ {p})) BY CatalogParts, WithinKeeps
<1>3. CatalogKept(routing) BY <1>2, CatalogParts, PublicationKeeps DEF AccountRemoved
<1> QED BY <1>1, <1>3, CatalogParts, CatalogRebuilt DEF AccountRemoved, Locks

LEMMA AdminListedInv == CatalogInv /\ AdminListed => CatalogInv'
<1> SUFFICES ASSUME CatalogInv, AdminListed PROVE CatalogInv' OBVIOUS
<1>1. ~starting BY CatalogParts DEF AdminListed
<1>2. locked.asked \in SUBSET Providers BY CatalogParts, TasksAreTyped
<1>3. CatalogKept(routing)
  <2>1. CASE UNCHANGED << scope, modelCache, codexFile, lagging >> BY <2>1, CatalogUntouched
  <2>2. CASE \E found \in Found(locked.asked) :
                PublishCatalog(routing, Caching(modelCache, found, scope))
    BY <1>2, <2>2, ListedKept
  <2> QED BY <2>1, <2>2 DEF AdminListed
<1> QED BY <1>1, <1>3, CatalogParts, TasksAreTyped, CatalogRebuilt DEF AdminListed

LEMMA CheckStartsInv ==
    ASSUME NEW p \in Providers PROVE CatalogInv /\ CheckStarts(p) => CatalogInv'
<1> SUFFICES ASSUME CatalogInv, CheckStarts(p) PROVE CatalogInv' OBVIOUS
<1>1. discoveries' \in 0..MaxDiscoveries /\ checked' \in SUBSET Providers
  BY CatalogParts, CatalogAssumption DEF CheckStarts
<1>2. CatalogKept(routing) BY CatalogUntouched DEF CheckStarts
<1> QED BY <1>1, <1>2, CatalogParts, CatalogRebuilt DEF CheckStarts

LEMMA CheckListedInv ==
    ASSUME NEW p \in Providers PROVE CatalogInv /\ CheckListed(p) => CatalogInv'
<1> SUFFICES ASSUME CatalogInv, CheckListed(p) PROVE CatalogInv' OBVIOUS
<1>1. ~starting BY CatalogParts DEF CheckListed
<1>2. PICK found \in Found({p}) :
         IF DOMAIN found = {} THEN UNCHANGED << scope, modelCache, codexFile, lagging >>
         ELSE PublishCatalog(routing, Caching(modelCache, found, scope))
  BY DEF CheckListed
<1>3. CatalogKept(routing)
  <2>1. CASE DOMAIN found = {} BY <1>2, <2>1, CatalogUntouched
  <2>2. CASE DOMAIN found # {}
    <3>1. {p} \in SUBSET Providers OBVIOUS
    <3>2. PublishCatalog(routing, Caching(modelCache, found, scope)) BY <1>2, <2>2
    <3> QED BY <3>1, <3>2, ListedKept
  <2> QED BY <2>1, <2>2
<1>4. checked' \in SUBSET Providers BY CatalogParts DEF CheckListed
<1> QED BY <1>1, <1>3, <1>4, CatalogParts, CatalogRebuilt DEF CheckListed

\* A list that drops nothing leaves the cache as it was.
LEMMA ListModelsInv == CatalogInv /\ ListModels => CatalogInv'
<1> SUFFICES ASSUME CatalogInv, ListModels PROVE CatalogInv' OBVIOUS
<1> DEFINE kept == Usable(routing, connected)
           new == Within(modelCache, kept)
<1>1. kept \in SUBSET Providers BY CatalogParts, UsableIsKnown
<1>2. /\ IsCache(new) /\ DOMAIN new \subseteq kept
      /\ DOMAIN new = DOMAIN modelCache => new = modelCache
  BY CatalogParts, WithinKeeps
<1>3. /\ scope' = kept /\ modelCache' = new /\ ~starting
      /\ lagging' = (lagging \/ DOMAIN new # DOMAIN modelCache)
      /\ codexFile' = codexFile /\ routing' = routing
  BY DEF ListModels
<1> HIDE DEF kept, new
<1>4. lagging' \in BOOLEAN BY <1>3, CatalogParts
<1>5. ASSUME ~lagging' PROVE codexFile' = Codex(routing, modelCache')
  <2>1. ~lagging /\ new = modelCache BY <1>2, <1>3, <1>5
  <2> QED BY <1>3, <2>1 DEF CatalogInv, CatalogFileInv
<1>6. CatalogKept(routing) BY <1>1, <1>2, <1>3, <1>4, <1>5, CatalogParts DEF CatalogKept
<1> QED BY <1>3, <1>6, CatalogParts, CatalogRebuilt DEF ListModels

LEMMA AccountsChangeInv == CatalogInv /\ AccountsChange => CatalogInv'
<1> SUFFICES ASSUME CatalogInv, AccountsChange PROVE CatalogInv' OBVIOUS
<1>1. CatalogKept(routing) BY CatalogUntouched DEF AccountsChange
<1> QED BY <1>1, CatalogParts, CatalogRebuilt DEF AccountsChange

LEMMA CatalogStepInv == CatalogInv /\ [CatalogNext]_catalogVars => CatalogInv'
<1> SUFFICES ASSUME CatalogInv, [CatalogNext]_catalogVars PROVE CatalogInv' OBVIOUS
<1>1. CASE UNCHANGED catalogVars
  <2>1. CatalogKept(routing) BY <1>1, CatalogUntouched DEF catalogVars
  <2> QED BY <1>1, <2>1, CatalogParts, CatalogRebuilt DEF catalogVars
<1>2. CASE CatalogNext
  BY <1>2, WarmInv, BackgroundRunsInv, BackgroundListedInv, ExplicitRefreshInv, AdminListedInv,
     ListModelsInv, AccountsChangeInv, ReplaceInv, AccountAddedInv, AccountRemovedInv,
     CheckStartsInv, CheckListedInv
  DEF CatalogNext
<1> QED BY <1>1, <1>2

\* A nonempty set of the places in TierOrder has a first one.
LEMMA TierIsOne == ASSUME NEW n, HasTier(n) PROVE TierOf(n) \in Tiers
<1> DEFINE M(k) == Mentions(n, TierOrder[k])
<1>1. Len(TierOrder) = 4 /\ \A k \in 1..4 : TierOrder[k] \in Tiers
  <2>1. \A k \in 1..4 : k \in {1, 2, 3, 4} OBVIOUS
  <2> QED BY <2>1 DEF TierOrder, Tiers
<1>2. \E k \in 1..4 : M(k)
  <2>1. M(1) \/ M(2) \/ M(3) \/ M(4) BY DEF HasTier, Tiers, TierOrder
  <2> QED BY <2>1
<1>3. \E k \in 1..4 : M(k) /\ \A j \in 1..(k - 1) : ~M(j)
  <2> HIDE DEF M
  <2>1. CASE M(1) BY <2>1
  <2>2. CASE ~M(1) /\ M(2) BY <2>2
  <2>3. CASE ~M(1) /\ ~M(2) /\ M(3) BY <2>3
  <2>4. CASE ~M(1) /\ ~M(2) /\ ~M(3)
    <3>1. M(4) BY <1>2, <2>4
    <3> QED BY <2>4, <3>1
  <2> QED BY <2>1, <2>2, <2>3, <2>4
<1>4. \E k \in 1..Len(TierOrder) : IsTier(n, k) BY <1>1, <1>3 DEF IsTier
<1> QED BY <1>1, <1>4 DEF TierOf

LEMMA PrimaryIsKnown ==
    ASSUME NEW c \in Configs, NEW n PROVE PrimaryOf(c, n).provider \in Providers
<1>1. c.model \in Targets /\ c.tiers \in [Tiers -> Targets \cup {NoTarget}]
  BY CatalogAssumption DEF ValidRoutes, SettingsOf
<1>2. \A t \in Targets : t.provider \in Providers BY DEF Targets
<1>3. CASE Direct(n) # NoTarget
  <2>1. Direct(n).provider \in Providers BY <1>3 DEF Direct, Decoded
  <2> QED BY <1>3, <2>1 DEF PrimaryOf
<1>4. CASE Direct(n) = NoTarget /\ HasTier(n) /\ c.tiers[TierOf(n)] # NoTarget
  <2>1. TierOf(n) \in Tiers BY <1>4, TierIsOne
  <2>2. c.tiers[TierOf(n)] \in Targets BY <1>1, <1>4, <2>1
  <2>3. PrimaryOf(c, n) = c.tiers[TierOf(n)] BY <1>4 DEF PrimaryOf
  <2> QED BY <1>2, <2>2, <2>3
<1>5. CASE Direct(n) = NoTarget /\ ~(HasTier(n) /\ c.tiers[TierOf(n)] # NoTarget)
  BY <1>1, <1>2, <1>5 DEF PrimaryOf
<1> QED BY <1>3, <1>4, <1>5

\* What is tried for a name: its primary, then every other fallback once.
LEMMA CandidatesDiffer ==
    ASSUME NEW c \in Configs, NEW n
    PROVE  /\ \A i \in 1..Len(RouteCandidates(c, n)) :
                 RouteCandidates(c, n)[i].provider \in Providers
           /\ \A i, j \in 1..Len(RouteCandidates(c, n)) :
                 i # j => RouteCandidates(c, n)[i] # RouteCandidates(c, n)[j]
<1> DEFINE p == PrimaryOf(c, n)
           rest == Remaining(c.fallbacks, {p})
           tried == RouteCandidates(c, n)
           S == Targets \cup {p}
<1>1. /\ c.fallbacks \in Seq(Targets)
      /\ \A i, j \in 1..Len(c.fallbacks) : i # j => c.fallbacks[i] # c.fallbacks[j]
  BY CatalogAssumption DEF ValidRoutes, SettingsOf
<1>2. IsInjective(c.fallbacks)
  <2>1. DOMAIN c.fallbacks = 1..Len(c.fallbacks) BY <1>1, LenProperties
  <2> QED BY <1>1, <2>1 DEF IsInjective
<1>3. rest \in Seq(Targets) /\ IsInjective(rest) /\ Range(rest) = Range(c.fallbacks) \ {p}
  BY <1>1, <1>2, RemainingQueue
<1>4. p.provider \in Providers BY PrimaryIsKnown
<1>5. tried = <<p>> \o rest BY DEF RouteCandidates
<1> HIDE DEF p, rest, tried
<1>6. Len(rest) \in Nat /\ DOMAIN rest = 1..Len(rest) BY <1>3, LenProperties
<1>7. \A k \in 1..Len(rest) : rest[k] \in Targets /\ rest[k] # p BY <1>3, <1>6 DEF Range
<1>8. \A k, l \in 1..Len(rest) : k # l => rest[k] # rest[l] BY <1>3, <1>6 DEF IsInjective
<1>9. <<p>> \in Seq(S) /\ Len(<<p>>) = 1 /\ <<p>>[1] = p /\ rest \in Seq(S)
  <2>1. <<p>> \in Seq(S) /\ Len(<<p>>) = 1 /\ <<p>>[1] = p OBVIOUS
  <2>2. rest \in Seq(S) BY <1>3
  <2> QED BY <2>1, <2>2
<1>10. /\ Len(tried) = 1 + Len(rest)
       /\ \A i \in 1..1 + Len(rest) : tried[i] = IF i <= 1 THEN <<p>>[i] ELSE rest[i - 1]
  BY <1>5, <1>9, ConcatProperties
<1>11. \A i \in 1..Len(tried) :
          \/ i = 1 /\ tried[i] = p
          \/ i - 1 \in 1..Len(rest) /\ tried[i] = rest[i - 1]
  BY <1>6, <1>9, <1>10
<1>12. \A i \in 1..Len(tried) : tried[i].provider \in Providers
  <2>1. \A t \in Targets : t.provider \in Providers BY DEF Targets
  <2> QED BY <1>4, <1>7, <1>11, <2>1
<1>13. ASSUME NEW i \in 1..Len(tried), NEW j \in 1..Len(tried), i # j PROVE tried[i] # tried[j]
  <2>1. CASE i = 1
    <3>1. j - 1 \in 1..Len(rest) /\ tried[j] = rest[j - 1] /\ tried[i] = p
      BY <1>6, <1>11, <1>13, <2>1
    <3> QED BY <1>7, <3>1
  <2>2. CASE j = 1
    <3>1. i - 1 \in 1..Len(rest) /\ tried[i] = rest[i - 1] /\ tried[j] = p
      BY <1>6, <1>11, <1>13, <2>2
    <3> QED BY <1>7, <3>1
  <2>3. CASE i # 1 /\ j # 1
    <3>1. /\ i - 1 \in 1..Len(rest) /\ tried[i] = rest[i - 1]
          /\ j - 1 \in 1..Len(rest) /\ tried[j] = rest[j - 1]
      BY <1>11, <2>3
    <3>2. i - 1 # j - 1 BY <1>13
    <3> QED BY <1>8, <3>1, <3>2
  <2> QED BY <2>1, <2>2, <2>3
<1> QED BY <1>12, <1>13 DEF tried

LEMMA PoliciesHold == PoliciesAreValid
<1> SUFFICES ASSUME NEW w \in Wishes
             PROVE  /\ \A preference \in Preferences : ValidPolicy(PolicyOf(preference, w))
                    /\ PolicyOf("off", w).control = "off"
                    /\ w.effort = "none" \/ w.type = "disabled" =>
                          PolicyOf("client", w).control = "off"
  BY DEF PoliciesAreValid
<1>1. \A control, effort, budget :
         /\ Policy(control, effort, budget).control = control
         /\ Policy(control, effort, budget).budget = budget
  BY DEF Policy
<1>2. Off.control = "off" /\ Off.budget = 0 BY <1>1 DEF Off
<1>3. ValidPolicy(Off) BY <1>2 DEF ValidPolicy
<1>4. PolicyOf("off", w) = Off /\ PolicyOf("client", w) = ClientPolicy(w) BY DEF PolicyOf
<1>5. ValidPolicy(ClientPolicy(w)) BY <1>1, <1>3 DEF ClientPolicy, ValidPolicy
<1>6. w.effort = "none" \/ w.type = "disabled" => ClientPolicy(w).control = "off"
  BY <1>1, <1>2 DEF ClientPolicy, ThinkingOff
<1>7. ASSUME NEW preference \in Preferences PROVE ValidPolicy(PolicyOf(preference, w))
  <2>1. CASE preference = "off" BY <1>3, <1>4, <2>1
  <2>2. CASE preference = "client" BY <1>4, <1>5, <2>2
  <2>3. CASE preference \notin {"off", "client"}
    <3>1. PolicyOf(preference, w) = Policy("on", preference, 0) BY <2>3 DEF PolicyOf
    <3> QED BY <1>1, <3>1 DEF ValidPolicy
  <2> QED BY <2>1, <2>2, <2>3
<1> QED BY <1>2, <1>4, <1>6, <1>7

\* What a provider's answer is read as names the models of all its pages.
LEMMA ListingNamesAll ==
    ASSUME NEW p, NEW answer, NEW l \in Listings(p, answer)
    PROVE  /\ AllPages(answer)
           /\ DOMAIN l = UNION {ModelsOf(p, At(answer, x)) : x \in Places(answer)}
<1>1. AllPages(answer) BY DEF Listings
<1>2. CASE p \in ToolCapable
  <2>1. l \in ToolListings(answer) BY <1>1, <1>2 DEF Listings
  <2>2. DOMAIN l = {At(answer, x).id : x \in ToolPlaces(answer)} BY <2>1 DEF ToolListings
  <2>3. \A i : ModelsOf(p, i) = IF TakesTools(i) THEN {i.id} ELSE {} BY <1>2 DEF ModelsOf
  <2>4. DOMAIN l = UNION {ModelsOf(p, At(answer, x)) : x \in Places(answer)}
    BY <2>2, <2>3 DEF ToolPlaces
  <2> QED BY <1>1, <2>4
<1>3. CASE p \notin ToolCapable /\ p \in AccountProviders
  <2>1. l \in AccountListings(answer) BY <1>1, <1>3 DEF Listings
  <2>2. DOMAIN l = {At(answer, x).id : x \in VisiblePlaces(answer)} BY <2>1 DEF AccountListings
  <2>3. \A i : ModelsOf(p, i) = IF IsVisible(i) THEN {i.id} ELSE {} BY <1>3 DEF ModelsOf
  <2>4. DOMAIN l = UNION {ModelsOf(p, At(answer, x)) : x \in Places(answer)}
    BY <2>2, <2>3 DEF VisiblePlaces
  <2> QED BY <1>1, <2>4
<1>4. CASE p \notin ToolCapable /\ p \notin AccountProviders
  <2>1. l = OpenAIListing(answer) BY <1>1, <1>4 DEF Listings
  <2>2. DOMAIN l = UNION {Names(At(answer, x)) : x \in Wanted(answer)}
    BY <2>1 DEF OpenAIListing
  <2>3. \A i : ModelsOf(p, i) = IF i.wanted = "yes" THEN Names(i) ELSE {} BY <1>4 DEF ModelsOf
  <2>4. DOMAIN l = UNION {ModelsOf(p, At(answer, x)) : x \in Places(answer)}
    BY <2>2, <2>3 DEF Wanted
  <2> QED BY <1>1, <2>4
<1> QED BY <1>2, <1>3, <1>4

LEMMA CatalogInvOffers == CatalogInv => OffersAreGood
<1> SUFFICES ASSUME CatalogInv PROVE OffersAreGood OBVIOUS
<1>1. ListedModelsRouteBack
  <2>1. \A e \in ClaudeView(routing, modelCache) \cup DirectView(routing, modelCache) \cup codexFile :
           IsGood(e)
    BY CatalogParts, ViewsAreGood
  <2> QED BY <2>1, GoodRoutesBack DEF ListedModelsRouteBack
<1>2. CandidatesAreDistinct
  <2>1. routing \in Configs BY CatalogParts
  <2> QED BY <2>1, CandidatesDiffer DEF CandidatesAreDistinct
<1>3. CodexFileIsCurrent BY DEF CatalogInv, CatalogFileInv, CodexFileIsCurrent
<1>4. ListingsAreWhole
  <2> SUFFICES ASSUME NEW p \in DOMAIN modelCache
               PROVE  /\ p \in scope
                      /\ \E answer \in Answers[p] :
                            /\ AllPages(answer)
                            /\ DOMAIN modelCache[p] =
                                  UNION {ModelsOf(p, At(answer, x)) : x \in Places(answer)}
    BY DEF ListingsAreWhole
  <2>1. p \in scope /\ IsRead(p, modelCache[p]) BY CatalogParts DEF IsCache
  <2>2. PICK answer \in Answers[p] : modelCache[p] \in Listings(p, answer) BY <2>1 DEF IsRead
  <2>3. /\ AllPages(answer)
        /\ DOMAIN modelCache[p] = UNION {ModelsOf(p, At(answer, x)) : x \in Places(answer)}
    BY <2>2, ListingNamesAll
  <2> QED BY <2>1, <2>3
<1> QED BY <1>1, <1>2, <1>3, <1>4, PoliciesHold DEF OffersAreGood

\* For any providers, settings, answers and models: what a client is offered leads
\* back to its model, a request tries no model twice, the catalog file is current
\* unless it is known to lag, and a cached listing is the whole of an answer.
THEOREM RoutedModels == CatalogSpec => [](CatalogTypeOK /\ OffersAreGood)
<1>1. CatalogInit => CatalogInv BY CatalogInitInv
<1>2. CatalogInv /\ [CatalogNext]_catalogVars => CatalogInv' BY CatalogStepInv
<1>3. CatalogInv => CatalogTypeOK /\ OffersAreGood BY CatalogInvOffers DEF CatalogInv
<1> QED BY <1>1, <1>2, <1>3, PTL DEF CatalogSpec
=============================================================================
