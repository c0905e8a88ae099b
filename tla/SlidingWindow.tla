---------------------------- MODULE SlidingWindow ----------------------------
(***************************************************************************)
(* StrictSlidingWindowLimiter (core/rate_limit.py): the deque of admission *)
(* times behind an asyncio lock, its waiters asleep until the oldest time  *)
(* leaves the window.  The admission controller's rate window and the      *)
(* messaging limiter each own one.                                         *)
(*                                                                         *)
(* No critical section suspends, so each is one action.  The clock is a    *)
(* count of ticks; it may pass while the synchronous condition of          *)
(* acquire_if runs.  grants is a history: when acquisitions really         *)
(* returned, whatever the deque says.                                      *)
(***************************************************************************)
EXTENDS Integers, Sequences

CONSTANTS Callers,       \* tasks that acquire, one at a time each
          RateLimit,     \* _rate_limit
          RateWindow,    \* _rate_window, in ticks
          MaxDelay,      \* ticks the condition may take
          MaxClock       \* bound of the clock

\* The constructor rejects a limit or a window that is not positive.
ASSUME WindowAssumption ==
    /\ RateLimit \in Nat \ {0}
    /\ RateWindow \in Nat \ {0}
    /\ MaxDelay \in Nat
    /\ MaxClock \in Nat

VARIABLES
    clock,     \* time.monotonic()
    times,     \* _times
    grants,    \* history: when each admission happened
    wakeAt     \* when each caller's sleep ends, Awake if it does not sleep

windowVars == <<clock, times, grants, wakeAt>>

Awake == 0

------------------------------------------------------------------------------

Admissions == Seq(0..MaxClock)

\* Exactly the first k recorded times have left the window.
Expired(k) ==
    LET cutoff == clock - RateWindow IN
    /\ \A i \in 1..k : times[i] <= cutoff
    /\ k < Len(times) => times[k + 1] > cutoff

Kept(k) == SubSeq(times, k + 1, Len(times))

\* A caller that just arrived, or whose sleep has ended, takes the lock and
\* drops the first k times.
Tries(c, k) == wakeAt[c] <= clock /\ k \in 0..Len(times) /\ Expired(k)

\* The condition runs for some ticks.
Passes(delay) == clock + delay <= MaxClock /\ clock' = clock + delay

\* A plausible bug: the time read before the condition ran is recorded.
Grant_StaleTime(c, k, delay) ==
    /\ Tries(c, k)
    /\ Len(times) - k < RateLimit
    /\ Passes(delay)
    /\ times' = Append(Kept(k), clock)
    /\ grants' = Append(grants, clock')
    /\ wakeAt' = [wakeAt EXCEPT ![c] = Awake]

\* There is capacity and the condition, if any, holds.
Grant(c, k, delay) ==
    /\ Tries(c, k)
    /\ Len(times) - k < RateLimit
    /\ Passes(delay)
    /\ times' = Append(Kept(k), clock')
    /\ grants' = Append(grants, clock')
    /\ wakeAt' = [wakeAt EXCEPT ![c] = Awake]

\* A plausible bug: a rejected admission consumes quota.
Reject_Consumes(c, k, delay) ==
    /\ Tries(c, k)
    /\ Len(times) - k < RateLimit
    /\ Passes(delay)
    /\ times' = Append(Kept(k), clock')
    /\ wakeAt' = [wakeAt EXCEPT ![c] = Awake]
    /\ UNCHANGED grants

\* There is capacity but the condition of acquire_if no longer holds.
Reject(c, k, delay) ==
    /\ Tries(c, k)
    /\ Len(times) - k < RateLimit
    /\ Passes(delay)
    /\ times' = Kept(k)
    /\ wakeAt' = [wakeAt EXCEPT ![c] = Awake]
    /\ UNCHANGED grants

\* A plausible bug: the sleep is not shortened by the time already passed.
SleepUntilFree_TooLong(c, k) ==
    /\ Tries(c, k)
    /\ Len(times) - k >= RateLimit
    /\ times' = Kept(k)
    /\ wakeAt' = [wakeAt EXCEPT ![c] = clock + times[k + 1] + RateWindow]
    /\ UNCHANGED <<clock, grants>>

\* The window is full: sleep until its oldest admission has left it.
SleepUntilFree(c, k) ==
    /\ Tries(c, k)
    /\ Len(times) - k >= RateLimit
    /\ times' = Kept(k)
    /\ wakeAt' = [wakeAt EXCEPT ![c] = times[k + 1] + RateWindow]
    /\ UNCHANGED <<clock, grants>>

\* The sleeping task is cancelled.
CancelSleep(c) ==
    /\ wakeAt[c] > clock
    /\ wakeAt' = [wakeAt EXCEPT ![c] = Awake]
    /\ UNCHANGED <<clock, times, grants>>

Tick ==
    /\ clock < MaxClock
    /\ clock' = clock + 1
    /\ UNCHANGED <<times, grants, wakeAt>>

------------------------------------------------------------------------------

WindowInit ==
    /\ clock = 0
    /\ times = <<>>
    /\ grants = <<>>
    /\ wakeAt = [c \in Callers |-> Awake]

WindowNext ==
    \/ \E c \in Callers, k \in 0..RateLimit :
          \/ \E delay \in 0..MaxDelay : Grant(c, k, delay) \/ Reject(c, k, delay)
          \/ SleepUntilFree(c, k)
    \/ \E c \in Callers : CancelSleep(c)
    \/ Tick

WindowSpec == WindowInit /\ [][WindowNext]_windowVars

------------------------------------------------------------------------------

\* The values the limiter's variables take.
WindowTypeOK ==
    /\ clock \in 0..MaxClock
    /\ times \in Admissions
    /\ grants \in Admissions
    /\ wakeAt \in [Callers -> 0..(MaxClock + RateWindow)]

\* "At most rate_limit acquisitions in any interval of length rate_window":
\* the rate_limit-th admission after any admission comes a window later.
WindowBound ==
    \A i \in DOMAIN grants :
        i + RateLimit \in DOMAIN grants => grants[i + RateLimit] - grants[i] >= RateWindow

\* Nobody sleeps while there is capacity: throughout a caller's sleep the
\* last window holds rate_limit real admissions.  Rejected and cancelled
\* acquisitions consume no quota, and no sleep outlasts its reason.
FullWhileAsleep ==
    \A c \in Callers : wakeAt[c] > clock =>
        /\ Len(grants) >= RateLimit
        /\ grants[Len(grants) - RateLimit + 1] > clock - RateWindow

\* The window lets in as many acquisitions as it may, neither more nor fewer.
WindowIsExact == WindowBound /\ FullWhileAsleep

------------------------------------------------------------------------------
(* The inductive invariant: the deque is the end of the history, and what    *)
(* it dropped has left the window.                                           *)

Dropped == Len(grants) - Len(times)

GrantsInv ==
    /\ \A i, j \in DOMAIN grants : i <= j => grants[i] <= grants[j]
    /\ \A i \in DOMAIN grants : grants[i] <= clock

TimesInv ==
    /\ Len(times) <= Len(grants) /\ Len(times) <= RateLimit
    /\ \A i \in DOMAIN times : times[i] = grants[Dropped + i]
    /\ \A i \in 1..Dropped : grants[i] <= clock - RateWindow

SleepInv ==
    \A c \in Callers : wakeAt[c] > clock =>
        Len(times) = RateLimit /\ wakeAt[c] <= times[1] + RateWindow

WindowInv == WindowTypeOK /\ GrantsInv /\ TimesInv /\ SleepInv /\ WindowBound
==============================================================================
