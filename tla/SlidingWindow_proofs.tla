------------------------ MODULE SlidingWindow_proofs ------------------------
(***************************************************************************)
(* The sliding window keeps its promise for every limit, window, number of *)
(* callers and duration of the condition.                                  *)
(***************************************************************************)
EXTENDS SlidingWindow, SequenceTheorems, TLAPS

\* What membership in Seq says of the elements of a sequence.
LEMMA Elements ==
  ASSUME NEW S, NEW q \in Seq(S)
  PROVE  DOMAIN q = 1..Len(q) /\ Len(q) \in Nat /\ \A i \in 1..Len(q) : q[i] \in S
OBVIOUS

\* The elements of a sequence of clock readings are naturals.
LEMMA Readings ==
  ASSUME NEW q \in Seq(0..MaxClock)
  PROVE  /\ DOMAIN q = 1..Len(q) /\ Len(q) \in Nat
         /\ \A i \in 1..Len(q) : q[i] \in 0..MaxClock
         /\ \A i \in 1..Len(q) : q[i] \in Nat
<1>1. 0..MaxClock \subseteq Nat
  OBVIOUS
<1> QED BY <1>1, Elements

\* Dropping the first k recorded times leaves the others, in order.
LEMMA KeptProperties ==
  ASSUME WindowTypeOK, NEW k \in 0..Len(times)
  PROVE  /\ Kept(k) \in Admissions
         /\ Len(Kept(k)) = Len(times) - k
         /\ \A i \in 1..(Len(times) - k) : Kept(k)[i] = times[k + i]
<1>1. times \in Seq(0..MaxClock)
  BY DEF WindowTypeOK, Admissions
<1>2. Len(times) \in Nat /\ k \in Nat
  BY <1>1
<1>3. CASE k < Len(times)
  <2>1. k + 1 \in Int /\ Len(times) \in Int /\ k + 1 <= Len(times)
    BY <1>2, <1>3
  <2>2. \A i \in (k + 1)..Len(times) : times[i] \in 0..MaxClock
    BY <1>1, <1>2, Readings
  <2>3. /\ Kept(k) \in Seq(0..MaxClock)
        /\ Len(Kept(k)) = Len(times) - (k + 1) + 1
        /\ \A i \in 1..(Len(times) - (k + 1) + 1) : Kept(k)[i] = times[k + 1 + i - 1]
    <3> HIDE DEF Admissions
    <3> QED BY <2>1, <2>2, SubSeqProperties DEF Kept
  <2>4. Len(times) - (k + 1) + 1 = Len(times) - k
    BY <1>2
  <2>5. \A i \in 1..(Len(times) - k) : k + 1 + i - 1 = k + i
    BY <1>2
  <2> QED BY <2>3, <2>4, <2>5 DEF Admissions
<1>4. CASE k = Len(times)
  <2>1. Kept(k) = <<>>
    BY <1>2, <1>4, SubSeqEmpty DEF Kept
  <2> QED BY <2>1, <1>2, <1>4 DEF Admissions
<1> QED BY <1>2, <1>3, <1>4

\* Dropping no admission leaves the window as it is.
LEMMA KeptNone ==
  ASSUME WindowTypeOK
  PROVE  Kept(0) = times
<1>1. times \in Seq(0..MaxClock) /\ Len(times) \in Nat BY DEF WindowTypeOK, Admissions
<1>2. 0 \in 0..Len(times) BY <1>1
<1>3. /\ Kept(0) \in Seq(0..MaxClock) /\ Len(Kept(0)) = Len(times) - 0
      /\ \A i \in 1..(Len(times) - 0) : Kept(0)[i] = times[0 + i]
  BY <1>2, KeptProperties DEF Admissions
<1>4. Len(Kept(0)) = Len(times) /\ \A i \in 1..Len(Kept(0)) : Kept(0)[i] = times[i]
  <2>1. Len(times) - 0 = Len(times) /\ \A i \in 1..Len(times) : 0 + i = i BY <1>1
  <2> QED BY <1>3, <2>1
<1> HIDE DEF Kept
<1> QED BY <1>1, <1>3, <1>4, SeqEqual

\* Dropping what has left the window keeps the deque the end of the history.
LEMMA KeptIsHistory ==
  ASSUME WindowInv, NEW k \in 0..Len(times), Expired(k)
  PROVE  /\ \A i \in 1..Len(Kept(k)) : Kept(k)[i] = grants[Len(grants) - Len(Kept(k)) + i]
         /\ \A i \in 1..(Len(grants) - Len(Kept(k))) : grants[i] <= clock - RateWindow
<1>1. /\ times \in Seq(0..MaxClock) /\ grants \in Seq(0..MaxClock)
      /\ Len(times) \in Nat /\ Len(grants) \in Nat /\ Len(times) <= Len(grants)
      /\ k \in Nat /\ clock \in Nat /\ RateWindow \in Nat
  BY WindowAssumption DEF WindowInv, WindowTypeOK, Admissions, TimesInv
<1>2. Len(Kept(k)) = Len(times) - k /\ \A i \in 1..(Len(times) - k) : Kept(k)[i] = times[k + i]
  BY KeptProperties DEF WindowInv
<1>3. \A i \in 1..Len(times) : times[i] = grants[Len(grants) - Len(times) + i]
  BY <1>1 DEF WindowInv, TimesInv, Dropped
<1>4. ASSUME NEW i \in 1..Len(Kept(k))
      PROVE  Kept(k)[i] = grants[Len(grants) - Len(Kept(k)) + i]
  <2>1. k + i \in 1..Len(times) /\ Kept(k)[i] = times[k + i]
    BY <1>1, <1>2
  <2>2. Len(grants) - Len(times) + (k + i) = Len(grants) - Len(Kept(k)) + i
    BY <1>1, <1>2
  <2> QED BY <2>1, <2>2, <1>3
<1>5. ASSUME NEW i \in 1..(Len(grants) - Len(Kept(k)))
      PROVE  grants[i] <= clock - RateWindow
  <2>1. CASE i <= Len(grants) - Len(times)
    BY <1>1, <2>1 DEF WindowInv, TimesInv, Dropped
  <2>2. CASE i > Len(grants) - Len(times)
    <3> DEFINE j == i - (Len(grants) - Len(times))
    <3>1. j \in 1..k /\ j \in 1..Len(times) /\ Len(grants) - Len(times) + j = i
      BY <1>1, <1>2, <2>2
    <3>2. times[j] <= clock - RateWindow
      BY <3>1 DEF Expired
    <3> QED BY <3>1, <3>2, <1>3
  <2> QED BY <2>1, <2>2, <1>1
<1> QED BY <1>4, <1>5

\* While anybody sleeps, nothing recorded has left the window, so whoever takes
\* the lock finds it full.
LEMMA SleepersKeepTimes ==
  ASSUME WindowInv, NEW c \in Callers, wakeAt[c] > clock, NEW k \in 0..Len(times), Expired(k)
  PROVE  k = 0 /\ Len(times) = RateLimit /\ Kept(k) = times
<1>1. /\ Len(times) = RateLimit /\ wakeAt[c] <= times[1] + RateWindow
      /\ clock \in Nat /\ RateWindow \in Nat /\ RateLimit \in Nat /\ RateLimit # 0
      /\ times \in Seq(0..MaxClock) /\ times[1] \in Nat /\ wakeAt[c] \in Nat
  BY WindowAssumption DEF WindowInv, SleepInv, WindowTypeOK, Admissions
<1>2. k = 0
  <2> SUFFICES ASSUME k # 0 PROVE FALSE
    OBVIOUS
  <2>1. times[1] <= clock - RateWindow
    BY <1>1 DEF Expired
  <2> QED BY <2>1, <1>1
<1>3. Kept(k) = times
  BY <1>2, KeptNone DEF WindowInv
<1> QED BY <1>1, <1>2, <1>3

\* The invariant holds of a new limiter.
LEMMA InvInitially == WindowInit => WindowInv
<1> SUFFICES ASSUME WindowInit PROVE WindowInv
  OBVIOUS
<1>1. Len(<<>>) = 0 /\ <<>> \in Seq(0..MaxClock)
  OBVIOUS
<1>2. WindowTypeOK
  BY <1>1, WindowAssumption DEF WindowInit, WindowTypeOK, Admissions, Awake
<1> QED BY <1>1, <1>2, WindowAssumption
        DEF WindowInit, WindowInv, GrantsInv, TimesInv, SleepInv, WindowBound, Dropped, Awake

\* An acquisition is recorded with the time at which it is admitted, and the
\* one RateLimit admissions earlier had left the window by then.
LEMMA AdmitStep ==
  ASSUME WindowInv, NEW c \in Callers, NEW k \in 0..RateLimit, NEW delay \in 0..MaxDelay,
         Grant(c, k, delay)
  PROVE  WindowInv'
<1> DEFINE n == Len(grants)
<1>1. /\ times \in Seq(0..MaxClock) /\ grants \in Seq(0..MaxClock)
      /\ Len(times) \in Nat /\ n \in Nat /\ k \in 0..Len(times)
      /\ clock \in Nat /\ RateWindow \in Nat /\ RateLimit \in Nat /\ RateLimit # 0
      /\ clock' \in 0..MaxClock /\ clock <= clock'
      /\ Expired(k) /\ Len(times) - k < RateLimit
  BY WindowAssumption DEF WindowInv, WindowTypeOK, Admissions, Grant, Tries, Passes
<1>n. DOMAIN grants = 1..n /\ \A i \in 1..n : grants[i] \in Nat
  BY <1>1, Readings
<1>2. /\ Kept(k) \in Seq(0..MaxClock) /\ Len(Kept(k)) = Len(times) - k
      /\ Len(Kept(k)) \in Nat /\ Len(Kept(k)) <= n /\ Len(Kept(k)) < RateLimit
  BY <1>1, KeptProperties DEF WindowInv, Admissions, TimesInv
<1>3. /\ \A i \in 1..Len(Kept(k)) : Kept(k)[i] = grants[n - Len(Kept(k)) + i]
      /\ \A i \in 1..(n - Len(Kept(k))) : grants[i] <= clock - RateWindow
  BY <1>1, KeptIsHistory
<1>4. /\ times' \in Seq(0..MaxClock) /\ Len(times') = Len(Kept(k)) + 1
      /\ \A i \in 1..Len(Kept(k)) : times'[i] = Kept(k)[i]
      /\ times'[Len(Kept(k)) + 1] = clock'
  BY <1>1, <1>2, AppendProperties DEF Grant
<1>5. /\ grants' \in Seq(0..MaxClock) /\ Len(grants') = n + 1
      /\ \A i \in 1..n : grants'[i] = grants[i]
      /\ grants'[n + 1] = clock'
  BY <1>1, AppendProperties DEF Grant
<1>6. WindowTypeOK'
  BY <1>1, <1>4, <1>5, WindowAssumption DEF WindowInv, WindowTypeOK, Admissions, Grant, Awake
<1>7. GrantsInv'
  <2>1. \A i \in 1..n : grants[i] <= clock /\ grants[i] \in Nat
    BY <1>n DEF WindowInv, GrantsInv
  <2>2. \A i, j \in 1..n : i <= j => grants[i] <= grants[j]
    BY <1>1 DEF WindowInv, GrantsInv
  <2>3. DOMAIN grants' = 1..(n + 1)
    BY <1>5
  <2>4. ASSUME NEW i \in 1..(n + 1) PROVE grants'[i] <= clock'
    <3>1. CASE i = n + 1
      BY <3>1, <1>1, <1>5
    <3>2. CASE i # n + 1
      <4>1. i \in 1..n
        BY <3>2, <1>1
      <4>2. grants'[i] = grants[i] /\ grants[i] <= clock /\ grants[i] \in Nat
        BY <4>1, <1>5, <2>1
      <4> QED BY <4>2, <1>1
    <3> QED BY <3>1, <3>2
  <2>5. ASSUME NEW i \in 1..(n + 1), NEW j \in 1..(n + 1), i <= j
        PROVE  grants'[i] <= grants'[j]
    <3>1. CASE j = n + 1
      BY <2>4, <3>1, <1>5
    <3>2. CASE j # n + 1
      BY <1>1, <1>5, <2>2, <2>5, <3>2
    <3> QED BY <3>1, <3>2
  <2>6. grants'[n + 1] = clock' /\ \A i, j \in DOMAIN grants' : i <= j => grants'[i] <= grants'[j]
    BY <2>3, <2>5, <1>5
  <2>7. \A i \in DOMAIN grants' : grants'[i] <= clock' BY <2>3, <2>4
  <2> QED BY <2>6, <2>7 DEF GrantsInv
<1>8. Dropped' = n - Len(Kept(k))
  BY <1>1, <1>2, <1>4, <1>5 DEF Dropped
<1>9. TimesInv'
  <2>1. Len(times') <= Len(grants') /\ Len(times') <= RateLimit
    <3>1. Len(times') = Len(Kept(k)) + 1 /\ Len(grants') = n + 1 BY <1>4, <1>5
    <3>2. /\ Len(Kept(k)) \in Nat /\ n \in Nat /\ RateLimit \in Nat
          /\ Len(Kept(k)) <= n /\ Len(Kept(k)) < RateLimit
      BY <1>1, <1>2
    <3> HIDE DEF n
    <3> QED BY <3>1, <3>2
  <2>2. ASSUME NEW i \in DOMAIN times' PROVE times'[i] = grants'[Dropped' + i]
    <3>1. CASE i \in 1..Len(Kept(k))
      <4>1. n - Len(Kept(k)) + i \in 1..n
        BY <1>1, <1>2, <3>1
      <4> QED BY <1>3, <1>4, <1>5, <1>8, <3>1, <4>1
    <3>2. CASE i = Len(Kept(k)) + 1
      <4>1. n - Len(Kept(k)) + i = n + 1
        BY <1>1, <1>2, <3>2
      <4> QED BY <1>4, <1>5, <1>8, <3>2, <4>1
    <3> QED BY <3>1, <3>2, <1>2, <1>4
  <2>3. ASSUME NEW i \in 1..Dropped' PROVE grants'[i] <= clock' - RateWindow
    <3>1. i \in 1..(n - Len(Kept(k))) /\ i \in 1..n
      BY <1>1, <1>2, <1>8
    <3>2. grants[i] <= clock - RateWindow /\ grants[i] \in Nat /\ grants'[i] = grants[i]
      BY <3>1, <1>3, <1>5, <1>n
    <3> QED BY <3>2, <1>1
  <2> QED BY <2>1, <2>2, <2>3 DEF TimesInv
<1>10. SleepInv'
  <2> SUFFICES ASSUME NEW d \in Callers, wakeAt'[d] > clock' PROVE FALSE
    BY DEF SleepInv
  <2>1. d # c /\ wakeAt[d] > clock
    BY <1>1 DEF WindowInv, WindowTypeOK, Grant, Awake
  <2> QED BY <2>1, <1>1, SleepersKeepTimes
<1>11. WindowBound'
  <2> SUFFICES ASSUME NEW i \in DOMAIN grants', i + RateLimit \in DOMAIN grants'
               PROVE  grants'[i + RateLimit] - grants'[i] >= RateWindow
    BY DEF WindowBound
  <2>1. i \in 1..n /\ i + RateLimit \in 1..(n + 1)
    BY <1>1, <1>5
  <2>2. grants'[i] = grants[i] /\ grants[i] \in Nat
    BY <2>1, <1>5, <1>n
  <2>3. CASE i + RateLimit \in 1..n
    BY <2>1, <2>3, <2>2, <1>n, <1>5 DEF WindowInv, WindowBound
  <2>4. CASE i + RateLimit = n + 1
    <3>1. i \in 1..(n - Len(Kept(k)))
      BY <2>4, <1>1, <1>2, <2>1
    <3>2. grants[i] <= clock - RateWindow /\ grants'[i + RateLimit] = clock'
      BY <3>1, <2>4, <1>3, <1>5
    <3> QED BY <3>2, <2>2, <1>1
  <2> QED BY <2>1, <2>3, <2>4
<1> QED BY <1>6, <1>7, <1>9, <1>10, <1>11 DEF WindowInv

\* A step that admits nothing: the clock may pass, expired times may go.
LEMMA QuietStep ==
  ASSUME WindowInv, NEW k \in 0..Len(times), Expired(k), times' = Kept(k), UNCHANGED grants,
         clock' \in 0..MaxClock, clock <= clock', WindowTypeOK', SleepInv'
  PROVE  WindowInv'
<1>1. /\ times \in Seq(0..MaxClock) /\ grants \in Seq(0..MaxClock)
      /\ Len(times) \in Nat /\ Len(grants) \in Nat /\ Len(times) <= Len(grants)
      /\ clock \in Nat /\ RateWindow \in Nat /\ Len(times) <= RateLimit /\ RateLimit \in Nat
  BY WindowAssumption DEF WindowInv, WindowTypeOK, Admissions, TimesInv
<1>2. Len(Kept(k)) = Len(times) - k
  BY KeptProperties DEF WindowInv
<1>3. DOMAIN grants = 1..Len(grants) /\ \A i \in 1..Len(grants) : grants[i] \in Nat
  BY <1>1, Readings
<1>4. GrantsInv'
  <2>1. \A i \in 1..Len(grants) : grants[i] <= clock'
    BY <1>1, <1>3 DEF WindowInv, GrantsInv
  <2> QED BY <2>1, <1>3 DEF WindowInv, GrantsInv
<1>5. Dropped' = Len(grants) - Len(Kept(k)) /\ DOMAIN times' = 1..Len(Kept(k))
  BY <1>1, KeptProperties DEF WindowInv, Dropped, Admissions
<1>6. TimesInv'
  <2>1. \A i \in 1..Len(Kept(k)) : times'[i] = grants'[Dropped' + i]
    BY <1>5, KeptIsHistory
  <2>2. ASSUME NEW i \in 1..Dropped' PROVE grants'[i] <= clock' - RateWindow
    <3>1. grants[i] <= clock - RateWindow
      BY <1>5, KeptIsHistory
    <3>2. grants[i] \in Nat
      BY <1>1, <1>2, <1>3, <1>5
    <3> QED BY <3>1, <3>2, <1>1
  <2>3. Len(times') <= Len(grants') /\ Len(times') <= RateLimit
    BY <1>1, <1>2
  <2> QED BY <1>5, <2>1, <2>2, <2>3 DEF TimesInv
<1>7. WindowBound'
  BY DEF WindowInv, WindowBound
<1> QED BY <1>4, <1>6, <1>7 DEF WindowInv

\* Nobody's sleep is disturbed by a step in which nobody falls asleep.
LEMMA SleepFrame ==
  ASSUME WindowInv, NEW k \in 0..Len(times), Expired(k), times' = Kept(k) \/ times' = times,
         clock' \in Nat, clock <= clock',
         \A d \in Callers : wakeAt'[d] > clock' => wakeAt'[d] = wakeAt[d]
  PROVE  SleepInv'
<1> SUFFICES ASSUME NEW d \in Callers, wakeAt'[d] > clock'
             PROVE  Len(times') = RateLimit /\ wakeAt'[d] <= times'[1] + RateWindow
  BY DEF SleepInv
<1>1. wakeAt[d] > clock /\ wakeAt'[d] = wakeAt[d]
  BY DEF WindowInv, WindowTypeOK
<1>2. times' = times
  BY <1>1, SleepersKeepTimes
<1> QED BY <1>1, <1>2 DEF WindowInv, SleepInv

\* The invariant is inductive.
LEMMA InvStep == WindowInv /\ [WindowNext]_windowVars => WindowInv'
<1> SUFFICES ASSUME WindowInv, [WindowNext]_windowVars PROVE WindowInv'
  OBVIOUS
<1>t. /\ times \in Seq(0..MaxClock) /\ Len(times) \in Nat
      /\ clock \in 0..MaxClock /\ MaxClock \in Nat /\ RateLimit \in Nat /\ RateWindow \in Nat
      /\ RateLimit # 0 /\ RateWindow # 0
      /\ wakeAt \in [Callers -> 0..(MaxClock + RateWindow)]
  BY WindowAssumption DEF WindowInv, WindowTypeOK, Admissions
<1>1. ASSUME NEW c \in Callers, NEW k \in 0..RateLimit, NEW delay \in 0..MaxDelay,
             Grant(c, k, delay)
      PROVE  WindowInv'
  BY <1>1, AdmitStep
<1>2. ASSUME NEW c \in Callers, NEW k \in 0..RateLimit, NEW delay \in 0..MaxDelay,
             Reject(c, k, delay)
      PROVE  WindowInv'
  <2>1. /\ k \in 0..Len(times) /\ Expired(k) /\ times' = Kept(k) /\ UNCHANGED grants
        /\ clock' \in 0..MaxClock /\ clock <= clock'
        /\ wakeAt' = [wakeAt EXCEPT ![c] = 0]
    BY <1>2, <1>t, WindowAssumption DEF Reject, Tries, Passes, Awake
  <2>2. WindowTypeOK'
    BY <2>1, <1>t, KeptProperties DEF WindowInv, WindowTypeOK
  <2>3. \A d \in Callers : wakeAt'[d] > clock' => wakeAt'[d] = wakeAt[d]
    BY <2>1, <1>t
  <2>4. SleepInv'
    BY <2>1, <2>3, SleepFrame
  <2> QED BY <2>1, <2>2, <2>4, QuietStep
<1>3. ASSUME NEW c \in Callers, NEW k \in 0..RateLimit, SleepUntilFree(c, k) PROVE WindowInv'
  <2>1. /\ k \in 0..Len(times) /\ Expired(k) /\ times' = Kept(k) /\ UNCHANGED <<clock, grants>>
        /\ Len(times) - k >= RateLimit
        /\ wakeAt' = [wakeAt EXCEPT ![c] = times[k + 1] + RateWindow]
    BY <1>3 DEF SleepUntilFree, Tries
  <2>2. k = 0 /\ Len(times) = RateLimit
    <3>1. Len(times) <= RateLimit BY DEF WindowInv, TimesInv
    <3>2. Len(times) \in Nat /\ RateLimit \in Nat BY <1>t, WindowAssumption
    <3>3. k \in 0..Len(times) /\ Len(times) - k >= RateLimit BY <2>1
    <3> QED BY <3>1, <3>2, <3>3
  <2>3. Kept(k) = times
    BY <2>2, KeptNone DEF WindowInv
  <2>4. times[1] \in 0..MaxClock /\ k + 1 = 1
    BY <2>2, <1>t
  <2>5. WindowTypeOK'
    BY <2>1, <2>3, <2>4, <1>t DEF WindowInv, WindowTypeOK
  <2>6. SleepInv'
    BY <2>1, <2>2, <2>3, <2>4, <1>t DEF WindowInv, SleepInv
  <2> QED BY <2>1, <2>5, <2>6, <1>t, QuietStep
<1>4. ASSUME NEW c \in Callers, CancelSleep(c) PROVE WindowInv'
  <2>1. WindowTypeOK'
    BY <1>4, <1>t DEF CancelSleep, WindowInv, WindowTypeOK, Awake
  <2>2. SleepInv'
    BY <1>4, <1>t DEF CancelSleep, WindowInv, SleepInv, Awake
  <2> QED BY <1>4, <2>1, <2>2
          DEF CancelSleep, WindowInv, GrantsInv, TimesInv, WindowBound, Dropped
<1>5. ASSUME Tick PROVE WindowInv'
  <2>1. WindowTypeOK'
    BY <1>5, <1>t DEF Tick, WindowInv, WindowTypeOK
  <2>2. SleepInv'
    BY <1>5, <1>t DEF Tick, WindowInv, SleepInv
  <2>3. grants \in Seq(0..MaxClock) /\ Len(grants) \in Nat
    BY DEF WindowInv, WindowTypeOK, Admissions
  <2>4. GrantsInv'
    BY <1>5, <1>t, <2>3 DEF Tick, WindowInv, GrantsInv
  <2>5. TimesInv'
    BY <1>5, <1>t, <2>3 DEF Tick, WindowInv, TimesInv, Dropped
  <2> QED BY <1>5, <2>1, <2>2, <2>4, <2>5 DEF Tick, WindowInv, WindowBound
<1>6. CASE UNCHANGED windowVars
  BY <1>6 DEF windowVars, WindowInv, WindowTypeOK, GrantsInv, TimesInv, SleepInv, WindowBound, Dropped
<1> QED BY <1>1, <1>2, <1>3, <1>4, <1>5, <1>6 DEF WindowNext

\* Every state the limiter can reach satisfies the invariant.
THEOREM Invariance == WindowSpec => []WindowInv
BY InvInitially, InvStep, PTL DEF WindowSpec

\* Type correctness of the limiter.
THEOREM Typing == WindowSpec => []WindowTypeOK
<1>1. WindowInv => WindowTypeOK
  BY DEF WindowInv
<1> QED BY <1>1, Invariance, PTL

\* "At most rate_limit acquisitions in any interval of length rate_window",
\* however long a condition of acquire_if runs between the clock readings.
THEOREM StrictWindow == WindowSpec => []WindowBound
<1>1. WindowInv => WindowBound
  BY DEF WindowInv
<1> QED BY <1>1, Invariance, PTL

\* Nobody sleeps while the window has room: rejected and cancelled acquisitions
\* consume no quota, and a sleep is as short as the bound allows.
THEOREM NoIdleWindow == WindowSpec => []FullWhileAsleep
<1>1. WindowInv => FullWhileAsleep
  <2> SUFFICES ASSUME WindowInv, NEW c \in Callers, wakeAt[c] > clock
               PROVE  /\ Len(grants) >= RateLimit
                      /\ grants[Len(grants) - RateLimit + 1] > clock - RateWindow
    BY DEF FullWhileAsleep
  <2>1. /\ Len(times) = RateLimit /\ wakeAt[c] <= times[1] + RateWindow
        /\ RateLimit \in Nat /\ RateLimit # 0 /\ RateWindow \in Nat
        /\ times \in Seq(0..MaxClock) /\ Len(grants) \in Nat /\ clock \in Nat
        /\ times[1] \in Nat /\ wakeAt[c] \in Nat
    BY WindowAssumption DEF WindowInv, SleepInv, WindowTypeOK, Admissions
  <2>2. Len(times) <= Len(grants) /\ times[1] = grants[Len(grants) - RateLimit + 1]
    BY <2>1 DEF WindowInv, TimesInv, Dropped
  <2> QED BY <2>1, <2>2
<1> QED BY <1>1, Invariance, PTL

\* The window is full when somebody sleeps for it, and never more than full.
THEOREM ExactWindow == WindowSpec => []WindowIsExact
<1>1. WindowBound /\ FullWhileAsleep => WindowIsExact
  BY DEF WindowIsExact
<1> QED BY <1>1, StrictWindow, NoIdleWindow, PTL
=============================================================================
