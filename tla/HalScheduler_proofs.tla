------------------------ MODULE HalScheduler_proofs ------------------------
(* The clock updates and internal ticks of HalScheduler and the rules they *)
(* run, for intervals, turns, documents and rules of any size.             *)
EXTENDS HalScheduler, ListTheorems

(* What the counts of this second say of the seconds remembered: a tick    *)
(* has happened in this second exactly if oldTickTime is this second, only *)
(* a due second is ever remembered, and a due second in which the timer    *)
(* has run is remembered.  The same for the clock updates.                 *)
TicksInv ==
  /\ oldTickTime \in Nat /\ oldTickTime <= now
  /\ ticks = IF oldTickTime = now THEN 1 ELSE 0
  /\ oldTickTime = now => TickSecond
  /\ visited /\ TickSecond => oldTickTime = now

UpdatesInv ==
  /\ oldClockTime \in Nat /\ oldClockTime <= now
  /\ updates = IF oldClockTime = now THEN 1 ELSE 0
  /\ oldClockTime = now => ClockSecond
  /\ visited /\ ClockSecond => oldClockTime = now

TimeInv == now \in Nat \ {0} /\ fraction \in 0..Fractions - 1

(* Until the settings are loaded nothing has ticked, nothing was updated.  *)
LoadInv ==
  phase = "init" => ~visited /\ oldTickTime = 0 /\ oldClockTime = 0

SecondInv == TimeInv /\ LoadInv /\ TicksInv /\ UpdatesInv

(* A turn ends in the same second or a later one.                          *)
LEMMA TurnGoesForward ==
  ASSUME NEW f \in Nat, NEW n \in Nat \ {0}
  PROVE  f \div n \in Nat /\ f % n \in 0..n - 1
  OBVIOUS

LEMMA SecondInvInit == Init => SecondInv
  BY SchedulerConstants DEF Init, SecondInv, TimeInv, LoadInv, TicksInv, UpdatesInv

LEMMA SecondInvLoad == SecondInv /\ TimerLoadConfig => SecondInv'
  BY DEF TimerLoadConfig, history, SecondInv, TimeInv, LoadInv, TicksInv, UpdatesInv

LEMMA SecondInvTimer == SecondInv /\ Timer => SecondInv'
  <1> SUFFICES ASSUME SecondInv, Timer PROVE SecondInv'
    OBVIOUS
  <1> USE DEF SecondInv, TimeInv
  <1>1. /\ now' = now /\ fraction' = fraction /\ visited' = TRUE
        /\ (TickSecond <=> TickSecond') /\ (ClockSecond <=> ClockSecond')
        /\ LoadInv'
    BY DEF Timer, TickSecond, ClockSecond, LoadInv
  <1>2. TicksInv'
    <2>1. CASE TickIsDue
      <3>1. oldTickTime' = now /\ ticks' = ticks + 1
        BY <2>1 DEF Timer, InternalTick
      <3> QED
        BY <1>1, <2>1, <3>1 DEF TicksInv, TickIsDue
    <2>2. CASE ~TickIsDue
      <3>1. oldTickTime' = oldTickTime /\ ticks' = ticks
        BY <2>2 DEF Timer, InternalTick
      <3> QED
        BY <1>1, <2>2, <3>1 DEF TicksInv, TickIsDue
    <2> QED
      BY <2>1, <2>2
  <1>3. UpdatesInv'
    <2>1. CASE ClockIsDue
      <3>1. oldClockTime' = now /\ updates' = updates + 1
        BY <2>1 DEF Timer, ClockUpdate
      <3> QED
        BY <1>1, <2>1, <3>1 DEF UpdatesInv, ClockIsDue
    <2>2. CASE ~ClockIsDue
      <3>1. oldClockTime' = oldClockTime /\ updates' = updates
        BY <2>2 DEF Timer, ClockUpdate
      <3> QED
        BY <1>1, <2>2, <3>1 DEF UpdatesInv, ClockIsDue
    <2> QED
      BY <2>1, <2>2
  <1> QED
    BY <1>1, <1>2, <1>3

LEMMA SecondInvSleep == SecondInv /\ Sleep => SecondInv'
  <1> SUFFICES ASSUME SecondInv, Sleep PROVE SecondInv'
    OBVIOUS
  <1> USE DEF SecondInv, TimeInv
  <1>1. PICK d \in 1..MaxTurn :
          /\ now' = now + (fraction + d) \div Fractions
          /\ fraction' = (fraction + d) % Fractions
    BY DEF Sleep
  <1>2. fraction + d \in Nat /\ Fractions \in Nat \ {0}
    BY SchedulerConstants
  <1>3. now' \in Nat \ {0} /\ now <= now' /\ fraction' \in 0..Fractions - 1
    <2>1. /\ (fraction + d) \div Fractions \in Nat
          /\ (fraction + d) % Fractions \in 0..Fractions - 1
      BY <1>2, TurnGoesForward
    <2> HIDE DEF SecondInv
    <2>2. now \in Nat \ {0}
      BY DEF SecondInv, TimeInv
    <2> QED
      BY <1>1, <2>1, <2>2
  <1>4. UNCHANGED <<oldClockTime, oldTickTime, timerConfig>> /\ LoadInv'
    BY DEF Sleep, LoadInv
  <1>5. CASE now' = now
    <2>1. UNCHANGED <<now, visited, updates, ticks>>
      BY <1>5 DEF Sleep
    <2> QED
      BY <1>3, <1>4, <2>1 DEF TicksInv, UpdatesInv, TickSecond, ClockSecond
  <1>6. CASE now' # now
    <2>1. visited' = FALSE /\ updates' = 0 /\ ticks' = 0
      BY <1>6 DEF Sleep
    <2>2. oldTickTime' # now' /\ oldClockTime' # now'
      BY <1>3, <1>4, <1>6 DEF TicksInv, UpdatesInv
    <2> QED
      BY <1>3, <1>4, <2>1, <2>2 DEF TicksInv, UpdatesInv
  <1> QED
    BY <1>5, <1>6

LEMMA SecondInvNext == SecondInv /\ [Next]_vars => SecondInv'
  <1> SUFFICES ASSUME SecondInv, [Next]_vars PROVE SecondInv'
    OBVIOUS
  <1> USE DEF SecondInv, TimeInv, LoadInv, TicksInv, UpdatesInv, TickSecond, ClockSecond
  <1>0. CASE TimerLoadConfig
    BY <1>0, SecondInvLoad
  <1>1. CASE Timer
    BY <1>1, SecondInvTimer
  <1>2. CASE Server
    BY <1>2 DEF Server
  <1>3. CASE Sleep
    BY <1>3, SecondInvSleep
  <1>4. CASE UNCHANGED vars
    BY <1>4 DEF vars, loop, history
  <1> QED
    BY <1>0, <1>1, <1>2, <1>3, <1>4 DEF Next

(* A document that was loaded has both intervals, and the defaults stand   *)
(* in for those that are not above 0.                                      *)
LEMMA LoadedIntervals ==
  ASSUME NEW doc \in Documents, NEW default \in Nat \ {0}
  PROVE  /\ ~Quits(doc.clocking.clockInterval, FALSE)
              => Interval(doc.clocking.clockInterval, default) \in Nat \ {0}
         /\ ~Quits(doc.clocking.schedInterval, FALSE)
              => Interval(doc.clocking.schedInterval, default) \in Nat \ {0}
  <1>1. ASSUME NEW found \in Seq(Int), ~Quits(found, FALSE)
        PROVE  Interval(found, default) \in Nat \ {0}
    <2>1. Head(found) \in Int
      BY <1>1 DEF Quits
    <2> QED
      BY <2>1 DEF Interval
  <1>2. doc.clocking.clockInterval \in Seq(Int) /\ doc.clocking.schedInterval \in Seq(Int)
    BY SchedulerConstants DEF Attributes
  <1> QED
    BY <1>1, <1>2

(* No document, however it was edited or uploaded, makes the timer divide  *)
(* by zero.                                                                *)
THEOREM NoDivisionByZero == Spec => []IntervalsArePositive
  <1> DEFINE LoadedInv == rootConfig \in Documents /\ IntervalsArePositive
  <1>1. Init => LoadedInv
    BY DEF Init, IntervalsArePositive
  <1>2. LoadedInv /\ [Next]_vars => LoadedInv'
    <2> SUFFICES ASSUME LoadedInv, [Next]_vars PROVE LoadedInv'
      OBVIOUS
    <2>1. CASE TimerLoadConfig
      <3>1. rootConfig' \in Documents
        BY <2>1 DEF TimerLoadConfig
      <3>2. CASE phase' = "exited"
        BY <3>1, <3>2 DEF IntervalsArePositive
      <3>3. CASE phase' # "exited"
        <4>1. /\ timerConfig'.clockInterval
                   = Interval(rootConfig.clocking.clockInterval, DefaultClock)
              /\ timerConfig'.schedInterval
                   = Interval(rootConfig.clocking.schedInterval, DefaultSched)
              /\ ~Quits(rootConfig.clocking.clockInterval, FALSE)
              /\ ~Quits(rootConfig.clocking.schedInterval, FALSE)
          <5>1. timerConfig' =
                 [clockEnabled |-> IsOn(rootConfig.clocking.enabled),
                  clockInterval |-> Interval(rootConfig.clocking.clockInterval, DefaultClock),
                  schedInterval |-> Interval(rootConfig.clocking.schedInterval, DefaultSched)]
            BY <2>1, <3>3, Zenon DEF TimerLoadConfig
          <5>2. /\ ~Quits(rootConfig.clocking.clockInterval, FALSE)
                /\ ~Quits(rootConfig.clocking.schedInterval, FALSE)
            BY <2>1, <3>3, Zenon DEF TimerLoadConfig
          <5> QED
            BY <5>1, <5>2
        <4>2. DefaultClock \in Nat \ {0} /\ DefaultSched \in Nat \ {0}
          BY SchedulerConstants
        <4> QED
          BY <3>1, <4>1, <4>2, LoadedIntervals DEF IntervalsArePositive
      <3> QED
        BY <3>2, <3>3
    <2>2. CASE Timer
      BY <2>2 DEF Timer, IntervalsArePositive
    <2>3. CASE Server
      BY <2>3 DEF Server, IntervalsArePositive
    <2>4. CASE Sleep
      BY <2>4 DEF Sleep, IntervalsArePositive
    <2>5. CASE UNCHANGED vars
      BY <2>5 DEF vars, loop, IntervalsArePositive
    <2> QED
      BY <2>1, <2>2, <2>3, <2>4, <2>5 DEF Next
  <1> QED
    BY <1>1, <1>2, PTL DEF Spec

(* However long the turns of the main loop and whatever the two intervals, *)
(* a second in which the timer has run has had its clock update and its    *)
(* internal tick once each, if they were due, and not otherwise.           *)
THEOREM DueSecondsTickOnce == Spec => EachDueSecondTicksOnce
  <1> DEFINE Once ==
        now' # now /\ visited =>
          /\ ticks = IF TickSecond THEN 1 ELSE 0
          /\ updates = IF ClockSecond THEN 1 ELSE 0
  <1>1. SecondInv => [Once]_vars
    BY DEF SecondInv, TimeInv, TicksInv, UpdatesInv
  <1> QED
    BY <1>1, SecondInvInit, SecondInvNext, PTL DEF Spec, EachDueSecondTicksOnce

-----------------------------------------------------------------------------
(* What the rule engine selects from a list.                               *)

(* Selected goes along the list and keeps what is in the set.              *)
SelectedAlong(h, E, list, S) ==
  /\ h \in [0 .. Len(list) -> Seq(E)]
  /\ h[0] = << >>
  /\ \A k \in 1 .. Len(list) :
       h[k] = IF list[k] \in S THEN Append(h[k - 1], list[k]) ELSE h[k - 1]
  /\ h[Len(list)] = Selected(list, S)

(* There is such a run: the fold is one, whatever the list.                *)
LEMMA SelectedRun ==
  ASSUME NEW E, NEW list \in Seq(E), NEW S
  PROVE  \E h : SelectedAlong(h, E, list, S)
<1> DEFINE n == Len(list)
           Op(x, e) == IF e \in S THEN Append(x, e) ELSE x
           step == [p \in Seq(E) \X (1 .. n) |-> Op(p[1], list[p[2]])]
           Fold(g) == [t \in SUBSET DOMAIN list |->
                         IF t = {} THEN << >> ELSE Op(g[t \ {Max(t)}], list[Max(t)])]
           F == CHOOSE g : g = Fold(g)
           h == [k \in 0 .. n |-> F[1 .. k]]
<1>1. n \in Nat /\ DOMAIN list = 1 .. n /\ \A k \in 1 .. n : list[k] \in E
  BY LenProperties, ElementOfSeq
<1>2. \A x \in Seq(E), e \in E : Op(x, e) \in Seq(E)
  OBVIOUS
<1>3. << >> \in Seq(E)
  OBVIOUS
<1>4. F = Fold(F)
  <2>1. step \in [Seq(E) \X (1 .. n) -> Seq(E)]
    <3>1. \A p \in Seq(E) \X (1 .. n) : Op(p[1], list[p[2]]) \in Seq(E)
      <4> HIDE DEF n, Op
      <4> QED
        BY <1>1, <1>2
    <3> HIDE DEF n, Op
    <3> QED
      BY <3>1
  <2>2. PICK g : FoldedWith(g, Seq(E), << >>, step, n)
    <3> HIDE DEF n, Op, step
    <3> QED
      BY <1>1, <1>3, <2>1, FoldOnPlaces
  <2>3. ASSUME NEW t \in SUBSET DOMAIN list
        PROVE  g[t] = IF t = {} THEN << >> ELSE Op(g[t \ {Max(t)}], list[Max(t)])
    <3> HIDE DEF n, Op
    <3>1. CASE t = {}
      BY <2>2, <3>1 DEF FoldedWith
    <3>2. CASE t # {}
      <4>1. /\ Max(t) \in 1 .. n /\ g[t \ {Max(t)}] \in Seq(E)
            /\ g[t] = step[<<g[t \ {Max(t)}], Max(t)>>]
        <5> HIDE DEF step
        <5> QED
          BY <1>1, <2>2, <3>2 DEF FoldedWith
      <4> QED
        BY <3>2, <4>1
    <3> QED
      BY <3>1, <3>2
  <2>4. g \in [SUBSET DOMAIN list -> Seq(E)]
    <3> HIDE DEF n, Op, step
    <3> QED
      BY <1>1, <2>2 DEF FoldedWith
  <2>5. g = Fold(g)
    <3> HIDE DEF n, Op, step
    <3> QED
      BY <2>3, <2>4
  <2> HIDE DEF Fold
  <2> QED
    BY <2>5
<1>5. Selected(list, S) = F[DOMAIN list]
  BY DEF Selected, FoldLeft, MapThenFoldSet
<1> HIDE DEF F, n
<1>6. h[0] = << >>
  <2>1. 1 .. 0 = {} /\ {} \in SUBSET DOMAIN list /\ 0 \in 0 .. n
    BY <1>1
  <2>2. F[{}] = << >>
    BY <1>4, <2>1
  <2> QED
    BY <2>1, <2>2
<1>7. ASSUME NEW k \in 1 .. n PROVE h[k] = Op(h[k - 1], list[k])
  <2>1. /\ 1 .. k \in SUBSET DOMAIN list /\ 1 .. k # {}
        /\ Max(1 .. k) = k /\ (1 .. k) \ {k} = 1 .. k - 1
    BY <1>1, Segment
  <2>2. F[1 .. k] = Op(F[(1 .. k) \ {Max(1 .. k)}], list[Max(1 .. k)])
    <3> DEFINE t == 1 .. k
    <3>1. t \in SUBSET DOMAIN list /\ t # {}
      BY <2>1
    <3> HIDE DEF Op, t
    <3>2. F[t] = Op(F[t \ {Max(t)}], list[Max(t)])
      BY <1>4, <3>1
    <3> QED
      BY <3>2 DEF t
  <2>3. k \in 0 .. n /\ k - 1 \in 0 .. n
    BY <1>1
  <2>4. h[k] = F[1 .. k] /\ h[k - 1] = F[1 .. k - 1]
    BY <2>3
  <2> HIDE DEF Op, h
  <2> QED
    BY <2>1, <2>2, <2>4
<1>8. \A k \in 0 .. n : h[k] \in Seq(E)
  <2> HIDE DEF h, Op
  <2>1. \A k \in 1 .. n : h[k - 1] \in Seq(E) => h[k] \in Seq(E)
    BY <1>1, <1>2, <1>7
  <2>2. h[0] \in Seq(E)
    BY <1>3, <1>6
  <2> QED
    BY <1>1, <2>1, <2>2, AlongPlaces
<1>9. h \in [0 .. n -> Seq(E)]
  BY <1>8
<1>10. h[n] = Selected(list, S)
  BY <1>1, <1>5
<1> QED
  <2> HIDE DEF h
  <2> QED
    BY <1>6, <1>7, <1>9, <1>10 DEF SelectedAlong, n

(* What is selected are the entries of the list that are in the set.       *)
LEMMA SelectedElements ==
  ASSUME NEW E, NEW list \in Seq(E), NEW S
  PROVE  /\ Selected(list, S) \in Seq(E)
         /\ ToSet(Selected(list, S)) = ToSet(list) \cap S
<1> DEFINE n == Len(list)
           Kept(k) == {list[i] : i \in 1 .. k} \cap S
<1>1. n \in Nat /\ DOMAIN list = 1 .. n /\ \A k \in 1 .. n : list[k] \in E
  BY LenProperties, ElementOfSeq
<1>2. PICK h : SelectedAlong(h, E, list, S)
  BY SelectedRun
<1>3. /\ \A k \in 0 .. n : h[k] \in Seq(E)
      /\ h[0] = << >>
      /\ \A k \in 1 .. n : h[k] = IF list[k] \in S THEN Append(h[k - 1], list[k]) ELSE h[k - 1]
      /\ h[n] = Selected(list, S)
  BY <1>2 DEF SelectedAlong
<1> HIDE DEF n, Kept
<1> DEFINE P == {k \in 0 .. n : ToSet(h[k]) = Kept(k)}
<1>4. 0 \in P
  <2>1. ToSet(<< >>) = {} /\ Kept(0) = {}
    BY DEF ToSet, Kept
  <2>2. ToSet(h[0]) = Kept(0)
    BY <1>3, <2>1, Zenon
  <2>3. 0 \in 0 .. n
    BY <1>1
  <2> QED
    BY <2>2, <2>3
<1>5. ASSUME NEW k \in 0 .. n, k \in P, k + 1 <= n PROVE k + 1 \in P
  <2>1. k + 1 \in 1 .. n /\ (k + 1) - 1 = k /\ k + 1 \in 0 .. n
    BY <1>1, <1>5
  <2>2. Kept(k + 1) = Kept(k) \cup (IF list[k + 1] \in S THEN {list[k + 1]} ELSE {})
    <3>1. 1 .. k + 1 = (1 .. k) \cup {k + 1}
      BY <1>1
    <3>2. {list[i] : i \in 1 .. k + 1} = {list[i] : i \in 1 .. k} \cup {list[k + 1]}
      BY <3>1, Zenon
    <3> QED
      BY <3>2 DEF Kept
  <2>3. ToSet(h[k]) = Kept(k)
    BY <1>5
  <2>4. ToSet(h[k + 1]) = Kept(k + 1)
    <3>1. CASE list[k + 1] \in S
      <4>1. h[k + 1] = Append(h[k], list[k + 1])
        BY <1>3, <2>1, <3>1
      <4>2. ToSet(Append(h[k], list[k + 1])) = ToSet(h[k]) \cup {list[k + 1]}
        <5>1. h[k] \in Seq(E) /\ list[k + 1] \in E
          BY <1>1, <1>3, <2>1
        <5>2. \A s \in Seq(E), e \in E : ToSet(Append(s, e)) = ToSet(s) \cup {e}
          <6> TAKE s \in Seq(E), e \in E
          <6>1. /\ DOMAIN Append(s, e) = 1 .. Len(s) + 1 /\ DOMAIN s = 1 .. Len(s)
                /\ Len(s) \in Nat
                /\ \A i \in 1 .. Len(s) : Append(s, e)[i] = s[i]
                /\ Append(s, e)[Len(s) + 1] = e
            BY AppendProperties, LenProperties
          <6>2. 1 .. Len(s) + 1 = (1 .. Len(s)) \cup {Len(s) + 1}
            BY <6>1
          <6>3. {Append(s, e)[i] : i \in 1 .. Len(s)} = {s[i] : i \in 1 .. Len(s)}
            BY <6>1
          <6> QED
            BY <6>1, <6>2, <6>3 DEF ToSet
        <5> QED
          BY <5>1, <5>2
      <4> QED
        BY <2>2, <2>3, <3>1, <4>1, <4>2
    <3>2. CASE list[k + 1] \notin S
      <4>1. h[k + 1] = h[k]
        BY <1>3, <2>1, <3>2
      <4> QED
        BY <2>2, <2>3, <3>2, <4>1
    <3> QED
      BY <3>1, <3>2
  <2> QED
    BY <2>1, <2>4
<1>6. \A k \in 0 .. n : k \in P
  <2> HIDE DEF P
  <2> QED
    BY <1>1, <1>4, <1>5, UpTo
<1>7. n \in 0 .. n /\ Kept(n) = ToSet(list) \cap S
  BY <1>1 DEF Kept, ToSet
<1> QED
  BY <1>3, <1>6, <1>7

(* What is selected hangs only on which of the list's entries are in the   *)
(* set.                                                                    *)
LEMMA SelectedSame ==
  ASSUME NEW E, NEW list \in Seq(E), NEW S, NEW R,
         \A e \in ToSet(list) : e \in S <=> e \in R
  PROVE  Selected(list, S) = Selected(list, R)
<1> DEFINE n == Len(list)
<1>1. n \in Nat /\ DOMAIN list = 1 .. n /\ \A k \in 1 .. n : list[k] \in S <=> list[k] \in R
  BY LenProperties DEF ToSet
<1>2. PICK g : SelectedAlong(g, E, list, S)
  BY SelectedRun
<1>3. PICK h : SelectedAlong(h, E, list, R)
  BY SelectedRun
<1>4. /\ g[0] = h[0] /\ g[n] = Selected(list, S) /\ h[n] = Selected(list, R)
      /\ \A k \in 1 .. n : g[k - 1] = h[k - 1] => g[k] = h[k]
  BY <1>1, <1>2, <1>3 DEF SelectedAlong
<1> HIDE DEF n
<1> DEFINE P == {k \in 0 .. n : g[k] = h[k]}
<1>5. 0 \in P
  BY <1>1, <1>4
<1>6. ASSUME NEW k \in 0 .. n, k \in P, k + 1 <= n PROVE k + 1 \in P
  <2>1. k + 1 \in 1 .. n /\ (k + 1) - 1 = k /\ k + 1 \in 0 .. n
    BY <1>1, <1>6
  <2>2. g[k] = h[k]
    BY <1>6
  <2> QED
    BY <1>4, <2>1, <2>2
<1>7. \A k \in 0 .. n : k \in P
  <2> HIDE DEF P
  <2> QED
    BY <1>1, <1>5, <1>6, UpTo
<1> QED
  BY <1>1, <1>4, <1>7

(* All of a list, and nothing of it.                                       *)
LEMMA SelectedAll ==
  ASSUME NEW E, NEW list \in Seq(E), NEW S, ToSet(list) \subseteq S
  PROVE  Selected(list, S) = list
<1> DEFINE n == Len(list)
<1>1. n \in Nat /\ DOMAIN list = 1 .. n /\ \A k \in 1 .. n : list[k] \in S
  BY LenProperties DEF ToSet
<1>2. PICK h : SelectedAlong(h, E, list, S)
  BY SelectedRun
<1>3. /\ \A k \in 0 .. n : h[k] \in Seq(E)
      /\ h[0] = << >> /\ h[n] = Selected(list, S)
      /\ \A k \in 1 .. n : h[k] = Append(h[k - 1], list[k])
  BY <1>1, <1>2 DEF SelectedAlong
<1> HIDE DEF n
<1> DEFINE P == {k \in 0 .. n : Len(h[k]) = k /\ \A i \in 1 .. k : h[k][i] = list[i]}
<1>4. 0 \in P
  BY <1>1, <1>3
<1>5. ASSUME NEW k \in 0 .. n, k \in P, k + 1 <= n PROVE k + 1 \in P
  <2>1. k + 1 \in 1 .. n /\ (k + 1) - 1 = k /\ k + 1 \in 0 .. n
    BY <1>1, <1>5
  <2>2. h[k] \in Seq(E) /\ Len(h[k]) = k /\ \A i \in 1 .. k : h[k][i] = list[i]
    BY <1>3, <1>5
  <2>3. h[k + 1] = Append(h[k], list[k + 1])
    BY <1>3, <2>1
  <2>4. list[k + 1] \in E
    BY <1>1, <2>1, ElementOfSeq
  <2>5. /\ Len(h[k + 1]) = k + 1 /\ h[k + 1][k + 1] = list[k + 1]
        /\ \A i \in 1 .. k : h[k + 1][i] = h[k][i]
    BY <2>2, <2>3, <2>4, AppendProperties
  <2>6. ASSUME NEW i \in 1 .. k + 1 PROVE h[k + 1][i] = list[i]
    <3>1. CASE i = k + 1
      BY <2>5, <3>1
    <3>2. CASE i # k + 1
      <4>1. i \in 1 .. k
        BY <1>1, <3>2
      <4> QED
        BY <2>2, <2>5, <4>1
    <3> QED
      BY <3>1, <3>2
  <2> QED
    BY <2>1, <2>5, <2>6
<1>6. \A k \in 0 .. n : k \in P
  <2> HIDE DEF P
  <2> QED
    BY <1>1, <1>4, <1>5, UpTo
<1>7. n \in 0 .. n /\ n \in P
  <2> HIDE DEF P
  <2> QED
    BY <1>1, <1>6
<1>8. h[n] \in Seq(E) /\ Len(h[n]) = Len(list) /\ \A i \in 1 .. n : h[n][i] = list[i]
  BY <1>3, <1>7 DEF n
<1>9. h[n] = list
  BY <1>1, <1>8, SeqEqual
<1> QED
  BY <1>3, <1>9

LEMMA SelectedNone ==
  ASSUME NEW E, NEW list \in Seq(E), NEW S, ToSet(list) \cap S = {}
  PROVE  Selected(list, S) = << >>
<1>1. /\ Selected(list, S) \in Seq(E)
      /\ ToSet(Selected(list, S)) = {}
  BY SelectedElements
<1>2. \A s \in Seq(E) : ToSet(s) = {} => s = << >>
  <2> TAKE s \in Seq(E)
  <2>1. Len(s) \in Nat /\ DOMAIN s = 1 .. Len(s)
    BY LenProperties
  <2>2. CASE Len(s) = 0
    BY <2>2, EmptySeq
  <2>3. CASE Len(s) # 0
    <3>1. 1 \in DOMAIN s
      BY <2>1, <2>3
    <3> QED
      BY <3>1 DEF ToSet
  <2> QED
    BY <2>2, <2>3
<1> QED
  BY <1>1, <1>2

(* Selecting from one list after another.                                  *)
LEMMA SelectedConcat ==
  ASSUME NEW E, NEW a \in Seq(E), NEW b \in Seq(E), NEW S
  PROVE  Selected(a \o b, S) = Selected(a, S) \o Selected(b, S)
<1> DEFINE m == Len(a)
           n == Len(b)
<1>1. /\ m \in Nat /\ n \in Nat /\ a \o b \in Seq(E) /\ Len(a \o b) = m + n
      /\ \A i \in 1 .. m : (a \o b)[i] = a[i] /\ i \in 1 .. m + n
      /\ \A i \in 1 .. n : (a \o b)[m + i] = b[i] /\ m + i \in 1 .. m + n
                           /\ (m + i) - 1 = m + (i - 1) /\ b[i] \in E
  <2>1. /\ a \o b \in Seq(E) /\ Len(a \o b) = m + n /\ m \in Nat /\ n \in Nat
        /\ \A i \in 1 .. m + n : (a \o b)[i] = IF i <= m THEN a[i] ELSE b[i - m]
        /\ \A i \in 1 .. n : b[i] \in E
    BY ConcatProperties, LenProperties, ElementOfSeq
  <2> HIDE DEF m, n
  <2>2. ASSUME NEW i \in 1 .. m PROVE (a \o b)[i] = a[i] /\ i \in 1 .. m + n
    BY <2>1
  <2>3. ASSUME NEW i \in 1 .. n
        PROVE  (a \o b)[m + i] = b[i] /\ m + i \in 1 .. m + n /\ (m + i) - 1 = m + (i - 1)
    <3>1. m + i \in 1 .. m + n /\ ~(m + i <= m) /\ (m + i) - m = i /\ (m + i) - 1 = m + (i - 1)
      BY <2>1
    <3> QED
      BY <2>1, <3>1
  <2> QED
    BY <2>1, <2>2, <2>3
<1>2. PICK h : SelectedAlong(h, E, a \o b, S)
  BY <1>1, SelectedRun
<1>3. PICK f : SelectedAlong(f, E, a, S)
  BY SelectedRun
<1>4. PICK g : SelectedAlong(g, E, b, S)
  BY SelectedRun
<1>5. /\ h[0] = << >> /\ h[m + n] = Selected(a \o b, S)
      /\ \A k \in 1 .. m + n :
           h[k] = IF (a \o b)[k] \in S THEN Append(h[k - 1], (a \o b)[k]) ELSE h[k - 1]
  BY <1>1, <1>2 DEF SelectedAlong
<1>6. /\ f[0] = << >> /\ f[m] = Selected(a, S) /\ f[m] \in Seq(E)
      /\ \A k \in 1 .. m : f[k] = IF a[k] \in S THEN Append(f[k - 1], a[k]) ELSE f[k - 1]
  <2>1. m \in 0 .. m
    BY <1>1
  <2> QED
    BY <1>3, <2>1 DEF SelectedAlong
<1>7. /\ g[0] = << >> /\ g[n] = Selected(b, S) /\ \A k \in 0 .. n : g[k] \in Seq(E)
      /\ \A k \in 1 .. n : g[k] = IF b[k] \in S THEN Append(g[k - 1], b[k]) ELSE g[k - 1]
  BY <1>1, <1>4 DEF SelectedAlong
<1> HIDE DEF m, n
<1>8. h[m] = f[m]
  <2> DEFINE P == {k \in 0 .. m : h[k] = f[k]}
  <2>1. 0 \in P
    BY <1>1, <1>5, <1>6
  <2>2. ASSUME NEW k \in 0 .. m, k \in P, k + 1 <= m PROVE k + 1 \in P
    <3>1. k + 1 \in 1 .. m /\ (k + 1) - 1 = k /\ k + 1 \in 0 .. m
      <4>1. m \in Nat /\ k + 1 <= m
        BY <1>1, <2>2
      <4> QED
        BY <4>1
    <3>2. h[k] = f[k]
      BY <2>2
    <3>3. (a \o b)[k + 1] = a[k + 1] /\ k + 1 \in 1 .. m + n
      BY <1>1, <3>1
    <3>4. h[k + 1] = f[k + 1]
      BY <1>5, <1>6, <3>1, <3>2, <3>3
    <3> QED
      BY <3>1, <3>4
  <2>3. m \in P
    <3> HIDE DEF P
    <3>1. m \in 0 .. m
      BY <1>1
    <3> QED
      BY <1>1, <2>1, <2>2, <3>1, UpTo
  <2> QED
    BY <2>3
<1>9. h[m + n] = f[m] \o g[n]
  <2> DEFINE P == {k \in 0 .. n : h[m + k] = f[m] \o g[k]}
  <2>1. 0 \in P
    <3>1. m + 0 = m /\ f[m] \o << >> = f[m] /\ 0 \in 0 .. n
      BY <1>1, <1>6, ConcatEmptySeq
    <3> QED
      BY <1>7, <1>8, <3>1
  <2>2. ASSUME NEW k \in 0 .. n, k \in P, k + 1 <= n PROVE k + 1 \in P
    <3>1. k + 1 \in 1 .. n /\ (k + 1) - 1 = k /\ k + 1 \in 0 .. n
      <4>1. n \in Nat /\ k + 1 <= n
        BY <1>1, <2>2
      <4> QED
        BY <4>1
    <3>2. h[m + k] = f[m] \o g[k]
      BY <2>2
    <3>3. /\ (a \o b)[m + (k + 1)] = b[k + 1] /\ m + (k + 1) \in 1 .. m + n
          /\ (m + (k + 1)) - 1 = m + k /\ b[k + 1] \in E
      BY <1>1, <3>1
    <3>4. h[m + (k + 1)] = IF b[k + 1] \in S THEN Append(h[m + k], b[k + 1]) ELSE h[m + k]
      BY <1>5, <3>3
    <3>5. g[k + 1] = IF b[k + 1] \in S THEN Append(g[k], b[k + 1]) ELSE g[k]
      BY <1>7, <3>1
    <3>6. \A s, t \in Seq(E), e \in E : Append(s \o t, e) = s \o Append(t, e)
      <4> TAKE s, t \in Seq(E), e \in E
      <4>1. /\ Append(s \o t, e) = (s \o t) \o << e >> /\ Append(t, e) = t \o << e >>
            /\ << e >> \in Seq(E)
        BY ConcatProperties, AppendIsConcat
      <4> QED
        BY <4>1, ConcatAssociative
    <3>7. Append(f[m] \o g[k], b[k + 1]) = f[m] \o Append(g[k], b[k + 1])
      BY <1>6, <1>7, <3>3, <3>6
    <3>8. h[m + (k + 1)] = f[m] \o g[k + 1]
      BY <3>2, <3>4, <3>5, <3>7
    <3> QED
      BY <3>1, <3>8
  <2>3. n \in P
    <3> HIDE DEF P
    <3>1. n \in 0 .. n
      BY <1>1
    <3> QED
      BY <1>1, <2>1, <2>2, <3>1, UpTo
  <2> QED
    BY <2>3
<1> QED
  BY <1>5, <1>6, <1>7, <1>9

(* What is selected keeps the order of the list.                           *)
InOrder(list, R) == \A i, j \in DOMAIN list : i < j => <<list[i], list[j]>> \in R

LEMMA SelectedInOrder ==
  ASSUME NEW E, NEW list \in Seq(E), NEW S, NEW R, InOrder(list, R)
  PROVE  InOrder(Selected(list, S), R)
<1> DEFINE n == Len(list)
           Before(k) == {list[i] : i \in 1 .. k}
<1>1. /\ n \in Nat /\ DOMAIN list = 1 .. n /\ \A k \in 1 .. n : list[k] \in E
      /\ \A i, j \in 1 .. n : i < j => <<list[i], list[j]>> \in R
  BY LenProperties, ElementOfSeq DEF InOrder
<1>2. PICK h : SelectedAlong(h, E, list, S)
  BY SelectedRun
<1>3. /\ \A k \in 0 .. n : h[k] \in Seq(E)
      /\ h[0] = << >>
      /\ \A k \in 1 .. n : h[k] = IF list[k] \in S THEN Append(h[k - 1], list[k]) ELSE h[k - 1]
      /\ h[n] = Selected(list, S)
  BY <1>2 DEF SelectedAlong
<1> HIDE DEF n
<1> DEFINE P == {k \in 0 .. n : /\ InOrder(h[k], R)
                                /\ \A i \in DOMAIN h[k] : \E j \in 1 .. k : h[k][i] = list[j]}
<1>4. 0 \in P
  BY <1>1, <1>3 DEF InOrder
<1>5. ASSUME NEW k \in 0 .. n, k \in P, k + 1 <= n PROVE k + 1 \in P
  <2>1. k + 1 \in 1 .. n /\ (k + 1) - 1 = k /\ k + 1 \in 0 .. n /\ k \in Nat
    BY <1>1, <1>5
  <2>2. /\ h[k] \in Seq(E) /\ InOrder(h[k], R) /\ list[k + 1] \in E
        /\ \A i \in DOMAIN h[k] : \E j \in 1 .. k : h[k][i] = list[j]
    BY <1>1, <1>3, <1>5, <2>1
  <2>3. h[k + 1] = IF list[k + 1] \in S THEN Append(h[k], list[k + 1]) ELSE h[k]
    BY <1>3, <2>1
  <2> HIDE DEF P
  <2>4. \A j \in 1 .. k : j \in 1 .. k + 1 /\ <<list[j], list[k + 1]>> \in R
    <3> TAKE j \in 1 .. k
    <3>1. j \in 1 .. n /\ j < k + 1 /\ j \in 1 .. k + 1
      BY <1>1, <1>5, <2>1
    <3> QED
      BY <1>1, <2>1, <3>1
  <2>5. /\ InOrder(h[k + 1], R)
        /\ \A i \in DOMAIN h[k + 1] : \E j \in 1 .. k + 1 : h[k + 1][i] = list[j]
    <3>1. CASE list[k + 1] \in S
      <4> DEFINE l == Len(h[k])
                 new == h[k + 1]
      <4>1. /\ l \in Nat /\ DOMAIN h[k] = 1 .. l /\ DOMAIN new = 1 .. l + 1
            /\ \A i \in 1 .. l : new[i] = h[k][i]
            /\ new[l + 1] = list[k + 1]
        BY <2>2, <2>3, <3>1, AppendProperties, LenProperties
      <4> HIDE DEF l, new
      <4>2. ASSUME NEW i \in 1 .. l + 1 PROVE \E j \in 1 .. k + 1 : new[i] = list[j]
        <5>1. CASE i = l + 1
          <6>1. k + 1 \in 1 .. k + 1
            BY <2>1
          <6> QED
            BY <4>1, <5>1, <6>1
        <5>2. CASE i # l + 1
          <6>1. i \in 1 .. l
            BY <4>1, <5>2
          <6> QED
            BY <2>2, <2>4, <4>1, <6>1
        <5> QED
          BY <5>1, <5>2
      <4>3. ASSUME NEW i \in 1 .. l + 1, NEW j \in 1 .. l + 1, i < j
            PROVE  <<new[i], new[j]>> \in R
        <5>1. i \in 1 .. l
          BY <4>1, <4>3
        <5>2. CASE j = l + 1
          <6>1. PICK m \in 1 .. k : h[k][i] = list[m]
            BY <2>2, <4>1, <5>1
          <6> QED
            BY <2>4, <4>1, <5>1, <5>2, <6>1
        <5>3. CASE j # l + 1
          <6>1. j \in 1 .. l
            BY <4>1, <5>3
          <6>2. <<h[k][i], h[k][j]>> \in R
            BY <2>2, <4>1, <4>3, <5>1, <6>1 DEF InOrder
          <6> QED
            BY <4>1, <5>1, <6>1, <6>2
        <5> QED
          BY <5>2, <5>3
      <4>4. InOrder(new, R)
        BY <4>1, <4>3 DEF InOrder
      <4> QED
        BY <4>1, <4>2, <4>4 DEF new
    <3>2. CASE list[k + 1] \notin S
      <4>1. h[k + 1] = h[k]
        BY <2>3, <3>2
      <4> QED
        BY <2>2, <2>4, <4>1
    <3> QED
      BY <3>1, <3>2
  <2> QED
    BY <2>1, <2>5 DEF P
<1>6. \A k \in 0 .. n : k \in P
  <2> HIDE DEF P
  <2> QED
    BY <1>1, <1>4, <1>5, UpTo
<1>7. n \in 0 .. n
  BY <1>1
<1>8. n \in P
  <2> HIDE DEF P
  <2> QED
    BY <1>6, <1>7
<1> QED
  BY <1>3, <1>8

-----------------------------------------------------------------------------
(* Multiples and quotients.                                                *)
LEMMA Times ==
  ASSUME NEW m \in Nat, NEW n \in Nat
  PROVE  /\ m * n \in Nat /\ (m + 1) * n = m * n + n
         /\ \A r \in 0 .. m - 1 : /\ r * n \in Nat
                                  /\ (r + 1) * n = r * n + n
                                  /\ (r + 1) * n <= m * n
<1>1. m * n \in Nat /\ (m + 1) * n = m * n + n
  OBVIOUS
<1>2. ASSUME NEW r \in 0 .. m - 1
      PROVE  r * n \in Nat /\ (r + 1) * n = r * n + n /\ (r + 1) * n <= m * n
  <2>1. PICK d \in Nat : m = (r + 1) + d
    <3>1. m - (r + 1) \in Nat /\ m = (r + 1) + (m - (r + 1))
      OBVIOUS
    <3> QED
      BY <3>1
  <2>2. r \in Nat /\ r + 1 \in Nat
    OBVIOUS
  <2>3. r * n \in Nat /\ (r + 1) * n = r * n + n /\ (r + 1) * n \in Nat /\ d * n \in Nat
    BY <2>2
  <2>4. m * n = (r + 1) * n + d * n
    BY <2>1, <2>2
  <2> QED
    BY <2>3, <2>4
<1> QED
  BY <1>1, <1>2

LEMMA Divided ==
  ASSUME NEW m \in Nat, NEW n \in Nat \ {0}
  PROVE  (m * n) % n = 0 /\ (m * n) \div n = m
<1>1. (m * n) % n = 0
  BY SMTT(30)
<1>2. (m * n) \div n = m
  BY SMTT(30)
<1> QED
  BY <1>1, <1>2

-----------------------------------------------------------------------------
(* What the runs of a rule leave in the log of a tick.                     *)

(* The actions of a rule that can be done, by position.                    *)
Able(rule) == {i \in DOMAIN rule.actions : IsDone(rule.actions[i])}

LogEntry == [rule : Rules, action : Nat]

(* What the runs of a rule have left in a log.                             *)
Own(rule) == {e \in LogEntry : e.rule = rule}

(* Each action that can be done once, none after one of a higher order.    *)
IsRound(round, rule) ==
  LET n == Cardinality(Able(rule)) IN
  /\ {round[k].action : k \in 1 .. n} = Able(rule)
  /\ \A k \in 1 .. n - 1 : rule.actions[round[k].action].order
                             <= rule.actions[round[k + 1].action].order

(* The entries of a rule in a log are one round after another.             *)
InRounds(s, rule) ==
  LET n == Cardinality(Able(rule))
      mine == Selected(s, Own(rule))
  IN \E m \in Nat :
       /\ Len(mine) = m * n
       /\ \A r \in 0 .. m - 1 : IsRound(SubSeq(mine, r * n + 1, (r + 1) * n), rule)

Log == {s \in Seq(LogEntry) : \A rule \in Rules : InRounds(s, rule)}

LEMMA AbleCount ==
  ASSUME NEW rule \in Rules
  PROVE  Cardinality(Able(rule)) \in Nat
<1>1. rule.actions \in Seq(ToSet(rule.actions))
  BY DocumentConstants
<1>2. Len(rule.actions) \in Nat /\ DOMAIN rule.actions = 1 .. Len(rule.actions)
  BY <1>1, LenProperties
<1>3. IsFiniteSet(1 .. Len(rule.actions))
  BY <1>2, FS_Interval
<1>4. Able(rule) \in SUBSET (1 .. Len(rule.actions))
  BY <1>2 DEF Able
<1> QED
  BY <1>3, <1>4, FS_Subset, FS_CardinalityType

(* One execution of a rule does each of its able actions once, in order.   *)
LEMMA ActionsDone ==
  ASSUME NEW rule \in Rules, NEW d \in ExecuteActions(rule)
  PROVE  /\ Able(rule) \subseteq Nat
         /\ d \in Seq(Able(rule)) /\ ToSet(d) = Able(rule)
         /\ Len(d) = Cardinality(Able(rule))
         /\ \A i, j \in DOMAIN d :
              i < j => rule.actions[d[i]].order <= rule.actions[d[j]].order
<1> DEFINE A == rule.actions
           n == Len(A)
           R == {q \in Nat \X Nat : q[1] # q[2] /\ A[q[1]].order <= A[q[2]].order}
<1>1. A \in Seq(ToSet(A)) /\ n \in Nat /\ DOMAIN A = 1 .. n
  BY DocumentConstants, LenProperties
<1>2. PICK p \in Sorted(A) : d = Selected(p, Able(rule))
  BY DEF ExecuteActions, Able
<1> HIDE DEF A, n
<1>3. IsFiniteSet(1 .. n) /\ Cardinality(1 .. n) = n
  <2>1. 1 \in Int /\ n \in Int /\ (IF 1 > n THEN 0 ELSE n - 1 + 1) = n
    BY <1>1
  <2> QED
    BY <2>1, FS_Interval
<1>4. /\ p \in [1 .. n -> 1 .. n]
      /\ \A i, j \in 1 .. n : i # j => p[i] # p[j]
      /\ \A i, j \in 1 .. n : i < j => A[p[i]].order <= A[p[j]].order
  <2>1. /\ p \in SetToSeqs(1 .. n)
        /\ \A i, j \in DOMAIN p : i < j => A[p[i]].order <= A[p[j]].order
    BY <1>1, <1>2 DEF Sorted
  <2> QED
    BY <1>3, <2>1 DEF SetToSeqs
<1>5. p \in Seq(1 .. n) /\ Len(p) = n
  BY <1>1, <1>4, SeqDef
<1>6. ToSet(p) = 1 .. n
  <2>1. p \in Injection(1 .. n, 1 .. n)
    BY <1>4 DEF Injection, IsInjective
  <2>2. p \in Surjection(1 .. n, 1 .. n)
    BY <1>3, <2>1, FS_Injection
  <2> QED
    BY <1>4, <2>2 DEF Surjection, ToSet
<1>7. Able(rule) \subseteq 1 .. n
  BY <1>1 DEF Able, A
<1>8. d \in Seq(1 .. n) /\ ToSet(d) = Able(rule)
  <2>1. d \in Seq(1 .. n) /\ ToSet(d) = ToSet(p) \cap Able(rule)
    <3> HIDE DEF Able
    <3> QED
      BY <1>2, <1>5, SelectedElements
  <2> QED
    BY <1>6, <1>7, <2>1
<1>9. InOrder(d, R)
  <2>1. \A i \in 1 .. n : p[i] \in Nat
    BY <1>4
  <2>2. \A i, j \in 1 .. n : i < j => <<p[i], p[j]>> \in R
    <3> TAKE i, j \in 1 .. n
    <3> HAVE i < j
    <3>1. p[i] # p[j] /\ A[p[i]].order <= A[p[j]].order
      BY <1>4
    <3> QED
      BY <2>1, <3>1
  <2> HIDE DEF R
  <2>3. InOrder(p, R)
    BY <1>4, <2>2 DEF InOrder
  <2> QED
    BY <1>2, <1>5, <2>3, SelectedInOrder
<1>10. \A i, j \in DOMAIN d : i < j => d[i] # d[j] /\ A[d[i]].order <= A[d[j]].order
  BY <1>9 DEF InOrder
<1>11. Len(d) \in Nat /\ DOMAIN d = 1 .. Len(d)
  BY <1>8, LenProperties
<1>12. d \in [1 .. Len(d) -> Able(rule)]
  <2>1. d = [i \in 1 .. Len(d) |-> d[i]]
    BY <1>8, <1>11, SeqDef
  <2>2. \A i \in 1 .. Len(d) : d[i] \in Able(rule)
    BY <1>8, <1>11 DEF ToSet
  <2> HIDE DEF Able
  <2> QED
    BY <2>1, <2>2
<1>13. d \in Bijection(1 .. Len(d), Able(rule))
  <2>1. \A i, j \in 1 .. Len(d) : d[i] = d[j] => i = j
    <3> TAKE i, j \in 1 .. Len(d)
    <3>1. i < j \/ j < i \/ i = j
      BY <1>11
    <3> QED
      BY <1>10, <1>11, <3>1
  <2>2. \A e \in Able(rule) : \E i \in 1 .. Len(d) : d[i] = e
    BY <1>8, <1>11 DEF ToSet
  <2> HIDE DEF Able
  <2> QED
    BY <1>12, <2>1, <2>2 DEF Bijection, Injection, Surjection, IsInjective
<1>14. Cardinality(Able(rule)) = Len(d)
  BY <1>11, <1>13, FS_CountingElements DEF ExistsBijection
<1>15. d \in Seq(Able(rule))
  BY <1>11, <1>12, SeqDef
<1> QED
  BY <1>7, <1>8, <1>10, <1>14, <1>15 DEF A

(* So what it leaves in the log is a round.                                *)
LEMMA EntriesOfOneRule ==
  ASSUME NEW rule \in Rules, NEW e \in Entries(rule)
  PROVE  /\ Cardinality(Able(rule)) \in Nat
         /\ e \in Seq(LogEntry) /\ Len(e) = Cardinality(Able(rule))
         /\ ToSet(e) \subseteq Own(rule)
         /\ IsRound(e, rule)
<1>1. PICK d \in ExecuteActions(rule) :
        e = [k \in DOMAIN d |-> [rule |-> rule, action |-> d[k]]]
  BY DEF Entries
<1> DEFINE n == Cardinality(Able(rule))
<1>2. /\ Able(rule) \subseteq Nat
      /\ d \in Seq(Able(rule)) /\ ToSet(d) = Able(rule) /\ Len(d) = n
      /\ \A i, j \in DOMAIN d : i < j => rule.actions[d[i]].order <= rule.actions[d[j]].order
  BY ActionsDone
<1>3. n \in Nat /\ DOMAIN d = 1 .. n
  BY <1>2, LenProperties
<1> HIDE DEF n
<1>4. \A k \in 1 .. n : d[k] \in Able(rule) /\ d[k] \in Nat
  BY <1>2, <1>3 DEF ToSet
<1>5. \A k \in 1 .. n : e[k] = [rule |-> rule, action |-> d[k]]
  BY <1>1, <1>3
<1>6. \A k \in 1 .. n : /\ e[k] \in LogEntry /\ e[k] \in Own(rule)
                        /\ e[k].action = d[k]
  <2> TAKE k \in 1 .. n
  <2>1. e[k] = [rule |-> rule, action |-> d[k]] /\ d[k] \in Nat
    BY <1>4, <1>5
  <2>2. e[k] \in LogEntry
    BY <2>1 DEF LogEntry
  <2> QED
    BY <2>1, <2>2 DEF Own
<1>7. DOMAIN e = 1 .. n /\ e = [k \in 1 .. n |-> e[k]]
  BY <1>1, <1>3
<1>8. e \in Seq(LogEntry) /\ Len(e) = n
  <2>1. e \in [1 .. n -> LogEntry]
    BY <1>6, <1>7
  <2>2. e \in Seq(LogEntry)
    BY <1>3, <2>1, SeqDef
  <2> QED
    BY <1>3, <1>7, <2>2, LenProperties
<1>9. ToSet(e) \subseteq Own(rule)
  BY <1>6, <1>7 DEF ToSet
<1>10. IsRound(e, rule)
  <2>1. {e[k].action : k \in 1 .. n} = Able(rule)
    <3>1. {e[k].action : k \in 1 .. n} = {d[k] : k \in 1 .. n}
      BY <1>6
    <3> QED
      BY <1>2, <1>3, <3>1 DEF ToSet
  <2>2. \A k \in 1 .. n - 1 : /\ k \in DOMAIN d /\ k + 1 \in DOMAIN d /\ k < k + 1
                              /\ e[k].action = d[k] /\ e[k + 1].action = d[k + 1]
    BY <1>3, <1>6
  <2> QED
    BY <1>2, <2>1, <2>2 DEF IsRound, n
<1> QED
  BY <1>3, <1>8, <1>9, <1>10 DEF n

(* Of other rules nothing is added to the rounds of a rule.                *)
LEMMA OthersEntries ==
  ASSUME NEW rule \in Rules, NEW other \in Rules, other # rule
  PROVE  Own(other) \cap Own(rule) = {}
  BY DEF Own

(* An empty log is made of rounds, and stays so with each rule executed.   *)
LEMMA NoEntry ==
  ASSUME NEW rule \in Rules
  PROVE  InRounds(<< >>, rule)
<1>1. Selected(<< >>, Own(rule)) = << >>
  <2>1. << >> \in Seq(LogEntry) /\ ToSet(<< >>) = {}
    BY EmptySeq DEF ToSet
  <2> QED
    BY <2>1, SelectedNone
<1> DEFINE n == Cardinality(Able(rule))
<1>2. n \in Nat => Len(<< >>) = 0 * n
  <2> HIDE DEF n
  <2> QED
    OBVIOUS
<1>3. n \in Nat
  BY AbleCount
<1>4. 0 \in Nat /\ 0 .. 0 - 1 = {}
  OBVIOUS
<1> HIDE DEF n
<1>5. Len(<< >>) = 0 * n
  BY <1>2, <1>3
<1> QED
  BY <1>1, <1>4, <1>5 DEF InRounds, n

LEMMA LogGrows ==
  ASSUME NEW s \in Log, NEW rule \in Rules, NEW e \in Entries(rule)
  PROVE  s \o e \in Log
<1>1. s \in Seq(LogEntry) /\ \A other \in Rules : InRounds(s, other)
  BY DEF Log
<1>2. /\ Cardinality(Able(rule)) \in Nat
      /\ e \in Seq(LogEntry) /\ Len(e) = Cardinality(Able(rule))
      /\ ToSet(e) \subseteq Own(rule)
      /\ IsRound(e, rule)
  BY EntriesOfOneRule
<1>3. s \o e \in Seq(LogEntry)
  BY <1>1, <1>2, ConcatProperties
<1>4. ASSUME NEW other \in Rules, other # rule PROVE InRounds(s \o e, other)
  <2>1. Selected(e, Own(other)) = << >>
    <3>1. ToSet(e) \cap Own(other) = {}
      BY <1>2, <1>4, OthersEntries
    <3> QED
      BY <1>2, <3>1, SelectedNone
  <2>2. Selected(s \o e, Own(other)) = Selected(s, Own(other))
    <3>1. Selected(s \o e, Own(other)) = Selected(s, Own(other)) \o << >>
      <4>1. Selected(s \o e, Own(other)) = Selected(s, Own(other)) \o Selected(e, Own(other))
        BY <1>1, <1>2, SelectedConcat
      <4> QED
        BY <2>1, <4>1
    <3>2. Selected(s, Own(other)) \in Seq(LogEntry)
      BY <1>1, SelectedElements
    <3> QED
      BY <3>1, <3>2, ConcatEmptySeq
  <2>3. InRounds(s, other)
    BY <1>1
  <2> QED
    BY <2>2, <2>3 DEF InRounds
<1>5. InRounds(s \o e, rule)
  <2> DEFINE n == Cardinality(Able(rule))
             old == Selected(s, Own(rule))
             new == Selected(s \o e, Own(rule))
  <2>1. new = old \o e /\ old \in Seq(LogEntry)
    <3>1. Selected(s \o e, Own(rule)) = Selected(s, Own(rule)) \o Selected(e, Own(rule))
      BY <1>1, <1>2, SelectedConcat
    <3>2. Selected(e, Own(rule)) = e
      BY <1>2, SelectedAll
    <3>3. Selected(s, Own(rule)) \in Seq(LogEntry)
      BY <1>1, SelectedElements
    <3> QED
      BY <3>1, <3>2, <3>3
  <2>2. PICK m \in Nat :
          /\ Len(old) = m * n
          /\ \A r \in 0 .. m - 1 : IsRound(SubSeq(old, r * n + 1, (r + 1) * n), rule)
    BY <1>1 DEF InRounds
  <2>3. n \in Nat /\ Len(e) = n
    BY <1>2
  <2> HIDE DEF n, old, new
  <2>4. CASE n = 0
    <3>1. e = << >>
      BY <1>2, <2>3, <2>4, EmptySeq
    <3>2. new = old
      BY <2>1, <3>1, ConcatEmptySeq
    <3> QED
      BY <2>2, <3>2 DEF InRounds, n, new
  <2>5. CASE n # 0
    <3>1. /\ m * n \in Nat /\ (m + 1) * n = m * n + n
          /\ \A r \in 0 .. m - 1 : /\ r * n \in Nat
                                   /\ (r + 1) * n = r * n + n
                                   /\ (r + 1) * n <= m * n
      BY <2>3, Times
    <3>2. Len(new) = (m + 1) * n
      BY <1>2, <2>1, <2>2, <2>3, <3>1, ConcatProperties
    <3>3. ASSUME NEW r \in 0 .. (m + 1) - 1
          PROVE  IsRound(SubSeq(new, r * n + 1, (r + 1) * n), rule)
      <4>1. CASE r \in 0 .. m - 1
        <5>1. r * n + 1 \in 1 .. Len(old) /\ (r + 1) * n \in 1 .. Len(old)
          <6>1. /\ r * n \in Nat /\ (r + 1) * n = r * n + n /\ (r + 1) * n <= m * n
            BY <3>1, <4>1
          <6> HIDE <4>1
          <6> QED
            BY <2>2, <2>3, <2>5, <3>1, <6>1
        <5>2. SubSeq(new, r * n + 1, (r + 1) * n) = SubSeq(old, r * n + 1, (r + 1) * n)
          BY <1>2, <2>1, <5>1, SubSeqOfConcat1
        <5> QED
          BY <2>2, <4>1, <5>2
      <4>2. CASE r = m
        <5>1. /\ m * n + 1 \in Len(old) + 1 .. Len(old) + Len(e)
              /\ (m + 1) * n \in Len(old) + 1 .. Len(old) + Len(e)
              /\ (m * n + 1) - Len(old) = 1 /\ (m + 1) * n - Len(old) = n
          BY <2>2, <2>3, <2>5, <3>1
        <5>2. SubSeq(new, m * n + 1, (m + 1) * n) = SubSeq(e, 1, n)
          <6> DEFINE i == m * n + 1
                     j == (m + 1) * n
          <6>1. SubSeq(old \o e, i, j) = SubSeq(e, i - Len(old), j - Len(old))
            <7>1. i \in Len(old) + 1 .. Len(old) + Len(e) /\ j \in Len(old) + 1 .. Len(old) + Len(e)
              BY <5>1
            <7> HIDE DEF i, j
            <7> QED
              BY <1>2, <2>1, <7>1, SubSeqOfConcat2
          <6> QED
            BY <2>1, <5>1, <6>1
        <5>3. SubSeq(e, 1, n) = e
          BY <1>2, <2>3, SubSeqFull
        <5> QED
          BY <1>2, <4>2, <5>2, <5>3
      <4>3. r \in 0 .. m - 1 \/ r = m
        OBVIOUS
      <4> QED
        BY <4>1, <4>2, <4>3
    <3>4. m + 1 \in Nat
      OBVIOUS
    <3> QED
      BY <3>2, <3>3, <3>4 DEF InRounds, n, new
  <2> QED
    BY <2>4, <2>5
<1> QED
  BY <1>3, <1>4, <1>5 DEF Log

(* Of two lists, one after the other.                                      *)
LEMMA ConcatElements ==
  ASSUME NEW E, NEW a \in Seq(E), NEW b \in Seq(E)
  PROVE  ToSet(a \o b) = ToSet(a) \cup ToSet(b)
<1> DEFINE m == Len(a)
           n == Len(b)
<1>1. /\ m \in Nat /\ n \in Nat /\ DOMAIN a = 1 .. m /\ DOMAIN b = 1 .. n
      /\ DOMAIN (a \o b) = 1 .. m + n
      /\ \A i \in 1 .. m + n : (a \o b)[i] = IF i <= m THEN a[i] ELSE b[i - m]
  BY ConcatProperties, LenProperties
<1> HIDE DEF m, n
<1>2. ASSUME NEW i \in 1 .. m + n
      PROVE  (a \o b)[i] \in ToSet(a) \cup ToSet(b)
  <2>1. CASE i <= m
    BY <1>1, <2>1 DEF ToSet
  <2>2. CASE ~(i <= m)
    <3>1. i - m \in 1 .. n
      BY <1>1, <2>2
    <3> QED
      BY <1>1, <2>2, <3>1 DEF ToSet
  <2> QED
    BY <2>1, <2>2
<1>3. \A i \in 1 .. m : i \in 1 .. m + n /\ (a \o b)[i] = a[i]
  BY <1>1
<1>4. \A i \in 1 .. n : m + i \in 1 .. m + n /\ (a \o b)[m + i] = b[i]
  <2> TAKE i \in 1 .. n
  <2>1. m + i \in 1 .. m + n /\ ~(m + i <= m) /\ (m + i) - m = i
    BY <1>1
  <2> QED
    BY <1>1, <2>1
<1>5. ToSet(a \o b) \subseteq ToSet(a) \cup ToSet(b)
  <2>1. \A x \in ToSet(a \o b) : \E i \in 1 .. m + n : x = (a \o b)[i]
    BY <1>1 DEF ToSet
  <2> QED
    BY <1>2, <2>1
<1>6. ToSet(a) \subseteq ToSet(a \o b)
  BY <1>1, <1>3 DEF ToSet
<1>7. ToSet(b) \subseteq ToSet(a \o b)
  BY <1>1, <1>4 DEF ToSet
<1> QED
  BY <1>5, <1>6, <1>7

(* What compute_ev_time executes are rules of the document.                *)
LEMMA ExecutedRules ==
  ASSUME NEW E, NEW document \in Seq(E), NEW t
  PROVE  /\ ExecutedBy(document, t) \in Seq(E)
         /\ ToSet(ExecutedBy(document, t)) \subseteq ToSet(document)
<1>1. \A match, kind : /\ Select(document, match, kind) \in Seq(E)
                       /\ ToSet(Select(document, match, kind)) \subseteq ToSet(document)
  BY SelectedElements DEF Select
<1>2. \A a, b \in Seq(E) : ToSet(a \o b) = ToSet(a) \cup ToSet(b)
  BY ConcatElements
<1> DEFINE rules == ToSet(document)
           first == Selected(Select(document, "any", "timeCondition"),
                             {rule \in rules : VerifTimeConditions(rule, t)})
           second == Selected(Select(document, "any", "dayCondition"),
                              {rule \in rules : VerifDayConditions(rule, t)})
           third == Selected(Select(document, "all", "timeCondition"),
                             {rule \in rules : VerifAllConditions(rule)})
<1>3. ASSUME NEW list \in {first, second, third}
      PROVE  list \in Seq(E) /\ ToSet(list) \subseteq rules
  BY <1>1, SelectedElements
<1> HIDE DEF rules, first, second, third
<1>4. ToSet(first \o second) \subseteq rules /\ first \o second \in Seq(E)
  BY <1>2, <1>3, ConcatProperties
<1>5. ToSet((first \o second) \o third) \subseteq rules /\ (first \o second) \o third \in Seq(E)
  BY <1>2, <1>3, <1>4, ConcatProperties
<1>6. ExecutedBy(document, t) = first \o second \o third
  BY DEF ExecutedBy, first, second, third, rules
<1> QED
  BY <1>5, <1>6 DEF rules

LEMMA EmptyLog == << >> \in Log
<1>1. << >> \in Seq(LogEntry)
  BY EmptySeq
<1> QED
  BY <1>1, NoEntry DEF Log

(* Every log a tick may leave is made of rounds.                           *)
LEMMA TickLogs ==
  ASSUME NEW document \in Seq(Rules), NEW t
  PROVE  ComputeEvTime(document, t) \subseteq Log
<1> DEFINE list == ExecutedBy(document, t)
           n == Len(list)
           Op(logs, rule) == {s \o e : s \in logs, e \in Entries(rule)}
           step == [p \in (SUBSET Log) \X (1 .. n) |-> Op(p[1], list[p[2]])]
           Fold(g) == [u \in SUBSET DOMAIN list |->
                         IF u = {} THEN {<< >>} ELSE Op(g[u \ {Max(u)}], list[Max(u)])]
           F == CHOOSE g : g = Fold(g)
           h == [k \in 0 .. n |-> F[1 .. k]]
<1>1. n \in Nat /\ DOMAIN list = 1 .. n /\ \A k \in 1 .. n : list[k] \in Rules
  <2>1. list \in Seq(Rules)
    BY ExecutedRules
  <2> HIDE DEF list
  <2> QED
    BY <2>1, LenProperties, ElementOfSeq
<1>2. ComputeEvTime(document, t) = F[DOMAIN list]
  BY DEF ComputeEvTime, FoldLeft, MapThenFoldSet
<1> HIDE DEF n, list
<1>3. \A logs \in SUBSET Log, rule \in Rules : Op(logs, rule) \in SUBSET Log
  <2> TAKE logs \in SUBSET Log, rule \in Rules
  <2>1. \A s \in logs, e \in Entries(rule) : s \o e \in Log
    BY LogGrows
  <2>2. \A x \in Op(logs, rule) : \E s \in logs, e \in Entries(rule) : x = s \o e
    OBVIOUS
  <2> HIDE DEF Op
  <2> QED
    BY <2>1, <2>2
<1>4. {<< >>} \in SUBSET Log
  BY EmptyLog
<1>5. F = Fold(F)
  <2>1. step \in [(SUBSET Log) \X (1 .. n) -> SUBSET Log]
    <3>1. \A p \in (SUBSET Log) \X (1 .. n) : Op(p[1], list[p[2]]) \in SUBSET Log
      <4> HIDE DEF Op
      <4> QED
        BY <1>1, <1>3
    <3> HIDE DEF Op
    <3> QED
      BY <3>1
  <2>2. PICK g : FoldedWith(g, SUBSET Log, {<< >>}, step, n)
    <3> HIDE DEF Op, step
    <3> QED
      BY <1>1, <1>4, <2>1, FoldOnPlaces
  <2>3. ASSUME NEW u \in SUBSET DOMAIN list
        PROVE  g[u] = IF u = {} THEN {<< >>} ELSE Op(g[u \ {Max(u)}], list[Max(u)])
    <3> HIDE DEF Op
    <3>1. CASE u = {}
      BY <2>2, <3>1 DEF FoldedWith
    <3>2. CASE u # {}
      <4>1. /\ Max(u) \in 1 .. n /\ g[u \ {Max(u)}] \in SUBSET Log
            /\ g[u] = step[<<g[u \ {Max(u)}], Max(u)>>]
        <5> HIDE DEF step
        <5> QED
          BY <1>1, <2>2, <3>2 DEF FoldedWith
      <4> QED
        BY <3>2, <4>1
    <3> QED
      BY <3>1, <3>2
  <2>4. g \in [SUBSET DOMAIN list -> SUBSET Log]
    <3> HIDE DEF Op, step
    <3> QED
      BY <1>1, <2>2 DEF FoldedWith
  <2>5. g = Fold(g)
    <3> HIDE DEF Op, step
    <3> QED
      BY <2>3, <2>4
  <2> HIDE DEF Fold
  <2> QED
    BY <2>5
<1> HIDE DEF F
<1>6. h[0] = {<< >>}
  <2>1. 1 .. 0 = {} /\ {} \in SUBSET DOMAIN list /\ 0 \in 0 .. n
    BY <1>1
  <2>2. F[{}] = {<< >>}
    BY <1>5, <2>1
  <2> QED
    BY <2>1, <2>2
<1>7. ASSUME NEW k \in 1 .. n PROVE h[k] = Op(h[k - 1], list[k])
  <2>1. /\ 1 .. k \in SUBSET DOMAIN list /\ 1 .. k # {}
        /\ Max(1 .. k) = k /\ (1 .. k) \ {k} = 1 .. k - 1
    BY <1>1, Segment
  <2>2. F[1 .. k] = Op(F[(1 .. k) \ {Max(1 .. k)}], list[Max(1 .. k)])
    <3> DEFINE u == 1 .. k
    <3>1. u \in SUBSET DOMAIN list /\ u # {}
      BY <2>1
    <3> HIDE DEF Op, u
    <3>2. F[u] = Op(F[u \ {Max(u)}], list[Max(u)])
      BY <1>5, <3>1
    <3> QED
      BY <3>2 DEF u
  <2>3. k \in 0 .. n /\ k - 1 \in 0 .. n
    BY <1>1
  <2>4. h[k] = F[1 .. k] /\ h[k - 1] = F[1 .. k - 1]
    BY <2>3
  <2> HIDE DEF Op, h
  <2> QED
    BY <2>1, <2>2, <2>4
<1>8. \A k \in 0 .. n : h[k] \in SUBSET Log
  <2> HIDE DEF h, Op
  <2>1. \A k \in 1 .. n : h[k - 1] \in SUBSET Log => h[k] \in SUBSET Log
    BY <1>1, <1>3, <1>7
  <2>2. h[0] \in SUBSET Log
    BY <1>4, <1>6
  <2> QED
    BY <1>1, <2>1, <2>2, AlongPlaces
<1>9. n \in 0 .. n /\ h[n] = F[DOMAIN list]
  BY <1>1
<1> HIDE DEF h
<1> QED
  BY <1>2, <1>8, <1>9

(* A log of rounds is in order.                                            *)
MadeOfRounds(rule, mine, able) ==
  LET n == Cardinality(able) IN
  /\ Len(mine) % n = 0
  /\ \A r \in 0 .. (Len(mine) \div n - 1) :
       LET round == SubSeq(mine, r * n + 1, (r + 1) * n)
       IN /\ {round[k].action : k \in 1 .. n} = able
          /\ \A k \in 1 .. n - 1 : rule.actions[round[k].action].order
                                     <= rule.actions[round[k + 1].action].order

LEMMA RoundsAreInOrder == done \in Log => ActionsInOrder
<1> SUFFICES ASSUME done \in Log, NEW i \in DOMAIN done
    PROVE  LET rule == done[i].rule
               mine == Selected(done, {e \in ToSet(done) : e.rule = rule})
               able == {a \in DOMAIN rule.actions :
                          \/ rule.actions[a].name = "logAction"
                          \/ rule.actions[a].name = "xplAction"
                               /\ rule.actions[a].type \in {"stat", "trig", "cmnd"}}
           IN MadeOfRounds(rule, mine, able)
  BY DEF ActionsInOrder, MadeOfRounds
<1>1. done \in Seq(LogEntry) /\ \A rule \in Rules : InRounds(done, rule)
  BY DEF Log
<1>2. done[i] \in LogEntry /\ done[i] \in ToSet(done)
  <2>1. DOMAIN done = 1 .. Len(done)
    BY <1>1, LenProperties
  <2> QED
    BY <1>1, <2>1, ElementOfSeq DEF ToSet
<1> DEFINE rule == done[i].rule
<1>3. rule \in Rules
  BY <1>2 DEF LogEntry
<1> HIDE DEF rule
<1> DEFINE mine == Selected(done, {e \in ToSet(done) : e.rule = rule})
           able == {a \in DOMAIN rule.actions :
                      \/ rule.actions[a].name = "logAction"
                      \/ rule.actions[a].name = "xplAction"
                           /\ rule.actions[a].type \in {"stat", "trig", "cmnd"}}
           n == Cardinality(able)
<1>5. able = Able(rule)
  BY DEF Able, IsDone
<1>6. mine = Selected(done, Own(rule))
  <2>1. \A e \in ToSet(done) : e \in LogEntry
    <3>1. DOMAIN done = 1 .. Len(done)
      BY <1>1, LenProperties
    <3> QED
      BY <1>1, <3>1, ElementOfSeq DEF ToSet
  <2>2. \A e \in ToSet(done) : e \in {x \in ToSet(done) : x.rule = rule} <=> e \in Own(rule)
    BY <1>3, <2>1 DEF Own
  <2> QED
    BY <1>1, <2>2, SelectedSame
<1> HIDE DEF mine, able
<1>7. PICK m \in Nat :
        /\ Len(mine) = m * n
        /\ \A r \in 0 .. m - 1 : IsRound(SubSeq(mine, r * n + 1, (r + 1) * n), rule)
  BY <1>1, <1>3, <1>5, <1>6 DEF InRounds
<1>8. n \in Nat \ {0}
  <2>1. n \in Nat
    BY <1>3, <1>5, AbleCount
  <2>2. Len(mine) # 0
    <3>1. done[i] \in ToSet(mine)
      <4>1. done[i] \in Own(rule)
        BY <1>2 DEF Own, rule
      <4> QED
        BY <1>1, <1>2, <1>6, <4>1, SelectedElements
    <3>2. mine \in Seq(LogEntry)
      BY <1>1, <1>6, SelectedElements
    <3>3. DOMAIN mine = 1 .. Len(mine)
      BY <3>2, LenProperties
    <3> QED
      BY <3>1, <3>3 DEF ToSet
  <2> HIDE DEF n
  <2>3. n = 0 => m * n = 0
    OBVIOUS
  <2> QED
    BY <1>7, <2>1, <2>2, <2>3
<1> HIDE DEF n
<1>9. Len(mine) % n = 0 /\ Len(mine) \div n = m
  BY <1>7, <1>8, Divided
<1>10. ASSUME NEW r \in 0 .. (Len(mine) \div n - 1)
       PROVE  LET round == SubSeq(mine, r * n + 1, (r + 1) * n)
              IN /\ {round[k].action : k \in 1 .. n} = able
                 /\ \A k \in 1 .. n - 1 : rule.actions[round[k].action].order
                                            <= rule.actions[round[k + 1].action].order
  <2>1. IsRound(SubSeq(mine, r * n + 1, (r + 1) * n), rule)
    BY <1>7, <1>9
  <2> QED
    BY <1>5, <2>1 DEF IsRound, n
<1>11. MadeOfRounds(rule, mine, able)
  BY <1>9, <1>10 DEF MadeOfRounds, n
<1> QED
  BY <1>11, Zenon DEF mine, able, rule

(* However the sort of the actions orders those of equal executeOrder, and *)
(* whichever rules and how many of them a tick executes, a rule that runs  *)
(* does each action that can be done, once per run, in an order that never *)
(* goes down: an action that cannot be done ends none of the others.       *)
THEOREM RulesActInOrder == Spec => []ActionsInOrder
<1> DEFINE LogInv == rootConfig \in Documents /\ done \in Log
<1>1. Init => LogInv
  BY EmptyLog DEF Init
<1>2. LogInv /\ [Next]_vars => LogInv'
  <2> SUFFICES ASSUME LogInv, [Next]_vars PROVE LogInv'
    OBVIOUS
  <2>1. CASE TimerLoadConfig
    BY <2>1 DEF TimerLoadConfig, history
  <2>2. CASE Timer
    <3>1. rootConfig' = rootConfig /\ InternalTick
      BY <2>2 DEF Timer
    <3>2. CASE TickIsDue
      <4>1. done' \in ComputeEvTime(rootConfig.rules, NamedValue(tickMessage', "epoch"))
        BY <3>1, <3>2 DEF InternalTick, InternalMessageHandler
      <4>2. rootConfig.rules \in Seq(Rules)
        BY DocumentConstants
      <4>3. done' \in Log
        BY <4>1, <4>2, TickLogs
      <4> QED
        BY <3>1, <4>3
    <3>3. CASE ~TickIsDue
      BY <3>1, <3>3 DEF InternalTick
    <3> QED
      BY <3>2, <3>3
  <2>3. CASE Server
    BY <2>3 DEF Server
  <2>4. CASE Sleep
    BY <2>4 DEF Sleep
  <2>5. CASE UNCHANGED vars
    BY <2>5 DEF vars, loop, history
  <2> QED
    BY <2>1, <2>2, <2>3, <2>4, <2>5 DEF Next
<1>3. LogInv => ActionsInOrder
  BY RoundsAreInOrder
<1> QED
  BY <1>1, <1>2, <1>3, PTL DEF Spec

-----------------------------------------------------------------------------
(* The message of a tick.                                                  *)
Field == [name : ToSet(TickFields), value : Nat, binary : BOOLEAN]

NamesIn(list) == {p.name : p \in ToSet(list)}

(* The first of a name, as the library looks for it.                       *)
LEMMA IndexOfName ==
  ASSUME NEW list, Len(list) \in Nat, NEW name
  PROVE  LET places == {i \in 1 .. Len(list) : list[i].name = name} IN
         /\ places = {} => NameIndex(list, name) = 0
         /\ places # {} => /\ NameIndex(list, name) = Min(places)
                           /\ NameIndex(list, name) \in places
<1> DEFINE places == {i \in 1 .. Len(list) : list[i].name = name}
<1>1. NameIndex(list, name) = IF places # {} THEN Min(places) ELSE 0
  BY DEF NameIndex, SelectInSeq, SelectInSubSeq
<1>2. places # {} => Min(places) \in places
  <2>1. places \subseteq Nat
    OBVIOUS
  <2> HIDE DEF places
  <2>2. places # {} => \E i \in places : \A j \in places : i <= j
    BY <2>1, LeastElement
  <2> QED
    BY <2>2 DEF Min
<1> HIDE DEF places
<1>3. /\ places = {} => NameIndex(list, name) = 0
      /\ places # {} => /\ NameIndex(list, name) = Min(places)
                        /\ NameIndex(list, name) \in places
  BY <1>1, <1>2
<1> QED
  BY <1>3 DEF places

(* A field that is set is there, with that value, and no other is lost.    *)
LEMMA FieldIsSet ==
  ASSUME NEW list \in Seq(Field), NEW name \in ToSet(TickFields), NEW t \in Nat
  PROVE  LET new == SetNamedValue(list, name, t) IN
         /\ new \in Seq(Field)
         /\ NamesIn(list) \cup {name} \subseteq NamesIn(new)
         /\ NamedValue(new, name) = t
<1> DEFINE new == SetNamedValue(list, name, t)
           l == Len(list)
           places == {i \in 1 .. l : list[i].name = name}
           e == Pair(name, t)
<1>1. l \in Nat /\ DOMAIN list = 1 .. l
  BY LenProperties
<1>2. e \in Field /\ e.name = name /\ e.value = t
  <2> HIDE DEF l, places
  <2> QED
    BY DEF Field, Pair
<1>3. CASE places = {}
  <2>1. new = Append(list, e)
    BY <1>1, <1>3, IndexOfName DEF SetNamedValue, AddNamedValue
  <2> HIDE DEF e, new
  <2>2. /\ new \in Seq(Field) /\ Len(new) = l + 1
        /\ \A i \in 1 .. l : new[i] = list[i]
        /\ new[l + 1] = e
        /\ DOMAIN new = 1 .. l + 1
    BY <1>2, <2>1, AppendProperties, LenProperties
  <2>3. \A i \in 1 .. l : list[i].name # name
    BY <1>3
  <2> HIDE DEF l, places
  <2>4. {i \in 1 .. Len(new) : new[i].name = name} = {l + 1}
    <3>1. \A i \in 1 .. l + 1 : i \in 1 .. l \/ i = l + 1
      BY <1>1
    <3>2. l + 1 \in 1 .. l + 1 /\ l + 1 \notin 1 .. l
      BY <1>1
    <3> QED
      BY <1>2, <2>2, <2>3, <3>1, <3>2
  <2>5. NameIndex(new, name) = l + 1
    <3>1. Len(new) \in Nat
      BY <1>1, <2>2
    <3> QED
      BY <2>4, <3>1, IndexOfName
  <2>6. NamedValue(new, name) = t
    BY <1>2, <2>2, <2>5 DEF NamedValue
  <2>7. \A x \in ToSet(list) \cup {e} : x \in ToSet(new)
    <3>1. \A i \in 1 .. l : i \in 1 .. l + 1
      BY <1>1
    <3>2. l + 1 \in 1 .. l + 1
      BY <1>1
    <3> QED
      BY <1>1, <2>2, <3>1, <3>2 DEF ToSet
  <2>8. NamesIn(list) \cup {name} \subseteq NamesIn(new)
    BY <1>2, <2>7 DEF NamesIn
  <2> QED
    BY <2>2, <2>6, <2>8 DEF new
<1>4. CASE places # {}
  <2> DEFINE j == NameIndex(list, name)
  <2>1. j \in places /\ j # 0
    <3>1. NameIndex(list, name) \in places
      BY <1>1, <1>4, IndexOfName
    <3>2. \A i \in places : i # 0
      BY <1>1
    <3> HIDE DEF places
    <3> QED
      BY <3>1, <3>2
  <2>2. new = [list EXCEPT ![j] = e]
    BY <2>1 DEF SetNamedValue, ReplaceAt
  <2>3. j \in 1 .. l /\ list[j].name = name
    BY <2>1
  <2>11. j = Min(places)
    BY <1>1, <1>4, IndexOfName
  <2> HIDE DEF e, new, j
  <2>4. /\ new \in Seq(Field) /\ Len(new) = l /\ DOMAIN new = 1 .. l
        /\ \A i \in 1 .. l : new[i] = IF i = j THEN e ELSE list[i]
    <3>1. \A i \in 1 .. l : list[i] \in Field
      BY ElementOfSeq
    <3>2. new = [i \in 1 .. l |-> IF i = j THEN e ELSE list[i]]
      BY <1>1, <2>2
    <3> HIDE DEF l
    <3>3. new \in [1 .. l -> Field]
      BY <1>2, <3>1, <3>2
    <3>4. new \in Seq(Field)
      BY <1>1, <3>3, SeqDef
    <3> QED
      BY <1>1, <3>2, <3>4, LenProperties
  <2>5. {i \in 1 .. Len(new) : new[i].name = name} = places
    <3>1. \A i \in 1 .. l : new[i].name = name <=> list[i].name = name
      BY <1>2, <2>3, <2>4
    <3> HIDE DEF l
    <3> QED
      BY <2>4, <3>1
  <2> HIDE DEF l, places
  <2>6. NameIndex(new, name) = j
    <3>1. Len(new) \in Nat
      BY <1>1, <2>4
    <3> QED
      BY <1>4, <2>5, <3>1, IndexOfName, <2>11
  <2>7. NamedValue(new, name) = t
    BY <1>2, <2>3, <2>4, <2>6 DEF NamedValue
  <2>8. \A i \in 1 .. l : new[i].name = list[i].name
    BY <1>2, <2>3, <2>4
  <2>9. NamesIn(list) \subseteq NamesIn(new)
    <3>1. ASSUME NEW x \in NamesIn(list) PROVE x \in NamesIn(new)
      <4>1. PICK i \in 1 .. l : x = list[i].name
        BY <1>1 DEF NamesIn, ToSet
      <4> QED
        BY <2>4, <2>8, <4>1 DEF NamesIn, ToSet
    <3> QED
      BY <3>1
  <2>10. name \in NamesIn(new)
    <3>1. e \in ToSet(new)
      BY <2>3, <2>4 DEF ToSet
    <3> QED
      BY <1>2, <3>1 DEF NamesIn
  <2> QED
    BY <2>4, <2>7, <2>9, <2>10 DEF new
<1> QED
  BY <1>3, <1>4

(* The message of a tick has all the fields, and says the second it is of. *)
LEMMA MessageOfTick ==
  ASSUME NEW body \in Seq(Field), NEW t \in Nat
  PROVE  /\ FilledIn(body, t) \in Seq(Field)
         /\ NamesIn(FilledIn(body, t)) = ToSet(TickFields)
         /\ NamedValue(FilledIn(body, t), "epoch") = t
<1> DEFINE T == Seq(Field)
           n == Len(TickFields)
           Op(list, field) == SetNamedValue(list, field, t)
           step == [p \in T \X (1 .. n) |-> Op(p[1], TickFields[p[2]])]
           Fold(g) == [u \in SUBSET DOMAIN TickFields |->
                         IF u = {} THEN body ELSE Op(g[u \ {Max(u)}], TickFields[Max(u)])]
           F == CHOOSE g : g = Fold(g)
           h == [k \in 0 .. n |-> F[1 .. k]]
<1>1. n = 7 /\ DOMAIN TickFields = 1 .. n /\ TickFields[n] = "epoch"
  BY DEF TickFields
<1>2. n \in Nat /\ \A k \in 1 .. n : TickFields[k] \in ToSet(TickFields)
  BY <1>1 DEF ToSet
<1>3. FilledIn(body, t) = F[DOMAIN TickFields]
  BY DEF FilledIn, FoldLeft, MapThenFoldSet
<1> HIDE DEF n
<1>4. \A list \in T, field \in ToSet(TickFields) :
        /\ Op(list, field) \in T
        /\ NamesIn(list) \cup {field} \subseteq NamesIn(Op(list, field))
        /\ NamedValue(Op(list, field), field) = t
  BY FieldIsSet
<1>5. F = Fold(F)
  <2> HIDE DEF T
  <2>1. step \in [T \X (1 .. n) -> T]
    <3>1. \A p \in T \X (1 .. n) : Op(p[1], TickFields[p[2]]) \in T
      <4> HIDE DEF Op
      <4> QED
        BY <1>2, <1>4
    <3> HIDE DEF Op
    <3> QED
      BY <3>1
  <2>2. PICK g : FoldedWith(g, T, body, step, n)
    <3>1. body \in T
      BY DEF T
    <3> HIDE DEF Op, step
    <3> QED
      BY <1>2, <2>1, <3>1, FoldOnPlaces
  <2>3. ASSUME NEW u \in SUBSET DOMAIN TickFields
        PROVE  g[u] = IF u = {} THEN body ELSE Op(g[u \ {Max(u)}], TickFields[Max(u)])
    <3> HIDE DEF Op
    <3>1. CASE u = {}
      BY <2>2, <3>1 DEF FoldedWith
    <3>2. CASE u # {}
      <4>1. /\ Max(u) \in 1 .. n /\ g[u \ {Max(u)}] \in T
            /\ g[u] = step[<<g[u \ {Max(u)}], Max(u)>>]
        <5> HIDE DEF step
        <5> QED
          BY <1>1, <2>2, <3>2 DEF FoldedWith
      <4> QED
        BY <3>2, <4>1
    <3> QED
      BY <3>1, <3>2
  <2>4. g \in [SUBSET DOMAIN TickFields -> T]
    <3> HIDE DEF Op, step
    <3> QED
      BY <1>1, <2>2 DEF FoldedWith
  <2>5. g = Fold(g)
    <3> HIDE DEF Op, step
    <3> QED
      BY <2>3, <2>4
  <2> HIDE DEF Fold
  <2> QED
    BY <2>5
<1> HIDE DEF F
<1>6. h[0] = body
  <2>1. 1 .. 0 = {} /\ {} \in SUBSET DOMAIN TickFields /\ 0 \in 0 .. n
    BY <1>2
  <2>2. F[{}] = body
    BY <1>5, <2>1
  <2> QED
    BY <2>1, <2>2
<1>7. ASSUME NEW k \in 1 .. n PROVE h[k] = Op(h[k - 1], TickFields[k])
  <2>1. /\ 1 .. k \in SUBSET DOMAIN TickFields /\ 1 .. k # {}
        /\ Max(1 .. k) = k /\ (1 .. k) \ {k} = 1 .. k - 1
    BY <1>1, <1>2, Segment
  <2>2. F[1 .. k] = Op(F[(1 .. k) \ {Max(1 .. k)}], TickFields[Max(1 .. k)])
    <3> DEFINE u == 1 .. k
    <3>1. u \in SUBSET DOMAIN TickFields /\ u # {}
      BY <2>1
    <3> HIDE DEF Op, u
    <3>2. F[u] = Op(F[u \ {Max(u)}], TickFields[Max(u)])
      BY <1>5, <3>1
    <3> QED
      BY <3>2 DEF u
  <2>3. k \in 0 .. n /\ k - 1 \in 0 .. n
    BY <1>2
  <2>4. h[k] = F[1 .. k] /\ h[k - 1] = F[1 .. k - 1]
    BY <2>3
  <2> HIDE DEF Op, h
  <2> QED
    BY <2>1, <2>2, <2>4
<1>8. n \in 0 .. n /\ h[n] = FilledIn(body, t)
  BY <1>1, <1>2, <1>3
<1> HIDE DEF h, Op
<1>9. \A k \in 0 .. n : h[k] \in T
  <2>1. \A k \in 1 .. n : h[k - 1] \in T => h[k] \in T
    BY <1>2, <1>4, <1>7
  <2>2. h[0] \in T
    BY <1>6
  <2> HIDE DEF T
  <2> QED
    BY <1>2, <2>1, <2>2, AlongPlaces
<1>10. \A k \in 1 .. n : /\ NamesIn(h[k - 1]) \subseteq NamesIn(h[k])
                         /\ TickFields[k] \in NamesIn(h[k])
                         /\ NamedValue(h[k], TickFields[k]) = t
  <2> TAKE k \in 1 .. n
  <2>1. k - 1 \in 0 .. n
    BY <1>2
  <2> HIDE DEF T
  <2> QED
    BY <1>2, <1>4, <1>7, <1>9, <2>1
<1>11. NamesIn(h[n]) = ToSet(TickFields)
  <2> DEFINE P == {k \in 0 .. n : \A i \in 1 .. k : TickFields[i] \in NamesIn(h[k])}
  <2>1. 0 \in P
    BY <1>2
  <2>2. ASSUME NEW k \in 0 .. n, k \in P, k + 1 <= n PROVE k + 1 \in P
    <3>1. k + 1 \in 1 .. n /\ (k + 1) - 1 = k /\ k + 1 \in 0 .. n
      <4>1. n \in Nat /\ k + 1 <= n
        BY <1>2, <2>2
      <4> QED
        BY <4>1
    <3>2. NamesIn(h[k]) \subseteq NamesIn(h[k + 1]) /\ TickFields[k + 1] \in NamesIn(h[k + 1])
      BY <1>10, <3>1
    <3>3. ASSUME NEW i \in 1 .. k + 1 PROVE TickFields[i] \in NamesIn(h[k + 1])
      <4>1. i \in 1 .. k \/ i = k + 1
        BY <3>1
      <4> QED
        BY <2>2, <3>2, <4>1
    <3> QED
      BY <3>1, <3>3
  <2>3. n \in P
    <3> HIDE DEF P
    <3> QED
      BY <1>2, <1>8, <2>1, <2>2, UpTo
  <2>4. ToSet(TickFields) \subseteq NamesIn(h[n])
    BY <1>1, <2>3 DEF ToSet
  <2>5. NamesIn(h[n]) \subseteq ToSet(TickFields)
    <3>1. \A list \in Seq(Field) : \A p \in ToSet(list) : p \in Field
      <4> TAKE list \in Seq(Field)
      <4>1. DOMAIN list = 1 .. Len(list)
        BY LenProperties
      <4> QED
        BY <4>1, ElementOfSeq DEF ToSet
    <3>2. h[n] \in Seq(Field)
      BY <1>8, <1>9
    <3> QED
      BY <3>1, <3>2 DEF NamesIn, Field
  <2> QED
    BY <2>4, <2>5
<1>12. NamedValue(h[n], "epoch") = t
  <2>1. n \in 1 .. n /\ TickFields[n] = "epoch"
    BY <1>1
  <2> QED
    BY <1>10, <2>1
<1> QED
  BY <1>8, <1>9, <1>11, <1>12

(* The message is empty or has all the fields; what has run is of some     *)
(* document.                                                               *)
MessageInv ==
  /\ tickMessage \in Seq(Field)
  /\ tickMessage = << >> \/ NamesIn(tickMessage) = ToSet(TickFields)

FlagsInv ==
  /\ phase \in {"init", "exited", "timer", "server", "sleep"}
  /\ rootConfig \in Documents
  /\ timerConfig.clockEnabled \in BOOLEAN
  /\ visited \in BOOLEAN /\ due \in BOOLEAN
  /\ ran \cup steady \subseteq Rules

LEMMA RulesOfDocument ==
  ASSUME NEW doc \in Documents
  PROVE  doc.rules \in Seq(Rules) /\ ToSet(doc.rules) \subseteq Rules
  BY DocumentConstants DEF Rules

LEMMA TickRuns ==
  ASSUME InternalTick, TickIsDue, MessageInv, rootConfig \in Documents, now \in Nat
  PROVE  /\ MessageInv'
         /\ ran' = ran \cup ToSet(ExecutedBy(rootConfig.rules, now))
<1>1. /\ tickMessage' = FilledIn(tickMessage, now)
      /\ ran' = ran \cup ToSet(ExecutedBy(rootConfig.rules, NamedValue(tickMessage', "epoch")))
  BY DEF InternalTick, InternalMessageHandler
<1>2. /\ tickMessage' \in Seq(Field) /\ NamesIn(tickMessage') = ToSet(TickFields)
      /\ NamedValue(tickMessage', "epoch") = now
  BY <1>1, MessageOfTick DEF MessageInv
<1> QED
  BY <1>1, <1>2 DEF MessageInv

LEMMA DataInvInit == Init => MessageInv /\ FlagsInv
<1> SUFFICES ASSUME Init PROVE MessageInv /\ FlagsInv
  OBVIOUS
<1>1. tickMessage = << >> /\ << >> \in Seq(Field)
  BY EmptySeq DEF Init
<1>2. FlagsInv
  BY RulesOfDocument DEF Init, FlagsInv, NotLoaded
<1> QED
  BY <1>1, <1>2 DEF MessageInv

LEMMA DataInvNext ==
  MessageInv /\ FlagsInv /\ TimeInv /\ [Next]_vars => (MessageInv /\ FlagsInv)'
<1> SUFFICES ASSUME MessageInv, FlagsInv, TimeInv, [Next]_vars
             PROVE  (MessageInv /\ FlagsInv)'
  OBVIOUS
<1>1. CASE TimerLoadConfig
  <2>1. UNCHANGED <<rootConfig, tickMessage, visited, due, ran, steady>>
    BY <1>1 DEF TimerLoadConfig, history
  <2>2. phase' \in {"exited", "timer"}
    BY <1>1 DEF TimerLoadConfig
  <2>3. timerConfig'.clockEnabled \in BOOLEAN
    <3>1. CASE UNCHANGED timerConfig
      BY <3>1 DEF FlagsInv
    <3>2. CASE timerConfig' =
                 [clockEnabled |-> IsOn(rootConfig.clocking.enabled),
                  clockInterval |-> Interval(rootConfig.clocking.clockInterval, DefaultClock),
                  schedInterval |-> Interval(rootConfig.clocking.schedInterval, DefaultSched)]
      BY <3>2 DEF IsOn
    <3> QED
      BY <1>1, <3>1, <3>2, Zenon DEF TimerLoadConfig
  <2> QED
    BY <2>1, <2>2, <2>3 DEF MessageInv, FlagsInv
<1>2. CASE Timer
  <2>1. /\ UNCHANGED <<rootConfig, timerConfig, steady>> /\ phase' = "server"
        /\ visited' = TRUE /\ due' \in BOOLEAN /\ InternalTick
    BY <1>2 DEF Timer, FlagsInv
  <2>2. MessageInv' /\ ran' \subseteq Rules
    <3>1. CASE TickIsDue
      <4>1. MessageInv' /\ ran' = ran \cup ToSet(ExecutedBy(rootConfig.rules, now))
        BY <2>1, <3>1, TickRuns DEF FlagsInv, TimeInv
      <4>2. ToSet(ExecutedBy(rootConfig.rules, now)) \subseteq Rules
        <5>1. rootConfig.rules \in Seq(Rules) /\ ToSet(rootConfig.rules) \subseteq Rules
          BY RulesOfDocument DEF FlagsInv
        <5> QED
          BY <5>1, ExecutedRules
      <4> QED
        BY <4>1, <4>2 DEF FlagsInv
    <3>2. CASE ~TickIsDue
      BY <2>1, <3>2 DEF InternalTick, MessageInv, FlagsInv
    <3> QED
      BY <3>1, <3>2
  <2> QED
    BY <2>1, <2>2 DEF FlagsInv
<1>3. CASE Server
  <2>1. /\ UNCHANGED <<timerConfig, tickMessage, visited, due, ran>> /\ phase' = "sleep"
        /\ rootConfig' \in Documents /\ steady' \subseteq steady
    BY <1>3 DEF Server, FlagsInv
  <2> QED
    BY <2>1 DEF MessageInv, FlagsInv
<1>4. CASE Sleep
  <2>1. /\ UNCHANGED <<rootConfig, timerConfig, tickMessage>> /\ phase' = "timer"
        /\ visited' \in {FALSE, visited} /\ due' \in {FALSE, due}
        /\ ran' \subseteq ran /\ steady' \in {steady, ToSet(rootConfig.rules)}
    BY <1>4 DEF Sleep
  <2>2. ToSet(rootConfig.rules) \subseteq Rules
    BY RulesOfDocument DEF FlagsInv
  <2> QED
    BY <2>1, <2>2 DEF MessageInv, FlagsInv
<1>5. CASE UNCHANGED vars
  BY <1>5 DEF vars, loop, history, MessageInv, FlagsInv
<1> QED
  BY <1>1, <1>2, <1>3, <1>4, <1>5 DEF Next

(* Whatever documents come in, the state of the timer keeps its form: the  *)
(* one message that every tick fills in again has each of its fields, no   *)
(* second is remembered that has not come, no interval divides by zero.    *)
THEOREM SchedulerTypes == Spec => []TypeOK
<1>1. MessageInv /\ FlagsInv /\ SecondInv /\ IntervalsArePositive => TypeOK
  BY DEF MessageInv, FlagsInv, SecondInv, TimeInv, TicksInv, UpdatesInv, TypeOK, NamesIn
<1>2. SecondInv => TimeInv
  BY DEF SecondInv
<1> QED
  BY <1>1, <1>2, DataInvInit, DataInvNext, SecondInvInit, SecondInvNext, NoDivisionByZero, PTL
     DEF Spec

-----------------------------------------------------------------------------
(* With a library that evaluates no query (Grouping is FALSE for the one   *)
(* of this repository) a tick selects nothing from any document.           *)
LEMMA NothingIsSelected ==
  ASSUME ~Grouping, NEW document \in Seq(Rules), NEW match, NEW kind
  PROVE  Select(document, match, kind) = << >>
<1>1. {rule \in ToSet(document) : rule.match = match /\ Satisfies(rule, kind)} = {}
  BY DEF Satisfies, Children
<1> QED
  BY <1>1, SelectedNone DEF Select

LEMMA NothingIsExecuted ==
  ASSUME ~Grouping, NEW document \in Seq(Rules), NEW t
  PROVE  ExecutedBy(document, t) = << >>
<1>1. << >> \in Seq(Rules) /\ ToSet(<< >>) = {}
  BY EmptySeq DEF ToSet
<1>2. \A S : Selected(<< >>, S) = << >>
  BY <1>1, SelectedNone
<1>3. \A match, kind : Select(document, match, kind) = << >>
  BY NothingIsSelected
<1>4. (<< >> \o << >>) \o << >> = << >>
  OBVIOUS
<1> QED
  BY <1>2, <1>3, <1>4, Zenon DEF ExecutedBy

LEMMA NothingIsDone ==
  ASSUME ~Grouping, NEW document \in Seq(Rules), NEW t
  PROVE  ComputeEvTime(document, t) = {<< >>}
<1> DEFINE list == ExecutedBy(document, t)
           Op(logs, rule) == {s \o e : s \in logs, e \in Entries(rule)}
           Fold(g) == [u \in SUBSET DOMAIN list |->
                         IF u = {} THEN {<< >>} ELSE Op(g[u \ {Max(u)}], list[Max(u)])]
           F == CHOOSE g : g = Fold(g)
           all == [u \in {{}} |-> {<< >>}]
<1>1. ComputeEvTime(document, t) = F[DOMAIN list]
  BY DEF ComputeEvTime, FoldLeft, MapThenFoldSet
<1>2. DOMAIN list = {} /\ SUBSET DOMAIN list = {{}}
  <2>1. DOMAIN << >> = {}
    BY EmptySeq
  <2> QED
    BY <2>1, NothingIsExecuted
<1> HIDE DEF list
<1>3. \A g : Fold(g) = all
  <2> TAKE g
  <2>1. \A u \in {{}} : (IF u = {} THEN {<< >>} ELSE Op(g[u \ {Max(u)}], list[Max(u)])) = {<< >>}
    <3> HIDE DEF Op
    <3> QED
      OBVIOUS
  <2> HIDE DEF Op
  <2> QED
    BY <1>2, <2>1
<1>4. F = all
  <2> HIDE DEF Fold
  <2>1. \E g : g = Fold(g)
    BY <1>3
  <2>2. F = Fold(F)
    BY <2>1
  <2> QED
    BY <1>3, <2>2
<1> HIDE DEF F
<1> QED
  BY <1>1, <1>2, <1>4

(* compute_ev_time, as it is built: the queries are read by a library that *)
(* knows neither not() nor && nor parentheses, and whatever documents come *)
(* in and whenever they do, no tick ever executes a rule or does one of    *)
(* its actions.                                                            *)
NothingRuns == ran = {} /\ done = << >>

THEOREM NoRuleEverRuns ==
  ASSUME ~Grouping
  PROVE  Spec => []NothingRuns
<1>1. Init => NothingRuns
  BY DEF Init, NothingRuns
<1>2. NothingRuns /\ FlagsInv /\ [Next]_vars => NothingRuns'
  <2> SUFFICES ASSUME NothingRuns, FlagsInv, [Next]_vars PROVE NothingRuns'
    OBVIOUS
  <2>1. rootConfig.rules \in Seq(Rules)
    BY RulesOfDocument DEF FlagsInv
  <2>2. CASE Timer
    <3>1. CASE TickIsDue
      <4>1. PICK t : /\ done' \in ComputeEvTime(rootConfig.rules, t)
                     /\ ran' = ran \cup ToSet(ExecutedBy(rootConfig.rules, t))
        BY <2>2, <3>1 DEF Timer, InternalTick, InternalMessageHandler
      <4>2. ComputeEvTime(rootConfig.rules, t) = {<< >>} /\ ExecutedBy(rootConfig.rules, t) = << >>
        BY <2>1, NothingIsDone, NothingIsExecuted
      <4>3. ToSet(<< >>) = {}
        BY EmptySeq DEF ToSet
      <4> QED
        BY <4>1, <4>2, <4>3 DEF NothingRuns
    <3>2. CASE ~TickIsDue
      BY <2>2, <3>2 DEF Timer, InternalTick, NothingRuns
    <3> QED
      BY <3>1, <3>2
  <2>3. CASE Sleep
    BY <2>3 DEF Sleep, NothingRuns
  <2>4. CASE TimerLoadConfig \/ Server \/ UNCHANGED vars
    BY <2>4 DEF TimerLoadConfig, Server, vars, history, NothingRuns
  <2> QED
    BY <2>2, <2>3, <2>4 DEF Next
<1>3. SecondInv => TimeInv
  BY DEF SecondInv
<1> QED
  BY <1>1, <1>2, <1>3, DataInvInit, DataInvNext, SecondInvInit, SecondInvNext, PTL DEF Spec
=============================================================================
