-------------------------- MODULE FrameClock_proof ---------------------------
(***************************************************************************)
(* Theorems about FrameClock, for every cycle and every moment: next_vblank*)
(* is the first vblank after a time, release_at and due agree, and on them *)
(* rests that the commit timers are always covered by the clock.           *)
(***************************************************************************)
EXTENDS FrameClock, TLAPS, WellFoundedInduction

LEMMA Product ==
  ASSUME NEW i \in Int, NEW j \in Int, NEW r \in Nat, i <= j
  PROVE  i * r <= j * r
OBVIOUS

LEMMA ProductLess ==
  ASSUME NEW i \in Int, NEW j \in Int, NEW r \in Nat, i * r < j * r
  PROVE  i < j
BY Product

LEMMA OneMore ==
  ASSUME NEW i \in Int, NEW r \in Int
  PROVE  (i + 1) * r = i * r + r
OBVIOUS

LEMMA Division ==
  ASSUME NEW a \in Nat, NEW r \in Nat \ {0}
  PROVE  /\ a \div r \in Nat
         /\ (a \div r) * r <= a
         /\ a < (a \div r) * r + r
OBVIOUS

\* A non-empty set of naturals has a least element, and Min is it.
LEMMA MinOfNats ==
  ASSUME NEW S \in SUBSET Nat, S # {}
  PROVE  Min(S) \in S /\ \A y \in S : Min(S) <= y
<1>1. PICK x \in S : \A y \in S : ~(<<y, x>> \in OpToRel(<, Nat))
  BY NatLessThanWellFounded, WFMin
<1>2. \A y \in S : ~(y < x)
  BY <1>1 DEF OpToRel
<1>3. \A y \in S : x <= y
  BY <1>2
<1>4. QED BY <1>3 DEF Min

-----------------------------------------------------------------------------
(* The clock *)

\* The next vblank lies on the cycle, after t, and the one before does not.
LEMMA OnTheCycle ==
  ASSUME NEW c \in Clocks, NEW t \in Nat
  PROVE  \E k \in Nat : /\ NextVblank(c, t) = c.ust + k * c.refresh
                        /\ t < NextVblank(c, t)
                        /\ IF t < c.ust THEN k = 0
                           ELSE k # 0 /\ c.ust + (k - 1) * c.refresh <= t
<1>. c.ust \in Nat /\ c.refresh \in Nat \ {0}
  BY DEF Clocks
<1>1. CASE t < c.ust
  <2>1. NextVblank(c, t) = c.ust + 0 * c.refresh
    BY <1>1 DEF NextVblank
  <2>2. QED BY <2>1, <1>1
<1>2. CASE ~(t < c.ust)
  <2>. DEFINE q == (t - c.ust) \div c.refresh
  <2>1. t - c.ust \in Nat
    BY <1>2
  <2>2. /\ q \in Nat
        /\ q * c.refresh <= t - c.ust
        /\ t - c.ust < q * c.refresh + c.refresh
    BY <2>1, Division
  <2>3. NextVblank(c, t) = c.ust + (q + 1) * c.refresh
    BY <1>2 DEF NextVblank
  <2>. HIDE DEF q
  <2>4. (q + 1) * c.refresh = q * c.refresh + c.refresh
    <3>1. q \in Int /\ c.refresh \in Int
      BY <2>2
    <3>2. QED BY <3>1, OneMore
  <2>5. t < NextVblank(c, t)
    BY <2>2, <2>3, <2>4
  <2>6. q + 1 \in Nat /\ q + 1 # 0 /\ (q + 1) - 1 = q
    BY <2>2
  <2>7. c.ust + ((q + 1) - 1) * c.refresh <= t
    BY <2>2, <2>6
  <2>8. QED BY <1>2, <2>3, <2>5, <2>6, <2>7
<1>3. QED BY <1>1, <1>2

\* next_vblank gives a vblank after t, and within a refresh of it unless the
\* last one reported is still to come (timing.rs next_vblank).
THEOREM NextVblankBounds ==
  ASSUME NEW c \in Clocks, NEW t \in Nat
  PROVE  /\ NextVblank(c, t) \in Nat
         /\ t < NextVblank(c, t)
         /\ c.ust <= NextVblank(c, t)
         /\ NextVblank(c, t) <= Later(c.ust, t + c.refresh)
<1>. c.ust \in Nat /\ c.refresh \in Nat \ {0}
  BY DEF Clocks
<1>1. PICK k \in Nat : /\ NextVblank(c, t) = c.ust + k * c.refresh
                       /\ t < NextVblank(c, t)
                       /\ IF t < c.ust THEN k = 0
                          ELSE k # 0 /\ c.ust + (k - 1) * c.refresh <= t
  BY OnTheCycle
<1>2. k * c.refresh \in Nat
  OBVIOUS
<1>3. CASE t < c.ust
  BY <1>1, <1>3 DEF Later
<1>4. CASE ~(t < c.ust)
  <2>1. (k - 1) * c.refresh = k * c.refresh - c.refresh
    OBVIOUS
  <2>2. QED BY <1>1, <1>2, <1>4, <2>1 DEF Later
<1>5. QED BY <1>3, <1>4

\* No vblank of the cycle lies between t and the next one.
LEMMA NoneBetween ==
  ASSUME NEW c \in Clocks, NEW t \in Nat, NEW k \in Nat, t < c.ust + k * c.refresh
  PROVE  NextVblank(c, t) <= c.ust + k * c.refresh
<1>. c.ust \in Nat /\ c.refresh \in Nat \ {0}
  BY DEF Clocks
<1>1. PICK j \in Nat : /\ NextVblank(c, t) = c.ust + j * c.refresh
                       /\ IF t < c.ust THEN j = 0
                          ELSE j # 0 /\ c.ust + (j - 1) * c.refresh <= t
  BY OnTheCycle
<1>2. CASE j = 0
  BY <1>1, <1>2, k * c.refresh \in Nat
<1>3. CASE j # 0
  <2>1. (j - 1) * c.refresh < k * c.refresh
    <3>1. c.ust + (j - 1) * c.refresh <= t
      BY <1>1, <1>3
    <3>2. (j - 1) * c.refresh \in Int /\ k * c.refresh \in Int
      OBVIOUS
    <3>3. QED BY <3>1, <3>2
  <2>2. j - 1 < k
    BY <2>1, ProductLess
  <2>3. j * c.refresh <= k * c.refresh
    BY <2>2, Product
  <2>4. QED BY <1>1, <2>3
<1>4. QED BY <1>2, <1>3

\* An update that is not due yet need not be released yet, and is by its target
\* at the latest: waking at release_at never finds the same update early, which
\* would be a busy loop (timing.rs release_at, due).
THEOREM NotDueNotReleased ==
  ASSUME NEW c \in Clocks, NEW t \in Nat, NEW u \in Nat, Due(c, u) < t
  PROVE  /\ ReleaseAt(c, t) \in Nat
         /\ u < ReleaseAt(c, t)
         /\ ReleaseAt(c, t) <= t
<1>. /\ c.ust \in Nat /\ c.refresh \in Nat \ {0} /\ Slack \in Nat
  BY ClockAssumption DEF Clocks
<1>. DEFINE m == t - Slack - 1
<1>1. NextVblank(c, u) \in Nat /\ u < NextVblank(c, u) /\ c.ust <= NextVblank(c, u)
  BY NextVblankBounds
<1>2. m \in Nat /\ NextVblank(c, u) <= m /\ m < t
  BY <1>1 DEF Due
<1>3. Minus(Minus(t, Slack), 1) = m
  BY <1>2 DEF Minus
<1>. HIDE DEF m
<1>4. PICK j \in Nat : NextVblank(c, u) = c.ust + j * c.refresh
  BY OnTheCycle
<1>5. PICK k \in Nat : /\ NextVblank(c, m) = c.ust + k * c.refresh
                       /\ m < NextVblank(c, m)
                       /\ k # 0 /\ c.ust + (k - 1) * c.refresh <= m
  <2>1. ~(m < c.ust)
    BY <1>1, <1>2
  <2>2. QED BY <1>2, <2>1, OnTheCycle
<1>6. j * c.refresh \in Nat /\ k * c.refresh \in Nat
  OBVIOUS
<1>7. j < k
  <2>1. j * c.refresh < k * c.refresh
    BY <1>2, <1>4, <1>5, <1>6
  <2>2. QED BY <2>1, ProductLess
<1>8. (k - 1) * c.refresh = k * c.refresh - c.refresh
  OBVIOUS
<1>9. j * c.refresh <= (k - 1) * c.refresh
  BY <1>7, Product
<1>10. ReleaseAt(c, t) = c.ust + (k - 1) * c.refresh
  <2>1. NextVblank(c, m) - c.refresh = c.ust + (k - 1) * c.refresh
    BY <1>5, <1>6, <1>8
  <2>2. (k - 1) * c.refresh \in Nat
    BY <1>6, <1>8, <1>9
  <2>3. ReleaseAt(c, t) = Minus(NextVblank(c, m), c.refresh)
    BY <1>3 DEF ReleaseAt
  <2>4. NextVblank(c, m) \in Int /\ c.refresh \in Int
    BY <1>5, <1>6
  <2>5. CASE NextVblank(c, m) > c.refresh
    BY <2>1, <2>3, <2>5 DEF Minus
  <2>6. CASE ~(NextVblank(c, m) > c.refresh)
    BY <2>1, <2>2, <2>3, <2>4, <2>6 DEF Minus
  <2>7. QED BY <2>5, <2>6
<1>11. QED BY <1>1, <1>2, <1>4, <1>5, <1>6, <1>8, <1>9, <1>10

\* Before release_at an update targeted past the last reported vblank is not
\* due: it is released no later than it could have been.
THEOREM ReleasedWhenDue ==
  ASSUME NEW c \in Clocks, NEW t \in Nat, NEW u \in Nat,
         c.ust + Slack < t, u < ReleaseAt(c, t)
  PROVE  Due(c, u) < t
<1>. /\ c.ust \in Nat /\ c.refresh \in Nat \ {0} /\ Slack \in Nat
  BY ClockAssumption DEF Clocks
<1>. DEFINE m == t - Slack - 1
<1>1. m \in Nat /\ c.ust <= m /\ Minus(Minus(t, Slack), 1) = m
  BY DEF Minus
<1>. HIDE DEF m
<1>2. PICK k \in Nat : /\ NextVblank(c, m) = c.ust + k * c.refresh
                       /\ k # 0 /\ c.ust + (k - 1) * c.refresh <= m
  <2>1. ~(m < c.ust)
    BY <1>1
  <2>2. QED BY <1>1, <2>1, OnTheCycle
<1>3. k * c.refresh \in Nat /\ (k - 1) * c.refresh = k * c.refresh - c.refresh
  OBVIOUS
<1>4. u < c.ust + (k - 1) * c.refresh
  <2>1. u < Minus(NextVblank(c, m), c.refresh)
    BY <1>1 DEF ReleaseAt
  <2>2. NextVblank(c, m) > c.refresh
    BY <2>1, <1>2, <1>3 DEF Minus
  <2>3. QED BY <1>2, <1>3, <2>1, <2>2 DEF Minus
<1>5. k - 1 \in Nat
  BY <1>2
<1>6. NextVblank(c, u) <= c.ust + (k - 1) * c.refresh
  BY <1>4, <1>5, NoneBetween
<1>7. NextVblank(c, u) \in Nat
  BY NextVblankBounds
<1>8. (k - 1) * c.refresh \in Int
  BY <1>3
<1>9. NextVblank(c, u) <= m
  BY <1>1, <1>2, <1>6, <1>7, <1>8
<1>10. NextVblank(c, u) + Slack < t
  BY <1>7, <1>9, <1>1 DEF m
<1>11. QED BY <1>10 DEF Due

-----------------------------------------------------------------------------
(* The commit timers *)

LEMMA TypeInit == Init => TypeOK
BY ClockAssumption DEF Init, TypeOK, Clocks

\* When the clock runs next is a time, and covers what it leaves.
LEMMA NextRun ==
  ASSUME TypeOK, Tick
  PROVE  /\ \A s \in StillTimed : \A t \in Left(s) :
              /\ Wakes # {} /\ Min(Wakes) <= ReleaseAt(clock, Min(Left(s)))
              /\ Min(Left(s)) \in Left(s) /\ Min(Left(s)) <= t
         /\ Wakes # {} => Min(Wakes) \in Nat
<1>. /\ clock \in Clocks /\ now \in Nat /\ timed \in SUBSET Surfaces
     /\ pending \in [Surfaces -> SUBSET Nat]
  BY ClockAssumption DEF TypeOK
<1>1. ASSUME NEW s \in StillTimed
      PROVE  /\ Left(s) \in SUBSET Nat /\ Left(s) # {}
             /\ \A t \in Left(s) : Due(clock, now) < t
  <2>1. s \in timed /\ Left(s) # {} /\ Left(s) = {t \in pending[s] : t > Due(clock, now)}
    BY DEF StillTimed, Left
  <2>2. Due(clock, now) \in Nat
    BY NextVblankBounds, ClockAssumption DEF Due
  <2>3. QED BY <2>1, <2>2
<1>2. \A s \in StillTimed : Min(Left(s)) \in Left(s) /\ \A t \in Left(s) : Min(Left(s)) <= t
  BY <1>1, MinOfNats
<1>3. \A s \in StillTimed : ReleaseAt(clock, Min(Left(s))) \in Nat
  BY <1>1, <1>2, NotDueNotReleased
<1>4. Wakes \in SUBSET Nat
  BY <1>3 DEF Wakes
<1>5. \A s \in StillTimed : ReleaseAt(clock, Min(Left(s))) \in Wakes
  BY DEF Wakes
<1>6. Wakes # {} => Min(Wakes) \in Wakes /\ \A w \in Wakes : Min(Wakes) <= w
  BY <1>4, MinOfNats
<1>7. QED BY <1>2, <1>4, <1>5, <1>6

LEMMA TypeNext ==
  ASSUME TypeOK, [Next]_vars
  PROVE  TypeOK'
<1>. /\ clock \in Clocks /\ now \in Nat /\ timed \in SUBSET Surfaces
     /\ pending \in [Surfaces -> SUBSET Targets] /\ tick \in Nat \cup {Never}
  BY DEF TypeOK
<1>1. ASSUME NEW s \in Surfaces, NEW target \in Targets, Commit(s, target) PROVE TypeOK'
  BY <1>1 DEF Commit, Schedule, TypeOK
<1>2. ASSUME NEW s \in Surfaces, Destroy(s) PROVE TypeOK'
  BY <1>2 DEF Destroy, TypeOK
<1>3. ASSUME NEW ust \in 0 .. MaxNow, NEW refresh \in Refreshes, Report(ust, refresh)
      PROVE  TypeOK'
  <2>1. ust \in Nat /\ refresh \in Nat
    BY ClockAssumption
  <2>2. clock' \in Clocks
    BY <1>3, <2>1 DEF Report, Update, Clocks
  <2>3. QED BY <1>3, <2>2 DEF Report, TypeOK
<1>4. ASSUME NEW at \in 0 .. MaxNow, Nudge(at) PROVE TypeOK'
  BY <1>4, ClockAssumption DEF Nudge, Schedule, TypeOK
<1>5. ASSUME Tick PROVE TypeOK'
  <2>1. pending' \in [Surfaces -> SUBSET Targets]
    <3>1. \A s \in Surfaces : Left(s) \subseteq pending[s]
      BY DEF Left
    <3>2. pending' = [s \in Surfaces |-> Left(s)]
      BY <1>5 DEF Tick
    <3>3. QED BY <3>1, <3>2
  <2>2. timed' \in SUBSET Surfaces
    BY <1>5 DEF Tick, StillTimed
  <2>3. tick' \in Nat \cup {Never}
    BY <1>5, NextRun DEF Tick, Later
  <2>4. QED BY <1>5, <2>1, <2>2, <2>3 DEF Tick, TypeOK
<1>6. CASE Pass
  BY <1>6 DEF Pass, TypeOK
<1>7. CASE UNCHANGED vars
  BY <1>7 DEF vars, TypeOK
<1>8. QED BY <1>1, <1>2, <1>3, <1>4, <1>5, <1>6, <1>7 DEF Next

\* Every variable keeps its type: in particular the refresh the clock divides
\* by is never 0, whatever the shell reports.
THEOREM ClockTypeCorrect == Spec => []TypeOK
<1>1. TypeOK /\ [Next]_vars => TypeOK'
  BY TypeNext
<1>2. QED BY <1>1, TypeInit, PTL DEF Spec

LEMMA CoveredNext ==
  ASSUME TypeOK, TimersCovered, [Next]_vars
  PROVE  TimersCovered'
<1>. /\ clock \in Clocks /\ now \in Nat /\ timed \in SUBSET Surfaces
     /\ pending \in [Surfaces -> SUBSET Targets] /\ tick \in Nat \cup {Never}
  BY DEF TypeOK
<1>. Never \notin Nat /\ Targets \subseteq Nat
  BY ClockAssumption
<1>. pending \in [Surfaces -> SUBSET Nat]
  OBVIOUS
<1>. SUFFICES ASSUME NEW s \in Surfaces, NEW t \in pending'[s]
              PROVE  s \in timed' /\ tick' # Never /\ (tick' <= t \/ tick' <= now')
  BY DEF TimersCovered
<1>a. t \in pending[s] => s \in timed /\ tick # Never /\ (tick <= t \/ tick <= now)
  BY DEF TimersCovered
<1>1. ASSUME NEW r \in Surfaces, NEW target \in Targets, Commit(r, target)
      PROVE  s \in timed' /\ tick' # Never /\ (tick' <= t \/ tick' <= now')
  <2>1. t \in pending[s] \/ s = r
    BY <1>1 DEF Commit
  <2>2. tick' \in Nat /\ tick' <= now
    BY <1>1 DEF Commit, Schedule
  <2>3. QED BY <1>1, <1>a, <2>1, <2>2 DEF Commit
<1>2. ASSUME NEW r \in Surfaces, Destroy(r)
      PROVE  s \in timed' /\ tick' # Never /\ (tick' <= t \/ tick' <= now')
  BY <1>2, <1>a DEF Destroy
<1>3. ASSUME NEW ust \in 0 .. MaxNow, NEW refresh \in Refreshes, Report(ust, refresh)
      PROVE  s \in timed' /\ tick' # Never /\ (tick' <= t \/ tick' <= now')
  BY <1>3, <1>a DEF Report
<1>4. ASSUME NEW at \in 0 .. MaxNow, Nudge(at)
      PROVE  s \in timed' /\ tick' # Never /\ (tick' <= t \/ tick' <= now')
  BY <1>4, <1>a, ClockAssumption DEF Nudge, Schedule
<1>5. ASSUME Tick
      PROVE  s \in timed' /\ tick' # Never /\ (tick' <= t \/ tick' <= now')
  <2>1. t \in Left(s) /\ Left(s) \subseteq pending[s]
    BY <1>5 DEF Tick, Left
  <2>2. s \in timed /\ t > Due(clock, now)
    BY <1>a, <2>1 DEF Left
  <2>3. s \in StillTimed
    BY <2>1, <2>2 DEF StillTimed
  <2>. DEFINE first == Min(Left(s))
  <2>4. /\ Wakes # {} /\ Min(Wakes) \in Nat /\ Min(Wakes) <= ReleaseAt(clock, first)
        /\ first \in Left(s) /\ first <= t
    BY <1>5, <2>1, <2>3, NextRun
  <2>5. first \in Nat /\ Due(clock, now) < first
    BY <2>2, <2>4, NextVblankBounds, ClockAssumption DEF Left, Due
  <2>6. ReleaseAt(clock, first) \in Nat /\ now < ReleaseAt(clock, first)
        /\ ReleaseAt(clock, first) <= first
    BY <2>5, NotDueNotReleased
  <2>7. tick' = Later(Min(Wakes), now + 1)
    BY <1>5, <2>4 DEF Tick
  <2>. HIDE DEF first
  <2>8. tick' \in Nat /\ tick' <= ReleaseAt(clock, first)
    BY <2>4, <2>6, <2>7 DEF Later
  <2>9. t \in Nat
    BY <2>1
  <2>10. tick' <= t
    BY <2>4, <2>5, <2>6, <2>8, <2>9
  <2>11. QED BY <1>5, <2>3, <2>8, <2>10 DEF Tick
<1>6. CASE Pass
  BY <1>6, <1>a DEF Pass
<1>7. CASE UNCHANGED vars
  BY <1>7, <1>a DEF vars
<1>8. QED BY <1>1, <1>2, <1>3, <1>4, <1>5, <1>6, <1>7 DEF Next

\* No timed update waits past its target without the clock due to run, for any
\* number of surfaces and whatever cycles the shell reports.
THEOREM TimersAlwaysCovered == Spec => []TimersCovered
<1>1. Init => TimersCovered
  BY DEF Init, TimersCovered
<1>2. TypeOK /\ TimersCovered /\ [Next]_vars => TimersCovered'
  BY CoveredNext
<1>3. QED BY <1>1, <1>2, ClockTypeCorrect, PTL DEF Spec

LEMMA EarlyStep ==
  ASSUME TypeOK, Tick, NEW s \in Surfaces, NEW t \in pending[s] \ pending'[s]
  PROVE  t <= Later(clock.ust, now + clock.refresh) + Slack
<1>. /\ clock \in Clocks /\ now \in Nat /\ Slack \in Nat
     /\ pending \in [Surfaces -> SUBSET Nat]
  BY ClockAssumption DEF TypeOK
<1>1. t \notin Left(s)
  BY DEF Tick
<1>2. t \in Nat
  OBVIOUS
<1>3. NextVblank(clock, now) \in Nat
      /\ NextVblank(clock, now) <= Later(clock.ust, now + clock.refresh)
  BY NextVblankBounds
<1>4. ~(t > NextVblank(clock, now) + Slack)
  BY <1>1 DEF Left, Due
<1>5. Later(clock.ust, now + clock.refresh) \in Nat
  BY DEF Clocks, Later
<1>6. QED BY <1>2, <1>3, <1>4, <1>5

\* No update is ever applied more than a refresh and the slack ahead of time.
THEOREM TimersNeverEarly == Spec => NeverEarly
<1>1. TypeOK /\ [Next]_vars =>
        [Tick => \A s \in Surfaces : \A t \in pending[s] \ pending'[s] :
           t <= Later(clock.ust, now + clock.refresh) + Slack]_vars
  BY EarlyStep
<1>2. QED BY <1>1, ClockTypeCorrect, PTL DEF Spec, NeverEarly

LEMMA BetweenStep ==
  ASSUME TypeOK, TimersCovered, Tick,
         NEW s \in Surfaces, NEW t \in pending'[s], NEW u \in Int, now <= u, u < tick'
  PROVE  Due(clock, u) < t
<1>. /\ clock \in Clocks /\ now \in Nat /\ pending \in [Surfaces -> SUBSET Nat]
     /\ clock.ust \in Nat /\ Slack \in Nat
  BY ClockAssumption DEF TypeOK, Clocks
<1>1. t \in Left(s) /\ Left(s) \subseteq pending[s]
  BY DEF Tick, Left
<1>2. s \in timed
  BY <1>1 DEF TimersCovered
<1>3. s \in StillTimed /\ \A r \in Left(s) : Due(clock, now) < r
  BY <1>1, <1>2, NextVblankBounds, ClockAssumption DEF StillTimed, Left, Due
<1>. DEFINE first == Min(Left(s))
<1>4. /\ Wakes # {} /\ Min(Wakes) \in Nat /\ Min(Wakes) <= ReleaseAt(clock, first)
      /\ first \in Left(s) /\ first <= t
  BY <1>1, <1>3, NextRun
<1>5. first \in Nat /\ Due(clock, now) < first
  BY <1>1, <1>3, <1>4
<1>6. tick' = Later(Min(Wakes), now + 1)
  BY <1>4 DEF Tick
<1>. HIDE DEF first
<1>7. ReleaseAt(clock, first) \in Nat /\ now < ReleaseAt(clock, first)
  BY <1>5, NotDueNotReleased
<1>8. tick' \in Nat /\ tick' <= ReleaseAt(clock, first)
  BY <1>4, <1>6, <1>7 DEF Later
<1>9. u \in Nat /\ u < ReleaseAt(clock, first)
  <2>. DEFINE run == tick'
  <2>1. run \in Nat /\ run <= ReleaseAt(clock, first) /\ u < run
    BY <1>8
  <2>. HIDE DEF run
  <2>2. QED BY <1>7, <2>1
<1>10. clock.ust + Slack < first
  <2>1. NextVblank(clock, now) \in Nat /\ clock.ust <= NextVblank(clock, now)
    BY NextVblankBounds
  <2>2. NextVblank(clock, now) + Slack < first
    BY <1>5 DEF Due
  <2>3. QED BY <1>5, <2>1, <2>2
<1>11. Due(clock, u) < first
  BY <1>5, <1>9, <1>10, ReleasedWhenDue
<1>12. Due(clock, u) \in Nat
  BY <1>9, NextVblankBounds DEF Due
<1>13. t \in Nat
  BY <1>1
<1>14. QED BY <1>4, <1>5, <1>11, <1>12, <1>13

\* The clock never sleeps past the moment an update it left could be applied.
THEOREM NothingEverDueBetween == Spec => NothingDueBetween
<1>1. TypeOK /\ TimersCovered /\ [Next]_vars =>
        [Tick => \A s \in Surfaces : \A t \in pending'[s] :
           \A u \in now .. tick' - 1 : Due(clock, u) < t]_vars
  <2>. SUFFICES ASSUME TypeOK, TimersCovered, Tick, NEW s \in Surfaces, NEW t \in pending'[s]
                PROVE  \A u \in now .. tick' - 1 : Due(clock, u) < t
    OBVIOUS
  <2>1. TypeOK' /\ TimersCovered'
    BY TypeNext, CoveredNext DEF Next
  <2>2. now \in Nat /\ tick' \in Nat
    BY <2>1 DEF TypeOK, TimersCovered
  <2>3. \A u \in now .. tick' - 1 : u \in Int /\ now <= u /\ u < tick'
    BY <2>2
  <2>4. \A u \in Int : now <= u /\ u < tick' => Due(clock, u) < t
    BY BetweenStep
  <2>5. QED BY <2>3, <2>4
<1>2. QED BY <1>1, ClockTypeCorrect, TimersAlwaysCovered, PTL DEF Spec, NothingDueBetween
=============================================================================
