----------------------------- MODULE FrameClock ------------------------------
(***************************************************************************)
(* The clock that stands in for the shell's reports: predicted vblanks,    *)
(* and the commit timers (wp_commit_timing_v1) it applies a refresh ahead  *)
(* of the vblank that shows them (timing.rs FrameClock, pacing.rs          *)
(* watch_target and the first part of on_tick).                            *)
(*                                                                         *)
(* Times are natural numbers of the 100 us by which on_tick keeps from a   *)
(* busy loop.  u64 nanoseconds saturate after 584 years of uptime, which   *)
(* no clock reaches: only the subtractions that stop at 0 are kept.        *)
(***************************************************************************)
EXTENDS Integers, FiniteSetsExt

CONSTANTS
  Surfaces,   \* surfaces whose client targets its updates
  Targets,    \* the times they are targeted at
  Refreshes,  \* the refresh periods a shell may report
  Default,    \* DEFAULT_REFRESH_NS
  Slack,      \* TARGET_SLACK_NS
  Ahead,      \* how far ahead of now a report may be stamped
  MaxNow,     \* bound: the last moment the model looks at
  Never       \* no time

ASSUME ClockAssumption ==
  /\ Targets \subseteq Nat
  /\ Refreshes \subseteq Nat
  /\ Default \in Nat \ {0}
  /\ Slack \in Nat /\ Ahead \in Nat /\ MaxNow \in Nat
  /\ Never \notin Int

VARIABLES
  now,      \* now_ns
  clock,    \* State.clock
  timed,    \* State.timed
  pending,  \* each surface's commit timers not yet signalled
  tick      \* State.tick: when the clock runs next

vars == <<now, clock, timed, pending, tick>>

Clocks == [ust : Nat, refresh : Nat \ {0}]

TypeOK ==
  /\ now \in Nat
  /\ clock \in Clocks
  /\ timed \in SUBSET Surfaces
  /\ pending \in [Surfaces -> SUBSET Targets]
  /\ tick \in Nat \cup {Never}

-----------------------------------------------------------------------------
(* FrameClock *)

\* saturating_sub.
Minus(a, b) == IF a > b THEN a - b ELSE 0

\* update: refresh 0 is unknown.
Update(c, ust, refresh) ==
  [ust |-> IF ust > c.ust THEN ust ELSE c.ust,
   refresh |-> IF refresh > 0 THEN refresh ELSE c.refresh]

\* next_vblank: the first predicted vblank after t.
NextVblank(c, t) ==
  IF t < c.ust THEN c.ust
  ELSE c.ust + ((t - c.ust) \div c.refresh + 1) * c.refresh

\* mutant: a vblank too many
DueTwice(c, t) == NextVblank(c, t) + c.refresh + Slack

\* due: the latest target an update applied at t can meet.
Due(c, t) == NextVblank(c, t) + Slack

\* mutant: a target on a vblank takes the one after
ReleaseAtAfter(c, target) == Minus(NextVblank(c, Minus(target, Slack)), c.refresh)

\* release_at: a refresh before the first vblank at or after target.
ReleaseAt(c, target) ==
  Minus(NextVblank(c, Minus(Minus(target, Slack), 1)), c.refresh)

-----------------------------------------------------------------------------
(* The commit timers *)

Later(s, t) == IF s > t THEN s ELSE t

\* mutant: the later of two times is kept
ScheduleLast(t, at) == IF t = Never \/ t < at THEN at ELSE t

\* schedule_tick's choice: the clock already runs at t, and should at at.
Schedule(t, at) == IF t = Never \/ at < t THEN at ELSE t

\* watch_target, and the timer registered right after it.
Commit(s, target) ==
  /\ timed' = timed \cup {s}
  /\ pending' = [pending EXCEPT ![s] = @ \cup {target}]
  /\ tick' = Schedule(tick, now)
  /\ UNCHANGED <<now, clock>>

\* The surface goes, and its timers with it; timed finds out at the next tick.
Destroy(s) ==
  /\ pending' = [pending EXCEPT ![s] = {}]
  /\ UNCHANGED <<now, clock, timed, tick>>

\* frame_presented's update of the clock.
Report(ust, refresh) ==
  /\ ust <= now + Ahead
  /\ clock' = Update(clock, ust, refresh)
  /\ UNCHANGED <<now, timed, pending, tick>>

\* Something else has the clock run at at (module Pacing).
Nudge(at) ==
  /\ at >= now
  /\ tick' = Schedule(tick, at)
  /\ UNCHANGED <<now, clock, timed, pending>>

\* What signal_until leaves of the timers of s.
Left(s) == IF s \in timed THEN {t \in pending[s] : t > Due(clock, now)} ELSE pending[s]

\* mutant: a surface is let go once one of its timers is signalled
StillTimedOnce == {s \in timed : Left(s) # {} /\ Left(s) = pending[s]}

\* The surfaces timed retains.
StillTimed == {s \in timed : Left(s) # {}}

\* When on_tick wakes for them.
Wakes == {ReleaseAt(clock, Min(Left(s))) : s \in StillTimed}

\* on_tick: its commit timers.
Tick ==
  /\ tick # Never /\ tick <= now
  /\ pending' = [s \in Surfaces |-> Left(s)]
  /\ timed' = StillTimed
  /\ tick' = IF Wakes = {} THEN Never ELSE Later(Min(Wakes), now + 1)
  /\ UNCHANGED <<now, clock>>

Pass ==
  /\ now < MaxNow
  /\ now' = now + 1
  /\ UNCHANGED <<clock, timed, pending, tick>>

Init ==
  /\ now = 0
  /\ clock = [ust |-> 0, refresh |-> Default]
  /\ timed = {}
  /\ pending = [s \in Surfaces |-> {}]
  /\ tick = Never

Next ==
  \/ \E s \in Surfaces : Destroy(s) \/ \E target \in Targets : Commit(s, target)
  \/ \E ust \in 0 .. MaxNow, refresh \in Refreshes : Report(ust, refresh)
  \/ \E at \in 0 .. MaxNow : Nudge(at)
  \/ Tick
  \/ Pass

\* Time passes, and the event loop runs its timer.
Spec == Init /\ [][Next]_vars /\ WF_vars(Tick) /\ WF_vars(Pass)

-----------------------------------------------------------------------------
(* What must hold *)

\* Whatever the shell reports meanwhile, an update is never held past its
\* target for want of a timer: its surface is watched and the clock runs by
\* then, or is already due (pacing.rs watch_target, on_tick).
TimersCovered ==
  \A s \in Surfaces : \A t \in pending[s] :
    s \in timed /\ tick # Never /\ (tick <= t \/ tick <= now)

\* An update is never applied more than a refresh, and the slack, ahead of its
\* target: it would be shown too early (timing.rs due).
NeverEarly ==
  [][Tick => \A s \in Surfaces : \A t \in pending[s] \ pending'[s] :
       t <= Later(clock.ust, now + clock.refresh) + Slack]_vars

\* Between a run of the clock and the next it asks for, no update it leaves
\* becomes due: unless the cycle changes, each is applied as soon as the next
\* vblank is the one to show it (timing.rs release_at agrees with due).
NothingDueBetween ==
  [][Tick => \A s \in Surfaces : \A t \in pending'[s] :
       \A u \in now .. tick' - 1 : Due(clock, u) < t]_vars

\* Every timed update is applied in the end, or its surface goes.
TimersFire == \A s \in Surfaces, t \in Targets : t \in pending[s] ~> t \notin pending[s]
=============================================================================
