------------------------------- MODULE Pacing --------------------------------
(***************************************************************************)
(* When clients may draw the next frame: the fifo barriers and frame       *)
(* callbacks of each view's updates, and the one timer (State.tick) that   *)
(* clears them when the shell reports nothing (pacing.rs, timing.rs        *)
(* Frames, submit.rs submit_view).                                         *)
(*                                                                         *)
(* Times are distances from now: a due time counts down to 0 and stays     *)
(* there, an age counts up to just past Stale.  The clock itself is module *)
(* FrameClock; of it this module keeps how far the next vblank is, which   *)
(* is 1 .. Refresh whatever the clock was last told (NextVblankBounds).    *)
(* Each view shows a client of its own.                                    *)
(***************************************************************************)
EXTENDS Integers, Sequences, FiniteSetsExt

CONSTANTS
  Views,        \* the views, and the client each one shows
  Refresh,      \* the display's refresh period
  Stale,        \* timing.rs STALE_NS
  HiddenRelease,\* pacing.rs HIDDEN_RELEASE_NS
  MaxInFlight,  \* timing.rs MAX_IN_FLIGHT
  MaxLoose,     \* pacing.rs MAX_LOOSE
  Never         \* no time

ASSUME TimesAssumption == /\ {Refresh, Stale, HiddenRelease} \subseteq Nat \ {0}
                          /\ Never \notin Nat
ASSUME LimitsAssumption == {MaxInFlight, MaxLoose} \subseteq Nat \ {0}

VARIABLES
  vblank,     \* the next predicted vblank
  tick,       \* State.tick: when the clock runs next
  bound,      \* the views showing their client
  unbinding,  \* the view in the middle of unbind_view, while what it unblocked is applied
  suspended,  \* the views out of the scene
  hiddenAt,   \* ViewEntry.hidden_release_ns, which counts only while suspended
  frames,     \* ViewEntry.frames: submitted and unreported, oldest first
  late,       \* the views of which the shell may report a frame taken as never shown
  callbacks,  \* each client's frame callbacks: none, waiting, or submitted
  loose,      \* State.loose: barriers of updates no view shows
  unsubmitted,\* State.unsubmitted: when those views' callbacks are due
  owed,       \* history: clients of which a barrier cleared, not unblocked since,
  forgotten   \* and those whose last barrier cleared where the code tells nobody

vars == <<vblank, tick, bound, unbinding, suspended, hiddenAt, frames, late, callbacks,
          loose, unsubmitted, owed, forgotten>>

Times == 0 .. HiddenRelease + Stale + Refresh
Frame == [age : 0 .. Stale + 1, barrier : BOOLEAN, flushed : BOOLEAN]

TypeOK ==
  /\ vblank \in 1 .. Refresh
  /\ tick \in Times \cup {Never}
  /\ bound \subseteq Views /\ suspended \subseteq Views /\ late \subseteq Views
  /\ owed \subseteq Views /\ forgotten \subseteq Views
  /\ unbinding \subseteq bound
  /\ hiddenAt \in [Views -> Times]
  /\ frames \in [Views -> Seq(Frame)]
  /\ \A v \in Views : Len(frames[v]) <= MaxInFlight
  /\ callbacks \in [Views -> {"none", "waiting", "submitted"}]
  /\ loose \in Seq([client : Views, due : Times]) /\ Len(loose) <= MaxLoose
  /\ unsubmitted \in [Views -> Times \cup {Never}]

-----------------------------------------------------------------------------
Later(s, t) == IF s > t THEN s ELSE t

\* The sooner of two times, either of which may be never.
Sooner(s, t) == IF s = Never \/ (t # Never /\ t < s) THEN t ELSE s

HasBarrier(fs) == \E i \in DOMAIN fs : fs[i].barrier

\* mutant: only barriers are looked for
NextStaleBarrier(fs, onScreen) ==
  LET waiting == {i \in DOMAIN fs : fs[i].barrier}
  IN IF waiting = {} THEN Never ELSE Later(0, Stale - fs[Min(waiting)].age)

\* Frames::next_stale: when the oldest of fs with something to release does.
NextStale(fs, onScreen) ==
  LET waiting == {i \in DOMAIN fs : fs[i].barrier \/ (onScreen /\ ~fs[i].flushed)}
  IN IF waiting = {} THEN Never ELSE Later(0, Stale - fs[Min(waiting)].age)

\* When watch_frames, or the tick itself, has the clock run for frames fs of
\* a view, suspended or not, that may be released from release on.
WakeFor(fs, hidden, release) ==
  IF ~hidden THEN NextStale(fs, TRUE)
  ELSE IF NextStale(fs, FALSE) = Never THEN Never ELSE Later(release, vblank)

\* The clients a barrier of which is in fs, or in the loose ones ls.
Clearing(v, fs) == IF HasBarrier(fs) THEN {v} ELSE {}
ClientsOf(ls) == {ls[i].client : i \in DOMAIN ls}

\* What s has at the places in T, in the order of s.
At(s, T) ==
  [i \in 1 .. Cardinality(T) |-> s[CHOOSE j \in T : Cardinality({k \in T : k <= j}) = i]]

\* mutant: room is made one too late
ExcessLate(s, limit) == Later(0, Len(s) - limit - 1)

\* How many of the oldest of s must go to keep within limit.
Excess(s, limit) == Later(0, Len(s) - limit)

\* Whether a barrier of client v is still to clear.
Barred(v) == HasBarrier(frames[v]) \/ v \in ClientsOf(loose)

\* Barriers of the clients cleared go, those of lost where the code does not
\* know whom to tell, and it unblocks told.
Settle(cleared, lost, told) ==
  /\ owed' = (owed \cup cleared) \ told
  /\ forgotten' = {w \in (forgotten \cup lost) \ told : ~Barred(w)'}

\* mutant: only the last of them counts
ReleasedLast(fs) == fs # <<>> /\ fs[Len(fs)].barrier

\* Whether Frames says that dropping fs cleared barriers.
Released(fs) == HasBarrier(fs)

\* view_client: whom v shows, if anyone.
ViewClient(v) == {v} \cap bound

\* What fs of view v held is cleared, and client unblocked if there was any.
Release(v, fs, client) ==
  Settle(Clearing(v, fs), Clearing(v, fs) \ client, IF Released(fs) THEN client ELSE {})

\* hold_loose of v's barrier, if the update had one: the oldest go early,
\* and their clients are not unblocked for it.
HoldLoose(v, barrier) ==
  LET all == IF barrier THEN Append(loose, [client |-> v, due |-> vblank]) ELSE loose
      excess == Excess(all, MaxLoose)
      pushed == ClientsOf(SubSeq(all, 1, excess))
  IN /\ loose' = SubSeq(all, excess + 1, Len(all))
     /\ Settle(pushed, pushed \ {v}, {})

-----------------------------------------------------------------------------
(* Updates of clients: Commit::commit, submit_view, not_shown *)

\* submit_view, the shell taking the frame: the oldest one makes room.
Submitted(v, callback, barrier) ==
  LET all == Append(frames[v], [age |-> 0, barrier |-> barrier, flushed |-> FALSE])
      excess == Excess(all, MaxInFlight)
      kept == SubSeq(all, excess + 1, Len(all))
  IN /\ frames' = [frames EXCEPT ![v] = kept]
     /\ late' = IF excess > 0 THEN late \cup {v} ELSE late
     /\ UNCHANGED <<loose, unsubmitted>>
     /\ Release(v, SubSeq(all, 1, excess), {v})
     /\ callbacks' = [callbacks EXCEPT ![v] = IF callback \/ @ # "none"
                                              THEN "submitted" ELSE "none"]
     /\ tick' = Sooner(tick, WakeFor(kept, v \in suspended, hiddenAt[v]))

\* submit_view, the shell refusing the frame, or nothing in it to show (then an
\* empty frame may have gone out, and be reported): the barriers clear at the
\* next refresh, and unsubmitted sends the callbacks.
Refused(v, callback, barrier) ==
  /\ UNCHANGED frames
  /\ HoldLoose(v, barrier)
  /\ unsubmitted' = [unsubmitted EXCEPT ![v] = IF @ = Never THEN vblank ELSE @]
  /\ callbacks' = [callbacks EXCEPT ![v] = IF callback /\ @ = "none" THEN "waiting" ELSE @]
  /\ tick' = Sooner(tick, vblank)
  /\ late' \in {late, late \cup {v}}

\* not_shown: no view shows the update.
NotShown(v, callback, barrier) ==
  /\ UNCHANGED <<frames, late, unsubmitted>>
  /\ HoldLoose(v, barrier)
  /\ callbacks' = [callbacks EXCEPT ![v] = IF callback THEN "waiting" ELSE @]
  /\ tick' = IF barrier THEN Sooner(tick, vblank) ELSE tick

\* A client's update is applied, as it commits it or when it is unblocked; in
\* the middle of unbind_view the latter alone.  A client may set a barrier
\* without having waited for its last one.
Commit(v, callback, barrier) ==
  /\ unbinding \subseteq {v}
  /\ \/ v \in bound /\ Submitted(v, callback, barrier)
     \/ v \in bound /\ Refused(v, callback, barrier)
     \/ v \notin bound /\ NotShown(v, callback, barrier)
  /\ UNCHANGED <<vblank, bound, unbinding, suspended, hiddenAt>>

\* try_bind_view's submit of what the toplevel already has.
Bind(v) ==
  /\ unbinding = {} /\ v \notin bound
  /\ bound' = bound \cup {v}
  /\ Submitted(v, FALSE, FALSE) \/ Refused(v, FALSE, FALSE)
  /\ UNCHANGED <<vblank, unbinding, suspended, hiddenAt>>

\* The rest of unbind_view, once the frames are dropped: what the shell still
\* has, or the empty frame, may be reported later.
ClearView(v) ==
  /\ bound' = bound \ {v}
  /\ unbinding' = {}
  /\ late' \in {late, late \cup {v}}
  /\ callbacks' = [callbacks EXCEPT ![v] = IF @ = "none" THEN "none" ELSE "waiting"]

\* unbind_view: drop_frames, whose unblock applies what the client had waiting
\* while the view still shows it.
Unbind(v) ==
  /\ unbinding = {} /\ v \in bound
  /\ frames' = [frames EXCEPT ![v] = <<>>]
  /\ UNCHANGED <<vblank, tick, suspended, hiddenAt, loose, unsubmitted>>
  /\ Release(v, frames[v], ViewClient(v))
  /\ IF Released(frames[v])
     THEN unbinding' = {v} /\ UNCHANGED <<bound, late, callbacks>>
     ELSE ClearView(v)

Unbound(v) ==
  /\ v \in unbinding
  /\ ClearView(v)
  /\ UNCHANGED <<vblank, tick, suspended, hiddenAt, frames, loose, unsubmitted, owed,
                 forgotten>>

-----------------------------------------------------------------------------
(* The shell: frame_presented, view_suspended *)

\* frame_presented: the n oldest frames were shown or replaced (none, when the
\* one reported was given up).  The report sets the clock.
Presented(v, n) ==
  /\ unbinding = {}
  /\ IF n = 0 THEN v \in late ELSE n <= Len(frames[v])
  /\ vblank' \in 1 .. Refresh
  /\ frames' = [frames EXCEPT ![v] = SubSeq(@, n + 1, Len(@))]
  /\ late' = IF n = 0 THEN late \ {v} ELSE late
  /\ UNCHANGED <<tick, bound, unbinding, suspended, hiddenAt, loose, unsubmitted>>
  /\ Release(v, SubSeq(frames[v], 1, n), ViewClient(v))
  /\ callbacks' = [callbacks EXCEPT ![v] = IF v \in bound THEN "none" ELSE @]

\* mutant: resuming leaves the clock to whatever runs it next
SuspendForgetting(v, on) ==
  /\ unbinding = {} /\ on # (v \in suspended)
  /\ suspended' = IF on THEN suspended \cup {v} ELSE suspended \ {v}
  /\ hiddenAt' = [hiddenAt EXCEPT ![v] = IF on THEN vblank ELSE 0]
  /\ LET stale == NextStale(frames[v], ~on)
     IN tick' = IF stale # Never /\ on THEN Sooner(tick, vblank) ELSE tick
  /\ UNCHANGED <<vblank, bound, unbinding, frames, late, callbacks, loose,
                 unsubmitted, owed, forgotten>>

\* view_suspended: the view left or re-entered the scene.
Suspend(v, on) ==
  /\ unbinding = {} /\ on # (v \in suspended)
  /\ suspended' = IF on THEN suspended \cup {v} ELSE suspended \ {v}
  /\ hiddenAt' = [hiddenAt EXCEPT ![v] = IF on THEN vblank ELSE 0]
  /\ LET stale == NextStale(frames[v], ~on)
     IN tick' = IF stale = Never THEN tick
                ELSE Sooner(tick, IF on THEN vblank ELSE Later(stale, Stale))
  /\ UNCHANGED <<vblank, bound, unbinding, frames, late, callbacks, loose,
                 unsubmitted, owed, forgotten>>

-----------------------------------------------------------------------------
(* The clock: on_tick *)

\* mutant: what is off screen waits for its report
ReleasesOnScreen(v, f) == v \notin suspended /\ f.age > Stale

\* The frames a tick releases: a suspended view's at hiddenAt, all of them;
\* else those gone stale.
Releases(v, f) ==
  IF v \in suspended THEN hiddenAt[v] = 0 /\ HasBarrier(frames[v]) ELSE f.age > Stale

\* flush_older finds one not flushed yet.
GoesStale(v) ==
  v \notin suspended /\ \E i \in DOMAIN frames[v] : frames[v][i].age > Stale
                                                    /\ ~frames[v][i].flushed

AfterTick(v) ==
  [i \in DOMAIN frames[v] |->
     LET f == frames[v][i]
     IN [f EXCEPT !.barrier = @ /\ ~Releases(v, f),
                  !.flushed = @ \/ (v \notin suspended /\ f.age > Stale)]]

\* mutant: off screen too
FlushedHidden(v) == v \in bound /\ (unsubmitted[v] = 0 \/ GoesStale(v))

\* The views whose callbacks flush_callbacks sends.
Flushed(v) == v \in bound \ suspended /\ (unsubmitted[v] = 0 \/ GoesStale(v))

\* The views of which the tick releases a frame with a barrier, and the
\* clients of the loose ones it clears.
ReleasedViews == {v \in Views : \E i \in DOMAIN frames[v] :
                    frames[v][i].barrier /\ Releases(v, frames[v][i])}
LooseClients == {loose[i].client : i \in {j \in DOMAIN loose : loose[j].due = 0}}

\* The clients unblock_all tells.
Unblocks == (UNION {ViewClient(v) : v \in ReleasedViews}) \cup LooseClients

Tick ==
  /\ unbinding = {} /\ tick = 0
  /\ LET after == [v \in Views |-> AfterTick(v)]
         hidden == [v \in Views |-> IF v \in suspended /\ hiddenAt[v] = 0 /\ HasBarrier(frames[v])
                                    THEN HiddenRelease ELSE hiddenAt[v]]
         held == At(loose, {i \in DOMAIN loose : loose[i].due > 0})
         unsent == [v \in Views |-> IF unsubmitted[v] = 0 THEN Never ELSE unsubmitted[v]]
         wakes == ({WakeFor(after[v], v \in suspended, hidden[v]) : v \in Views}
                   \cup {held[i].due : i \in DOMAIN held}
                   \cup {unsent[v] : v \in Views}) \ {Never}
     IN /\ frames' = after
        /\ hiddenAt' = hidden
        /\ loose' = held
        /\ unsubmitted' = unsent
        /\ callbacks' = [v \in Views |-> IF Flushed(v) THEN "none" ELSE callbacks[v]]
        /\ Settle(ReleasedViews \cup LooseClients, ReleasedViews \ bound, Unblocks)
        /\ tick' = IF wakes = {} THEN Never ELSE Later(Min(wakes), 1)
  /\ UNCHANGED <<vblank, bound, unbinding, suspended, late>>

\* A unit of time passes.  The timer may run late.
Pass ==
  LET Down(t) == IF t = Never THEN Never ELSE Later(0, t - 1)
  IN /\ unbinding = {}
     /\ vblank' = IF vblank = 1 THEN Refresh ELSE vblank - 1
     /\ tick' = Down(tick)
     /\ hiddenAt' = [v \in Views |-> Down(hiddenAt[v])]
     /\ unsubmitted' = [v \in Views |-> Down(unsubmitted[v])]
     /\ loose' = [i \in DOMAIN loose |-> [loose[i] EXCEPT !.due = Down(@)]]
     /\ frames' = [v \in Views |-> [i \in DOMAIN frames[v] |->
                     [frames[v][i] EXCEPT !.age = IF @ > Stale THEN @ ELSE @ + 1]]]
     /\ UNCHANGED <<bound, unbinding, suspended, late, callbacks, owed, forgotten>>

Init ==
  /\ vblank \in 1 .. Refresh
  /\ tick = Never
  /\ bound = {} /\ unbinding = {} /\ suspended = {} /\ late = {}
  /\ owed = {} /\ forgotten = {}
  /\ hiddenAt = [v \in Views |-> 0]
  /\ frames = [v \in Views |-> <<>>]
  /\ callbacks = [v \in Views |-> "none"]
  /\ loose = <<>>
  /\ unsubmitted = [v \in Views |-> Never]

Next ==
  \/ \E v \in Views :
       \/ \E callback, barrier \in BOOLEAN : Commit(v, callback, barrier)
       \/ Bind(v) \/ Unbind(v) \/ Unbound(v)
       \/ \E n \in 0 .. MaxInFlight : Presented(v, n)
       \/ \E on \in BOOLEAN : Suspend(v, on)
  \/ Tick
  \/ Pass

\* Time passes, the event loop runs its timers and unbind_view returns; nothing
\* else has to happen.
Spec == /\ Init /\ [][Next]_vars
        /\ WF_vars(Tick) /\ WF_vars(Pass) /\ WF_vars(\E v \in Views : Unbound(v))

-----------------------------------------------------------------------------
(* What must hold *)

\* By when the clock must run for view v, or never: what was submitted on
\* screen within Stale, or again within Stale of coming back; what is held
\* off screen at hiddenAt, or a vblank later.
DueBy(v) ==
  IF v \in suspended
  THEN IF HasBarrier(frames[v]) THEN Later(hiddenAt[v], Refresh) ELSE Never
  ELSE IF NextStale(frames[v], TRUE) = Never THEN Never ELSE Stale

\* Whatever waits for the clock has it run in time: a client's barrier or
\* callback is never left with no timer, however commits, reports, refusals
\* and suspensions interleave with the ticks (pacing.rs schedule_tick and the
\* wake of on_tick: "Nothing would release what waits").
TickCovers ==
  LET By(t) == t # Never => tick # Never /\ tick <= t
  IN /\ \A v \in Views : By(DueBy(v)) /\ By(unsubmitted[v])
     /\ \A i \in DOMAIN loose : By(loose[i].due)

\* No client waits on barriers that are all cleared without having been
\* unblocked, whichever of a newer frame, a report, the end of the binding or
\* the clock cleared them: what waits on the last of them would never be applied
\* (pacing.rs unblock, unblock_all; hold_loose counts on the newer barriers it
\* still holds).  Only those may whose last barrier another client's pushed out
\* of the loose ones (pacing.rs:85), or was in a frame that unbind_view's own
\* unblock had submitted to the view (pacing.rs:204-206).
ClearedIsUnblocked == \A v \in owed : Barred(v) \/ v \in forgotten

\* The clock never sends the frame callbacks of a view that is off screen: it
\* takes a report of the shell (pacing.rs flush_callbacks, timing.rs "wait for
\* the view to be shown again").
HiddenCallbacksWait ==
  [][\A v \in Views \cap suspended :
       callbacks[v] # "none" /\ callbacks'[v] = "none" =>
         \E n \in 0 .. MaxInFlight : Presented(v, n)]_vars

\* The client goes on committing, or the shell on moving the view in and out
\* of the scene.
Disturbed(v) == \/ \E callback, barrier \in BOOLEAN : Commit(v, callback, barrier)
                \/ \E on \in BOOLEAN : Suspend(v, on)

\* A client that waits for its barrier has it cleared, on screen and off, its
\* update shown or refused, reported or not: a fifo client never stops for
\* good (timing.rs "A report that never comes must not stall a client").
BarriersClear ==
  \A v \in Views : (Barred(v) ~> ~Barred(v)) \/ []<><<Disturbed(v)>>_vars

\* A client that waits for the frame callbacks of a frame the shell took gets
\* them, unless the view leaves the scene or the binding ends first (timing.rs
\* STALE_NS).
SubmittedCallbacksSent ==
  \A v \in Views :
    \/ (callbacks[v] = "submitted" /\ v \notin suspended
          ~> callbacks[v] # "submitted" \/ v \in suspended)
    \/ []<><<Disturbed(v)>>_vars

-----------------------------------------------------------------------------
(* What the code says of itself, and does not do *)

\* Frame callbacks of a view on screen are sent even when the shell refused the
\* frame, and a view off screen holds them until it is shown again, "and then
\* the same holds" (tests/frame_callbacks.rs).
CallbacksSent ==
  \A v \in Views :
    \/ (callbacks[v] # "none" /\ v \in bound \ suspended
          ~> callbacks[v] = "none" \/ v \notin bound \ suspended)
    \/ []<><<Disturbed(v)>>_vars
=============================================================================
