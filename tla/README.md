# A verification project for ihs_wl_server

`ihs_wl_server` runs a Wayland server inside a Flutter shell.  Each platform
view of the shell shows one client's toplevel with its popups and dialogs;
frames go to the shell as dma-buf layers, and the shell's reports drive when
clients may draw again.  This directory models that logic in TLA+, checks it
with TLC on small instances, and proves its central theorems with TLAPS for all
instances.

Everything is translated from `src/` (a Rust crate) and, for what a widget is
told, `dart/`.  smithay (the Wayland library), the shell's platform-view
registry and the clients are external: they are modelled by what the crate
relies on.

## The system

One compositor thread owns all state (`State`, state.rs).  It runs a calloop
event loop; every command, Wayland request and timer is handled to completion
before the next.  Flutter's platform thread, the shell's display thread and Dart
only put `Cmd`s on a FIFO channel (`thread::send`); the one thing shared with
them is each view's `link` mutex.  So interleavings are those of whole handlers,
and in the modules one action is one handler with everything it calls.  `Lifecycle`
is about the threads themselves, and takes smaller steps.

| part | state | operations | what makes it correct |
|---|---|---|---|
| Binding (state.rs, handlers/xdg.rs, activation.rs, dialogs.rs, events.rs) | `views`, `toplevels`, activation tokens | create, dispose, configure, suspend, focus a view; map, re-parent, activate, destroy a toplevel | both sides agree on who shows what; sandboxes and tokens are honoured; a waiting view gets what it matches; the isolate that listens is told |
| Keyboard (input.rs) | `focused_view`, seat focus, window states | refresh after each change | the keyboard is on the window the focused view shows; only that one is activated; hidden windows are suspended |
| Pacing (pacing.rs, timing.rs, submit.rs) | `frames`, `loose`, `unsubmitted`, `tick` | submit, report, suspend, tick | nothing that waits is left without a timer; clients are unblocked; callbacks of hidden views wait |
| Frame clock (timing.rs, pacing.rs) | `clock`, `timed`, `tick` | report, commit with a target, tick | updates are applied in time for their vblank, not early |
| Submission and buffers (submit.rs, buffers.rs, tree.rs) | `holds`, ids and importers of buffers | submit, fence, report, retire | a buffer is held while shown and let go once; an id names one buffer |
| Staging, ids, imports (staging.rs, buffers.rs, egl_display.rs) | a ring of slots per surface, `by_buffer`, `EglBuffers.cache` | stage, give an id, retire | a slot is never written while shown; its pixels are up to date; the shell drops its imports of buffers that go |
| Commit gating (handlers/compositor.rs) | `waits`, `gone` | hold, ready, disconnect, reap | a commit waits for its buffers, and not for ever |
| Presentation feedback (timing.rs) | `Frames`, generations | take, push, report | each request is answered once, and truly |
| Views and threads (view.rs, thread.rs, lib.rs) | `SERVER`, `LIFECYCLE`, `link`, the command channel | start, stop, ask; factory, renegotiate, dispose | nothing is submitted to a disposed view; one compositor runs; no two threads wait on each other |
| Popups, scanout, cursor, scale, EGL, C interface | small | | see PROJECT.json, `components` |

The hard behaviours, each at its line, are in PROJECT.json under `hazards`.

## Modules

### Binding, MCBinding, Binding_proof, Scene_proof

`Binding` has the views (`live`, `params`, `vtop`, `suspended`), the toplevels
(`known`, `mapped`, `appId`, `ttoken`, `tview`, `parent`, with `exists` and
`committed` on smithay's side and `idOf` for the id kept in the wl_surface's
data), the activation `tokens`, and the derived window state: `focused`,
`keyboard`, `activated`, `hidden`.  `listening` says whether events.rs has the port of
an isolate that is there: an event is posted once, and dropped without a sink or at a closed port
(`Posted`).  `watched` are the views made since that isolate began to listen, which are those its
`ViewEvents` has, and `told` is what their `_bound` says.  Isolates come and go
(`SetEventPort`, `StopsListening`: a hot restart), and the server, its clients and their toplevels
carry on; the next one makes views of its own (thread.rs:129), under ids new or old.  A widget is
built once `WaylandServer.start` returned, which listens before it does.  The other actions
are the handlers: `ViewCreated` (with the disposal of an incumbent),
`ViewDisposed`, `ViewSuspended`, `FocusInput`, `ConfigureView`, `IssueToken`;
`NewToplevel`, `SetAppId`, `ToplevelCommit` (map, offer to waiting views),
`ParentChanged`, `RequestActivation`, `ToplevelDestroyed`.  Each ends with the
`Refresh` the code ends with, which recomputes keyboard and window states.

Abstracted: app ids, sandboxes and tokens are model values.  `WindowRoot` climbs from a
surface by `Above`, at most `MaxDepth` steps; `Dialogs` are the sets of windows that belong to
the view (`Belonging`) and are each over one before it (`Stacked`).  In the runs `MaxDepth`
is at least the number of toplevels less one and cuts nothing off; the proofs take it
as it comes.  Two waiting views are tried in id order, as
`bind_waiting_views` sorts them.  The seat has a keyboard.  From smithay: a
parent loop is refused, a destroyed parent is left named, and a surface may be
given the toplevel role again once the first toplevel is destroyed.

### Pacing, Pacing_proof

What of a client's update waits for the screen: fifo barriers and frame
callbacks.  `frames` are the submitted frames of a view (age, whether a barrier
is left, whether its callbacks were flushed), `loose` the barriers of updates no
view shows, `unsubmitted` the refused ones, `tick` the one timer.  `owed` is a
history variable: clients a barrier of which cleared and that were not unblocked
since, whichever of a newer frame, a report, an unbinding, the overflow of `loose` or a tick cleared it:
each clears in `Settle`, which unblocks just whom the code there tells.  `forgotten` is those of whom
the last barrier cleared where the code tells nobody, in two places (see "Known from reading").  All times are distances from now, in units of the shortest one told
apart, so the module needs no clock that grows.  The handlers are `Commit`
(shown, refused, not shown), `Bind`, `Unbind`, `Presented`, `Suspend` and `Tick`;
`Pass` is time, and may pass while a timer is due.  `unblock` has smithay apply the client's next
updates at once.  Mostly that is the handler's last act, and those are the `Commit`s that follow; but
unbind_view unblocks before the view is free, so `Unbind` stops there (`unbinding`), commits of that client
may come, which are submitted to the view, and `Unbound` does the rest.

A view shows one client of its own; the binding itself is module Binding.
Not in it: presentation feedback, which is `Updates`, and `release_everything`
(the event loop refusing a timer).

### FrameClock, FrameClock_proof

`Update`, `NextVblank`, `Due`, `ReleaseAt` are `FrameClock`'s methods on natural
numbers (u64 nanoseconds saturate after centuries; subtraction stops at 0 as in
the code).  Around them the commit timers: `Commit` (watch_target and the timer
smithay registers right after), `Report`, `Tick`, and `Nudge`, another part of
the crate setting the same timer.  Pacing takes from it only that the next
vblank is at most a refresh away (`NextVblankBounds`).

### Holds, Holds_proof

The buffers of one toplevel's tree while the shell shows them.  Each view has
`seq`, `cleared` and its `Holds`: `nextKey`, `fenced` (buffers by key) and
`unfenced` (for each buffer, the frame it is held for, 0 if it is not held);
`sources` are the event sources of fences.  The handlers are `Commit`, `Bind`,
`Unbind`, `ViewCreated`, `ViewDisposed`, `Presented` and `Signalled`; both commits
and binding end in `Submit`, which is submit_tree: nothing to show (`Cleared`), a
frame taken, layer by layer with a fence, with one the event loop refuses, or
without (`Taken`), or a frame refused (`Refused`).

The shell is external, and modelled as submit.rs relies on it: it `reading`s a
layer until it signals the layer's fence (`FenceSignals`) or, without one, shows a
later frame (`Shows`), which it reports in order but late; disposal (`OnDispose`, on
the platform thread) ends what it reads.  `Pipeline` is the code's own assumption,
in words at submit.rs:88 ("A shell that has not presented anything in this many
frames is not reading them") and in a unit test which holds that `MAX_UNFENCED` is
two full frames of layers or more: `LimitsAssumption` says that the limit holds
`Pipeline` frames of `NumLayers` layers.

Abstracted: a buffer is a model value, whether the client's or a staged copy; the
order in which one frame's buffers were pushed is not kept, so the limit gives
back any of the oldest frame's (more behaviours than the code has).  Binding
is module Binding's: here a view binds whenever the toplevel is free.

### Staging, MCStaging, Staging_proof

What a surface is shown by: the client's own buffer, an EGL buffer imported on first
use, or a slot its shared memory is copied into.  `surface` is smithay's
RendererSurfaceState: what is attached, the commit counter, and for each cell of the
surface the commit that last changed it, which is all that `DamageSince` (external, as
stage uses it) depends on.  `ring` and `mem` are the Ring and its Slots, `eglCache` and
`ids` the tables of egl_display.rs and buffers.rs.  `Stage` is the set of what stage may
come to: the newest slot, the first free one filled, one allocated, nothing; each copy
may fail, as may an allocation.  `Submit` is submit_tree from the tree's content
(`Content`) through the retiring of what is gone (`Gone`, `Retire`) to the id and the hand-over, taken or
refused.  `Commit`, `Bind`, `Unbind`, `Destroy`, `SurfaceDestroyed`, `ViewCreated` and
`ViewDisposed` are the handlers; `OnDispose` is the platform thread's, `Done` and `LetGo` are
the shell being done with a slot and the view hearing of it.

On the shell's side are `imports`, which it caches by id until told to drop one, and
`reading`: the slots it may read, each with what was in it when it was handed over.
Abstracted: one surface, since rings share nothing but the counter of uids; a copy that
fails writes nothing; a size stands for size and format.  The holds themselves are module
Holds's: here a slot held is let go some time after it was read.

### Updates, MCUpdates, Updates_proof

A content update from its commit to the answer to its feedback request; an update is
a surface and the number of its commit.  `Commit` is gate_on_readiness: a buffer that is
finished passes, another holds the commit (`HoldCommit`: the client's key, an event
source, a blocker) or, with too many held or no source, lets it through.  `SourceFires`,
`Disconnect` and `Reap` clear them.  `Apply` is CompositorHandler::commit of the next update
smithay has no blocker for, which submits the view (`SubmitView`) or discards the
feedback; `Bind`, `Unbind` and `Disconnect` are the other ways a submission or an unbinding
comes.  `frames` are timing.rs's: the generations each frame shows and the feedback it
took, pushed by `Push`, answered by `Presented`.  `Show` is the shell, which shows a later
frame than the last, and reports it.

`seen` is the history of what was on the screen, `through` of what was let through
unfinished, `presented` and `discarded` of the answers.  smithay applies what an event
made ready before the loop goes on (`Settled`), one surface at a time, while the shell goes
on.  A frame is given its content as staging has it: with every slot of a surface
busy (`AllBusy`), its newest one is shown again (`InBuffer`), whatever the generation says; `again` is
the history of the updates that such a slot stood in for on the screen.

Abstracted: every update asks for feedback; which surfaces of the tree a frame takes is
any of those with content; barriers, callbacks and timers are Pacing's; the shell reports
each frame it shows once.  `Unbind` is one step here: what its own unblock applies before the view is
free (Pacing's `unbinding`) is applied before or after it.  Not in it: synchronized subsurfaces, whose state is applied with
the parent's, and the suspension of a view.

### Handle, Lifecycle, MCLifecycle, Lifecycle_proof

`Lifecycle` is what the other modules take for granted: the threads.  Here a step is
what runs between two points where another thread may come in.  `call` is how far
each caller of `ihs_wl_start`, `ihs_wl_stop`, `ihs_wl_view_client` or
`ihs_wl_activation_token` is, and so which of LIFECYCLE and SERVER it holds
(`InLifecycle`, `InServer`); `running` is what SERVER stores.  Each start that gets
to `spawn` makes a server: a `thread` that starts up, fails, runs, stops or dies, a
`chan` of commands and the `views` of its State.  The platform thread (`platform`)
runs the factory and the callbacks; `status` is the shell's side of each view, `link`
whether `ViewShared.link` is Some, `submitting` the view whose link the compositor has
locked.  A thread that dies lets its locks go, and its channel takes commands until
it is dropped.

`Handle` is the contract of the shell (view.rs:6): calls are made with an open handle,
one at a time, and end before it is closed.  `KeepsContract` maps the links that are
Some to its open handles, and who has a link locked to who is in a call.

From outside, as view.rs and thread.rs say it is: one platform thread; a view's id is
used again only after its dispose callback has returned; registering takes the
registry's mutex; submitting takes no lock of this crate.  Two constants are what the shell does:
`FactoryLocks`, whether it may keep that mutex while it calls the factory (when TRUE the
model has both), and `QueryLocks`, whether it takes it to answer the capability query that `start` makes
under LIFECYCLE and SERVER (`Reap`, then `Spawn` or `SpawnFails` once it answers).  The repository's
mock shell does the second (tests/common/mock_host.rs:185) and not the first, so there the mutex is
never kept and nobody waits for it: fewer behaviours than the runs', which have a shell that does the
first and not the second.  A shell that does both is left out, see "Known from reading".

Abstracted: the commands other than created, disposed and quit change nothing here.
A question and its answer are kept apart from `chan`, so that an answer may overtake
other commands, and the two seconds a caller waits may be over at any time.

## Runs

| run | instance | shows |
|---|---|---|
| binding | 2 views, 2 toplevels, a plain and a sandboxed client, 1 token | `BindingAgrees`, `SandboxHonoured`, `OneToplevelPerToken`, `BoundIsTold`, `HandoverIsByToken`, `TokenToplevelsPassedOver`, `MappedIsOffered`, isolates coming and going |
| dialogs | 2 views, 3 toplevels of one client | `KeyboardFollowsScene`, `OnlyKeyboardWindowActive`, `SuspendedFollowsScene` with dialogs of dialogs |
| pacing | 1 view, refresh 1, stale 2, hidden release 3, 2 frames in flight | `TypeOK`, `TickCovers`, `ClearedIsUnblocked`, `HiddenCallbacksWait`; live: `BarriersClear`, `SubmittedCallbacksSent` |
| clock | 2 surfaces, targets 4 and 7, refreshes unknown, 2, 3 | `TimersCovered`, `NeverEarly`, `NothingDueBetween`; live: `TimersFire` |
| holds | 1 view, 3 buffers, 1 layer, limit 2, pipeline 2, 4 frames | `HeldWhileRead`, `HeldForAReason` |
| staging | 1 view, a dma-buf, an EGL buffer and shared memory of 2 sizes, 2 cells, 3 commits, 3 slots ever and 2 at once | `CopiesAreExact`, `ReadsStayWhole`, `ImportsFollowBuffers` |
| updates | a toplevel shown by slots and a subsurface of one client, 3 updates, 1 held at once, 2 frames in flight, 2 slots, 1 binding | `WaitsAgree`, `ShownIsFinished`, `FeedbackAccounted`, `PresentedWasShown`; live: `UpdatesAnswered` |
| lifecycle | 2 callers, 2 servers, 2 views of one id | `OneThread`, `IdIsFree`, `KnowsItsViews`, `NobodyStuck`, `StopLeavesNothing`, `KeepsContract`, with `FactoryLocks` and not `QueryLocks` |
| lifecycle_live | 2 callers, 1 server, 1 view | live: `EveryCallReturns`, with the same shell |

Three more runs refute what a doc, a comment or a test says (see `findings`):
`remade_toplevel`, `stalled_callback` and `unbound_reads`.  The `TypeOK` of each module
is the proof's; a run checks only that of Pacing, which has that module's limits in it.

Bounds.  Two views are what handing over, passing over and order among waiting
views need; three toplevels make a dialog of a dialog.  In Pacing each limit is
at least one less than what is told apart: two frames in flight let one be
pushed out, reported in a batch, or go stale before another; ages stop just past
`Stale`, where all that follows is the same.  Views do not interact in Pacing
except through `tick` and `loose`: `tick` is the least of what each needs, which
`TickCovers` says view by view.  Two views overflowing `loose` are the proof's part:
there hold_loose clears another client's barrier and unblocks nobody (hazard at pacing.rs:85).  In Holds three buffers and a limit of two make the limit give
one back, while two frames are read; views share only the event loop, so one view,
disposed and made again, is enough, and `unbound_reads` has two.  Any number of
layers and views is the proof's part.  `MaxSeq` and `MaxReports` bound the
frames of a view and its reports on their way: four frames let a buffer be
submitted again, be over the limit and outlive a late report.  In FrameClock, `MaxNow` is
past the last target by one: the timers have all run by then.

In Staging two slots at once are a slot shown and one filled, the third uid is that of a
ring made anew after a resize, three commits let a slot miss one while it is busy, and two
cells tell damage that was missed from damage that was not.  In Updates two frames in
flight and three updates let the oldest frame be pushed out and reported afterwards; one
held commit makes the second one go through; one of the two surfaces is shown by slots, of
which there are fewer than updates.  The proofs have no bounds.

In Lifecycle two callers
are a start or a stop and who races it, two servers let one be replaced after it
crashed or was stopped, and two views of one id let the second be made while the
first one's disposal is queued.  `EveryCallReturns` is about the order locks are
taken in, for which one server, started and stopped once, and one view do.

Fairness.  `Binding`, `Holds` and `Staging` have none.  In Lifecycle each caller, the platform
thread, and the loop's handling of commands and its end are strongly fair, and a
thread's other steps weakly: a link is locked at most once in a submission, SERVER for
a send, so who waits for a lock meets it free again and again and the system's mutexes
then let it in; a round of the loop serves every source and then looks at the signal
to stop.  Nobody is made to call, and no server to crash.  `Pacing` and `FrameClock`
assume that time passes and that a timer that is due runs, which calloop gives as
long as handlers return, and Pacing that unbind_view gets to its end; nothing is assumed of the shell or of clients there.  In `Updates` the
loop applies what is ready, and runs the sources and reports that come; and the shell is
assumed to show, and report, some frame while it has one newer than that on the screen: feedback is about
reports, and is not answered without them until the view is unbound.  Clients need not
finish, nor stay: `UpdatesAnswered` is about updates that are finished, of a client that is
there.  The
liveness properties of Pacing are about a client that waits: they hold unless the
client goes on committing, or the shell goes on moving the view in and out of the
scene, for ever.

## Proofs

`Binding_proof`, for every set of views, clients, app ids and tokens and any
number of toplevels: `TypeCorrect`, `BindingsAlwaysAgree`, `SandboxAlwaysHonoured`,
`BindingsAlwaysTold`, `OneToplevelPerTokenAlways`, `HandoverAlwaysByToken`,
`TokenToplevelsAlwaysPassedOver`, `MappedAlwaysOffered`.  The inductive invariant `Inv` joins the type, agreement of the two sides, the claim of
every bound view, what was told, and token uniqueness; none is inductive alone,
since a handover moves a toplevel between views in one step and only agreement
says that the view it leaves then shows nothing.  `TryBindBinds` and
`UnbindUnbinds` say once what binding a set of views and unbinding one do; `TryBindOffers`
says that who stays without had a claim to nothing free.

`Scene_proof`, for any views, toplevels and `MaxDepth`: `KeyboardAlwaysFollowsScene`,
`OnlyKeyboardWindowEverActive`, `SuspendedAlwaysFollowsScene`.  Right after a refresh they hold
by `RefreshedScene`; what takes the proof is every handler that ends without one.  `Families` says
what the handlers rely on about parents: only a toplevel that is there has one, no way up
comes back to where it began (`Apart`, a set closed upwards with the parent and without the
child), and a surface that carried a toplevel before has an entry of no other.  `Way` is a
way up step by step; `WayStays` says that it stays in a set no step leads out of, `SameWay` that two ways
part only where a step differs.  Destroying a toplevel that no view was told of changes no
view's windows (`DestroyedDialogs`), since a way through it to the view's toplevel would either
have made it a dialog of that view or closed a loop.  `SuspendedFollowsScene` leaves out one case,
without which it is false: climbing stops at `MaxDepth`, so that with more dialogs over each other
a toplevel may be led to a view's that is itself a dialog; when a dialog in between is destroyed,
which belongs to no view then, nothing refreshes what the first was told (one view, four toplevels and
a `MaxDepth` of two).  `KeyboardAlwaysOnWindow` says what follows: the keyboard is never left on a
toplevel that is gone or of no view.  `WindowsAlwaysHonourSandbox` extends `SandboxHonoured` to
dialogs, which come into a view unasked: a dialog is of its parent's client (`Kin`), so that the first
in a view's stack of another client would have no parent there (`DialogsOfOneClient`).

`FrameClock_proof`, for every cycle: `NextVblankBounds`; `NotDueNotReleased` and
`ReleasedWhenDue`, that `due` and `release_at` agree, from which `ClockTypeCorrect`,
`TimersAlwaysCovered`, `TimersNeverEarly` and `NothingEverDueBetween` follow.  The
lemmas are about multiples of the refresh: `OnTheCycle` names the multiple the
next vblank is.  `TimersCovered` is inductive with the type: a tick asks for a
moment no later than the least target it leaves.

`Holds_proof`, for any views and buffers, any number of layers and any limit that
holds the shell's pipeline: `HoldsTypeCorrect`, `AlwaysHeldWhileRead` and
`AlwaysHeldForAReason`.  The heart is `CapSparesPipeline`, a pigeonhole argument:
a frame holds at most one buffer for each layer, so the buffers of the last
`Pipeline` frames fit within the limit, and those it gives back are older.  It
needs the inductive invariant to know that each held buffer of a frame has a layer
of its own (`OnePerLayer`; there is a witness, no state of the code says which).
`FramesInv` ties reports, what is on screen and what is read together, so that a
late report lets nothing go that is read; `KeysInv` says that keys are not used
twice while one is waited for, so that a signal lets go the right buffer, and
bounds them by the frames so far.  Each `...Keeps` lemma is one handler.  The
assumptions of all the proofs are the named ASSUMEs of the modules.

`Staging_proof`, for any views, buffers, cells and limits: `StagingTypes`, `CopiesExact`,
`ReadsWhole`, `ImportsFollow`.  A copy is exact because a slot filled at commit c has what
the client drew of every cell that has not changed since c (`UpToDate`), and the damage it
is given is all of the others; it is kept through commits that only raise the change of a cell.  A read
stays whole because what is read is held (`HoldsInv`) and `Free` leaves out what is held.
Imports follow because every id names a buffer still there or one revived (`IdsInv`) and the
views noted with it are at least those that cache it (`ImportsInv`).

`Updates_proof`, for any clients, surfaces and limits: `UpdatesTypes`, `WaitsAlwaysAgree`,
`ShownAlwaysFinished`, `FeedbackAlwaysAccounted`, `PresentedAlwaysShown`.  The inductive
invariant adds `Pending` (content unfinished and not let through is blocked while its client
is there), `GivenInv` (what the shell may show was applied), `FramesInv` (frame numbers
ascend and each stands for one submission) and `ReportsInv` (a report is of a frame that was
on the screen).  None of the properties is inductive alone: a report comes when its frame may be
gone, shown by nothing or followed by others, and only the numbers, given once, say that what it
answers is what was seen.  `AnsweredFirst` says that the frames a report answers are the
first ones, so that those left are `Rest`; `RestKeeps` and `AppendKeeps` are about sequences of
frames, `PushIs` reduces a push to them, and `SubmitKeeps` and `UnbindingKeeps` serve every
handler that submits or unbinds.  `InBufferIs` needs a maximum of a set of naturals
(`MaxExists`), which the library's well-foundedness of Nat gives.

`Pacing_proof`, for any views, limits and periods: `PacingTypes`, `TickAlwaysCovers`,
`ClearedAlwaysUnblocked`, `HiddenCallbacksAlwaysWait`.  The invariant is the three together, each
needing only the types besides itself.  `Covers(tk, t)` is a timer in time for t;
`Due` is `DueBy` of frames on their own, `WakeIs` says that waking when `WakeFor` says is in time
for them, `DueAgain` that losing frames or growing old makes nothing due sooner, and
`CoversOn` that a timer never put off covers all that is not new.  A tick is the
one step that puts it off: it asks for the least of what it leaves (`LeastIs`).  Unblocking goes by cutting
sequences (`BarrierCut`, `LooseCut`): what is cut off is cleared, and what is left still bars; each
handler then settles for whom it clears and whom it tells, and only the two named places tell nobody.  `AtIs`
says that picking places out of a sequence loses and adds none, by counting them.

`Lifecycle_proof`, for any callers, servers, views and ids: `LifecycleTypeCorrect`;
`OneThreadAlways` and `StopAlwaysLeavesNothing` from `LifeInv`, which says that one
caller is inside LIFECYCLE and that a thread that has not ended is what SERVER stores
or what that caller makes or stops; `DisposeAlwaysWaitsOut` and `ContractKept` from
`LinkInv`, which says that a link is Some just while its view lives, that who is in a
call has the link, alone, and that a server's views, and those its channel tells it
of, are of views that were announced.  The last is needed because a link that is made
would otherwise be one that is in use already.  `IdAlwaysFree` and `ViewsAlwaysKnown` come from
`ViewsInv`, which is about what a server comes to have once its channel is handled (`Has`):
for the one that runs that is the views made for it and not disposed, each by its id once;
handling a message changes nothing of it (`HandlingKeeps`), sending one adds or takes
one (`SendingKeeps`), and a thread that has ended has nothing (`EndedHasNone`).  `ContractKept`
is the refinement of `Handle`: `UsesOfPlatform` and `UsesOfServer` say which abstract step each call is.  `NobodyEverStuck` is freedom from deadlock, of any number of
threads, unless the shell has both `QueryLocks` and `FactoryLocks`: by the order LIFECYCLE, registry, SERVER no set of them waits each for another of the
set (`NoCircle`), and by `WaitInv` who waits for a thread waits for one that was made, and that ends or
was told to if it is joined.  That each then gets its turn is `EveryCallReturns`.

Only model-checked is liveness, which is beyond the prover: `BarriersClear`,
`SubmittedCallbacksSent`, `TimersFire`, `EveryCallReturns` and `UpdatesAnswered`.

## Known from reading, without a property

- What the hazards without properties say (PROJECT.json): toplevels a disposed view gives
  up are offered to nobody; an activation that comes before its view; an activation that takes a
  toplevel from its view without an event.
- A toplevel that a view shows may become another's dialog, and belong to two views
  (handlers/xdg.rs:91); after a report changes the cycle the timer is not set again
  (timing.rs:86); the string of `socket_name_ptr` goes with its server when `start`
  replaces one that died (thread.rs:220).
- With every slot busy the newest is shown again under the generation of the update it does
  not contain, and that update's feedback is then answered with presented (staging.rs:285), though
  timing.rs:10 has a surface hear when its content was shown.  `PresentedWasShown` allows just the updates
  that such a slot stood in for, on the screen; without the allowance TLC refutes it.
- `unblock` is left out in two places, and the client's next fifo update then stays queued until something
  else of its is applied.  hold_loose clears the oldest loose barriers, whoever's they are, and unblocks nobody
  (pacing.rs:85).  drop_frames unblocks the client while the view's toplevel is still set
  (pacing.rs:206, state.rs:568), so that its next update is submitted to the view that is
  being unbound, with its barrier; when that frame's barrier clears, view_client knows nobody.
  For a toplevel that is handed to another view (activation.rs:90) this is real.
  `ClearedIsUnblocked` leaves out just these clients (`forgotten`); without that TLC
  refutes it, the second case in 7 states.
- start asks the shell for its capabilities under LIFECYCLE and SERVER (thread.rs:143).  With a shell that takes its
  registry's mutex for the answer and also keeps it while it calls the factory, start and the
  factory, which waits for SERVER to send, wait for each other: a server died with its factory registered, the shell
  calls it, and another thread starts the server anew.  With both constants TRUE TLC finds
  `NobodyStuck` violated in 17 steps.  thread.rs:109 has such a shell in mind for registering;
  of the query it says only that it is for the platform thread, and on that thread neither can come during the
  other.  view.rs:53 says that calls into the shell run on whatever thread starts the server.
- On a disconnect the destruction of a surface may be seen before its view is unbound
  (handlers/compositor.rs:38): Staging's `SurfaceDestroyed` has the unbinding first.
- "Discarded" may be said of a frame that is shown afterwards, when more than
  `MAX_IN_FLIGHT` frames wait for their report, or a view is unbound before it: the server cannot
  know.  `FeedbackAccounted` says there is one answer, not that a discarded update is never seen.
- With more dialogs over each other than `MAX_DEPTH`, one may keep being told it is suspended, or
  not, after a dialog below it is destroyed (dialogs.rs): `SuspendedFollowsScene` leaves it out.
- A dialog that leaves its view keeps its scanout tranche until that view unbinds, though
  scanout.rs:17 says it goes back when it leaves.

## Not modelled

Of the modelled parts: `release_everything`; a shell with both `QueryLocks` and `FactoryLocks`, in the runs and the deadlock theorem; configure sizes, titles and decorations;
synchronized subsurfaces and the unanswered feedback of a suspended view in Updates; clients
that connect anew; allocators, unsupported formats and shared-memory pools that shrink under
a copy; the plane fds dup'd for a hand-over, the rectangles of layers, and surfaces beyond
`IHS_PV_MAX_LAYERS`.  The flip and transform of tree.rs:85 are a table that a unit test covers entirely.

Whole parts: popups (arithmetic, and smithay's grabs), scanout hints, cursor, scale, pointer
and touch forwarding, dma-buf and GBM import, other Wayland globals, security-context
listeners, logging and configuration, the C interface's argument checks, most of the Dart
package, generated code.  They keep no state that outlives an event, or hand it to a
driver or to smithay; PROJECT.json, `components`, says which for each.

## Plan

Done: Binding, FrameClock, Pacing, Holds, Lifecycle, Staging and Updates, and the proofs of
every safety property the runs check.  Worth stating next: exclusive showing, which Binding implements, and a
buffer being either the client's or the server's, which Holds implements but for unbinding.
