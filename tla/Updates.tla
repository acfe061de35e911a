------------------------------- MODULE Updates -------------------------------
(***************************************************************************)
(* Content updates from the client's commit to the answer it gets: held    *)
(* until the client's rendering is done (handlers/compositor.rs), applied  *)
(* in order, submitted to the view's shell, and their presentation         *)
(* feedback answered from the shell's reports (timing.rs).                 *)
(*                                                                         *)
(* One view and the desynchronized surfaces of the toplevel it shows, and  *)
(* surfaces no view shows.  Every update asks for feedback.  Barriers and  *)
(* timers are module Pacing's.  What a handler of the server makes ready   *)
(* is applied before it does anything else (Settled): one update at a      *)
(* time, since the shell runs meanwhile.                                   *)
(***************************************************************************)
EXTENDS Naturals, Sequences, FiniteSets

CONSTANTS
  Clients,
  Surfaces,
  Owner,       \* the client of each surface
  Tree,        \* the surfaces of the toplevel
  TreeClient,  \* its client
  Shm,         \* the surfaces shown through staging slots
  MaxWaits,    \* handlers/compositor.rs MAX_WAITS
  MaxInFlight, \* timing.rs MAX_IN_FLIGHT
  MaxSlots,    \* staging.rs MAX_SLOTS
  MaxUpdates,  \* bound on the updates of all the surfaces
  MaxBinds     \* bound on the times the view is bound

ASSUME TreeAssumption ==
  /\ Owner \in [Surfaces -> Clients]
  /\ IsFiniteSet(Surfaces) /\ Tree \subseteq Surfaces /\ Shm \subseteq Surfaces
  /\ \A s \in Tree : Owner[s] = TreeClient
ASSUME BoundsAssumption ==
  {MaxWaits, MaxUpdates, MaxBinds} \subseteq Nat /\ {MaxInFlight, MaxSlots} \subseteq Nat \ {0}

Updates == Surfaces \X (1 .. MaxUpdates)
UpTo(count) == {u \in Updates : u[2] <= count[u[1]]}

VARIABLES
  connected, \* the clients the display has
  gone,      \* State.gone
  waits,     \* State.waits: the updates each client's keys stand for
  sources,   \* the event loop's readiness sources, by the update they wait for
  rendering, \* the updates whose buffers the clients still render into
  committed, \* how many updates of each surface were committed,
  applied,   \* and how many of them applied, which is its Generation
  blocked,   \* the updates whose blocker is pending
  through,   \* history: the updates let through unfinished
  binds,     \* how many times the view was bound, and
  bound,     \* whether it is now
  seq,       \* ViewEntry.seq
  cleared,   \* ViewEntry.cleared
  frames,    \* ViewEntry.frames: the generations each shows and the feedback asked
  given,     \* the frames the shell may show or the view holds: what is in
             \* their buffers, whether they are held, and the updates an older
             \* slot stands in for
  screen,    \* the frame the shell shows
  reports,   \* the shell's reports under way
  presented, \* history: the feedback answered with presented,
  discarded, \* and with discarded
  seen,      \* history: the updates whose content was on the screen,
  again      \* and those an older slot stood in for there

clientVars == <<connected, gone>>
waitVars == <<waits, sources, blocked, through>>
updateVars == <<rendering, committed, applied>>
viewVars == <<binds, bound, seq, cleared>>
shellVars == <<given, screen, reports, seen, again>>
answers == <<presented, discarded>>
vars == <<clientVars, waitVars, updateVars, viewVars, frames, shellVars, answers>>

Frame == [seq : Nat, shown : SUBSET Updates, feedback : SUBSET Updates]
Given == [seq : Nat, content : SUBSET Updates, again : SUBSET Updates, held : BOOLEAN]

TypeOK ==
  /\ connected \subseteq Clients /\ gone \subseteq Clients
  /\ waits \in [Clients -> SUBSET Updates]
  /\ {sources, rendering, blocked, through} \subseteq SUBSET Updates
  /\ committed \in [Surfaces -> 0 .. MaxUpdates] /\ applied \in [Surfaces -> 0 .. MaxUpdates]
  /\ binds \in 0 .. MaxBinds /\ bound \in BOOLEAN /\ seq \in Nat /\ cleared \in BOOLEAN
  /\ frames \in Seq(Frame) /\ Len(frames) <= MaxInFlight
  /\ given \in SUBSET Given /\ screen \in Nat /\ reports \in Seq(Nat)
  /\ {presented, discarded, seen, again} \subseteq SUBSET Updates

-----------------------------------------------------------------------------
(* Holding a commit: gate_on_readiness, hold_commit *)

Of(c) == {u \in Updates : Owner[u[1]] = c}

\* The next update of surface s waits for nothing.
Ready(s) ==
  /\ Owner[s] \in connected /\ applied[s] < committed[s]
  /\ <<s, applied[s] + 1>> \notin blocked

Settled == \A s \in Surfaces : ~Ready(s)

HasRoom(c) == Cardinality(waits[c]) < MaxWaits

\* hold_commit: too many waits, or no source, and the commit waits for nothing
\* of its own.
HoldCommit(u) ==
  \/ /\ HasRoom(Owner[u[1]])
     /\ waits' = [waits EXCEPT ![Owner[u[1]]] = @ \cup {u}]
     /\ sources' = sources \cup {u} /\ blocked' = blocked \cup {u}
     /\ UNCHANGED through
  \/ through' = through \cup {u} /\ UNCHANGED <<waits, sources, blocked>>

\* mutant: a commit behind others does not wait for its own buffer
GateFirst(u, finished) ==
  IF finished \/ committed[u[1]] # applied[u[1]] THEN UNCHANGED waitVars ELSE HoldCommit(u)

\* gate_on_readiness.
Gate(u, finished) == IF finished THEN UNCHANGED waitVars ELSE HoldCommit(u)

\* A commit of surface s, its buffer finished or not.
Commit(s, finished) ==
  LET u == <<s, committed[s] + 1>>
  IN /\ Settled /\ Owner[s] \in connected /\ Cardinality(UpTo(committed)) < MaxUpdates
     /\ committed' = [committed EXCEPT ![s] = @ + 1]
     /\ rendering' = IF finished THEN rendering ELSE rendering \cup {u}
     /\ Gate(u, finished)
     /\ UNCHANGED <<clientVars, applied, viewVars, frames, shellVars, answers>>

\* A client's rendering into a buffer is done; it may never be.
Finish(u) ==
  /\ u \in rendering /\ rendering' = rendering \ {u}
  /\ UNCHANGED <<clientVars, waitVars, committed, applied, viewVars, frames, shellVars, answers>>

\* The source of hold_commit: its key goes, its blocker clears.
SourceFires(u) ==
  /\ Settled /\ u \in sources \ rendering
  /\ sources' = sources \ {u} /\ blocked' = blocked \ {u}
  /\ waits' = [waits EXCEPT ![Owner[u[1]]] = @ \ {u}]
  /\ UNCHANGED <<clientVars, through, updateVars, viewVars, frames, shellVars, answers>>

-----------------------------------------------------------------------------
(* Submitting: submit_view, submit_tree, clear_view, Frames::push *)

Discard(feedback) == discarded' = discarded \cup feedback /\ UNCHANGED presented

\* The contents of surface s in slots that are held.
Busy(s) == {n \in 1 .. MaxUpdates : \E g \in given : g.held /\ <<s, n>> \in g.content}

AllBusy(s) == s \in Shm /\ Cardinality(Busy(s)) >= MaxSlots

\* What is in the buffer surface s is shown by, update n being its latest: with
\* every slot busy, what the newest was filled with.
InBuffer(s, n) ==
  IF AllBusy(s)
  THEN CHOOSE b \in Busy(s) : \A other \in Busy(s) : other <= b
  ELSE n

\* clear_view, g being what the shell has been given.
ClearView(g) ==
  \/ seq' = seq + 1 /\ cleared' = TRUE /\ ~cleared /\ seq # 0
     /\ given' = g \cup {[seq |-> seq + 1, content |-> {}, again |-> {}, held |-> FALSE]}
  \/ given' = g /\ UNCHANGED <<seq, cleared>>

\* mutant: no feedback is discarded to make room
PushLosing(frame, taken) ==
  /\ frames' = IF Len(frames) < MaxInFlight THEN Append(frames, frame) ELSE Append(Tail(frames), frame)
  /\ Discard(taken \ frame.shown)

\* push: feedback for what the frame does not show is discarded, and the
\* oldest frame's to make room.
Push(frame, taken) ==
  IF Len(frames) < MaxInFlight
  THEN frames' = Append(frames, frame) /\ Discard(taken \ frame.shown)
  ELSE /\ frames' = Append(Tail(frames), frame)
       /\ Discard((taken \ frame.shown) \cup Head(frames).feedback)

\* submit_tree hands over layers, some of the surfaces that have content.
HandOver(layers, latest, taken) ==
  LET shown == {<<s, latest[s]>> : s \in layers}
      content == {<<s, InBuffer(s, latest[s])>> : s \in layers}
      standsIn == {<<s, latest[s]>> : s \in {x \in layers : AllBusy(x)}} \ content
  IN /\ seq' = seq + 1 /\ cleared' = FALSE
     /\ given' = given \cup {[seq |-> seq + 1, content |-> content, again |-> standsIn, held |-> TRUE]}
     /\ Push([seq |-> seq + 1, shown |-> shown, feedback |-> taken \cap shown], taken)

\* submit_view, latest being the updates applied, taken their feedback: handed
\* over, with nothing to show, or refused.
SubmitView(latest, taken) ==
  /\ UNCHANGED <<screen, reports, seen, again>>
  /\ \/ \E layers \in SUBSET {s \in Tree : latest[s] # 0} :
          layers # {} /\ HandOver(layers, latest, taken)
     \/ ClearView(given) /\ Discard(taken) /\ UNCHANGED frames

\* The next update of surface s is applied: CompositorHandler::commit.
Apply(s) ==
  /\ Ready(s)
  /\ applied' = [applied EXCEPT ![s] = @ + 1]
  /\ UNCHANGED <<clientVars, waitVars, rendering, committed, binds, bound>>
  /\ IF s \in Tree /\ bound THEN SubmitView(applied', {<<s, applied'[s]>>})
     ELSE Discard({<<s, applied'[s]>>}) /\ UNCHANGED <<seq, cleared, frames, shellVars>>

-----------------------------------------------------------------------------
(* The view and the clients *)

Bind ==
  /\ Settled /\ ~bound /\ TreeClient \in connected /\ binds < MaxBinds
  /\ bound' = TRUE /\ binds' = binds + 1
  /\ SubmitView(applied, {})
  /\ UNCHANGED <<clientVars, waitVars, updateVars>>

AllFeedback == UNION {frames[i].feedback : i \in DOMAIN frames}

\* unbind_view: its frames are cleared, the shell told to show nothing, its
\* holds let go.
Unbinding ==
  /\ bound' = FALSE /\ frames' = <<>> /\ Discard(AllFeedback)
  /\ ClearView({[g EXCEPT !.held = FALSE] : g \in given})
  /\ UNCHANGED <<binds, screen, reports, seen, again>>

Unbind ==
  /\ Settled /\ bound /\ Unbinding
  /\ UNCHANGED <<clientVars, waitVars, updateVars>>

\* A client disconnects, its toplevel with it.
Disconnect(c) ==
  /\ Settled /\ c \in connected
  /\ connected' = connected \ {c} /\ gone' = gone \cup {c}
  /\ IF bound /\ c = TreeClient THEN Unbinding ELSE UNCHANGED <<viewVars, frames, shellVars, answers>>
  /\ UNCHANGED <<waitVars, updateVars>>

\* mutant: the sources are left behind
Reaped(left) == sources

\* The sources left without those of the clients that went.
Unreaped(left) == sources \ UNION {waits[c] : c \in left}

\* reap_clients, after each round of the loop.
Reap ==
  /\ Settled /\ gone # {} /\ gone' = {}
  /\ sources' = Unreaped(gone)
  /\ waits' = [c \in Clients |-> IF c \in gone THEN {} ELSE waits[c]]
  /\ UNCHANGED <<connected, blocked, through, updateVars, viewVars, frames, shellVars, answers>>

-----------------------------------------------------------------------------
(* The shell shows a frame, later than the one on screen, and reports it *)

Show(g) ==
  /\ g.seq > screen /\ screen' = g.seq
  /\ seen' = seen \cup g.content /\ again' = again \cup g.again
  /\ reports' = Append(reports, g.seq)
  /\ given' = {h \in given : h.seq >= g.seq \/ h.held}
  /\ UNCHANGED <<clientVars, waitVars, updateVars, viewVars, frames, answers>>

\* mutant: the frame reported is kept for another report
Replaced(q) == {i \in DOMAIN frames : frames[i].seq < q}

\* The frames a report of frame q is the last word on.
Answered(q) == {i \in DOMAIN frames : frames[i].seq <= q}

\* mutant: what the frames replaced showed counts as shown
ShownUpTo(q) == UNION {frames[i].shown : i \in Answered(q)}

\* What frame q shows, if the server still has it.
ShownBy(q) == UNION {frames[i].shown : i \in {j \in DOMAIN frames : frames[j].seq = q}}

\* frame_presented of the oldest report.
Presented ==
  LET q == Head(reports)
      due == UNION {frames[i].feedback : i \in Answered(q)}
  IN /\ Settled /\ reports # <<>> /\ reports' = Tail(reports)
     /\ presented' = presented \cup (due \cap ShownBy(q))
     /\ discarded' = discarded \cup (due \ ShownBy(q))
     /\ frames' = SubSeq(frames, Cardinality(Answered(q)) + 1, Len(frames))
     /\ given' = {g \in given : g.seq >= q}
     /\ UNCHANGED <<clientVars, waitVars, updateVars, viewVars, screen, seen, again>>

Init ==
  /\ connected = Clients /\ gone = {}
  /\ waits = [c \in Clients |-> {}] /\ sources = {} /\ blocked = {} /\ through = {}
  /\ rendering = {} /\ committed = [s \in Surfaces |-> 0] /\ applied = [s \in Surfaces |-> 0]
  /\ binds = 0 /\ bound = FALSE /\ seq = 0 /\ cleared = FALSE
  /\ frames = <<>> /\ given = {} /\ screen = 0 /\ reports = <<>>
  /\ presented = {} /\ discarded = {} /\ seen = {} /\ again = {}

Next ==
  \/ \E s \in Surfaces : Apply(s) \/ \E finished \in BOOLEAN : Commit(s, finished)
  \/ \E u \in Updates : Finish(u) \/ SourceFires(u)
  \/ \E c \in Clients : Disconnect(c)
  \/ \E g \in given : Show(g)
  \/ Bind \/ Unbind \/ Reap \/ Presented

\* The loop runs what is due, and the shell shows what it is given and reports
\* it.
Spec ==
  /\ Init /\ [][Next]_vars
  /\ WF_vars(\E s \in Surfaces : Apply(s)) /\ WF_vars(\E u \in Updates : SourceFires(u))
  /\ WF_vars(Presented) /\ WF_vars(\E g \in given : Show(g))

-----------------------------------------------------------------------------
(* Properties *)

\* A client's waits are its sources; each blocker of a client still there has
\* its source, else nothing would ever clear it; no more than the limit wait,
\* and none of a client that was reaped (compositor.rs:121, state.rs:329).
WaitsAgree ==
  /\ \A c \in Clients : /\ waits[c] = sources \cap Of(c) /\ Cardinality(waits[c]) <= MaxWaits
                        /\ c \in connected => blocked \cap Of(c) = waits[c]
                        /\ c \notin connected \cup gone => waits[c] = {}

\* The shell is only ever handed finished buffers, in the order of the commits,
\* but for updates let through (compositor.rs:73).
ShownIsFinished ==
  /\ \A s \in Surfaces : \A n \in 1 .. applied[s] : <<s, n>> \notin rendering \ through
  /\ \A g \in given : g.content \cap rendering \subseteq through

\* What is to be answered of a surface whose client is there: every update
\* applied, in one place only, and no update that was not (timing.rs:10).
FeedbackAccounted ==
  /\ presented \cap discarded = {} /\ AllFeedback \cap (presented \cup discarded) = {}
  /\ \A i, j \in DOMAIN frames : i # j => frames[i].feedback \cap frames[j].feedback = {}
  /\ presented \cup discarded \cup AllFeedback = UpTo(applied)

\* Update u is in content or, where its surface's slots were all busy when the
\* frame was staged, is one of those that an older slot, itself in content,
\* stands in for (staging.rs:285).
ShownIn(content, instead, u) ==
  \/ u \in content
  \/ u \in instead /\ \E n \in 1 .. u[2] - 1 : <<u[1], n>> \in content

\* Who hears that its content was presented had it on the screen (timing.rs:10),
\* but for what a busy ring showed an older slot for.
PresentedWasShown == \A u \in presented : ShownIn(seen, again, u)

\* Update u is committed, and it and those before it are finished.
Due(u) ==
  /\ Owner[u[1]] \in connected /\ u[2] <= committed[u[1]]
  /\ \A n \in 1 .. u[2] : <<u[1], n>> \notin rendering

\* Time and again every finished update of a client that is there has been
\* answered: the clients' commits being bounded, each one is in the end.
UpdatesAnswered == []<>(\A u \in Updates : Due(u) => u \in presented \cup discarded)
=============================================================================
