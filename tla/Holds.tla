------------------------------- MODULE Holds ---------------------------------
(***************************************************************************)
(* The buffers of a client's tree of surfaces while the shell shows them:  *)
(* what each view holds, so that the client does not draw in a buffer the  *)
(* shell reads (submit.rs Holds, submit_tree, clear_view).                 *)
(*                                                                         *)
(* One toplevel, bound to one view at a time; which one is module Binding's *)
(* business, so a view binds here whenever the toplevel is free.  A view   *)
(* created and bound by one handler is here two steps.  The shell reads    *)
(* what it was given until it signals the layer's fence or shows a later   *)
(* frame, as submit.rs says it does.                                       *)
(***************************************************************************)
EXTENDS Naturals, Sequences, FiniteSets

CONSTANTS
  Views,       \* the views' ids
  Buffers,     \* the client's wl_buffers
  None,        \* no buffer, no view
  NumLayers,   \* surfaces in the toplevel's tree
  MaxUnfenced, \* submit.rs MAX_UNFENCED
  Pipeline,    \* frames the shell reads at once, at most, if it reports none
  MaxSeq,      \* bound on a view's frame numbers
  MaxReports   \* bound on the reports of a view on their way

Layers == 1 .. NumLayers

\* The limit is for a shell that "has not presented anything in this many
\* frames" (submit.rs:88); a unit test has it hold two full frames.
ASSUME LimitsAssumption ==
  /\ {NumLayers, MaxUnfenced, Pipeline} \subseteq Nat \ {0} /\ MaxSeq \in Nat
  /\ Pipeline * NumLayers <= MaxUnfenced
ASSUME NoneAssumption == None \notin Buffers \cup Views
ASSUME BuffersAssumption == IsFiniteSet(Buffers)

VARIABLES
  live,     \* State.views
  linked,   \* the views of which the shell has not been through dispose
  bound,    \* the view that shows the toplevel
  attached, \* the buffer of each surface of the tree
  seq,      \* ViewEntry.seq
  cleared,  \* ViewEntry.cleared
  nextKey,  \* Holds.next_key
  fenced,   \* Holds.fenced: buffers held, by key
  unfenced, \* Holds.unfenced: the frame each buffer is held for, 0 if it is not
  sources,  \* the event sources of fences, and whether they are readable
  reading,  \* what the shell may read of each view's frames
  onScreen, \* the last frame of each view it showed
  reports   \* its reports on their way, in order

viewVars == <<live, bound>>
holdVars == <<seq, cleared, nextKey, fenced, unfenced, sources>>
serverVars == <<viewVars, holdVars>>
shellVars == <<linked, reading, onScreen, reports>>
vars == <<serverVars, shellVars, attached>>

Keys == 1 .. MaxSeq * NumLayers

\* How a layer the shell reads is kept: held, by key if it has a fence and by
\* frame else; not held, its fence having no source; or handed back at unbind.
Read == [seq : 1 .. MaxSeq, buf : Buffers, key : Keys \cup {0},
         kept : {"held", "unwatched", "unbound"}]

HeldPlain(held) == {b \in Buffers : held[b] # 0}

TypeOK ==
  /\ live \subseteq Views /\ linked \subseteq Views
  /\ bound \in live \cup {None}
  /\ attached \in [Layers -> Buffers \cup {None}]
  /\ seq \in [Views -> 0 .. MaxSeq] /\ onScreen \in [Views -> 0 .. MaxSeq]
  /\ cleared \in [Views -> BOOLEAN]
  /\ nextKey \in [Views -> Keys \cup {0}]
  /\ fenced \in [Views -> SUBSET [key : Keys, buf : Buffers]]
  /\ unfenced \in [Views -> [Buffers -> 0 .. MaxSeq]]
  /\ \A v \in Views : Cardinality(HeldPlain(unfenced[v])) <= MaxUnfenced
  /\ sources \subseteq [view : Views, key : Keys, ready : BOOLEAN]
  /\ reading \in [Views -> SUBSET Read]
  /\ reports \in [Views -> Seq(1 .. MaxSeq)]

-----------------------------------------------------------------------------
(* Submitting: submit_tree, clear_view *)

\* How many of n held buffers are over the limit.
Excess(n) == IF n > MaxUnfenced THEN n - MaxUnfenced ELSE 0

\* Which of the held buffers the limit gives back: the oldest, of those that
\* went with one frame the lowest; which that is is not told apart.
GivenBack(held) ==
  {drop \in SUBSET HeldPlain(held) :
     /\ Cardinality(drop) = Excess(Cardinality(HeldPlain(held)))
     /\ \A b \in drop, c \in HeldPlain(held) \ drop : held[b] <= held[c]}

\* mutant: a buffer held already stays held for the frame it was
PlainHoldsOnce(held, s, bufs) ==
  [b \in Buffers |-> IF b \in bufs /\ held[b] = 0 THEN s ELSE held[b]]

\* hold_unfenced of bufs for frame s: a buffer submitted again is held for the
\* later frame only.
PlainHolds(held, s, bufs) ==
  [b \in Buffers |-> IF b \in bufs THEN s ELSE held[b]]

\* mutant: a fence the loop takes no source for is held on nonetheless
HeldUnwatched(way) == way # "plain"

\* Whether a layer that comes back this way is held by a key: it has a fence,
\* and the event loop watches it.
HeldByKey(way) == way = "fence"

\* The layers of a scene, and those that come back with a fence.
Top(scene) == {l \in Layers : scene[l] # None}
Keyed(scene, way) == {l \in Top(scene) : way[l] # "plain"}

\* The key layer l's fence is given, counting on from the last one; 0 if it has
\* no fence.
KeyOf(last, keyed, l) ==
  IF l \in keyed THEN last + Cardinality({k \in keyed : k <= l}) ELSE 0

\* What is held by key, the fences that have sources, and what the shell reads,
\* of frame s of scene, the layers of which came back by way.
KeyHolds(scene, way, last) ==
  {[key |-> KeyOf(last, Keyed(scene, way), l), buf |-> scene[l]] :
     l \in {k \in Top(scene) : HeldByKey(way[k])}}
Watched(v, scene, way, last) ==
  {[view |-> v, key |-> KeyOf(last, Keyed(scene, way), l), ready |-> FALSE] :
     l \in {k \in Top(scene) : way[k] = "fence"}}
Reads(scene, way, last, s) ==
  {[seq |-> s, buf |-> scene[l], key |-> KeyOf(last, Keyed(scene, way), l),
    kept |-> IF way[l] = "unwatched" THEN "unwatched" ELSE "held"] : l \in Top(scene)}

\* hold_fenced and hold_unfenced, layer by layer.
Hold(v, scene, way, s) ==
  LET plain == {scene[l] : l \in Top(scene) \ Keyed(scene, way)}
      held == PlainHolds(unfenced[v], s, plain)
  IN /\ nextKey' = [nextKey EXCEPT ![v] = @ + Cardinality(Keyed(scene, way))]
     /\ fenced' = [fenced EXCEPT ![v] = @ \cup KeyHolds(scene, way, nextKey[v])]
     /\ sources' = sources \cup Watched(v, scene, way, nextKey[v])
     /\ \E drop \in GivenBack(held) : unfenced' = [unfenced EXCEPT ![v] =
          [b \in Buffers |-> IF b \in drop THEN 0 ELSE held[b]]]

\* The shell takes the frame: each layer comes back with a fence, with one the
\* loop then takes no source for, or without one.  It reads no layer without a
\* fence that is Pipeline frames behind.
Taken(v, scene) ==
  LET s == seq[v] + 1
  IN /\ v \in linked /\ seq[v] < MaxSeq - 1
     /\ seq' = [seq EXCEPT ![v] = s]
     /\ cleared' = [cleared EXCEPT ![v] = FALSE]
     /\ \E way \in [Layers -> {"fence", "unwatched", "plain"}] :
          /\ \A l \in Layers \ Top(scene) : way[l] = "plain"
          /\ Hold(v, scene, way, s)
          /\ reading' = [reading EXCEPT ![v] = Reads(scene, way, nextKey[v], s) \cup
               {r \in @ : r.key # 0 \/ r.seq + Pipeline > s}]
     /\ UNCHANGED <<linked, onScreen, reports>>

\* A plane's fd cannot be dup'd, or the view is disposed, or the shell refuses
\* the frame: nothing is held.
Refused == UNCHANGED <<holdVars, shellVars>>

\* clear_view, as its caller goes on with the holds: an empty frame, once.
Cleared(v) ==
  \/ /\ v \in linked /\ ~cleared[v] /\ seq[v] # 0
     /\ seq' = [seq EXCEPT ![v] = @ + 1]
     /\ cleared' = [cleared EXCEPT ![v] = TRUE]
  \/ UNCHANGED <<seq, cleared>>  \* nothing to clear, disposed, or refused

\* submit_tree of the scene.
Submit(v, scene) ==
  IF \A l \in Layers : scene[l] = None
  THEN Cleared(v) /\ UNCHANGED <<nextKey, fenced, unfenced, sources, shellVars>>
  ELSE Taken(v, scene) \/ Refused

\* A commit of the tree's surfaces, synchronized ones with their parent.
Commit(scene) ==
  /\ attached' = scene
  /\ UNCHANGED viewVars
  /\ IF bound = None THEN UNCHANGED <<holdVars, shellVars>>
     ELSE Submit(bound, scene)

-----------------------------------------------------------------------------
(* Getting the buffers back *)

\* The shell is done with a layer and signals its fence.
FenceSignals(v, key) ==
  /\ \/ \E r \in reading[v] : r.key = key
     \/ [view |-> v, key |-> key, ready |-> FALSE] \in sources
  /\ reading' = [reading EXCEPT ![v] = {r \in @ : r.key # key}]
  /\ LET waiting == {s \in sources : s.view = v /\ s.key = key}
     IN sources' = (sources \ waiting) \cup
                     {[s EXCEPT !.ready = TRUE] : s \in waiting}
  /\ UNCHANGED <<viewVars, seq, cleared, nextKey, fenced, unfenced, linked, onScreen,
                 reports, attached>>

\* A readable fence's source runs, once.
Signalled(s) ==
  /\ s.ready
  /\ sources' = sources \ {s}
  /\ fenced' = [fenced EXCEPT ![s.view] = {f \in @ : f.key # s.key}]
  /\ UNCHANGED <<viewVars, seq, cleared, nextKey, unfenced, shellVars, attached>>

\* The shell shows frame s, whichever of the later ones it gets to, has then
\* stopped reading the earlier ones, and reports it.
Shows(v, s) ==
  /\ v \in linked /\ s \in onScreen[v] + 1 .. seq[v] /\ Len(reports[v]) < MaxReports
  /\ onScreen' = [onScreen EXCEPT ![v] = s]
  /\ reading' = [reading EXCEPT ![v] = {r \in @ : r.key # 0 \/ r.seq >= s}]
  /\ reports' = [reports EXCEPT ![v] = Append(@, s)]
  /\ UNCHANGED <<linked, serverVars, attached>>

\* Holds::presented.
Presented(v) ==
  /\ reports[v] # <<>>
  /\ reports' = [reports EXCEPT ![v] = Tail(@)]
  /\ unfenced' = [unfenced EXCEPT ![v] =
       [b \in Buffers |-> IF @[b] >= Head(reports[v]) THEN @[b] ELSE 0]]
  /\ UNCHANGED <<viewVars, seq, cleared, nextKey, fenced, sources, linked, reading,
                 onScreen, attached>>

-----------------------------------------------------------------------------
(* Views *)

\* Holds::clear.
Unheld(v) ==
  /\ fenced' = [fenced EXCEPT ![v] = {}]
  /\ sources' = {s \in sources : s.view # v}
  /\ unfenced' = [unfenced EXCEPT ![v] = [b \in Buffers |-> 0]]

Bind(v) ==
  /\ bound = None /\ v \in live
  /\ bound' = v
  /\ Submit(v, attached)
  /\ UNCHANGED <<live, attached>>

\* unbind_view: the shell may still be reading what is handed back.
Unbind(v) ==
  /\ bound = v /\ bound' = None
  /\ Cleared(v)
  /\ Unheld(v)
  /\ reading' = [reading EXCEPT ![v] = 
       {[r EXCEPT !.kept = IF @ = "held" THEN "unbound" ELSE @] : r \in @}]
  /\ UNCHANGED <<live, nextKey, linked, onScreen, reports, attached>>

\* ViewCreated: the entry, and the shell's side, start anew.
ViewCreated(v) ==
  /\ v \notin live \cup linked
  /\ live' = live \cup {v} /\ linked' = linked \cup {v}
  /\ UNCHANGED <<bound, holdVars, reading, onScreen, reports, attached>>

\* on_dispose, on the platform thread: the shell drops all it has of the view.
OnDispose(v) ==
  /\ v \in linked /\ linked' = linked \ {v}
  /\ reading' = [reading EXCEPT ![v] = {}]
  /\ onScreen' = [onScreen EXCEPT ![v] = 0]
  /\ UNCHANGED <<reports, serverVars, attached>>

\* ViewDisposed, which is queued behind the reports made before it.
ViewDisposed(v) ==
  /\ v \in live \ linked /\ reports[v] = <<>>
  /\ live' = live \ {v}
  /\ bound' = IF bound = v THEN None ELSE bound
  /\ Unheld(v)
  /\ seq' = [seq EXCEPT ![v] = 0] /\ cleared' = [cleared EXCEPT ![v] = FALSE]
  /\ nextKey' = [nextKey EXCEPT ![v] = 0]
  /\ UNCHANGED <<shellVars, attached>>

Init ==
  /\ live = {} /\ linked = {} /\ bound = None /\ sources = {}
  /\ attached = [l \in Layers |-> None]
  /\ seq = [v \in Views |-> 0] /\ onScreen = [v \in Views |-> 0]
  /\ nextKey = [v \in Views |-> 0] /\ cleared = [v \in Views |-> FALSE]
  /\ fenced = [v \in Views |-> {}] /\ unfenced = [v \in Views |-> [b \in Buffers |-> 0]]
  /\ reading = [v \in Views |-> {}] /\ reports = [v \in Views |-> <<>>]

Next ==
  \/ \E scene \in [Layers -> Buffers \cup {None}] : Commit(scene)
  \/ \E v \in Views :
       \/ ViewCreated(v) \/ OnDispose(v) \/ ViewDisposed(v)
       \/ Bind(v) \/ Unbind(v) \/ Presented(v)
       \/ \E s \in 1 .. MaxSeq : Shows(v, s)
       \/ \E k \in Keys : FenceSignals(v, k)
  \/ \E s \in sources : Signalled(s)

Spec == Init /\ [][Next]_vars

-----------------------------------------------------------------------------
(* Properties *)

\* A layer the shell may be reading is held, by its own fence or for its frame
\* or a later one, unless its fence could not be watched or its view was
\* unbound since: whatever the order of frames, reports, signals, bindings and
\* re-creations of views, hold_unfenced's cap included (submit.rs Holds).
HeldWhileRead ==
  \A v \in Views : \A r \in reading[v] :
    r.kept = "held" => IF r.key # 0 THEN [key |-> r.key, buf |-> r.buf] \in fenced[v]
                       ELSE unfenced[v][r.buf] >= r.seq

\* Nothing is held for nothing: each hold waits for a fence with a source that
\* is still to run, or for a later frame than the shell was last heard to show,
\* and only the view that shows the toplevel holds (submit.rs Holds).
HeldForAReason ==
  /\ \A v \in Views : \A f \in fenced[v] : \E s \in sources : s.view = v /\ s.key = f.key
  /\ \A v \in Views : reports[v] = <<>> =>
       \A b \in HeldPlain(unfenced[v]) : unfenced[v][b] >= onScreen[v]
  /\ \A v \in Views \ {bound} : fenced[v] = {} /\ HeldPlain(unfenced[v]) = {}

\* A buffer is with the server while a surface has it attached or a view holds
\* it; else its last clone was dropped and the client was sent its release.
WithServer(b) ==
  \/ \E l \in Layers : attached[l] = b
  \/ \E v \in Views : unfenced[v][b] # 0 \/ \E f \in fenced[v] : f.buf = b

\* "Holds a clone of every buffer until the shell is done with it"
\* (submit.rs:7): no buffer the shell may be reading is released, but for a
\* fence nothing watches.  unbind_view does, while the view's last frames are
\* on screen.
HeldUntilDone ==
  \A v \in Views : \A r \in reading[v] : r.kept # "unwatched" => WithServer(r.buf)
=============================================================================
