------------------------------- MODULE Staging -------------------------------
(***************************************************************************)
(* What a surface is shown by: the client's own buffers and the slots      *)
(* shared memory is copied into (staging.rs), the ids the shell knows them *)
(* by (buffers.rs), the EGL buffers (egl_display.rs), and what the shell   *)
(* keeps imported and reads (submit.rs).                                   *)
(*                                                                         *)
(* One surface, a toplevel's, and the views that may show it, one at a     *)
(* time; the rings of surfaces share nothing but the counter of uids.      *)
(* What a view holds, and why a hold outlasts the reading, is module       *)
(* Holds's business: here a hold ends some time after it.                  *)
(***************************************************************************)
EXTENDS Naturals, FiniteSets

CONSTANTS
  Views,      \* the views' ids
  Bufs,       \* the client's dma-bufs and EGL buffers, each for one wl_buffer's life
  EglBufs,    \* those of them the EGL implementation made
  SizeOf,     \* their sizes
  Shm,        \* a shared-memory or single-pixel buffer, whichever
  Sizes,      \* the sizes and formats of buffers
  Cells,      \* the parts of a surface that change by themselves
  None,       \* no buffer, no view
  MaxSlots,   \* staging.rs MAX_SLOTS
  MaxAge,     \* how many commits back smithay knows the damage
  MaxCommits, \* bound on the surface's commits
  MaxUid,     \* bound on the slots ever allocated
  MaxId       \* bound on buffer ids

Uids == 1 .. MaxUid
Keys == Bufs \cup Uids  \* BufferKey

ASSUME BufsAssumption ==
  /\ EglBufs \subseteq Bufs /\ SizeOf \in [Bufs -> Sizes]
  /\ Bufs \cap Uids = {} /\ Shm \notin Bufs
  /\ None \notin Views \cup Sizes \cup Keys \cup [buf : Bufs \cup {Shm}, size : Sizes]
ASSUME BoundsAssumption == {MaxSlots, MaxAge, MaxCommits, MaxUid, MaxId} \subseteq Nat

VARIABLES
  surface,   \* RendererSurfaceState: the buffer attached, current_commit, and
             \* the commit that last changed each cell the client drew
  destroyed, \* the client's buffers it has destroyed
  ring,      \* the surface's Ring: size, slots and newest slot (0 for none)
  mem,       \* each slot's Slot.commit (0 for None), and its memory
  lastUid,   \* Stager.next_uid
  eglCache,  \* EglBuffers.cache
  ids,       \* BufferIds.by_buffer
  lastId,    \* BufferIds.last
  revived,   \* history: the buffers given an id after they were destroyed
  live,      \* State.views
  linked,    \* the views of which the shell has not been through dispose
  bound,     \* the view that shows the surface
  held,      \* the slots each view holds for the shell
  reading,   \* the slots the shell may read of each view's frames, among those
             \* held for it, with what was in them when they were submitted
  imports    \* the imports the shell caches for each view, by buffer id

ringVars == <<ring, mem, lastUid>>
idVars == <<eglCache, ids, lastId, revived>>
viewVars == <<live, linked, bound>>
shellVars == <<held, reading, imports>>
vars == <<surface, destroyed, ringVars, idVars, viewVars, shellVars>>

Attachment == [buf : Bufs \cup {Shm}, size : Sizes]
Pixels == [Cells -> 0 .. MaxCommits]
NewSurface == [attached |-> None, commit |-> 0, pixels |-> [x \in Cells |-> 0]]
NoRing == [size |-> None, slots |-> {}, newest |-> 0]
EmptySlot == [commit |-> 0, pixels |-> [x \in Cells |-> 0]]

TypeOK ==
  /\ surface \in [attached : Attachment \cup {None}, commit : 0 .. MaxCommits, pixels : Pixels]
  /\ destroyed \subseteq Bufs /\ eglCache \subseteq EglBufs /\ revived \subseteq Bufs
  /\ ring \in [size : Sizes \cup {None}, slots : SUBSET Uids, newest : Uids \cup {0}]
  /\ ring.newest \in ring.slots \cup {0} /\ Cardinality(ring.slots) <= MaxSlots
  /\ mem \in [Uids -> [commit : 0 .. MaxCommits, pixels : Pixels]]
  /\ lastUid \in 0 .. MaxUid /\ lastId \in 0 .. MaxId
  /\ ids \subseteq [key : Keys, id : 1 .. MaxId, views : SUBSET Views]
  /\ live \subseteq Views /\ linked \subseteq Views /\ bound \in live \cup {None}
  /\ held \in [Views -> SUBSET Uids]
  /\ reading \in [Views -> SUBSET [slot : Uids, pixels : Pixels]]
  /\ imports \in [Views -> SUBSET [id : 1 .. MaxId, key : Keys]]

-----------------------------------------------------------------------------
(* Staging surface s: stage, allocate, copy_damage *)

\* mutant: the damage is counted from the slot filled last
DamageSinceNewest(s, u) ==
  {x \in Cells : ring.newest = 0 \/ s.pixels[x] > mem[ring.newest].commit}

\* damage_since(slot.commit): all of a slot never filled, or filled too long ago.
DamageSince(s, u) ==
  IF mem[u].commit = 0 \/ s.commit > mem[u].commit + MaxAge THEN Cells
  ELSE {x \in Cells : s.pixels[x] > mem[u].commit}

\* The ring for the buffer's size and format: another one starts anew.
CurrentRing(s) ==
  IF ring.size = s.attached.size THEN ring ELSE [NoRing EXCEPT !.size = s.attached.size]

\* mutant: a slot is free once another is the newest
FreeUnlessNewest(s) == CurrentRing(s).slots \ {ring.newest}

\* The slots nothing but the ring has the hold of.
Free(s) == {u \in CurrentRing(s).slots : \A v \in Views : u \notin held[v]}

\* A staging that shows slot u (None: nothing) and leaves ring r, memory m.
Staged(u, r, m, last) == [key |-> u, ring |-> r, mem |-> m, lastUid |-> last]

Filled(s, u) ==
  [mem EXCEPT ![u] = [commit |-> s.commit, pixels |->
     [x \in Cells |-> IF x \in DamageSince(s, u) THEN s.pixels[x] ELSE mem[u].pixels[x]]]]

\* The copy into slot u of ring r, which may fail before it writes anything.
Copy(s, u, r, last) ==
  {Staged(u, [r EXCEPT !.newest = u], Filled(s, u), last), Staged(None, r, mem, last)}

\* A new slot, if it can be had, and the copy into it.
Allocate(s, u, r) ==
  IF u \notin Uids THEN {}
  ELSE {Staged(None, r, mem, u)} \cup Copy(s, u, [r EXCEPT !.slots = @ \cup {u}], u)

\* The ring has room for another slot.
MayGrow(r) == Cardinality(r.slots) < MaxSlots

\* What stage may come to: the newest slot if nothing changed; the first free
\* one, filled; a new one; with every slot busy, the newest as it is.
Stage(s) ==
  LET r == CurrentRing(s)
      newest == IF r.newest = 0 THEN None ELSE r.newest
  IN IF newest # None /\ mem[r.newest].commit = s.commit
     THEN {Staged(newest, r, mem, lastUid)}
     ELSE IF Free(s) # {}
     THEN Copy(s, CHOOSE u \in Free(s) : \A w \in Free(s) : u <= w, r, lastUid)
     ELSE IF MayGrow(r) THEN Allocate(s, lastUid + 1, r)
     ELSE {Staged(newest, r, mem, lastUid)}

\* What build_tree may show the surface by: a client's buffer as it is, a
\* slot, or nothing: no buffer, or an EGL one that cannot be imported.
Content(s) ==
  LET as(key) == Staged(key, ring, mem, lastUid)
      buf == s.attached.buf
  IN IF s.attached = None THEN {as(None)}
     ELSE IF buf = Shm THEN Stage(s)
     ELSE {as(k) : k \in IF buf \notin EglBufs \/ buf \in eglCache THEN {buf}
                         ELSE IF buf \in destroyed THEN {None} ELSE {buf, None}}

-----------------------------------------------------------------------------
(* Ids and imports: BufferIds, EglBuffers::reap, retire_key *)

\* mutant: only the view that shows the buffer now drops its import
RetiredHere(v, gone) == IF v = bound THEN {e.id : e \in {f \in ids : f.key \in gone}} ELSE {}

\* The ids view v's shell is told to drop, the buffers gone being so.
Retired(v, gone) ==
  {e.id : e \in {f \in ids : f.key \in gone /\ v \in f.views \cap live \cap linked}}

Unretired(gone) == {e \in ids : e.key \notin gone}

ImportsWithout(gone) == [v \in Views |-> {i \in imports[v] : i.id \notin Retired(v, gone)}]

\* retire_key of each buffer gone.
Retire(gone) == ids' = Unretired(gone) /\ imports' = ImportsWithout(gone)

\* What a submission retires first: EGL buffers destroyed since the last one,
\* and the slots of a ring replaced.
Gone(c) == ((eglCache \cup {c.key}) \cap EglBufs \cap destroyed) \cup (ring.slots \ c.ring.slots)

\* id_for: the ids known, key's noted for view v.
IdFor(known, key, v) ==
  IF \E e \in known : e.key = key
  THEN {IF e.key = key THEN [e EXCEPT !.views = @ \cup {v}] ELSE e : e \in known}
  ELSE known \cup {[key |-> key, id |-> lastId + 1, views |-> {v}]}

-----------------------------------------------------------------------------
(* Submitting *)

\* The shell takes a frame of buffer key: it imports it if it does not know its
\* id, and reads it.  The view holds it, unless its fence cannot be watched.
Taken(v, key, cached, kept) ==
  /\ v \in linked
  /\ \E e \in ids' : e.key = key /\ imports' = [cached EXCEPT ![v] =
       IF \E i \in @ : i.id = e.id THEN @ ELSE @ \cup {[id |-> e.id, key |-> key]}]
  /\ IF key \notin Uids \/ ~kept THEN UNCHANGED <<held, reading>>
     ELSE /\ held' = [held EXCEPT ![v] = @ \cup {key}]
          /\ reading' = [reading EXCEPT ![v] = @ \cup
               {[slot |-> key, pixels |-> mem'[key].pixels]}]

\* A frame not handed over: an fd not dup'd, the view disposed, or refused.
Refused(cached) == imports' = cached /\ UNCHANGED <<held, reading>>

\* submit_tree of surface s to view v.
Submit(v, s) ==
  \E c \in Content(s) :
    LET known == Unretired(Gone(c))
        cached == ImportsWithout(Gone(c))
        new == c.key # None /\ \A e \in known : e.key # c.key
    IN /\ ring' = c.ring /\ mem' = c.mem /\ lastUid' = c.lastUid
       /\ eglCache' = (eglCache \cup ({c.key} \cap EglBufs)) \ destroyed
       /\ lastId' = IF new THEN lastId + 1 ELSE lastId
       /\ lastId' <= MaxId
       /\ revived' = IF new THEN revived \cup ({c.key} \cap destroyed) ELSE revived
       /\ IF c.key = None THEN ids' = known /\ Refused(cached)
          ELSE /\ ids' = IdFor(known, c.key, v)
               /\ Refused(cached) \/ \E kept \in BOOLEAN : Taken(v, c.key, cached, kept)

-----------------------------------------------------------------------------
(* The client *)

\* What the surface is with att attached and cells damaged: all of it anew if
\* its size changed; a commit without damage counts for none.
Committed(att, damage) ==
  LET fresh == surface.attached = None \/ att = None \/ att.size # surface.attached.size
      changed == IF att # None /\ fresh THEN Cells ELSE damage
  IN IF changed = {} THEN [surface EXCEPT !.attached = att]
     ELSE [attached |-> att, commit |-> surface.commit + 1, pixels |->
             [x \in Cells |-> IF x \in changed THEN surface.commit + 1 ELSE surface.pixels[x]]]

\* A commit of the surface, with a new buffer, the one it has, or none.
Commit(att, damage) ==
  /\ att = None => damage = {}
  /\ att \notin {None, surface.attached} => att.buf \notin destroyed
  /\ surface' = Committed(att, damage) /\ surface'.commit <= MaxCommits
  /\ UNCHANGED <<destroyed, viewVars>>
  /\ IF bound = None THEN UNCHANGED <<ringVars, idVars, shellVars>>
     ELSE Submit(bound, Committed(att, damage))

\* buffer_destroyed; the EGL implementation's buffers only go unnoticed.
Destroy(b) ==
  /\ b \notin destroyed /\ destroyed' = destroyed \cup {b}
  /\ IF b \in EglBufs THEN UNCHANGED <<ids, imports>> ELSE Retire({b})
  /\ UNCHANGED <<surface, ringVars, eglCache, lastId, revived, viewVars, held, reading>>

\* The destruction hook of new_surface, the toplevel being gone and none of its
\* slots held; the next surface is another one.
SurfaceDestroyed ==
  /\ bound = None
  /\ surface' = NewSurface /\ ring' = NoRing
  /\ mem' = [u \in Uids |-> EmptySlot]
  /\ Retire(ring.slots)
  /\ UNCHANGED <<destroyed, lastUid, eglCache, lastId, revived, viewVars, held, reading>>

-----------------------------------------------------------------------------
(* The views and the shell *)

Bind(v) ==
  /\ bound = None /\ v \in live /\ bound' = v
  /\ Submit(v, surface)
  /\ UNCHANGED <<surface, destroyed, live, linked>>

\* Holds::clear of view v: what the shell still reads is no longer held for it.
Unheld(v) == held' = [held EXCEPT ![v] = {}] /\ reading' = [reading EXCEPT ![v] = {}]

\* unbind_view.
Unbind(v) ==
  /\ bound = v /\ bound' = None
  /\ Unheld(v)
  /\ UNCHANGED <<surface, destroyed, ringVars, idVars, live, linked, imports>>

ViewCreated(v) ==
  /\ v \notin live \cup linked
  /\ live' = live \cup {v} /\ linked' = linked \cup {v}
  /\ UNCHANGED <<surface, destroyed, ringVars, idVars, bound, shellVars>>

\* on_dispose, on the platform thread: the shell drops all it has of the view.
OnDispose(v) ==
  /\ v \in linked /\ linked' = linked \ {v}
  /\ imports' = [imports EXCEPT ![v] = {}] /\ reading' = [reading EXCEPT ![v] = {}]
  /\ UNCHANGED <<surface, destroyed, ringVars, idVars, live, bound, held>>

\* forget_view.
ForgetView(v) == {[e EXCEPT !.views = @ \ {v}] : e \in ids}

ViewDisposed(v) ==
  /\ v \in live \ linked /\ live' = live \ {v}
  /\ bound' = IF bound = v THEN None ELSE bound
  /\ Unheld(v)
  /\ ids' = ForgetView(v)
  /\ UNCHANGED <<surface, destroyed, ringVars, eglCache, lastId, revived, linked, imports>>

\* The shell is done with a slot it read.
Done(v) ==
  /\ \E r \in reading[v] : reading' = [reading EXCEPT ![v] = @ \ {r}]
  /\ UNCHANGED <<surface, destroyed, ringVars, idVars, viewVars, held, imports>>

\* The view hears of it, and lets the slot go.
LetGo(v, u) ==
  /\ u \in held[v] /\ \A r \in reading[v] : r.slot # u
  /\ held' = [held EXCEPT ![v] = @ \ {u}]
  /\ UNCHANGED <<surface, destroyed, ringVars, idVars, viewVars, reading, imports>>

Init ==
  /\ surface = NewSurface /\ destroyed = {} /\ ring = NoRing
  /\ mem = [u \in Uids |-> EmptySlot] /\ lastUid = 0
  /\ eglCache = {} /\ ids = {} /\ lastId = 0 /\ revived = {}
  /\ live = {} /\ linked = {} /\ bound = None
  /\ held = [v \in Views |-> {}] /\ reading = [v \in Views |-> {}]
  /\ imports = [v \in Views |-> {}]

Attachable == {[buf |-> Shm, size |-> z] : z \in Sizes} \cup
              {[buf |-> b, size |-> SizeOf[b]] : b \in Bufs} \cup {None}

Next ==
  \/ \E att \in Attachable, damage \in SUBSET Cells : Commit(att, damage)
  \/ \E b \in Bufs : Destroy(b)
  \/ SurfaceDestroyed
  \/ \E v \in Views :
       \/ Bind(v) \/ Unbind(v) \/ ViewCreated(v) \/ OnDispose(v) \/ ViewDisposed(v)
       \/ Done(v) \/ \E u \in Uids : LetGo(v, u)

Spec == Init /\ [][Next]_vars

-----------------------------------------------------------------------------
(* Properties *)

\* A slot filled at the surface's present commit has exactly what the client
\* drew: whatever was missed while the slot was busy, the surface unbound,
\* resized or shown by other buffers, and copies that failed (staging.rs:267).
CopiesAreExact ==
  \A u \in ring.slots : mem[u].commit = surface.commit /\ surface.commit # 0 =>
    mem[u].pixels = surface.pixels

\* What the shell was handed stays as it was while it may read it: no copy goes
\* into a slot that any view holds, or that a ring dropped (staging.rs:264).
\* Slots whose fence nothing watches, and those unbind_view lets go, are not held.
ReadsStayWhole ==
  \A v \in Views : \A r \in reading[v] : mem[r.slot].pixels = r.pixels

\* Whatever the client may still show the surface by: the slots of its ring, its
\* buffers, and EGL buffers until the next submission notices that they went.
Buffers == ring.slots \cup (Bufs \ destroyed) \cup eglCache

\* The shell caches imports of buffers that are there, each under the id that
\* names that buffer, and each noted, so that the view will be told to drop it
\* (retire_key, forget_view, reap).  A buffer submitted after it was destroyed
\* is the exception: nothing retires the id it then gets (buffers.rs:45).
ImportsFollowBuffers ==
  \A v \in Views : \A i \in imports[v] :
    /\ \E e \in ids : e.id = i.id /\ e.key = i.key /\ (v \in live => v \in e.views)
    /\ i.key \in Buffers \cup revived
=============================================================================
