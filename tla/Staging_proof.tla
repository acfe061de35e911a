---------------------------- MODULE Staging_proof ----------------------------
(***************************************************************************)
(* Theorems about Staging, for any views, buffers, cells and bounds.       *)
(*                                                                         *)
(* A copy is exact because a slot that was filled at commit c has what the *)
(* client drew of every cell that has not changed since c; a read stays    *)
(* whole because a slot that is read is held, and one that is held is not  *)
(* free; imports follow the buffers because every id names a buffer that   *)
(* is there, or was submitted after it went, and the views noted with it   *)
(* are at least those that import it.                                      *)
(***************************************************************************)
EXTENDS Staging, FiniteSetTheorems, WellFoundedInduction, TLAPS

Surfaces == [attached : Attachment \cup {None}, commit : 0 .. MaxCommits, pixels : Pixels]
Rings == [size : Sizes \cup {None}, slots : SUBSET Uids, newest : Uids \cup {0}]
Memories == [Uids -> [commit : 0 .. MaxCommits, pixels : Pixels]]
Sound(r) == r \in Rings /\ r.newest \in r.slots \cup {0} /\ Cardinality(r.slots) <= MaxSlots

\* No cell changed after the last commit of surface s.
NotYet(s) == \A x \in Cells : s.pixels[x] <= s.commit

\* Slots, of memories m, have all that surface s did not change since they were
\* filled.
UpToDate(s, slots, m) ==
  \A u \in slots :
    /\ m[u].commit <= s.commit
    /\ m[u].commit # 0 => \A x \in Cells : s.pixels[x] <= m[u].commit => m[u].pixels[x] = s.pixels[x]

\* Slots up to last were allocated, and no other was ever filled.
Allocated(last, slots, m) ==
  /\ \A u \in slots : u <= last
  /\ \A u \in Uids : u > last => m[u].commit = 0

\* Only the view that shows the surface holds slots, and those it reads.
HoldsInv ==
  /\ linked \subseteq live
  /\ \A v \in Views : /\ v # bound => held[v] = {}
                      /\ \A u \in held[v] : u <= lastUid
                      /\ \A r \in reading[v] : r.slot \in held[v]

\* What an id may name: what is there, as far as the server has noticed.
Noticed == ring.slots \cup ((Bufs \ EglBufs) \ destroyed) \cup eglCache

\* An id names one buffer, which is there or was submitted after it went.
IdsInv ==
  /\ \A e \in ids : e.id <= lastId /\ e.key \in Noticed \cup revived
  /\ \A e, f \in ids : e.key = f.key \/ e.id = f.id => e = f

\* An import is of a buffer by its id, noted for the view, and of a view the
\* shell still has.
ImportsInv ==
  \A v \in Views : \A i \in imports[v] :
    v \in linked /\ \E e \in ids : e.id = i.id /\ e.key = i.key /\ v \in e.views

Inv ==
  /\ TypeOK
  /\ NotYet(surface) /\ UpToDate(surface, ring.slots, mem)
  /\ Allocated(lastUid, ring.slots, mem)
  /\ HoldsInv /\ ReadsStayWhole
  /\ IdsInv /\ ImportsInv

LEMMA InvImplies == Inv => CopiesAreExact /\ ImportsFollowBuffers
<1> SUFFICES ASSUME Inv PROVE CopiesAreExact /\ ImportsFollowBuffers
  OBVIOUS
<1>1. CopiesAreExact
  <2> SUFFICES ASSUME NEW u \in ring.slots, mem[u].commit = surface.commit, surface.commit # 0
               PROVE  mem[u].pixels = surface.pixels
    BY DEF CopiesAreExact
  <2>1. mem[u].pixels \in Pixels /\ surface.pixels \in Pixels
    BY DEF Inv, TypeOK
  <2>2. \A x \in Cells : mem[u].pixels[x] = surface.pixels[x]
    BY DEF Inv, NotYet, UpToDate
  <2> QED BY <2>1, <2>2 DEF Pixels
<1>2. ImportsFollowBuffers
  BY DEF Inv, IdsInv, ImportsInv, ImportsFollowBuffers, Noticed, Buffers
<1> QED BY <1>1, <1>2

-----------------------------------------------------------------------------
(* Staging *)

\* What a staging of surface s may come to.
Outcome(s, c) ==
  /\ Sound(c.ring) /\ c.mem \in Memories /\ c.lastUid \in lastUid .. MaxUid
  /\ c.key \in Keys \cup {None} /\ (c.key \in Uids => c.key \in c.ring.slots)
  /\ \A u \in c.ring.slots : u \in ring.slots \/ u > lastUid
  /\ Allocated(c.lastUid, c.ring.slots, c.mem)
  /\ \/ c.mem = mem
     \/ \E u \in c.ring.slots : c.mem = Filled(s, u) /\ \A v \in Views : u \notin held[v]

LEMMA FilledType ==
  ASSUME TypeOK, NEW s \in Surfaces, NEW u \in Uids
  PROVE  Filled(s, u) \in Memories
BY DEF TypeOK, Surfaces, Memories, Filled, Pixels

LEMMA CopyOutcome ==
  ASSUME Inv, NEW s \in Surfaces, NEW r, Sound(r), NEW last \in lastUid .. MaxUid,
         \A w \in r.slots : w \in ring.slots \/ w > lastUid,
         \A w \in r.slots : w <= last,
         NEW u \in r.slots, \A v \in Views : u \notin held[v],
         NEW c \in Copy(s, u, r, last)
  PROVE  Outcome(s, c)
<1>1. u \in Uids /\ last \in Nat /\ last <= MaxUid /\ lastUid <= last /\ lastUid \in Nat
  BY BoundsAssumption DEF Inv, TypeOK, Sound, Rings, Uids
<1>2. CASE c = Staged(None, r, mem, last)
  <2>1. Allocated(last, r.slots, mem) /\ mem \in Memories /\ None \notin Uids
    BY <1>1, BufsAssumption DEF Inv, TypeOK, Memories, Allocated, Uids, Keys
  <2> QED BY <1>1, <1>2, <2>1 DEF Outcome, Staged
<1>3. CASE c = Staged(u, [r EXCEPT !.newest = u], Filled(s, u), last)
  <2> DEFINE q == [r EXCEPT !.newest = u]
  <2>1. Sound(q) /\ q.slots = r.slots
    BY <1>1 DEF Sound, Rings
  <2>2. Filled(s, u) \in Memories
    BY <1>1, FilledType DEF Inv
  <2>3. Allocated(last, r.slots, Filled(s, u))
    BY <1>1 DEF Allocated, Filled, Inv, TypeOK, Uids
  <2> QED BY <1>1, <1>3, <2>1, <2>2, <2>3 DEF Outcome, Staged, Keys
<1> QED BY <1>2, <1>3 DEF Copy

LEMMA StageOutcome ==
  ASSUME Inv, NEW s \in Surfaces, s.attached # None, NEW c \in Stage(s)
  PROVE  Outcome(s, c)
<1> DEFINE r == CurrentRing(s)
           newest == IF r.newest = 0 THEN None ELSE r.newest
<1>1. lastUid \in Nat /\ MaxUid \in Nat /\ lastUid <= MaxUid /\ MaxSlots \in Nat
  BY BoundsAssumption DEF Inv, TypeOK
<1>2. Sound(r) /\ r.slots \subseteq ring.slots
  <2>1. s.attached.size \in Sizes
    BY DEF Surfaces, Attachment
  <2>2. CASE ring.size = s.attached.size
    BY <2>2 DEF CurrentRing, Sound, Inv, TypeOK, Rings
  <2>3. CASE ring.size # s.attached.size
    BY <2>1, <2>3, <1>1, FS_EmptySet DEF CurrentRing, Sound, Rings, NoRing
  <2> QED BY <2>2, <2>3
<1>3. \A u \in r.slots : u <= lastUid /\ u \in Uids
  BY <1>2 DEF Inv, Allocated, Sound, Rings
<1>4. newest \in r.slots \cup {None} /\ newest \in Keys \cup {None}
  BY <1>2, <1>3 DEF Sound, Keys
<1>5. Outcome(s, Staged(newest, r, mem, lastUid))
  <2>1. Allocated(lastUid, r.slots, mem) /\ mem \in Memories /\ lastUid \in lastUid .. MaxUid
    BY <1>1, <1>2 DEF Inv, Allocated, TypeOK, Memories
  <2>2. newest \in Uids => newest \in r.slots
    BY <1>4, BufsAssumption DEF Keys
  <2> QED BY <1>2, <1>4, <2>1, <2>2 DEF Outcome, Staged
<1>6. ASSUME Free(s) # {}, c \in Copy(s, CHOOSE u \in Free(s) : \A w \in Free(s) : u <= w, r, lastUid)
      PROVE  Outcome(s, c)
  <2> DEFINE u == CHOOSE u \in Free(s) : \A w \in Free(s) : u <= w
  <2>1. Free(s) \subseteq Nat
    BY <1>3 DEF Free, Uids
  <2>2. \E n \in Free(s) : \A w \in Free(s) : n <= w
    <3>1. PICK n \in Free(s) : \A w \in Free(s) : ~(<<w, n>> \in OpToRel(<, Nat))
      BY <1>6, <2>1, NatLessThanWellFounded, WFMin
    <3>2. \A w \in Free(s) : ~(w < n)
      BY <2>1, <3>1 DEF OpToRel
    <3> QED BY <2>1, <3>2
  <2>3. u \in Free(s)
    BY <2>2
  <2>4. u \in r.slots /\ \A v \in Views : u \notin held[v]
    BY <2>3 DEF Free
  <2> HIDE DEF u, r
  <2> QED BY <1>1, <1>2, <1>3, <1>6, <2>4, CopyOutcome DEF u
<1>7. ASSUME MayGrow(r), c \in Allocate(s, lastUid + 1, r)
      PROVE  Outcome(s, c)
  <2> DEFINE u == lastUid + 1
             q == [r EXCEPT !.slots = @ \cup {u}]
  <2>1. u \in Uids /\ u \in lastUid .. MaxUid /\ u > lastUid
    BY <1>1, <1>7 DEF Allocate, Uids
  <2>2. CASE c = Staged(None, r, mem, u)
    <3>1. Allocated(u, r.slots, mem)
      <4>1. \A w \in r.slots : w <= u
        BY <1>1, <1>3 DEF Uids
      <4>2. \A w \in Uids : w > u => w > lastUid
        BY <1>1 DEF Uids
      <4> QED BY <4>1, <4>2 DEF Inv, Allocated
    <3>2. mem \in Memories /\ None \notin Uids
      BY BufsAssumption DEF Inv, TypeOK, Memories, Keys
    <3> HIDE DEF u, r
    <3> QED BY <1>2, <2>1, <2>2, <3>1, <3>2 DEF Outcome, Staged
  <2>3. CASE c \in Copy(s, u, q, u)
    <3>1. IsFiniteSet(r.slots)
      <4>1. IsFiniteSet(Uids)
        BY <1>1, FS_Interval DEF Uids
      <4> QED BY <4>1, <1>3, FS_Subset
    <3>2. u \notin r.slots
      BY <1>1, <1>3
    <3>3. Cardinality(r.slots \cup {u}) = Cardinality(r.slots) + 1 /\ Cardinality(r.slots) \in Nat
      BY <3>1, <3>2, FS_AddElement, FS_CardinalityType
    <3>4. q \in Rings /\ q.slots = r.slots \cup {u} /\ q.newest = r.newest
      BY <1>2, <2>1 DEF Sound, Rings
    <3>5. Sound(q)
      BY <1>1, <1>2, <1>7, <3>3, <3>4 DEF Sound, MayGrow
    <3>6. \A w \in q.slots : (w \in ring.slots \/ w > lastUid) /\ w <= u
      BY <1>1, <1>2, <1>3, <3>4 DEF Uids
    <3>7. u \in q.slots /\ \A v \in Views : u \notin held[v]
      BY <1>1, <3>4 DEF Inv, HoldsInv
    <3> HIDE DEF u, q, r
    <3> QED BY <2>1, <2>3, <3>5, <3>6, <3>7, CopyOutcome
  <2> QED BY <1>7, <2>1, <2>2, <2>3 DEF Allocate
<1> QED BY <1>5, <1>6, <1>7 DEF Stage

LEMMA ContentOutcome ==
  ASSUME Inv, NEW s \in Surfaces, NEW c \in Content(s)
  PROVE  Outcome(s, c)
<1>1. lastUid \in lastUid .. MaxUid /\ mem \in Memories /\ Sound(ring) /\ None \notin Uids
  BY BoundsAssumption, BufsAssumption DEF Inv, TypeOK, Memories, Sound, Rings, Keys
<1>2. ASSUME NEW k \in Bufs \cup {None}, c = Staged(k, ring, mem, lastUid)
      PROVE  Outcome(s, c)
  BY <1>1, <1>2, BufsAssumption DEF Outcome, Staged, Keys, Inv
<1>3. CASE s.attached # None /\ s.attached.buf = Shm
  BY <1>3, StageOutcome DEF Content
<1>4. CASE s.attached = None \/ s.attached.buf # Shm
  BY <1>2, <1>4 DEF Content, Surfaces, Attachment
<1> QED BY <1>3, <1>4

-----------------------------------------------------------------------------
(* Submitting *)

\* What a staging leaves in the ring is up to date.
LEMMA OutcomeUpToDate ==
  ASSUME Inv, NEW s \in Surfaces, NotYet(s), UpToDate(s, ring.slots, mem),
         NEW c, Outcome(s, c)
  PROVE  UpToDate(s, c.ring.slots, c.mem)
<1> USE DEF Surfaces
<1>0. c.ring.slots \subseteq Uids /\ \A u \in Uids : mem[u].commit \in Nat
  BY DEF Outcome, Sound, Rings, Inv, TypeOK
<1>1. ASSUME NEW u \in c.ring.slots
      PROVE  /\ mem[u].commit <= s.commit
             /\ mem[u].commit # 0 => \A x \in Cells : s.pixels[x] <= mem[u].commit => mem[u].pixels[x] = s.pixels[x]
  <2>1. CASE u \in ring.slots
    BY <2>1 DEF UpToDate
  <2>2. CASE u > lastUid
    BY <1>0, <2>2 DEF Inv, Allocated
  <2> QED BY <2>1, <2>2 DEF Outcome
<1>2. CASE c.mem = mem
  BY <1>1, <1>2 DEF UpToDate
<1>3. ASSUME NEW u \in c.ring.slots, c.mem = Filled(s, u)
      PROVE  UpToDate(s, c.ring.slots, c.mem)
  <2>1. u \in Uids /\ \A w \in Uids : w # u => c.mem[w] = mem[w]
    BY <1>0, <1>3 DEF Filled, Inv, TypeOK
  <2>2. c.mem[u].commit = s.commit
    BY <1>3, <2>1 DEF Filled, Inv, TypeOK
  <2>3. ASSUME NEW x \in Cells
        PROVE  c.mem[u].pixels[x] = s.pixels[x]
    <3>1. c.mem[u].pixels[x] = IF x \in DamageSince(s, u) THEN s.pixels[x] ELSE mem[u].pixels[x]
      BY <1>3, <2>1 DEF Filled, Inv, TypeOK
    <3>2. ASSUME x \notin DamageSince(s, u) PROVE mem[u].pixels[x] = s.pixels[x]
      <4>1. mem[u].commit # 0 /\ ~(s.pixels[x] > mem[u].commit)
        BY <3>2 DEF DamageSince
      <4>2. s.pixels[x] \in Nat /\ mem[u].commit \in Nat
        BY <1>0, <2>1 DEF Pixels
      <4> QED BY <1>1, <4>1, <4>2
    <3> QED BY <3>1, <3>2
  <2>4. ASSUME NEW w \in c.ring.slots
        PROVE  /\ c.mem[w].commit <= s.commit
               /\ c.mem[w].commit # 0 =>
                    \A x \in Cells : s.pixels[x] <= c.mem[w].commit => c.mem[w].pixels[x] = s.pixels[x]
    <3>1. CASE w = u
      BY <2>2, <2>3, <3>1
    <3>2. CASE w # u
      BY <1>0, <1>1, <2>1, <3>2
    <3> QED BY <3>1, <3>2
  <2> QED BY <2>4 DEF UpToDate
<1> QED BY <1>2, <1>3 DEF Outcome

\* The ids left when the buffers gone are retired name buffers that are not
\* gone, and the imports left are of those.
LEMMA RetireKeeps ==
  ASSUME Inv, NEW gone
  PROVE  /\ Unretired(gone) \subseteq ids /\ \A e \in Unretired(gone) : e.key \notin gone
         /\ ImportsWithout(gone) \in [Views -> SUBSET [id : 1 .. MaxId, key : Keys]]
         /\ \A v \in Views : \A i \in ImportsWithout(gone)[v] :
              /\ i \in imports[v] /\ v \in linked
              /\ \E e \in Unretired(gone) : e.id = i.id /\ e.key = i.key /\ v \in e.views
<1>1. Unretired(gone) \subseteq ids /\ \A e \in Unretired(gone) : e.key \notin gone
  BY DEF Unretired
<1>2. ImportsWithout(gone) \in [Views -> SUBSET [id : 1 .. MaxId, key : Keys]]
  BY DEF ImportsWithout, Inv, TypeOK
<1>3. ASSUME NEW v \in Views, NEW i \in ImportsWithout(gone)[v]
      PROVE  /\ i \in imports[v] /\ v \in linked
             /\ \E e \in Unretired(gone) : e.id = i.id /\ e.key = i.key /\ v \in e.views
  <2>1. i \in imports[v] /\ i.id \notin Retired(v, gone)
    BY <1>3 DEF ImportsWithout
  <2>2. v \in linked /\ v \in live
    BY <2>1 DEF Inv, ImportsInv, HoldsInv
  <2>3. PICK e \in ids : e.id = i.id /\ e.key = i.key /\ v \in e.views
    BY <2>1 DEF Inv, ImportsInv
  <2>4. e.key \notin gone
    BY <2>1, <2>2, <2>3 DEF Retired
  <2> QED BY <2>1, <2>2, <2>3, <2>4 DEF Unretired
<1> QED BY <1>1, <1>2, <1>3

LEMMA SubmitInv ==
  ASSUME Inv, NEW v \in live, NEW s \in Surfaces, NotYet(s), UpToDate(s, ring.slots, mem),
         bound \in {None, v}, bound' = v, surface' = s, UNCHANGED <<destroyed, live, linked>>,
         Submit(v, s)
  PROVE  Inv'
<1>1. PICK c \in Content(s) :
    LET known == Unretired(Gone(c))
        cached == ImportsWithout(Gone(c))
        new == c.key # None /\ \A e \in known : e.key # c.key
    IN /\ ring' = c.ring /\ mem' = c.mem /\ lastUid' = c.lastUid
       /\ eglCache' = (eglCache \cup ({c.key} \cap EglBufs)) \ destroyed
       /\ lastId' = IF new THEN lastId + 1 ELSE lastId
       /\ lastId' <= MaxId
       /\ revived' = IF new THEN revived \cup ({c.key} \cap destroyed) ELSE revived
       /\ IF c.key = None THEN ids' = known /\ Refused(cached)
          ELSE /\ ids' = IdFor(known, c.key, v)
               /\ Refused(cached) \/ \E kept \in BOOLEAN : Taken(v, c.key, cached, kept)
  BY DEF Submit
<1> DEFINE known == Unretired(Gone(c))
           cached == ImportsWithout(Gone(c))
           new == c.key # None /\ \A e \in known : e.key # c.key
<1>2. Outcome(s, c)
  BY <1>1, ContentOutcome
<1>3. v \in Views /\ v # None
  BY BufsAssumption DEF Inv, TypeOK
<1>4. NotYet(surface)' /\ UpToDate(surface, ring.slots, mem)' /\ Allocated(lastUid, ring.slots, mem)'
  BY <1>1, <1>2, OutcomeUpToDate DEF NotYet, UpToDate, Allocated, Outcome
<1>5. /\ mem \in Memories /\ mem' \in Memories
      /\ lastUid \in Nat /\ lastUid' \in 0 .. MaxUid /\ lastUid <= lastUid'
      /\ ring'.slots \subseteq Uids /\ \A u \in ring'.slots : u <= lastUid'
  BY <1>1, <1>2, BoundsAssumption DEF Outcome, Sound, Rings, Allocated, Inv, TypeOK, Memories
<1>6. \A w \in Views : \A u \in held[w] : mem'[u] = mem[u]
  BY <1>1, <1>2 DEF Outcome, Filled, Inv, TypeOK
<1>7. \/ UNCHANGED <<held, reading>>
      \/ /\ c.key \in ring'.slots
         /\ held' = [held EXCEPT ![v] = @ \cup {c.key}]
         /\ reading' = [reading EXCEPT ![v] = @ \cup {[slot |-> c.key, pixels |-> mem'[c.key].pixels]}]
  BY <1>1, <1>2 DEF Refused, Taken, Outcome
<1>8. HoldsInv' /\ ReadsStayWhole' /\ held' \in [Views -> SUBSET Uids]
      /\ reading' \in [Views -> SUBSET [slot : Uids, pixels : Pixels]]
  <2>1. \A w \in Views : w # v => held[w] = {}
    BY <1>3, BufsAssumption DEF Inv, HoldsInv
  <2>2. \A w \in Views : \A r \in reading[w] : r.slot \in held[w] /\ mem'[r.slot].pixels = r.pixels
    BY <1>6 DEF Inv, HoldsInv, ReadsStayWhole
  <2>3. \A w \in Views : \A u \in held[w] : u <= lastUid'
    BY <1>5 DEF Inv, HoldsInv, TypeOK, Uids
  <2>4. held \in [Views -> SUBSET Uids] /\ linked \subseteq live
        /\ reading \in [Views -> SUBSET [slot : Uids, pixels : Pixels]]
    BY DEF Inv, TypeOK, HoldsInv
  <2>5. CASE UNCHANGED <<held, reading>>
    BY <2>1, <2>2, <2>3, <2>4, <2>5 DEF HoldsInv, ReadsStayWhole
  <2>6. ASSUME c.key \in ring'.slots, held' = [held EXCEPT ![v] = @ \cup {c.key}],
               reading' = [reading EXCEPT ![v] = @ \cup {[slot |-> c.key, pixels |-> mem'[c.key].pixels]}]
        PROVE  HoldsInv' /\ ReadsStayWhole' /\ held' \in [Views -> SUBSET Uids]
               /\ reading' \in [Views -> SUBSET [slot : Uids, pixels : Pixels]]
    <3>1. c.key \in Uids /\ c.key <= lastUid' /\ mem'[c.key].pixels \in Pixels
      BY <1>5, <2>6 DEF Memories
    <3>2. held'[v] = held[v] \cup {c.key} /\ \A w \in Views : w # v => held'[w] = held[w]
      BY <1>3, <2>4, <2>6
    <3>3. reading'[v] = reading[v] \cup {[slot |-> c.key, pixels |-> mem'[c.key].pixels]}
          /\ \A w \in Views : w # v => reading'[w] = reading[w]
      BY <1>3, <2>4, <2>6
    <3>4. HoldsInv'
      BY <1>3, <2>1, <2>2, <2>3, <2>4, <3>1, <3>2, <3>3 DEF HoldsInv
    <3>5. ReadsStayWhole'
      BY <2>2, <3>3 DEF ReadsStayWhole
    <3> QED BY <1>3, <2>4, <2>6, <3>1, <3>4, <3>5
  <2> QED BY <1>7, <2>4, <2>5, <2>6
<1>9. /\ IdsInv'
      /\ ids' \subseteq [key : Keys, id : 1 .. MaxId, views : SUBSET Views]
      /\ \A e \in known : \E f \in ids' : f.id = e.id /\ f.key = e.key /\ e.views \subseteq f.views
      /\ \A f \in ids' : f.key = c.key => v \in f.views
  <2>1. known \subseteq ids /\ \A e \in known : e.key \notin Gone(c)
    BY RetireKeeps
  <2>2. \A e \in known : e.key \in Noticed' \cup revived
    <3> SUFFICES ASSUME NEW e \in known PROVE e.key \in Noticed' \cup revived
      OBVIOUS
    <3>1. e.key \in Noticed \cup revived
      BY <2>1 DEF Inv, IdsInv
    <3>2. CASE e.key \in ring.slots
      BY <1>1, <2>1, <3>2 DEF Gone, Noticed
    <3>3. CASE e.key \in eglCache
      BY <1>1, <2>1, <3>3 DEF Gone, Noticed, Inv, TypeOK
    <3> QED BY <3>1, <3>2, <3>3 DEF Noticed
  <2>3. c.key # None => c.key \in Noticed' \cup destroyed
    BY <1>1, <1>2 DEF Outcome, Keys, Noticed
  <2>4. /\ known \subseteq [key : Keys, id : 1 .. MaxId, views : SUBSET Views]
        /\ lastId \in 0 .. MaxId /\ lastId' \in 0 .. MaxId /\ lastId <= lastId' /\ MaxId \in Nat
        /\ \A e \in known : e.id <= lastId
        /\ \A e, f \in known : e.key = f.key \/ e.id = f.id => e = f
        /\ c.key \in Keys \cup {None} /\ revived \subseteq revived'
    BY <1>1, <1>2, <2>1, BoundsAssumption DEF Inv, TypeOK, IdsInv, Outcome
  <2>0. /\ ids' = IF c.key = None THEN known ELSE IdFor(known, c.key, v)
        /\ new => lastId' = lastId + 1 /\ revived' = revived \cup ({c.key} \cap destroyed)
    BY <1>1
  <2> HIDE DEF known
  <2>5. CASE c.key = None
    <3>1. ids' = known
      BY <2>0, <2>5
    <3> QED BY <2>2, <2>4, <2>5, <3>1, BufsAssumption DEF IdsInv
  <2>6. CASE c.key # None /\ ~new
    <3> DEFINE Up(e) == IF e.key = c.key THEN [e EXCEPT !.views = @ \cup {v}] ELSE e
    <3>1. ids' = {Up(e) : e \in known}
      BY <2>0, <2>6 DEF IdFor
    <3>2. \A e \in known : Up(e).key = e.key /\ Up(e).id = e.id /\ e.views \subseteq Up(e).views
                           /\ Up(e) \in [key : Keys, id : 1 .. MaxId, views : SUBSET Views]
                           /\ (e.key = c.key => v \in Up(e).views)
      BY <1>3, <2>4
    <3> HIDE DEF Up
    <3> QED BY <2>2, <2>4, <3>1, <3>2 DEF IdsInv
  <2>7. CASE new
    <3> DEFINE e0 == [key |-> c.key, id |-> lastId + 1, views |-> {v}]
    <3>1. ids' = known \cup {e0}
      BY <2>0, <2>7 DEF IdFor
    <3>2. lastId' = lastId + 1 /\ revived' = revived \cup ({c.key} \cap destroyed)
      BY <2>0, <2>7
    <3>3. e0 \in [key : Keys, id : 1 .. MaxId, views : SUBSET Views]
          /\ e0.key = c.key /\ e0.id = lastId + 1 /\ e0.views = {v}
      BY <1>3, <2>4, <2>7, <3>2
    <3>4. e0.key \in Noticed' \cup revived'
      BY <2>3, <2>7, <3>2, <3>3
    <3>5. \A e \in known : e.key # e0.key /\ e.id # e0.id
      BY <2>4, <2>7, <3>3
    <3> HIDE DEF e0
    <3>6. \A f \in ids' : f.id <= lastId' /\ f.key \in Noticed' \cup revived'
      BY <2>2, <2>4, <3>1, <3>2, <3>3, <3>4
    <3>7. \A e, f \in ids' : e.key = f.key \/ e.id = f.id => e = f
      BY <2>4, <3>1, <3>5
    <3> QED BY <2>4, <2>7, <3>1, <3>3, <3>5, <3>6, <3>7 DEF IdsInv
  <2> QED BY <2>5, <2>6, <2>7
<1>10. ImportsInv' /\ imports' \in [Views -> SUBSET [id : 1 .. MaxId, key : Keys]]
  <2>1. /\ cached \in [Views -> SUBSET [id : 1 .. MaxId, key : Keys]]
        /\ \A w \in Views : \A i \in cached[w] :
             w \in linked /\ \E e \in known : e.id = i.id /\ e.key = i.key /\ w \in e.views
    BY RetireKeeps
  <2>0. /\ ids' \subseteq [key : Keys, id : 1 .. MaxId, views : SUBSET Views]
        /\ \A f \in ids' : f.key = c.key => v \in f.views
    BY <1>9
  <2> HIDE DEF known, cached
  <2>2. \A w \in Views : \A i \in cached[w] :
          w \in linked' /\ \E e \in ids' : e.id = i.id /\ e.key = i.key /\ w \in e.views
    BY <1>9, <2>1
  <2>3. CASE imports' = cached
    BY <2>1, <2>2, <2>3 DEF ImportsInv
  <2>4. ASSUME NEW e \in ids', e.key = c.key, v \in linked,
               imports' = [cached EXCEPT ![v] =
                 IF \E i \in @ : i.id = e.id THEN @ ELSE @ \cup {[id |-> e.id, key |-> c.key]}]
        PROVE  ImportsInv' /\ imports' \in [Views -> SUBSET [id : 1 .. MaxId, key : Keys]]
    <3> DEFINE i0 == [id |-> e.id, key |-> c.key]
    <3>1. i0 \in [id : 1 .. MaxId, key : Keys] /\ i0.id = e.id /\ i0.key = e.key /\ v \in e.views
      BY <2>0, <2>4
    <3>2. \A w \in Views : w # v => imports'[w] = cached[w]
      BY <2>1, <2>4
    <3>3. imports'[v] \subseteq cached[v] \cup {i0}
      BY <1>3, <2>1, <2>4
    <3> HIDE DEF i0
    <3>4. imports' \in [Views -> SUBSET [id : 1 .. MaxId, key : Keys]]
      BY <2>0, <2>1, <2>4, <3>1 DEF i0
    <3> QED BY <2>2, <2>4, <3>1, <3>2, <3>3, <3>4 DEF ImportsInv
  <2>5. CASE c.key = None
    BY <1>1, <2>3, <2>5 DEF Refused, cached
  <2>6. CASE c.key # None
    BY <1>1, <2>3, <2>4, <2>6 DEF Refused, Taken, cached
  <2> QED BY <2>5, <2>6
<1>11. TypeOK'
  <2>1. surface' \in Surfaces /\ destroyed' \subseteq Bufs /\ live' \subseteq Views /\ linked' \subseteq Views
        /\ bound' \in live'
    BY DEF Inv, TypeOK, Surfaces
  <2>2. Sound(ring)' /\ lastId' \in 0 .. MaxId
    BY <1>1, <1>2, BoundsAssumption DEF Outcome, Sound, Inv, TypeOK
  <2>3. eglCache' \subseteq EglBufs /\ revived' \subseteq Bufs
    BY <1>1 DEF Inv, TypeOK
  <2> QED BY <1>5, <1>8, <1>9, <1>10, <2>1, <2>2, <2>3 DEF TypeOK, Surfaces, Sound, Rings, Memories
<1> QED BY <1>4, <1>8, <1>9, <1>10, <1>11 DEF Inv

-----------------------------------------------------------------------------
(* The other actions *)

\* A commit of the surface leaves what was copied of it up to date.
LEMMA CommittedUpToDate ==
  ASSUME Inv, NEW att \in Attachment \cup {None}, NEW damage \in SUBSET Cells,
         NEW s, s = Committed(att, damage), s.commit <= MaxCommits
  PROVE  s \in Surfaces /\ NotYet(s) /\ UpToDate(s, ring.slots, mem)
<1>1. /\ surface \in Surfaces /\ surface.commit \in Nat /\ MaxCommits \in Nat
      /\ \A x \in Cells : surface.pixels[x] \in Nat /\ surface.pixels[x] <= surface.commit
  BY BoundsAssumption DEF Inv, NotYet, TypeOK, Surfaces, Pixels
<1>2. \A u \in ring.slots : mem[u].commit <= surface.commit /\ mem[u].commit \in Nat
  BY DEF Inv, UpToDate, TypeOK
<1>3. CASE s = [surface EXCEPT !.attached = att]
  BY <1>1, <1>3 DEF Inv, Surfaces, NotYet, UpToDate
<1>4. ASSUME NEW changed \in SUBSET Cells,
             s = [attached |-> att, commit |-> surface.commit + 1, pixels |->
                   [x \in Cells |-> IF x \in changed THEN surface.commit + 1 ELSE surface.pixels[x]]]
      PROVE  s \in Surfaces /\ NotYet(s) /\ UpToDate(s, ring.slots, mem)
  <2>1. /\ s.attached = att /\ s.commit = surface.commit + 1
        /\ \A x \in Cells : s.pixels[x] = IF x \in changed THEN surface.commit + 1 ELSE surface.pixels[x]
    BY <1>4
  <2>2. s.commit \in 0 .. MaxCommits
    BY <1>1, <2>1
  <2>3. s.pixels \in Pixels
    BY <1>1, <1>4, <2>1, <2>2 DEF Pixels, Surfaces
  <2>4. s \in Surfaces
    BY <1>4, <2>1, <2>2, <2>3 DEF Surfaces
  <2>5. NotYet(s)
    BY <1>1, <2>1 DEF NotYet
  <2>6. UpToDate(s, ring.slots, mem)
    BY <1>1, <1>2, <2>1 DEF Inv, UpToDate
  <2> QED BY <2>4, <2>5, <2>6
<1>5. {} \in SUBSET Cells /\ Cells \in SUBSET Cells
  OBVIOUS
<1> QED BY <1>3, <1>4, <1>5 DEF Committed

LEMMA CommitInv ==
  ASSUME Inv, NEW att \in Attachment \cup {None}, NEW damage \in SUBSET Cells, Commit(att, damage)
  PROVE  Inv'
<1>1. surface' \in Surfaces /\ NotYet(surface') /\ UpToDate(surface', ring.slots, mem)
  BY CommittedUpToDate DEF Commit
<1>2. CASE bound = None
  <2>1. UNCHANGED <<destroyed, ringVars, idVars, viewVars, shellVars>>
    BY <1>2 DEF Commit
  <2>2. TypeOK'
    BY <1>1, <2>1 DEF Inv, TypeOK, Surfaces, ringVars, idVars, viewVars, shellVars
  <2>3. NotYet(surface)' /\ UpToDate(surface, ring.slots, mem)' /\ Allocated(lastUid, ring.slots, mem)'
    BY <1>1, <2>1 DEF Inv, NotYet, UpToDate, Allocated, ringVars
  <2>4. HoldsInv' /\ ReadsStayWhole' /\ IdsInv' /\ ImportsInv'
    BY <2>1 DEF Inv, HoldsInv, ReadsStayWhole, IdsInv, ImportsInv, Noticed,
                ringVars, idVars, viewVars, shellVars
  <2> QED BY <2>2, <2>3, <2>4 DEF Inv
<1>3. CASE bound # None
  <2>1. bound \in live /\ Submit(bound, surface') /\ UNCHANGED <<destroyed, live, linked, bound>>
    BY <1>3 DEF Commit, Inv, TypeOK, viewVars
  <2> QED BY <1>1, <2>1, SubmitInv
<1> QED BY <1>2, <1>3

\* Buffers retired that are no longer there, with all else as it was.
LEMMA RetireInv ==
  ASSUME Inv, NEW gone, Retire(gone), Noticed \subseteq Noticed' \cup gone,
         UNCHANGED <<lastId, revived, linked>>
  PROVE  /\ IdsInv' /\ ImportsInv'
         /\ ids' \subseteq [key : Keys, id : 1 .. MaxId, views : SUBSET Views]
         /\ imports' \in [Views -> SUBSET [id : 1 .. MaxId, key : Keys]]
<1>1. ids' = Unretired(gone) /\ imports' = ImportsWithout(gone)
  BY DEF Retire
<1>2. ids' \subseteq ids /\ \A e \in ids' : e.key \notin gone
  BY <1>1, RetireKeeps
<1>3. ImportsInv'
  BY <1>1, RetireKeeps DEF ImportsInv
<1>4. imports' \in [Views -> SUBSET [id : 1 .. MaxId, key : Keys]]
  BY <1>1, RetireKeeps
<1>5. IdsInv'
  BY <1>2 DEF Inv, IdsInv
<1> QED BY <1>2, <1>3, <1>4, <1>5 DEF Inv, TypeOK

LEMMA DestroyInv ==
  ASSUME Inv, NEW b \in Bufs, Destroy(b)
  PROVE  Inv'
<1>1. /\ destroyed' = destroyed \cup {b}
      /\ UNCHANGED <<surface, ring, mem, lastUid, eglCache, lastId, revived, live, linked, bound, held, reading>>
  BY DEF Destroy, ringVars, viewVars
<1>2. /\ NotYet(surface)' /\ UpToDate(surface, ring.slots, mem)' /\ Allocated(lastUid, ring.slots, mem)'
      /\ HoldsInv' /\ ReadsStayWhole'
  BY <1>1 DEF Inv, NotYet, UpToDate, Allocated, HoldsInv, ReadsStayWhole
<1>3. /\ IdsInv' /\ ImportsInv'
      /\ ids' \subseteq [key : Keys, id : 1 .. MaxId, views : SUBSET Views]
      /\ imports' \in [Views -> SUBSET [id : 1 .. MaxId, key : Keys]]
  <2>1. CASE b \notin EglBufs
    <3>1. Retire({b})
      BY <2>1 DEF Destroy
    <3>2. Noticed \subseteq Noticed' \cup {b}
      BY <1>1 DEF Noticed
    <3> QED BY <1>1, <3>1, <3>2, RetireInv
  <2>2. CASE b \in EglBufs
    <3>1. UNCHANGED <<ids, imports>>
      BY <2>2 DEF Destroy
    <3>2. Noticed' = Noticed
      BY <1>1, <2>2 DEF Noticed
    <3> QED BY <1>1, <3>1, <3>2 DEF Inv, IdsInv, ImportsInv, TypeOK
  <2> QED BY <2>1, <2>2
<1>4. TypeOK'
  BY <1>1, <1>3 DEF Inv, TypeOK
<1> QED BY <1>2, <1>3, <1>4 DEF Inv

LEMMA SurfaceDestroyedInv ==
  ASSUME Inv, SurfaceDestroyed
  PROVE  Inv'
<1>1. /\ surface' = NewSurface /\ ring' = NoRing /\ mem' = [u \in Uids |-> EmptySlot]
      /\ Retire(ring.slots) /\ bound = None
      /\ UNCHANGED <<destroyed, lastUid, eglCache, lastId, revived, live, linked, bound, held, reading>>
  BY DEF SurfaceDestroyed, viewVars
<1>2. NewSurface \in Surfaces /\ Sound(NoRing) /\ mem' \in Memories
  <2>1. 0 \in 0 .. MaxCommits /\ MaxSlots \in Nat
    BY BoundsAssumption
  <2> QED BY <1>1, <2>1, FS_EmptySet
          DEF NewSurface, Surfaces, Pixels, Sound, NoRing, Rings, Memories, EmptySlot
<1>3. NotYet(surface)' /\ UpToDate(surface, ring.slots, mem)' /\ Allocated(lastUid, ring.slots, mem)'
  BY <1>1 DEF NewSurface, NoRing, EmptySlot, NotYet, UpToDate, Allocated
<1>4. HoldsInv' /\ ReadsStayWhole'
  <2>1. \A v \in Views : held[v] = {}
    BY <1>1, BufsAssumption DEF Inv, HoldsInv
  <2> QED BY <1>1, <2>1 DEF Inv, HoldsInv, ReadsStayWhole
<1>5. Noticed \subseteq Noticed' \cup ring.slots
  BY <1>1 DEF Noticed
<1>6. /\ IdsInv' /\ ImportsInv'
      /\ ids' \subseteq [key : Keys, id : 1 .. MaxId, views : SUBSET Views]
      /\ imports' \in [Views -> SUBSET [id : 1 .. MaxId, key : Keys]]
  BY <1>1, <1>5, RetireInv
<1>7. TypeOK'
  BY <1>1, <1>2, <1>6 DEF Inv, TypeOK, Surfaces, Sound, Rings, Memories
<1> QED BY <1>3, <1>4, <1>6, <1>7 DEF Inv

LEMMA BindInv ==
  ASSUME Inv, NEW v \in Views, Bind(v)
  PROVE  Inv'
BY SubmitInv DEF Bind, Inv, TypeOK, Surfaces

\* What the surface and its slots are is left as it is by the actions of the
\* views and of the shell.
LEMMA SurfaceKept ==
  ASSUME Inv, UNCHANGED <<surface, ringVars>>
  PROVE  NotYet(surface)' /\ UpToDate(surface, ring.slots, mem)' /\ Allocated(lastUid, ring.slots, mem)'
BY DEF Inv, NotYet, UpToDate, Allocated, ringVars

LEMMA ViewsInv ==
  ASSUME Inv, NEW v \in Views,
         Unbind(v) \/ ViewCreated(v) \/ OnDispose(v) \/ Done(v) \/ \E u \in Uids : LetGo(v, u)
  PROVE  Inv'
<1> USE DEF ringVars, idVars, viewVars, shellVars
<1>1. UNCHANGED <<surface, destroyed, ring, mem, lastUid, eglCache, ids, lastId, revived>>
  BY DEF Unbind, ViewCreated, OnDispose, Done, LetGo
<1>2. NotYet(surface)' /\ UpToDate(surface, ring.slots, mem)' /\ Allocated(lastUid, ring.slots, mem)'
  BY <1>1, SurfaceKept
<1>3. IdsInv'
  BY <1>1 DEF Inv, IdsInv, Noticed
<1>4. TypeOK'
  <2>1. CASE Unbind(v)
    BY <1>1, <2>1 DEF Inv, TypeOK, Unbind, Unheld
  <2>2. CASE ViewCreated(v)
    BY <1>1, <2>2 DEF Inv, TypeOK, ViewCreated
  <2>3. CASE OnDispose(v)
    BY <1>1, <2>3 DEF Inv, TypeOK, OnDispose
  <2>4. CASE Done(v)
    BY <1>1, <2>4 DEF Inv, TypeOK, Done
  <2>5. ASSUME NEW u \in Uids, LetGo(v, u) PROVE TypeOK'
    BY <1>1, <2>5 DEF Inv, TypeOK, LetGo
  <2> QED BY <2>1, <2>2, <2>3, <2>4, <2>5
<1>5. HoldsInv' /\ ReadsStayWhole' /\ ImportsInv'
  <2>1. CASE Unbind(v)
    BY <1>1, <2>1 DEF Inv, TypeOK, HoldsInv, ReadsStayWhole, ImportsInv, Unbind, Unheld
  <2>2. CASE ViewCreated(v)
    BY <1>1, <2>2 DEF Inv, TypeOK, HoldsInv, ReadsStayWhole, ImportsInv, ViewCreated
  <2>3. CASE OnDispose(v)
    BY <1>1, <2>3 DEF Inv, TypeOK, HoldsInv, ReadsStayWhole, ImportsInv, OnDispose
  <2>4. CASE Done(v)
    BY <1>1, <2>4 DEF Inv, TypeOK, HoldsInv, ReadsStayWhole, ImportsInv, Done
  <2>5. ASSUME NEW u \in Uids, LetGo(v, u) PROVE HoldsInv' /\ ReadsStayWhole' /\ ImportsInv'
    BY <1>1, <2>5 DEF Inv, TypeOK, HoldsInv, ReadsStayWhole, ImportsInv, LetGo
  <2> QED BY <2>1, <2>2, <2>3, <2>4, <2>5
<1> QED BY <1>2, <1>3, <1>4, <1>5 DEF Inv

LEMMA ViewDisposedInv ==
  ASSUME Inv, NEW v \in Views, ViewDisposed(v)
  PROVE  Inv'
<1>1. /\ UNCHANGED <<surface, destroyed, ring, mem, lastUid, eglCache, lastId, revived, linked, imports>>
      /\ v \notin linked /\ live' = live \ {v} /\ bound' = IF bound = v THEN None ELSE bound
      /\ held' = [held EXCEPT ![v] = {}] /\ reading' = [reading EXCEPT ![v] = {}]
      /\ ids' = {[e EXCEPT !.views = @ \ {v}] : e \in ids}
  BY DEF ViewDisposed, Unheld, ForgetView, ringVars
<1>2. NotYet(surface)' /\ UpToDate(surface, ring.slots, mem)' /\ Allocated(lastUid, ring.slots, mem)'
  BY <1>1, SurfaceKept DEF ringVars
<1>3. HoldsInv' /\ ReadsStayWhole'
  BY <1>1 DEF Inv, TypeOK, HoldsInv, ReadsStayWhole
<1> DEFINE Forgot(e) == [e EXCEPT !.views = @ \ {v}]
<1>4. \A e \in ids : Forgot(e).key = e.key /\ Forgot(e).id = e.id /\ Forgot(e).views = e.views \ {v}
                     /\ Forgot(e) \in [key : Keys, id : 1 .. MaxId, views : SUBSET Views]
  BY DEF Inv, TypeOK
<1>5. ids' = {Forgot(e) : e \in ids}
  BY <1>1
<1> HIDE DEF Forgot
<1>6. IdsInv'
  BY <1>1, <1>4, <1>5 DEF Inv, IdsInv, Noticed
<1>7. ImportsInv'
  <2> SUFFICES ASSUME NEW w \in Views, NEW i \in imports[w]
               PROVE  w \in linked' /\ \E e \in ids' : e.id = i.id /\ e.key = i.key /\ w \in e.views
    BY <1>1 DEF ImportsInv
  <2>1. w \in linked /\ w # v
    BY <1>1 DEF Inv, ImportsInv
  <2>2. PICK e \in ids : e.id = i.id /\ e.key = i.key /\ w \in e.views
    BY DEF Inv, ImportsInv
  <2> QED BY <1>1, <1>4, <1>5, <2>1, <2>2
<1>8. TypeOK'
  <2>1. ids' \subseteq [key : Keys, id : 1 .. MaxId, views : SUBSET Views]
    BY <1>4, <1>5
  <2> QED BY <1>1, <2>1 DEF Inv, TypeOK
<1> QED BY <1>2, <1>3, <1>6, <1>7, <1>8 DEF Inv

-----------------------------------------------------------------------------
(* The theorems *)

LEMMA InitInv == Init => Inv
<1> SUFFICES ASSUME Init PROVE Inv
  OBVIOUS
<1>1. TypeOK
  <2>1. 0 \in 0 .. MaxCommits /\ MaxSlots \in Nat /\ 0 \in 0 .. MaxUid /\ 0 \in 0 .. MaxId
    BY BoundsAssumption
  <2> QED BY <2>1, FS_EmptySet DEF Init, TypeOK, NewSurface, NoRing, EmptySlot, Pixels
<1>2. NotYet(surface) /\ UpToDate(surface, ring.slots, mem) /\ Allocated(lastUid, ring.slots, mem)
  BY DEF Init, NotYet, UpToDate, Allocated, NewSurface, NoRing, EmptySlot
<1>3. HoldsInv /\ ReadsStayWhole /\ IdsInv /\ ImportsInv
  BY DEF Init, HoldsInv, ReadsStayWhole, IdsInv, ImportsInv
<1> QED BY <1>1, <1>2, <1>3 DEF Inv

LEMMA NextInv == Inv /\ [Next]_vars => Inv'
<1> SUFFICES ASSUME Inv, [Next]_vars PROVE Inv'
  OBVIOUS
<1>1. ASSUME NEW att \in Attachable, NEW damage \in SUBSET Cells, Commit(att, damage) PROVE Inv'
  <2>1. att \in Attachment \cup {None}
    BY BufsAssumption DEF Attachable, Attachment
  <2> QED BY <1>1, <2>1, CommitInv
<1>2. ASSUME NEW b \in Bufs, Destroy(b) PROVE Inv'
  BY <1>2, DestroyInv
<1>3. CASE SurfaceDestroyed
  BY <1>3, SurfaceDestroyedInv
<1>4. ASSUME NEW v \in Views, Bind(v) PROVE Inv'
  BY <1>4, BindInv
<1>5. ASSUME NEW v \in Views,
             Unbind(v) \/ ViewCreated(v) \/ OnDispose(v) \/ Done(v) \/ \E u \in Uids : LetGo(v, u)
      PROVE  Inv'
  BY <1>5, ViewsInv
<1>6. ASSUME NEW v \in Views, ViewDisposed(v) PROVE Inv'
  BY <1>6, ViewDisposedInv
<1>7. CASE UNCHANGED vars
  BY <1>7 DEF vars, ringVars, idVars, viewVars, shellVars, Inv, TypeOK, NotYet, UpToDate, Allocated,
              HoldsInv, ReadsStayWhole, IdsInv, ImportsInv, Noticed
<1> QED BY <1>1, <1>2, <1>3, <1>4, <1>5, <1>6, <1>7 DEF Next

LEMMA SpecInv == Spec => []Inv
BY InitInv, NextInv, PTL DEF Spec

\* The state always has its type; the ring never grows past its limit.
THEOREM StagingTypes == Spec => []TypeOK
<1>1. Inv => TypeOK
  BY DEF Inv
<1> QED BY <1>1, SpecInv, PTL

\* A slot filled at the surface's commit shows exactly what the client drew,
\* however long it was busy, and whatever was committed, failed or replaced
\* meanwhile.
THEOREM CopiesExact == Spec => []CopiesAreExact
BY InvImplies, SpecInv, PTL

\* What the shell reads of a slot held for it is never written over.
THEOREM ReadsWhole == Spec => []ReadsStayWhole
<1>1. Inv => ReadsStayWhole
  BY DEF Inv
<1> QED BY <1>1, SpecInv, PTL

\* The shell's cached imports are of buffers that are there, under their own
\* ids, and will be retired, but for buffers submitted after they went.
THEOREM ImportsFollow == Spec => []ImportsFollowBuffers
BY InvImplies, SpecInv, PTL
=============================================================================
