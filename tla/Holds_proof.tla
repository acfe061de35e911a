----------------------------- MODULE Holds_proof -----------------------------
(***************************************************************************)
(* Theorems about Holds, for any views and buffers, any number of layers   *)
(* and any limit that holds the shell's pipeline.                          *)
(*                                                                         *)
(* The heart is CapSparesPipeline: a buffer that the limit gives back is   *)
(* Pipeline frames behind.  A frame holds at most one buffer per layer, so *)
(* the buffers of the last Pipeline frames fit within the limit, and those *)
(* given back are the oldest.                                              *)
(***************************************************************************)
EXTENDS Holds, FiniteSetTheorems, SequenceTheorems, TLAPS

\* The buffers of some layers, and what is left of the holds without those
\* given back.
BufsOf(scene, some) == {scene[l] : l \in some}
Left(with, drop) == [b \in Buffers |-> IF b \in drop THEN 0 ELSE with[b]]

\* Each buffer held for a frame is of a layer of its own.
OnePerLayer(held, lay) ==
  \A b, c \in Buffers : held[b] # 0 /\ held[b] = held[c] /\ lay[b] = lay[c] => b = c

\* The frames of view v: those on screen, reported, read and held are submitted
\* ones, and what the server was told of is what the shell has got to.
FramesInv(v) ==
  /\ onScreen[v] <= seq[v]
  /\ ~cleared[v] /\ seq[v] # 0 => seq[v] < MaxSeq
  /\ v \notin linked => reading[v] = {} /\ onScreen[v] = 0
  /\ v \notin live => reports[v] = <<>>
  /\ v \in linked => \A i \in 1 .. Len(reports[v]) : reports[v][i] <= onScreen[v]
  /\ v \in linked /\ reports[v] # <<>> => reports[v][Len(reports[v])] = onScreen[v]
  /\ \A r \in reading[v] : r.seq <= seq[v] /\ (r.key = 0 => r.seq >= onScreen[v])
  /\ \A b \in Buffers : unfenced[v][b] <= seq[v]

\* The keys of view v are counted, and a source that is to run is of no layer
\* that is read.
KeysInv(v) ==
  /\ nextKey[v] <= seq[v] * NumLayers
  /\ \A r \in reading[v] : r.key <= nextKey[v]
  /\ \A s \in sources : s.view = v =>
       s.key <= nextKey[v] /\ (s.ready => \A r \in reading[v] : r.key # s.key)

Inv ==
  /\ TypeOK
  /\ linked \subseteq live
  /\ \A v \in Views : /\ FramesInv(v) /\ KeysInv(v)
                      /\ \E lay \in [Buffers -> Layers] : OnePerLayer(unfenced[v], lay)
  /\ HeldWhileRead
  /\ HeldForAReason

-----------------------------------------------------------------------------
(* Lemmas about the limit and the keys *)

LEMMA LayersFinite == IsFiniteSet(Layers) /\ Cardinality(Layers) = NumLayers
BY FS_Interval, LimitsAssumption DEF Layers

LEMMA KeysAreNat == Keys \subseteq Nat \ {0}
<1>1. MaxSeq * NumLayers \in Nat
  BY LimitsAssumption
<1> QED BY <1>1 DEF Keys

LEMMA Counted ==
  ASSUME TypeOK, NEW v \in Views
  PROVE  seq[v] \in Nat /\ nextKey[v] \in Nat
<1>1. nextKey[v] \in Keys \cup {0} /\ seq[v] \in 0 .. MaxSeq
  BY DEF TypeOK
<1>2. MaxSeq \in Nat
  BY LimitsAssumption
<1>3. seq[v] \in Nat
  BY <1>1, <1>2
<1>4. nextKey[v] \in Nat \ {0} \/ nextKey[v] = 0
  BY <1>1, KeysAreNat
<1> QED BY <1>3, <1>4

LEMMA HeldFinite ==
  ASSUME NEW held
  PROVE  IsFiniteSet(HeldPlain(held)) /\ Cardinality(HeldPlain(held)) \in Nat
BY FS_Subset, FS_CardinalityType, BuffersAssumption DEF HeldPlain

\* A key given in a set of layers is after the last one, by at most as many as
\* there are.
LEMMA Rank ==
  ASSUME NEW keyed \in SUBSET Layers, NEW last \in Nat, NEW l \in Layers
  PROVE  /\ Cardinality(keyed) \in 0 .. NumLayers
         /\ l \in keyed => KeyOf(last, keyed, l) \in last + 1 .. last + Cardinality(keyed)
         /\ l \notin keyed => KeyOf(last, keyed, l) = 0
<1> DEFINE below == {k \in keyed : k <= l}
<1>1. IsFiniteSet(keyed) /\ Cardinality(keyed) \in 0 .. NumLayers
  BY LayersFinite, FS_Subset, FS_CardinalityType, LimitsAssumption
<1>2. IsFiniteSet(below) /\ Cardinality(below) \in Nat /\ Cardinality(below) <= Cardinality(keyed)
  BY <1>1, FS_Subset, FS_CardinalityType
<1>3. l \in keyed => Cardinality(below) # 0
  <2>1. l \in keyed => l \in below
    BY DEF Layers
  <2> QED BY <2>1, <1>2, FS_EmptySet
<1> QED BY <1>1, <1>2, <1>3 DEF KeyOf

\* What the limit gives back is the pipeline or more behind the last frame.
LEMMA CapSparesPipeline ==
  ASSUME NEW held \in [Buffers -> Nat], NEW s \in Nat, \A c \in Buffers : held[c] <= s,
         NEW lay \in [Buffers -> Layers], OnePerLayer(held, lay),
         NEW drop \in GivenBack(held), NEW b \in drop
  PROVE  held[b] + Pipeline <= s
<1> SUFFICES ASSUME ~(held[b] + Pipeline <= s) PROVE FALSE
  OBVIOUS
<1> DEFINE all == HeldPlain(held)
           rest == all \ drop
           late == rest \cup {b}
           frames == (s - Pipeline) + 1 .. s
<1>1. /\ drop \subseteq all /\ b \in all /\ all \subseteq Buffers
      /\ Cardinality(drop) = Excess(Cardinality(all))
      /\ \A c \in rest : held[b] <= held[c]
  BY DEF GivenBack, HeldPlain
<1>2. IsFiniteSet(all) /\ Cardinality(all) \in Nat
  BY HeldFinite
<1>3. IsFiniteSet(drop) /\ Cardinality(drop) \in Nat /\ Cardinality(drop) # 0
  BY <1>1, <1>2, FS_Subset, FS_CardinalityType, FS_EmptySet
<1>4. MaxUnfenced \in Nat /\ Pipeline \in Nat /\ Pipeline # 0 /\ NumLayers \in Nat
  BY LimitsAssumption
<1>5. Cardinality(all) - Cardinality(drop) = MaxUnfenced
  BY <1>1, <1>2, <1>3, <1>4 DEF Excess
<1>6. IsFiniteSet(rest) /\ Cardinality(rest) = MaxUnfenced
  <2>1. all \cap drop = drop
    BY <1>1
  <2> HIDE DEF all
  <2> QED BY <2>1, <1>2, <1>5, FS_Difference
<1>7. IsFiniteSet(late) /\ Cardinality(late) = MaxUnfenced + 1
  <2>1. b \notin rest
    OBVIOUS
  <2> HIDE DEF rest
  <2> QED BY <1>6, <2>1, FS_AddElement
<1>8. IsFiniteSet(frames) /\ Cardinality(frames) = Pipeline
  <2>1. /\ (s - Pipeline) + 1 \in Int /\ s \in Int /\ s - ((s - Pipeline) + 1) + 1 = Pipeline
        /\ ~((s - Pipeline) + 1 > s)
    BY <1>4
  <2>2. \A first, last \in Int : /\ IsFiniteSet(first .. last)
                                 /\ Cardinality(first .. last) = IF first > last THEN 0 ELSE last - first + 1
    BY FS_Interval
  <2> QED BY <2>1, <2>2
<1>9. IsFiniteSet(frames \X Layers) /\ Cardinality(frames \X Layers) = Pipeline * NumLayers
  <2> HIDE DEF frames
  <2> QED BY <1>8, LayersFinite, FS_Product
<1>10. Cardinality(frames \X Layers) < Cardinality(late)
  <2>1. Pipeline * NumLayers <= MaxUnfenced /\ Pipeline * NumLayers \in Nat
    BY <1>4, LimitsAssumption
  <2> QED BY <2>1, <1>4, <1>7, <1>9
<1> DEFINE place == [c \in late |-> <<held[c], lay[c]>>]
<1>11. \A c \in late : held[c] \in frames /\ held[c] # 0 /\ c \in Buffers
  <2>1. \A c \in late : held[c] >= held[b] /\ c \in Buffers /\ held[c] # 0
    BY <1>1 DEF HeldPlain
  <2> QED BY <2>1, <1>1, <1>4
<1>12. place \in [late -> frames \X Layers]
  BY <1>11
<1>13. PICK x \in late, y \in late : x # y /\ place[x] = place[y]
  <2> HIDE DEF place, late, frames
  <2> QED BY <1>7, <1>9, <1>10, <1>12, FS_PigeonHole
<1>14. held[x] = held[y] /\ lay[x] = lay[y]
  BY <1>13
<1> QED BY <1>11, <1>13, <1>14 DEF OnePerLayer

\* What is left of the holds is within the limit.
LEMMA CapHolds ==
  ASSUME NEW held \in [Buffers -> Nat], NEW drop \in GivenBack(held)
  PROVE  Cardinality(HeldPlain([b \in Buffers |-> IF b \in drop THEN 0 ELSE held[b]]))
           <= MaxUnfenced
<1> DEFINE all == HeldPlain(held)
           left == [b \in Buffers |-> IF b \in drop THEN 0 ELSE held[b]]
<1>1. drop \subseteq all /\ Cardinality(drop) = Excess(Cardinality(all))
  BY DEF GivenBack
<1>2. HeldPlain(left) = all \ drop
  BY DEF HeldPlain
<1>3. IsFiniteSet(all) /\ Cardinality(all) \in Nat
  BY HeldFinite
<1>4. Cardinality(all \ drop) = Cardinality(all) - Cardinality(drop)
  <2>1. all \cap drop = drop
    BY <1>1
  <2> HIDE DEF all
  <2> QED BY <2>1, <1>3, FS_Difference
<1>5. Cardinality(all) - Excess(Cardinality(all)) <= MaxUnfenced
  BY <1>3, LimitsAssumption DEF Excess
<1>6. Cardinality(HeldPlain(left)) <= MaxUnfenced
  BY <1>1, <1>2, <1>4, <1>5
<1> QED BY <1>6

-----------------------------------------------------------------------------
(* A frame the shell takes *)

LEMMA Product ==
  ASSUME NEW i \in Nat, NEW j \in Nat, NEW n \in Nat, i <= j
  PROVE  i * n <= j * n /\ i * n \in Nat
OBVIOUS

LEMMA OneMore ==
  ASSUME NEW i \in Nat, NEW n \in Nat
  PROVE  (i + 1) * n = i * n + n
OBVIOUS

\* The keys given in a frame are new, and among those the bound counts.
LEMMA NewKeys ==
  ASSUME TypeOK, NEW v \in Views, KeysInv(v), seq[v] < MaxSeq - 1,
         NEW scene, NEW way
  PROVE  LET keyed == Keyed(scene, way)
             last == nextKey[v]
         IN /\ last \in Nat /\ Cardinality(keyed) \in Nat
            /\ last + Cardinality(keyed) <= (seq[v] + 1) * NumLayers
            /\ last + Cardinality(keyed) \in Keys \cup {0}
            /\ \A l \in keyed : /\ KeyOf(last, keyed, l) \in Keys
                                /\ KeyOf(last, keyed, l) > last
                                /\ KeyOf(last, keyed, l) <= last + Cardinality(keyed)
            /\ \A l \in Layers \ keyed : KeyOf(last, keyed, l) = 0
<1> DEFINE keyed == Keyed(scene, way)
           last == nextKey[v]
<1>1. keyed \in SUBSET Layers
  BY DEF Keyed, Top
<1>2. last \in Nat /\ seq[v] \in Nat /\ MaxSeq \in Nat /\ NumLayers \in Nat
  BY LimitsAssumption DEF TypeOK, Keys
<1>3. Cardinality(keyed) \in 0 .. NumLayers
  BY <1>1, Rank, LimitsAssumption DEF Layers
<1>4. last <= seq[v] * NumLayers
  BY DEF KeysInv
<1>5. (seq[v] + 1) * NumLayers = seq[v] * NumLayers + NumLayers
  BY <1>2, OneMore
<1>6. seq[v] * NumLayers \in Nat
  BY <1>2, Product
<1>7. last + Cardinality(keyed) <= (seq[v] + 1) * NumLayers
  BY <1>2, <1>3, <1>4, <1>5, <1>6
<1>8. (seq[v] + 1) * NumLayers <= MaxSeq * NumLayers /\ MaxSeq * NumLayers \in Nat
  BY <1>2, Product
<1>9. last + Cardinality(keyed) <= MaxSeq * NumLayers
  BY <1>2, <1>3, <1>5, <1>6, <1>7, <1>8
<1>10. \A l \in keyed : KeyOf(last, keyed, l) \in last + 1 .. last + Cardinality(keyed)
  BY <1>1, <1>2, Rank
<1>11. \A l \in Layers \ keyed : KeyOf(last, keyed, l) = 0
  BY DEF KeyOf
<1> QED
  <2> HIDE DEF keyed, last
  <2>1. Cardinality(keyed) \in Nat /\ last + Cardinality(keyed) \in Keys \cup {0}
    BY <1>2, <1>3, <1>8, <1>9 DEF Keys
  <2>2. \A l \in keyed : /\ KeyOf(last, keyed, l) \in Keys
                         /\ KeyOf(last, keyed, l) > last
                         /\ KeyOf(last, keyed, l) <= last + Cardinality(keyed)
    BY <1>2, <1>3, <1>8, <1>9, <1>10 DEF Keys
  <2> QED BY <2>1, <2>2, <1>2, <1>7, <1>11 DEF keyed, last

\* A buffer submitted for frame s is on a layer of its own there, and nothing
\* was held for that frame before.
LEMMA LayersOfFrame ==
  ASSUME NEW held \in [Buffers -> Nat], NEW s \in Nat \ {0},
         \A b \in Buffers : held[b] < s,
         NEW lay \in [Buffers -> Layers], OnePerLayer(held, lay),
         NEW scene \in [Layers -> Buffers \cup {None}], NEW some \in SUBSET Layers
  PROVE  \E new \in [Buffers -> Layers] :
           OnePerLayer(PlainHolds(held, s, BufsOf(scene, some)), new)
<1> DEFINE bufs == BufsOf(scene, some)
           new == [b \in Buffers |-> IF b \in bufs THEN CHOOSE l \in some : scene[l] = b
                                     ELSE lay[b]]
           next == PlainHolds(held, s, bufs)
<1>1. \A b \in bufs : (CHOOSE l \in some : scene[l] = b) \in some
                      /\ scene[CHOOSE l \in some : scene[l] = b] = b
  BY DEF BufsOf
<1> HIDE DEF bufs
<1>2. new \in [Buffers -> Layers]
  BY <1>1
<1>3. \A b \in Buffers : next[b] = IF b \in bufs THEN s ELSE held[b]
  BY DEF PlainHolds
<1>4. ASSUME NEW b \in Buffers, NEW c \in Buffers, next[b] # 0, next[b] = next[c],
             new[b] = new[c]
      PROVE  b = c
  <2>1. CASE b \in bufs
    <3>1. c \in bufs
      BY <1>3, <1>4, <2>1
    <3> QED BY <1>1, <1>4, <2>1, <3>1
  <2>2. CASE b \notin bufs
    <3>1. c \notin bufs
      BY <1>3, <1>4, <2>2
    <3>2. held[b] # 0 /\ held[b] = held[c] /\ lay[b] = lay[c]
      BY <1>3, <1>4, <2>2, <3>1
    <3> QED BY <3>2 DEF OnePerLayer
  <2> QED BY <2>1, <2>2
<1>5. OnePerLayer(next, new)
  BY <1>4 DEF OnePerLayer
<1>6. next = PlainHolds(held, s, BufsOf(scene, some))
  BY DEF bufs
<1> HIDE DEF next, new
<1> QED BY <1>2, <1>5, <1>6

\* What hold_unfenced leaves of the plain holds: within the limit, a buffer per
\* layer of a frame, and all that was submitted in the last frames of the
\* pipeline is still held.
LEMMA PlainHoldsKept ==
  ASSUME NEW held \in [Buffers -> Nat], NEW s \in Nat \ {0},
         \A b \in Buffers : held[b] < s,
         \E lay \in [Buffers -> Layers] : OnePerLayer(held, lay),
         NEW scene \in [Layers -> Buffers \cup {None}], NEW some \in SUBSET Layers,
         NEW drop \in GivenBack(PlainHolds(held, s, BufsOf(scene, some)))
  PROVE  LET left == Left(PlainHolds(held, s, BufsOf(scene, some)), drop)
         IN /\ left \in [Buffers -> Nat]
            /\ \A b \in Buffers : left[b] <= s /\ left[b] \in {0, s, held[b]}
            /\ Cardinality(HeldPlain(left)) <= MaxUnfenced
            /\ \E lay \in [Buffers -> Layers] : OnePerLayer(left, lay)
            /\ \A l \in some : scene[l] \in Buffers => left[scene[l]] = s
            /\ \A b \in Buffers : held[b] # 0 /\ held[b] + Pipeline > s => left[b] >= held[b]
<1> DEFINE with == PlainHolds(held, s, BufsOf(scene, some))
           left == Left(with, drop)
<1>1. /\ with \in [Buffers -> Nat]
      /\ \A b \in Buffers : with[b] <= s /\ with[b] >= held[b] /\ with[b] \in {s, held[b]}
      /\ \A l \in some : scene[l] \in Buffers => with[scene[l]] = s
  <2>1. with = [b \in Buffers |-> IF b \in BufsOf(scene, some) THEN s ELSE held[b]]
    BY DEF PlainHolds
  <2>2. \A l \in some : scene[l] \in BufsOf(scene, some)
    BY DEF BufsOf
  <2> HIDE DEF with
  <2> QED BY <2>1, <2>2
<1>2. PICK lay \in [Buffers -> Layers] : OnePerLayer(with, lay)
  BY LayersOfFrame
<1>10. drop \in GivenBack(with)
  OBVIOUS
<1> HIDE DEF with
<1>3. \A b \in drop : b \in Buffers /\ with[b] + Pipeline <= s
  <2>1. drop \subseteq Buffers
    BY DEF GivenBack, HeldPlain
  <2> QED BY <1>10, <1>1, <1>2, <2>1, CapSparesPipeline
<1>4. Cardinality(HeldPlain(left)) <= MaxUnfenced
  BY <1>10, <1>1, CapHolds DEF Left
<1>5. OnePerLayer(left, lay)
  BY <1>2, <1>1 DEF OnePerLayer, Left
<1>6. Pipeline \in Nat \ {0}
  BY LimitsAssumption
<1>7. \A l \in some : scene[l] \in Buffers => left[scene[l]] = s
  BY <1>1, <1>3, <1>6 DEF Left
<1>8. \A b \in Buffers : held[b] # 0 /\ held[b] + Pipeline > s => left[b] >= held[b]
  BY <1>1, <1>3, <1>6 DEF Left
<1>9. left \in [Buffers -> Nat] /\ \A b \in Buffers : left[b] <= s /\ left[b] \in {0, s, held[b]}
  BY <1>1 DEF Left
<1> HIDE DEF left
<1>11. left = Left(PlainHolds(held, s, BufsOf(scene, some)), drop)
  BY DEF left, with
<1> QED BY <1>11, <1>4, <1>5, <1>7, <1>8, <1>9

\* What Taken does, in terms of the keys and the frame it gives.
LEMMA TakenKeeps ==
  ASSUME Inv, NEW v \in live, bound \in {v, None}, bound' = v, live' = live,
         NEW scene \in [Layers -> Buffers \cup {None}], attached' = attached \/ attached' = scene,
         Taken(v, scene)
  PROVE  Inv'
<1> DEFINE s == seq[v] + 1
           last == nextKey[v]
<1>1. PICK way \in [Layers -> {"fence", "unwatched", "plain"}] :
        /\ Hold(v, scene, way, s)
        /\ reading' = [reading EXCEPT ![v] = Reads(scene, way, last, s) \cup
             {r \in @ : r.key # 0 \/ r.seq + Pipeline > s}]
  BY DEF Taken
<1> DEFINE keyed == Keyed(scene, way)
           some == Top(scene) \ keyed
           with == PlainHolds(unfenced[v], s, BufsOf(scene, some))
           key(l) == KeyOf(last, keyed, l)
<1>2. PICK drop \in GivenBack(with) :
        unfenced' = [unfenced EXCEPT ![v] = Left(with, drop)]
  BY <1>1 DEF Hold, BufsOf, Left
<1> DEFINE left == Left(with, drop)
<1>3. /\ TypeOK /\ v \in Views /\ FramesInv(v) /\ KeysInv(v)
      /\ seq[v] \in Nat /\ s \in 1 .. MaxSeq /\ seq[v] < MaxSeq - 1 /\ MaxSeq \in Nat
      /\ v \in linked /\ Pipeline \in Nat \ {0}
  <2>1. v \in Views /\ seq[v] \in Nat
    BY DEF Inv, TypeOK
  <2>2. MaxSeq \in Nat /\ Pipeline \in Nat \ {0}
    BY LimitsAssumption
  <2>3. v \in linked /\ seq[v] < MaxSeq - 1
    BY DEF Taken
  <2> QED BY <2>1, <2>2, <2>3 DEF Inv
<1>4. /\ last \in Nat /\ Cardinality(keyed) \in Nat
      /\ last + Cardinality(keyed) <= s * NumLayers
      /\ last + Cardinality(keyed) \in Keys \cup {0}
      /\ \A l \in keyed : key(l) \in Keys /\ key(l) > last /\ key(l) <= last + Cardinality(keyed)
      /\ \A l \in Layers \ keyed : key(l) = 0
  BY <1>3, NewKeys
<1>5. /\ left \in [Buffers -> Nat]
      /\ \A b \in Buffers : left[b] <= s /\ left[b] \in {0, s, unfenced[v][b]}
      /\ Cardinality(HeldPlain(left)) <= MaxUnfenced
      /\ \E lay \in [Buffers -> Layers] : OnePerLayer(left, lay)
      /\ \A l \in some : scene[l] \in Buffers => left[scene[l]] = s
      /\ \A b \in Buffers :
           unfenced[v][b] # 0 /\ unfenced[v][b] + Pipeline > s => left[b] >= unfenced[v][b]
  <2>1. unfenced[v] \in [Buffers -> Nat]
    BY <1>3 DEF TypeOK
  <2>2. \A b \in Buffers : unfenced[v][b] < s
    BY <1>3, <2>1 DEF FramesInv
  <2>3. \E lay \in [Buffers -> Layers] : OnePerLayer(unfenced[v], lay)
    BY <1>3 DEF Inv
  <2>4. some \in SUBSET Layers /\ s \in Nat \ {0}
    BY <1>3 DEF Top
  <2>5. drop \in GivenBack(PlainHolds(unfenced[v], s, BufsOf(scene, some)))
    BY <1>2
  <2> HIDE DEF some, s
  <2> QED BY <2>1, <2>2, <2>3, <2>4, <2>5, PlainHoldsKept
<1>6. /\ seq' = [seq EXCEPT ![v] = s] /\ cleared' = [cleared EXCEPT ![v] = FALSE]
      /\ nextKey' = [nextKey EXCEPT ![v] = last + Cardinality(keyed)]
      /\ fenced' = [fenced EXCEPT ![v] = @ \cup KeyHolds(scene, way, last)]
      /\ sources' = sources \cup Watched(v, scene, way, last)
      /\ unfenced' = [unfenced EXCEPT ![v] = left]
      /\ UNCHANGED <<linked, onScreen, reports>>
  BY <1>1, <1>2 DEF Taken, Hold
<1>7. \A l \in Top(scene) : l \in Layers /\ scene[l] \in Buffers
  BY DEF Top
<1>8. \A r \in Reads(scene, way, last, s) : \E l \in Top(scene) :
        /\ r = [seq |-> s, buf |-> scene[l], key |-> key(l),
                kept |-> IF way[l] = "unwatched" THEN "unwatched" ELSE "held"]
        /\ scene[l] \in Buffers /\ key(l) \in Keys \cup {0}
  BY <1>4, <1>7 DEF Reads
<1>9. \A f \in KeyHolds(scene, way, last) : \E l \in keyed :
        way[l] = "fence" /\ f = [key |-> key(l), buf |-> scene[l]] /\ scene[l] \in Buffers
  BY <1>7 DEF KeyHolds, HeldByKey, Keyed
<1>10. \A w \in Watched(v, scene, way, last) : \E l \in keyed :
         way[l] = "fence" /\ w = [view |-> v, key |-> key(l), ready |-> FALSE]
  BY DEF Watched, Keyed
<1> HIDE DEF s, last, keyed, some, with, key, left
<1>11. TypeOK'
  <2>1. Reads(scene, way, last, s) \subseteq Read
    BY <1>3, <1>8 DEF Read
  <2>2. KeyHolds(scene, way, last) \subseteq [key : Keys, buf : Buffers]
    BY <1>4, <1>9
  <2>3. Watched(v, scene, way, last) \subseteq [view : Views, key : Keys, ready : BOOLEAN]
    <3> SUFFICES ASSUME NEW w \in Watched(v, scene, way, last)
                 PROVE  w \in [view : Views, key : Keys, ready : BOOLEAN]
      OBVIOUS
    <3>1. PICK l \in keyed : w = [view |-> v, key |-> key(l), ready |-> FALSE]
      BY <1>10
    <3>2. key(l) \in Keys
      BY <1>4
    <3> QED BY <1>3, <3>1, <3>2
  <2>4. left \in [Buffers -> 0 .. MaxSeq]
    BY <1>3, <1>5
  <2>5. reading' \in [Views -> SUBSET Read]
    BY <1>1, <1>3, <2>1 DEF TypeOK
  <2>6. fenced' \in [Views -> SUBSET [key : Keys, buf : Buffers]]
    BY <1>3, <1>6, <2>2 DEF TypeOK
  <2>7. \A w \in Views : Cardinality(HeldPlain(unfenced'[w])) <= MaxUnfenced
    BY <1>3, <1>5, <1>6 DEF TypeOK
  <2>8. unfenced' \in [Views -> [Buffers -> 0 .. MaxSeq]] /\ seq' \in [Views -> 0 .. MaxSeq]
    BY <1>3, <1>6, <2>4 DEF TypeOK
  <2>9. nextKey' \in [Views -> Keys \cup {0}] /\ cleared' \in [Views -> BOOLEAN]
    BY <1>3, <1>4, <1>6 DEF TypeOK
  <2>10. sources' \subseteq [view : Views, key : Keys, ready : BOOLEAN]
    BY <1>3, <1>6, <2>3 DEF TypeOK
  <2>11. bound' \in live' \cup {None} /\ attached' \in [Layers -> Buffers \cup {None}]
    BY <1>3 DEF TypeOK
  <2> QED BY <1>3, <1>6, <2>5, <2>6, <2>7, <2>8, <2>9, <2>10, <2>11 DEF TypeOK
<1>12. \A w \in Views \ {v} :
         /\ seq'[w] = seq[w] /\ cleared'[w] = cleared[w] /\ nextKey'[w] = nextKey[w] /\ fenced'[w] = fenced[w]
         /\ unfenced'[w] = unfenced[w] /\ reading'[w] = reading[w]
         /\ \A x \in sources' : x.view = w => x \in sources
  BY <1>1, <1>3, <1>6, <1>10 DEF TypeOK
<1>13. /\ seq'[v] = s /\ nextKey'[v] = last + Cardinality(keyed)
       /\ fenced'[v] = fenced[v] \cup KeyHolds(scene, way, last)
       /\ unfenced'[v] = left
       /\ reading'[v] = Reads(scene, way, last, s) \cup
                          {r \in reading[v] : r.key # 0 \/ r.seq + Pipeline > s}
  BY <1>1, <1>3, <1>6 DEF TypeOK
<1>14. \A w \in Views : FramesInv(w)'
  <2>1. \A w \in Views \ {v} : FramesInv(w)'
    BY <1>6, <1>12 DEF Inv, FramesInv
  <2>2. \A r \in reading'[v] : r.seq <= s /\ (r.key = 0 => r.seq >= onScreen[v])
    <3>1. onScreen[v] \in Nat /\ onScreen[v] <= s /\ seq[v] <= s
      BY <1>3 DEF TypeOK, FramesInv, s
    <3>2. \A r \in Reads(scene, way, last, s) : r.seq = s
      BY <1>8
    <3>3. \A r \in reading[v] : r.seq \in Nat /\ r.seq <= seq[v] /\ (r.key = 0 => r.seq >= onScreen[v])
      BY <1>3 DEF TypeOK, FramesInv, Read
    <3> QED BY <1>3, <1>13, <3>1, <3>2, <3>3
  <2>3. onScreen[v] <= s
    BY <1>3 DEF TypeOK, FramesInv, s
  <2>4. s < MaxSeq
    BY <1>3 DEF s
  <2>5. FramesInv(v)'
    BY <1>3, <1>5, <1>6, <1>13, <2>2, <2>3, <2>4 DEF FramesInv, Inv
  <2> QED BY <2>1, <2>5
<1>15. \A w \in Views : KeysInv(w)'
  <2>1. \A w \in Views \ {v} : KeysInv(w)'
    BY <1>12 DEF Inv, KeysInv
  <2>2. \A r \in reading[v] : r.key \in Nat /\ r.key <= last
    BY <1>3 DEF TypeOK, KeysInv, Read, Keys, last
  <2>3. \A r \in Reads(scene, way, last, s) :
          \/ r.key = 0
          \/ r.key \in Keys /\ r.key > last /\ r.key <= last + Cardinality(keyed)
    BY <1>4, <1>7, <1>8
  <2>4. \A x \in sources : x.view = v =>
          x.key \in Keys /\ x.key <= last /\ (x.ready => \A r \in reading[v] : r.key # x.key)
    BY <1>3 DEF TypeOK, KeysInv, last
  <2>5. \A x \in Watched(v, scene, way, last) : x.key <= last + Cardinality(keyed) /\ ~x.ready
    BY <1>4, <1>10
  <2>6. Keys \subseteq Nat \ {0}
    BY LimitsAssumption DEF Keys
  <2>7. \A r \in reading'[v] : r.key <= last + Cardinality(keyed)
    BY <1>4, <1>13, <2>2, <2>3
  <2>8. \A x \in sources' : x.view = v =>
          x.key <= last + Cardinality(keyed) /\ (x.ready => \A r \in reading'[v] : r.key # x.key)
    <3> SUFFICES ASSUME NEW x \in sources', x.view = v
                 PROVE  x.key <= last + Cardinality(keyed)
                        /\ (x.ready => \A r \in reading'[v] : r.key # x.key)
      OBVIOUS
    <3>1. CASE x \in sources
      <4>1. x.key \in Nat \ {0} /\ x.key <= last
        BY <2>4, <2>6, <3>1
      <4>2. \A r \in Reads(scene, way, last, s) : r.key # x.key
        BY <1>4, <2>3, <2>6, <4>1
      <4> QED BY <1>4, <1>13, <2>4, <3>1, <4>1, <4>2
    <3>2. CASE x \in Watched(v, scene, way, last)
      BY <2>5, <3>2
    <3> QED BY <1>6, <3>1, <3>2
  <2>9. KeysInv(v)'
    BY <1>4, <1>13, <2>7, <2>8 DEF KeysInv
  <2> QED BY <2>1, <2>9
<1>16. \A w \in Views : \E lay \in [Buffers -> Layers] : OnePerLayer(unfenced'[w], lay)
  BY <1>5, <1>12, <1>13 DEF Inv
<1>17. HeldWhileRead'
  <2>1. \A w \in Views \ {v} : \A r \in reading'[w] :
          r.kept = "held" => IF r.key # 0 THEN [key |-> r.key, buf |-> r.buf] \in fenced'[w]
                             ELSE unfenced'[w][r.buf] >= r.seq
    BY <1>12 DEF Inv, HeldWhileRead
  <2>2. ASSUME NEW r \in Reads(scene, way, last, s), r.kept = "held"
        PROVE  IF r.key # 0 THEN [key |-> r.key, buf |-> r.buf] \in KeyHolds(scene, way, last)
               ELSE left[r.buf] >= r.seq
    <3>1. PICK l \in Top(scene) :
            /\ r = [seq |-> s, buf |-> scene[l], key |-> key(l),
                    kept |-> IF way[l] = "unwatched" THEN "unwatched" ELSE "held"]
            /\ scene[l] \in Buffers
      BY <1>8
    <3>2. way[l] # "unwatched" /\ l \in Layers
      BY <2>2, <3>1, <1>7
    <3>3. CASE l \in keyed
      <4>1. way[l] = "fence" /\ key(l) # 0
        BY <1>4, <3>2, <3>3, LimitsAssumption DEF keyed, Keyed, Keys
      <4>2. [key |-> key(l), buf |-> scene[l]] \in KeyHolds(scene, way, last)
        BY <4>1 DEF KeyHolds, HeldByKey, key, keyed
      <4> QED BY <3>1, <4>1, <4>2
    <3>4. CASE l \notin keyed
      <4>1. l \in some /\ key(l) = 0
        BY <1>4, <3>2, <3>4 DEF some
      <4>2. left[scene[l]] = s
        BY <1>5, <3>1, <4>1
      <4> QED BY <1>3, <3>1, <4>1, <4>2
    <3> QED BY <3>3, <3>4
  <2>3. ASSUME NEW r \in reading[v], r.key # 0 \/ r.seq + Pipeline > s, r.kept = "held"
        PROVE  IF r.key # 0 THEN [key |-> r.key, buf |-> r.buf] \in fenced[v]
               ELSE left[r.buf] >= r.seq
    <3>1. r.buf \in Buffers /\ r.seq \in Nat \ {0} /\ unfenced[v][r.buf] \in Nat
      BY <1>3 DEF TypeOK, Read
    <3>2. r.key # 0 => [key |-> r.key, buf |-> r.buf] \in fenced[v]
      BY <1>3, <2>3 DEF Inv, HeldWhileRead
    <3>3. ASSUME r.key = 0
          PROVE  left[r.buf] >= r.seq
      <4>1. unfenced[v][r.buf] >= r.seq
        BY <1>3, <2>3, <3>3 DEF Inv, HeldWhileRead
      <4>2. unfenced[v][r.buf] + Pipeline > s /\ unfenced[v][r.buf] # 0
        BY <1>3, <2>3, <3>1, <3>3, <4>1 DEF s
      <4> QED BY <1>5, <3>1, <4>1, <4>2
    <3> QED BY <3>2, <3>3
  <2> QED BY <1>13, <2>1, <2>2, <2>3 DEF HeldWhileRead
<1>18. HeldForAReason'
  <2>1. \A w \in Views : \A f \in fenced'[w] : \E x \in sources' : x.view = w /\ x.key = f.key
    <3>1. \A f \in KeyHolds(scene, way, last) :
            \E x \in Watched(v, scene, way, last) : x.view = v /\ x.key = f.key
      <4> SUFFICES ASSUME NEW f \in KeyHolds(scene, way, last)
                   PROVE  \E x \in Watched(v, scene, way, last) : x.view = v /\ x.key = f.key
        OBVIOUS
      <4>1. PICK l \in keyed : way[l] = "fence" /\ f = [key |-> key(l), buf |-> scene[l]]
        BY <1>9
      <4>2. [view |-> v, key |-> key(l), ready |-> FALSE] \in Watched(v, scene, way, last)
        BY <4>1 DEF Watched, key, keyed, Keyed
      <4> QED BY <4>1, <4>2
    <3>2. \A w \in Views : \A f \in fenced[w] : \E x \in sources : x.view = w /\ x.key = f.key
      BY DEF Inv, HeldForAReason
    <3> QED BY <1>6, <1>12, <1>13, <3>1, <3>2
  <2>2. \A w \in Views : reports'[w] = <<>> =>
          \A b \in HeldPlain(unfenced'[w]) : unfenced'[w][b] >= onScreen'[w]
    <3>1. reports[v] = <<>> => \A b \in HeldPlain(left) : left[b] >= onScreen[v]
      <4>1. onScreen[v] \in Nat /\ onScreen[v] <= s
        BY <1>3 DEF TypeOK, FramesInv, s
      <4>2. reports[v] = <<>> => \A b \in Buffers : unfenced[v][b] # 0 => unfenced[v][b] >= onScreen[v]
        BY <1>3 DEF Inv, HeldForAReason, HeldPlain
      <4> QED BY <1>3, <1>5, <4>1, <4>2 DEF HeldPlain
    <3> QED BY <1>6, <1>12, <1>13, <3>1 DEF Inv, HeldForAReason
  <2>3. \A w \in Views \ {bound'} : fenced'[w] = {} /\ HeldPlain(unfenced'[w]) = {}
    <3>1. \A w \in Views \ {v} : w \in Views \ {bound}
      BY NoneAssumption
    <3> QED BY <1>12, <3>1 DEF Inv, HeldForAReason
  <2> QED BY <2>1, <2>2, <2>3 DEF HeldForAReason
<1> QED BY <1>3, <1>6, <1>11, <1>14, <1>15, <1>16, <1>17, <1>18 DEF Inv

-----------------------------------------------------------------------------
(* The other steps *)

\* Where buffers are only handed back, the limit and the layers hold on.
LEMMA Fewer ==
  ASSUME NEW held \in [Buffers -> Nat], NEW left \in [Buffers -> Nat],
         \A b \in Buffers : left[b] \in {0, held[b]}
  PROVE  /\ Cardinality(HeldPlain(held)) <= MaxUnfenced => Cardinality(HeldPlain(left)) <= MaxUnfenced
         /\ \A lay : OnePerLayer(held, lay) => OnePerLayer(left, lay)
<1>1. HeldPlain(left) \subseteq HeldPlain(held)
  BY DEF HeldPlain
<1>2. /\ Cardinality(HeldPlain(left)) \in Nat /\ Cardinality(HeldPlain(held)) \in Nat
      /\ Cardinality(HeldPlain(left)) <= Cardinality(HeldPlain(held))
  BY <1>1, HeldFinite, FS_Subset
<1>3. MaxUnfenced \in Nat
  BY LimitsAssumption
<1>4. \A lay : OnePerLayer(held, lay) => OnePerLayer(left, lay)
  BY DEF OnePerLayer
<1> QED BY <1>2, <1>3, <1>4

\* clear_view's frame is numbered once.
LEMMA ClearedCounts ==
  ASSUME Inv, NEW v \in Views, Cleared(v)
  PROVE  /\ seq' \in [Views -> 0 .. MaxSeq] /\ cleared' \in [Views -> BOOLEAN]
         /\ \A w \in Views : /\ seq'[w] >= seq[w]
                             /\ ~cleared'[w] /\ seq'[w] # 0 => seq'[w] < MaxSeq
<1>1. seq \in [Views -> 0 .. MaxSeq] /\ cleared \in [Views -> BOOLEAN] /\ MaxSeq \in Nat
  BY LimitsAssumption DEF Inv, TypeOK
<1>2. \A w \in Views : ~cleared[w] /\ seq[w] # 0 => seq[w] < MaxSeq
  BY DEF Inv, FramesInv
<1>3. CASE UNCHANGED <<seq, cleared>>
  BY <1>1, <1>2, <1>3
<1>4. CASE /\ ~cleared[v] /\ seq[v] # 0
           /\ seq' = [seq EXCEPT ![v] = @ + 1] /\ cleared' = [cleared EXCEPT ![v] = TRUE]
  <2>1. seq[v] + 1 \in 0 .. MaxSeq
    BY <1>1, <1>2, <1>4
  <2>2. seq'[v] = seq[v] + 1 /\ cleared'[v] /\ \A w \in Views \ {v} : seq'[w] = seq[w] /\ cleared'[w] = cleared[w]
    BY <1>1, <1>4
  <2>3. seq' \in [Views -> 0 .. MaxSeq] /\ cleared' \in [Views -> BOOLEAN]
    BY <1>1, <1>4, <2>1
  <2> QED BY <1>1, <1>2, <2>2, <2>3
<1> QED BY <1>3, <1>4 DEF Cleared

\* A step that holds and hands back nothing, by a view that shows the toplevel.
LEMMA CountingKeeps ==
  ASSUME Inv,
         seq' \in [Views -> 0 .. MaxSeq], cleared' \in [Views -> BOOLEAN],
         \A w \in Views : seq'[w] >= seq[w] /\ (~cleared'[w] /\ seq'[w] # 0 => seq'[w] < MaxSeq),
         attached' \in [Layers -> Buffers \cup {None}],
         bound' \in live \cup {None}, bound \in {bound', None},
         UNCHANGED <<live, nextKey, fenced, unfenced, sources, shellVars>>
  PROVE  Inv'
<1>1. TypeOK /\ seq \in [Views -> 0 .. MaxSeq] /\ NumLayers \in Nat /\ MaxSeq \in Nat
  BY LimitsAssumption DEF Inv, TypeOK
<1>2. UNCHANGED <<live, nextKey, fenced, unfenced, sources, linked, reading, onScreen, reports>>
  BY DEF shellVars
<1>3. TypeOK'
  BY <1>1, <1>2 DEF TypeOK
<1>4. \A w \in Views : FramesInv(w)'
  <2> SUFFICES ASSUME NEW w \in Views PROVE FramesInv(w)'
    OBVIOUS
  <2>1. FramesInv(w) /\ seq[w] \in Nat /\ seq'[w] \in Nat /\ seq[w] <= seq'[w] /\ onScreen[w] \in Nat
    BY <1>1 DEF Inv, TypeOK
  <2>2. \A r \in reading[w] : r.seq \in Nat /\ r.seq <= seq'[w]
    BY <1>1, <2>1 DEF TypeOK, Read, FramesInv
  <2>3. \A b \in Buffers : unfenced[w][b] <= seq'[w]
    BY <1>1, <2>1 DEF TypeOK, FramesInv
  <2> QED BY <1>2, <2>1, <2>2, <2>3 DEF FramesInv
<1>5. \A w \in Views : KeysInv(w)'
  <2> SUFFICES ASSUME NEW w \in Views PROVE KeysInv(w)'
    OBVIOUS
  <2>1. KeysInv(w) /\ seq[w] \in Nat /\ seq'[w] \in Nat /\ seq[w] <= seq'[w]
    BY <1>1 DEF Inv
  <2>2. /\ seq[w] * NumLayers <= seq'[w] * NumLayers
        /\ seq[w] * NumLayers \in Nat /\ seq'[w] * NumLayers \in Nat
    BY <1>1, <2>1, Product
  <2>3. nextKey[w] \in Nat
    BY <1>1, Counted
  <2>4. nextKey[w] <= seq'[w] * NumLayers
    BY <2>1, <2>2, <2>3 DEF KeysInv
  <2> QED BY <1>2, <2>1, <2>4 DEF KeysInv
<1>6. HeldWhileRead'
  BY <1>2 DEF Inv, HeldWhileRead
<1>7. HeldForAReason'
  <2>1. \A w \in Views \ {bound'} : w \in Views \ {bound}
    BY NoneAssumption
  <2>2. \A w \in Views \ {bound'} : fenced[w] = {} /\ HeldPlain(unfenced[w]) = {}
    BY <2>1 DEF Inv, HeldForAReason
  <2>3. /\ \A w \in Views : \A f \in fenced[w] : \E x \in sources : x.view = w /\ x.key = f.key
        /\ \A w \in Views : reports[w] = <<>> =>
             \A b \in HeldPlain(unfenced[w]) : unfenced[w][b] >= onScreen[w]
    BY DEF Inv, HeldForAReason
  <2>4. \A w \in Views : \A f \in fenced'[w] : \E x \in sources' : x.view = w /\ x.key = f.key
    BY <1>2, <2>3
  <2>5. \A w \in Views : reports'[w] = <<>> =>
          \A b \in HeldPlain(unfenced'[w]) : unfenced'[w][b] >= onScreen'[w]
    BY <1>2, <2>3
  <2>6. \A w \in Views \ {bound'} : fenced'[w] = {} /\ HeldPlain(unfenced'[w]) = {}
    BY <1>2, <2>2
  <2> QED BY <2>4, <2>5, <2>6 DEF HeldForAReason
<1> QED BY <1>2, <1>3, <1>4, <1>5, <1>6, <1>7 DEF Inv

\* submit_tree, for a view that shows the toplevel or comes to.
LEMMA SubmitKeeps ==
  ASSUME Inv, NEW v \in live, bound \in {v, None}, bound' = v, live' = live,
         NEW scene \in [Layers -> Buffers \cup {None}], attached' = attached \/ attached' = scene,
         Submit(v, scene)
  PROVE  Inv'
<1>1. v \in Views /\ attached' \in [Layers -> Buffers \cup {None}] /\ bound' \in live \cup {None}
      /\ bound \in {bound', None}
  BY DEF Inv, TypeOK
<1>2. CASE Taken(v, scene)
  BY <1>2, TakenKeeps
<1>3. CASE Refused
  <2>1. UNCHANGED <<seq, cleared, live, nextKey, fenced, unfenced, sources, shellVars>>
    BY <1>3 DEF Refused, holdVars
  <2>2. /\ seq' \in [Views -> 0 .. MaxSeq] /\ cleared' \in [Views -> BOOLEAN]
        /\ \A w \in Views : seq'[w] >= seq[w] /\ (~cleared'[w] /\ seq'[w] # 0 => seq'[w] < MaxSeq)
    BY <2>1, LimitsAssumption DEF Inv, TypeOK, FramesInv
  <2> QED BY <1>1, <2>1, <2>2, CountingKeeps
<1>4. CASE Cleared(v) /\ UNCHANGED <<nextKey, fenced, unfenced, sources, shellVars>>
  <2>1. /\ seq' \in [Views -> 0 .. MaxSeq] /\ cleared' \in [Views -> BOOLEAN]
        /\ \A w \in Views : seq'[w] >= seq[w] /\ (~cleared'[w] /\ seq'[w] # 0 => seq'[w] < MaxSeq)
    BY <1>1, <1>4, ClearedCounts
  <2> QED BY <1>1, <1>4, <2>1, CountingKeeps
<1> QED BY <1>2, <1>3, <1>4 DEF Submit

LEMMA CommitKeeps ==
  ASSUME Inv, NEW scene \in [Layers -> Buffers \cup {None}], Commit(scene)
  PROVE  Inv'
<1>1. attached' = scene /\ live' = live /\ bound' = bound
  BY DEF Commit, viewVars
<1>2. CASE bound = None
  <2>1. UNCHANGED <<seq, cleared, live, nextKey, fenced, unfenced, sources, shellVars>>
    BY <1>1, <1>2 DEF Commit, holdVars
  <2>2. /\ seq' \in [Views -> 0 .. MaxSeq] /\ cleared' \in [Views -> BOOLEAN]
        /\ \A w \in Views : seq'[w] >= seq[w] /\ (~cleared'[w] /\ seq'[w] # 0 => seq'[w] < MaxSeq)
    BY <2>1, LimitsAssumption DEF Inv, TypeOK, FramesInv
  <2>3. bound' \in live \cup {None} /\ bound \in {bound', None}
    BY <1>1, <1>2
  <2> QED BY <1>1, <2>1, <2>2, <2>3, CountingKeeps
<1>3. CASE bound # None
  <2>1. bound \in live /\ Submit(bound, scene)
    BY <1>3 DEF Inv, TypeOK, Commit
  <2> QED BY <1>1, <2>1, SubmitKeeps
<1> QED BY <1>2, <1>3

LEMMA BindKeeps ==
  ASSUME Inv, NEW v \in Views, Bind(v)
  PROVE  Inv'
<1>1. v \in live /\ bound = None /\ bound' = v /\ UNCHANGED <<live, attached>> /\ Submit(v, attached)
  BY DEF Bind
<1>2. attached \in [Layers -> Buffers \cup {None}]
  BY DEF Inv, TypeOK
<1> QED BY <1>1, <1>2, SubmitKeeps

\* What Append and Tail do to a sequence.
LEMMA Appended ==
  ASSUME NEW S, NEW q \in Seq(S), NEW e \in S
  PROVE  /\ Append(q, e) \in Seq(S) /\ Append(q, e) # <<>>
         /\ Len(q) \in Nat /\ Len(Append(q, e)) = Len(q) + 1
         /\ Append(q, e)[Len(q) + 1] = e
         /\ \A i \in 1 .. Len(q) : Append(q, e)[i] = q[i]
BY AppendProperties, LenProperties

LEMMA Tailed ==
  ASSUME NEW S, NEW q \in Seq(S), q # <<>>
  PROVE  /\ Tail(q) \in Seq(S) /\ Len(q) \in Nat \ {0} /\ Len(Tail(q)) = Len(q) - 1
         /\ Tail(q) # <<>> <=> Len(q) # 1
         /\ \A i \in 1 .. Len(q) - 1 : Tail(q)[i] = q[i + 1]
         /\ Head(q) = q[1] /\ Head(q) \in S
<1>1. Len(q) \in Nat \ {0}
  BY EmptySeq, LenProperties
<1>2. /\ Tail(q) \in Seq(S) /\ Len(Tail(q)) = Len(q) - 1 /\ Head(q) \in S
      /\ \A i \in 1 .. Len(q) - 1 : Tail(q)[i] = q[i + 1]
  BY HeadTailProperties
<1>3. Tail(q) # <<>> <=> Len(q) # 1
  <2>1. Tail(q) # <<>> => Len(Tail(q)) \in Nat \ {0}
    BY <1>2, EmptySeq
  <2>2. Tail(q) = <<>> => Len(Tail(q)) = 0
    BY EmptySeq
  <2> QED BY <1>1, <1>2, <2>1, <2>2
<1>4. Head(q) = q[1]
  OBVIOUS
<1> QED BY <1>1, <1>2, <1>3, <1>4

LEMMA FenceSignalsKeeps ==
  ASSUME Inv, NEW v \in Views, NEW key \in Keys, FenceSignals(v, key)
  PROVE  Inv'
<1> DEFINE waiting == {s \in sources : s.view = v /\ s.key = key}
           told == {[s EXCEPT !.ready = TRUE] : s \in waiting}
<1>1. /\ TypeOK /\ key \in Nat \ {0}
      /\ reading' = [reading EXCEPT ![v] = {r \in @ : r.key # key}]
      /\ sources' = (sources \ waiting) \cup told
      /\ UNCHANGED <<live, bound, seq, cleared, nextKey, fenced, unfenced, linked, onScreen,
                     reports, attached>>
  BY LimitsAssumption DEF Inv, FenceSignals, viewVars, Keys
<1>2. \A w \in Views \ {v} : reading'[w] = reading[w]
  BY <1>1 DEF TypeOK
<1>3. reading'[v] = {r \in reading[v] : r.key # key}
  BY <1>1 DEF TypeOK
<1>4. \A x \in told : x.view = v /\ x.key = key /\ x.ready
                      /\ x \in [view : Views, key : Keys, ready : BOOLEAN]
                      /\ \E s \in sources : s.view = v /\ s.key = key
  <2> SUFFICES ASSUME NEW s \in waiting, NEW x, x = [s EXCEPT !.ready = TRUE]
               PROVE  /\ x.view = v /\ x.key = key /\ x.ready
                      /\ x \in [view : Views, key : Keys, ready : BOOLEAN]
    OBVIOUS
  <2>1. s \in [view : Views, key : Keys, ready : BOOLEAN] /\ s.view = v /\ s.key = key
    BY <1>1 DEF TypeOK
  <2> QED BY <2>1
<1>5. \A s \in waiting : \E x \in told : x.view = v /\ x.key = key
  <2> SUFFICES ASSUME NEW s \in waiting PROVE \E x \in told : x.view = v /\ x.key = key
    OBVIOUS
  <2>1. [s EXCEPT !.ready = TRUE] \in told
    OBVIOUS
  <2> QED BY <1>4, <2>1
<1> HIDE DEF told
<1>6. TypeOK'
  <2>1. reading' \in [Views -> SUBSET Read] /\ sources' \subseteq [view : Views, key : Keys, ready : BOOLEAN]
    BY <1>1, <1>4 DEF TypeOK
  <2> QED BY <1>1, <2>1 DEF TypeOK
<1>7. \A w \in Views : FramesInv(w)'
  BY <1>1, <1>2, <1>3 DEF Inv, FramesInv
<1>8. \A w \in Views : KeysInv(w)'
  <2>1. \A w \in Views : \A x \in sources' : x.view = w =>
          x.key <= nextKey[w] /\ (x.ready => \A r \in reading'[w] : r.key # x.key)
    BY <1>1, <1>2, <1>3, <1>4 DEF Inv, KeysInv
  <2> QED BY <1>1, <1>2, <1>3, <2>1 DEF Inv, KeysInv
<1>9. HeldWhileRead'
  BY <1>1, <1>2, <1>3 DEF Inv, HeldWhileRead
<1>10. HeldForAReason'
  <2>1. \A w \in Views : \A f \in fenced[w] : \E x \in sources' : x.view = w /\ x.key = f.key
    <3> SUFFICES ASSUME NEW w \in Views, NEW f \in fenced[w]
                 PROVE  \E x \in sources' : x.view = w /\ x.key = f.key
      OBVIOUS
    <3>1. PICK s \in sources : s.view = w /\ s.key = f.key
      BY DEF Inv, HeldForAReason
    <3> QED BY <1>1, <1>5, <3>1
  <2> QED BY <1>1, <2>1 DEF Inv, HeldForAReason
<1> QED BY <1>1, <1>6, <1>7, <1>8, <1>9, <1>10 DEF Inv

LEMMA SignalledKeeps ==
  ASSUME Inv, NEW s \in sources, Signalled(s)
  PROVE  Inv'
<1>1. /\ TypeOK /\ s.view \in Views /\ s.key \in Keys /\ s.ready
      /\ sources' = sources \ {s}
      /\ fenced' = [fenced EXCEPT ![s.view] = {f \in @ : f.key # s.key}]
      /\ UNCHANGED <<live, bound, seq, cleared, nextKey, unfenced, linked, reading, onScreen,
                     reports, attached>>
  BY DEF Inv, TypeOK, Signalled, viewVars, shellVars
<1>2. /\ fenced'[s.view] = {f \in fenced[s.view] : f.key # s.key}
      /\ \A w \in Views \ {s.view} : fenced'[w] = fenced[w]
      /\ \A w \in Views : fenced'[w] \subseteq fenced[w]
  BY <1>1 DEF TypeOK
<1>3. TypeOK'
  BY <1>1 DEF TypeOK
<1>4. \A w \in Views : FramesInv(w)' /\ KeysInv(w)'
  BY <1>1 DEF Inv, FramesInv, KeysInv
<1>5. HeldWhileRead'
  <2>1. \A r \in reading[s.view] : r.key # s.key
    BY <1>1 DEF Inv, KeysInv
  <2> QED BY <1>1, <1>2, <2>1 DEF Inv, HeldWhileRead
<1>6. HeldForAReason'
  <2>1. \A w \in Views : \A f \in fenced'[w] : \E x \in sources' : x.view = w /\ x.key = f.key
    <3> SUFFICES ASSUME NEW w \in Views, NEW f \in fenced'[w]
                 PROVE  \E x \in sources' : x.view = w /\ x.key = f.key
      OBVIOUS
    <3>1. f \in fenced[w]
      BY <1>2
    <3>2. PICK x \in sources : x.view = w /\ x.key = f.key
      BY <3>1 DEF Inv, HeldForAReason
    <3> QED BY <1>1, <1>2, <3>2
  <2>2. \A w \in Views \ {bound} : fenced'[w] = {}
    BY <1>2 DEF Inv, HeldForAReason
  <2> QED BY <1>1, <2>1, <2>2 DEF Inv, HeldForAReason
<1> QED BY <1>1, <1>3, <1>4, <1>5, <1>6 DEF Inv

LEMMA ShowsKeeps ==
  ASSUME Inv, NEW v \in Views, NEW s \in 1 .. MaxSeq, Shows(v, s)
  PROVE  Inv'
<1>1. /\ TypeOK /\ v \in linked /\ s > onScreen[v] /\ s <= seq[v] /\ s \in Nat
      /\ onScreen[v] \in Nat /\ seq[v] \in Nat /\ reports[v] \in Seq(1 .. MaxSeq)
      /\ onScreen' = [onScreen EXCEPT ![v] = s]
      /\ reading' = [reading EXCEPT ![v] = {r \in @ : r.key # 0 \/ r.seq >= s}]
      /\ reports' = [reports EXCEPT ![v] = Append(@, s)]
      /\ UNCHANGED <<live, bound, linked, attached, seq, cleared, nextKey, fenced, unfenced, sources>>
  <2>1. TypeOK /\ MaxSeq \in Nat
    BY LimitsAssumption DEF Inv
  <2>2. onScreen[v] \in 0 .. MaxSeq /\ reports[v] \in Seq(1 .. MaxSeq)
    BY <2>1 DEF TypeOK
  <2>3. v \in linked /\ s \in onScreen[v] + 1 .. seq[v]
    BY DEF Shows
  <2>4. /\ onScreen' = [onScreen EXCEPT ![v] = s]
        /\ reading' = [reading EXCEPT ![v] = {r \in @ : r.key # 0 \/ r.seq >= s}]
        /\ reports' = [reports EXCEPT ![v] = Append(@, s)]
        /\ UNCHANGED <<live, bound, linked, attached, seq, cleared, nextKey, fenced, unfenced, sources>>
    BY DEF Shows, serverVars, viewVars, holdVars
  <2>5. onScreen[v] \in Nat /\ seq[v] \in Nat /\ s \in Nat
    BY <2>1, <2>2, Counted
  <2> QED BY <2>1, <2>2, <2>3, <2>4, <2>5
<1>2. /\ onScreen'[v] = s /\ reports'[v] = Append(reports[v], s)
      /\ reading'[v] = {r \in reading[v] : r.key # 0 \/ r.seq >= s}
      /\ \A w \in Views \ {v} : /\ onScreen'[w] = onScreen[w] /\ reports'[w] = reports[w]
                               /\ reading'[w] = reading[w]
  BY <1>1 DEF TypeOK
<1>3. /\ reports'[v] \in Seq(1 .. MaxSeq) /\ Len(reports'[v]) = Len(reports[v]) + 1
      /\ reports'[v][Len(reports'[v])] = s
      /\ \A i \in 1 .. Len(reports[v]) : reports'[v][i] = reports[v][i]
      /\ reports'[v] # <<>>
  <2>1. s \in 1 .. MaxSeq /\ reports[v] \in Seq(1 .. MaxSeq)
    BY <1>1
  <2>2. LET q == Append(reports[v], s)
        IN /\ q \in Seq(1 .. MaxSeq) /\ q # <<>> /\ Len(q) = Len(reports[v]) + 1
           /\ q[Len(reports[v]) + 1] = s /\ \A i \in 1 .. Len(reports[v]) : q[i] = reports[v][i]
    BY <2>1, Appended
  <2> QED BY <1>2, <2>2
<1>4. TypeOK'
  <2>1. onScreen' \in [Views -> 0 .. MaxSeq] /\ reading' \in [Views -> SUBSET Read]
    BY <1>1, LimitsAssumption DEF TypeOK
  <2>2. reports' \in [Views -> Seq(1 .. MaxSeq)]
    BY <1>1, <1>2, <1>3 DEF TypeOK
  <2> QED BY <1>1, <2>1, <2>2 DEF TypeOK
<1>5. \A w \in Views : FramesInv(w)'
  <2>1. \A w \in Views \ {v} : FramesInv(w)'
    BY <1>1, <1>2 DEF Inv, FramesInv
  <2>2. \A i \in 1 .. Len(reports'[v]) : reports'[v][i] <= s
    <3>1. \A i \in 1 .. Len(reports[v]) : reports[v][i] \in Nat /\ reports[v][i] <= onScreen[v]
      <4>1. \A i \in 1 .. Len(reports[v]) : reports[v][i] \in 1 .. MaxSeq
        BY <1>1, ElementOfSeq
      <4>2. 1 .. MaxSeq \subseteq Nat
        BY LimitsAssumption
      <4>3. \A i \in 1 .. Len(reports[v]) : reports[v][i] <= onScreen[v]
        BY <1>1 DEF Inv, FramesInv
      <4> QED BY <4>1, <4>2, <4>3
    <3>2. \A i \in 1 .. Len(reports'[v]) : i \in 1 .. Len(reports[v]) \/ i = Len(reports'[v])
      BY <1>1, <1>3
    <3> QED BY <1>1, <1>3, <3>1, <3>2
  <2>3. FramesInv(v)
    BY DEF Inv
  <2>4. FramesInv(v)'
    BY <1>1, <1>2, <1>3, <2>2, <2>3 DEF Inv, FramesInv
  <2> QED BY <2>1, <2>4
<1>6. \A w \in Views : KeysInv(w)'
  <2>1. \A w \in Views : reading'[w] \subseteq reading[w]
    BY <1>2
  <2> QED BY <1>1, <2>1 DEF Inv, KeysInv
<1>7. HeldWhileRead'
  BY <1>1, <1>2 DEF Inv, HeldWhileRead
<1>8. HeldForAReason'
  <2>1. \A w \in Views : \A f \in fenced'[w] : \E x \in sources' : x.view = w /\ x.key = f.key
    BY <1>1 DEF Inv, HeldForAReason
  <2>2. \A w \in Views : reports'[w] = <<>> =>
          \A b \in HeldPlain(unfenced'[w]) : unfenced'[w][b] >= onScreen'[w]
    BY <1>1, <1>2, <1>3 DEF Inv, HeldForAReason
  <2>3. \A w \in Views \ {bound'} : fenced'[w] = {} /\ HeldPlain(unfenced'[w]) = {}
    BY <1>1 DEF Inv, HeldForAReason
  <2> QED BY <2>1, <2>2, <2>3 DEF HeldForAReason
<1> QED BY <1>1, <1>4, <1>5, <1>6, <1>7, <1>8 DEF Inv

LEMMA PresentedKeeps ==
  ASSUME Inv, NEW v \in Views, Presented(v)
  PROVE  Inv'
<1> DEFINE first == Head(reports[v])
           left == [b \in Buffers |-> IF unfenced[v][b] >= first THEN unfenced[v][b] ELSE 0]
<1>1. /\ TypeOK /\ reports[v] # <<>> /\ reports[v] \in Seq(1 .. MaxSeq)
      /\ reports' = [reports EXCEPT ![v] = Tail(@)]
      /\ unfenced' = [unfenced EXCEPT ![v] = left]
      /\ UNCHANGED <<live, bound, seq, cleared, nextKey, fenced, sources, linked, reading, onScreen,
                     attached>>
  BY DEF Inv, TypeOK, Presented, viewVars
<1>2. /\ reports'[v] = Tail(reports[v]) /\ unfenced'[v] = left
      /\ \A w \in Views \ {v} : reports'[w] = reports[w] /\ unfenced'[w] = unfenced[w]
  BY <1>1 DEF TypeOK
<1>3. /\ Tail(reports[v]) \in Seq(1 .. MaxSeq) /\ Len(Tail(reports[v])) = Len(reports[v]) - 1
      /\ Len(reports[v]) \in Nat \ {0}
      /\ \A i \in 1 .. Len(reports[v]) - 1 : Tail(reports[v])[i] = reports[v][i + 1]
      /\ Tail(reports[v]) # <<>> <=> Len(reports[v]) # 1
      /\ first = reports[v][1] /\ first \in Nat
  <2>1. 1 .. MaxSeq \subseteq Nat
    BY LimitsAssumption
  <2> QED BY <1>1, <2>1, Tailed
<1>4. unfenced[v] \in [Buffers -> 0 .. MaxSeq] /\ MaxSeq \in Nat
  BY <1>1, LimitsAssumption DEF TypeOK
<1>5. /\ left \in [Buffers -> 0 .. MaxSeq] /\ \A b \in Buffers : left[b] \in {0, unfenced[v][b]}
  BY <1>4
<1>6. /\ Cardinality(HeldPlain(left)) <= MaxUnfenced
      /\ \A lay : OnePerLayer(unfenced[v], lay) => OnePerLayer(left, lay)
  <2>1. Cardinality(HeldPlain(unfenced[v])) <= MaxUnfenced
    BY <1>1 DEF TypeOK
  <2> QED BY <1>4, <1>5, <2>1, Fewer
<1>7. v \in linked => first <= onScreen[v]
  BY <1>1, <1>3 DEF Inv, FramesInv
<1>8. v \notin linked => reading[v] = {} /\ onScreen[v] = 0
  BY DEF Inv, FramesInv
<1>9. TypeOK'
  <2>1. reports' \in [Views -> Seq(1 .. MaxSeq)]
    BY <1>1, <1>3 DEF TypeOK
  <2>2. unfenced' \in [Views -> [Buffers -> 0 .. MaxSeq]]
    BY <1>1, <1>5 DEF TypeOK
  <2>3. \A w \in Views : Cardinality(HeldPlain(unfenced'[w])) <= MaxUnfenced
    BY <1>1, <1>2, <1>6 DEF TypeOK
  <2> QED BY <1>1, <2>1, <2>2, <2>3 DEF TypeOK
<1>10. \A w \in Views : FramesInv(w)'
  <2>1. \A w \in Views \ {v} : FramesInv(w)'
    BY <1>1, <1>2 DEF Inv, FramesInv
  <2>2. FramesInv(v)
    BY DEF Inv
  <2>3. \A b \in Buffers : left[b] <= seq[v]
    BY <1>1, <1>4, <1>5, <2>2 DEF FramesInv, TypeOK
  <2>4. v \in linked => \A i \in 1 .. Len(reports'[v]) : reports'[v][i] <= onScreen[v]
    <3>1. v \in linked => \A i \in 1 .. Len(reports[v]) : reports[v][i] <= onScreen[v]
      BY <2>2 DEF FramesInv
    <3>2. \A i \in 1 .. Len(reports'[v]) : i + 1 \in 1 .. Len(reports[v]) /\ reports'[v][i] = reports[v][i + 1]
      BY <1>2, <1>3
    <3> QED BY <3>1, <3>2
  <2>5. v \in linked /\ reports'[v] # <<>> => reports'[v][Len(reports'[v])] = onScreen[v]
    <3>1. reports'[v] # <<>> => Len(reports'[v]) \in 1 .. Len(reports[v]) - 1
      BY <1>2, <1>3
    <3> QED BY <1>1, <1>2, <1>3, <2>2, <3>1 DEF FramesInv
  <2> QED BY <1>1, <1>2, <2>1, <2>2, <2>3, <2>4, <2>5 DEF FramesInv
<1>11. \A w \in Views : KeysInv(w)'
  BY <1>1 DEF Inv, KeysInv
<1>12. \A w \in Views : \E lay \in [Buffers -> Layers] : OnePerLayer(unfenced'[w], lay)
  BY <1>2, <1>6 DEF Inv
<1>13. HeldWhileRead'
  <2>1. ASSUME NEW r \in reading[v], r.kept = "held", r.key = 0
        PROVE  left[r.buf] >= r.seq
    <3>1. r.buf \in Buffers /\ r.seq \in Nat /\ unfenced[v][r.buf] \in Nat /\ onScreen[v] \in Nat
      <4>1. r \in Read /\ onScreen[v] \in 0 .. MaxSeq /\ unfenced[v] \in [Buffers -> 0 .. MaxSeq]
        BY <1>1 DEF TypeOK
      <4>2. MaxSeq \in Nat
        BY LimitsAssumption
      <4> QED BY <4>1, <4>2 DEF Read
    <3>2. unfenced[v][r.buf] >= r.seq /\ r.seq >= onScreen[v] /\ v \in linked
      BY <1>8, <2>1 DEF Inv, HeldWhileRead, FramesInv
    <3> QED BY <1>3, <1>7, <3>1, <3>2
  <2> QED BY <1>1, <1>2, <2>1 DEF Inv, HeldWhileRead
<1>14. HeldForAReason'
  <2>1. reports'[v] = <<>> => \A b \in HeldPlain(left) : left[b] >= onScreen[v]
    <3>1. reports'[v] = <<>> => Len(reports[v]) = 1
      BY <1>2, <1>3
    <3>2. reports'[v] = <<>> /\ v \in linked => first = onScreen[v]
      BY <1>1, <1>3, <3>1 DEF Inv, FramesInv
    <3>3. \A b \in HeldPlain(left) : left[b] >= first /\ left[b] \in Nat
      BY <1>4, <1>5 DEF HeldPlain
    <3> QED BY <1>8, <3>2, <3>3
  <2>2. \A w \in Views : reports'[w] = <<>> =>
          \A b \in HeldPlain(unfenced'[w]) : unfenced'[w][b] >= onScreen[w]
    BY <1>2, <2>1 DEF Inv, HeldForAReason
  <2>3. \A w \in Views \ {bound} : HeldPlain(unfenced'[w]) = {}
    BY <1>2, <1>5 DEF Inv, HeldForAReason, HeldPlain
  <2>4. \A w \in Views : \A f \in fenced'[w] : \E x \in sources' : x.view = w /\ x.key = f.key
    BY <1>1 DEF Inv, HeldForAReason
  <2>5. \A w \in Views : reports'[w] = <<>> =>
          \A b \in HeldPlain(unfenced'[w]) : unfenced'[w][b] >= onScreen'[w]
    BY <1>1, <2>2
  <2>6. \A w \in Views \ {bound'} : fenced'[w] = {} /\ HeldPlain(unfenced'[w]) = {}
    BY <1>1, <2>3 DEF Inv, HeldForAReason
  <2> QED BY <2>4, <2>5, <2>6 DEF HeldForAReason
<1> QED BY <1>1, <1>9, <1>10, <1>11, <1>12, <1>13, <1>14 DEF Inv

\* Holds::clear, with what the shell goes on reading left unheld.
LEMMA UnheldKeeps ==
  ASSUME Inv, NEW v \in Views, Unheld(v),
         seq' \in [Views -> 0 .. MaxSeq], cleared' \in [Views -> BOOLEAN],
         nextKey' \in [Views -> Keys \cup {0}],
         \A w \in Views \ {v} : seq'[w] >= seq[w] /\ nextKey'[w] = nextKey[w],
         \A w \in Views : ~cleared'[w] /\ seq'[w] # 0 => seq'[w] < MaxSeq,
         \/ seq'[v] >= seq[v] /\ nextKey'[v] = nextKey[v]
         \/ seq'[v] = 0 /\ nextKey'[v] = 0 /\ v \notin linked,
         reading' \in [Views -> SUBSET Read],
         \A w \in Views \ {v} : reading'[w] = reading[w],
         \A r \in reading'[v] : r.kept # "held" /\ \E x \in reading[v] : r.seq = x.seq /\ r.key = x.key,
         bound' = (IF bound = v THEN None ELSE bound),
         live' \in SUBSET live, bound' \in live' \cup {None}, linked \subseteq live',
         \A w \in live \ live' : reports[w] = <<>>,
         UNCHANGED <<linked, onScreen, reports, attached>>
  PROVE  Inv'
<1>1. /\ TypeOK /\ MaxSeq \in Nat /\ NumLayers \in Nat
      /\ fenced'[v] = {} /\ unfenced'[v] = [b \in Buffers |-> 0]
      /\ \A w \in Views \ {v} : fenced'[w] = fenced[w] /\ unfenced'[w] = unfenced[w]
      /\ sources' = {s \in sources : s.view # v}
  BY LimitsAssumption DEF Inv, TypeOK, Unheld
<1>2. \A w \in Views : unfenced'[w] \in [Buffers -> Nat] /\ unfenced[w] \in [Buffers -> Nat]
                      /\ \A b \in Buffers : unfenced'[w][b] \in {0, unfenced[w][b]}
  <2>1. \A w \in Views : unfenced[w] \in [Buffers -> Nat]
    BY <1>1 DEF TypeOK
  <2>2. /\ unfenced'[v] \in [Buffers -> Nat] /\ \A b \in Buffers : unfenced'[v][b] = 0
        /\ \A w \in Views \ {v} : unfenced'[w] = unfenced[w]
    BY <1>1
  <2> QED BY <2>1, <2>2
<1>3. TypeOK'
  <2>1. fenced' \in [Views -> SUBSET [key : Keys, buf : Buffers]]
    BY <1>1 DEF TypeOK, Unheld
  <2>2. unfenced' \in [Views -> [Buffers -> 0 .. MaxSeq]]
    BY <1>1 DEF TypeOK, Unheld
  <2>3. \A w \in Views : Cardinality(HeldPlain(unfenced'[w])) <= MaxUnfenced
    BY <1>1, <1>2, Fewer DEF TypeOK
  <2> QED BY <1>1, <2>1, <2>2, <2>3 DEF TypeOK
<1>4. \A w \in Views : FramesInv(w)'
  <2> SUFFICES ASSUME NEW w \in Views PROVE FramesInv(w)'
    OBVIOUS
  <2>1. /\ FramesInv(w) /\ seq[w] \in Nat /\ seq'[w] \in Nat /\ onScreen[w] \in Nat
        /\ \A r \in reading[w] : r.seq \in Nat
    BY <1>1 DEF Inv, TypeOK, Read
  <2>2. w \notin live' => reports[w] = <<>>
    BY <2>1 DEF FramesInv
  <2>3. CASE w # v
    <3>1. \A b \in Buffers : unfenced'[w][b] <= seq'[w]
      BY <1>1, <1>2, <2>1, <2>3 DEF FramesInv
    <3>2. \A r \in reading'[w] : r.seq <= seq'[w] /\ (r.key = 0 => r.seq >= onScreen[w])
      BY <2>1, <2>3 DEF FramesInv
    <3>3. onScreen[w] <= seq'[w] /\ (w \notin linked => reading'[w] = {})
      BY <2>1, <2>3 DEF FramesInv
    <3> QED BY <2>1, <2>2, <3>1, <3>2, <3>3 DEF FramesInv
  <2>4. CASE w = v
    <3>1. \A b \in Buffers : unfenced'[w][b] <= seq'[w]
      BY <1>1, <2>1, <2>4
    <3>2. (w \notin linked => reading'[w] = {} /\ onScreen[w] = 0) /\ onScreen[w] <= seq'[w]
      BY <2>1, <2>4 DEF FramesInv
    <3>3. \A r \in reading'[w] : r.seq <= seq'[w] /\ (r.key = 0 => r.seq >= onScreen[w])
      <4> SUFFICES ASSUME NEW r \in reading'[v]
                   PROVE  r.seq <= seq'[v] /\ (r.key = 0 => r.seq >= onScreen[v])
        BY <2>4
      <4>1. PICK x \in reading[v] : r.seq = x.seq /\ r.key = x.key
        OBVIOUS
      <4>2. x.seq \in Nat /\ x.seq <= seq[v] /\ (x.key = 0 => x.seq >= onScreen[v])
        BY <2>1, <2>4 DEF FramesInv
      <4>3. seq'[v] >= seq[v]
        BY <2>1, <2>4, <3>2, <4>1
      <4> QED BY <2>1, <2>4, <4>1, <4>2, <4>3
    <3> QED BY <2>1, <2>2, <3>1, <3>2, <3>3 DEF FramesInv
  <2> QED BY <2>3, <2>4
<1>5. \A w \in Views : KeysInv(w)'
  <2> SUFFICES ASSUME NEW w \in Views PROVE KeysInv(w)'
    OBVIOUS
  <2>1. KeysInv(w) /\ seq[w] \in Nat /\ seq'[w] \in Nat /\ nextKey[w] \in Nat
    <3>1. seq[w] \in Nat /\ nextKey[w] \in Nat
      BY <1>1, Counted
    <3>2. seq'[w] \in Nat
      BY <1>1
    <3>3. KeysInv(w)
      BY DEF Inv
    <3> QED BY <3>1, <3>2, <3>3
  <2>2. nextKey'[w] <= seq'[w] * NumLayers
    <3>1. CASE seq'[w] >= seq[w] /\ nextKey'[w] = nextKey[w]
      <4>1. seq[w] <= seq'[w]
        BY <2>1, <3>1
      <4>2. /\ seq[w] * NumLayers <= seq'[w] * NumLayers
            /\ seq[w] * NumLayers \in Nat /\ seq'[w] * NumLayers \in Nat
        BY <1>1, <2>1, <4>1, Product
      <4> QED BY <2>1, <3>1, <4>2 DEF KeysInv
    <3>2. CASE w = v /\ seq'[v] = 0 /\ nextKey'[v] = 0
      BY <1>1, <3>2
    <3> QED BY <3>1, <3>2
  <2>3. \A r \in reading'[w] : r.key <= nextKey'[w]
    <3>1. CASE w # v
      BY <2>1, <3>1 DEF KeysInv
    <3>2. CASE w = v
      BY <2>1, <3>2 DEF KeysInv, Inv, FramesInv
    <3> QED BY <3>1, <3>2
  <2>4. \A x \in sources' : x.view = w =>
          x.key <= nextKey'[w] /\ (x.ready => \A r \in reading'[w] : r.key # x.key)
    BY <1>1, <2>1 DEF KeysInv
  <2> QED BY <2>2, <2>3, <2>4 DEF KeysInv
<1>6. \A w \in Views : \E lay \in [Buffers -> Layers] : OnePerLayer(unfenced'[w], lay)
  BY <1>2, Fewer DEF Inv
<1>7. HeldWhileRead'
  BY <1>1 DEF Inv, HeldWhileRead
<1>8. HeldForAReason'
  <2>1. \A w \in Views : \A f \in fenced'[w] : \E x \in sources' : x.view = w /\ x.key = f.key
    <3> SUFFICES ASSUME NEW w \in Views, NEW f \in fenced'[w]
                 PROVE  \E x \in sources' : x.view = w /\ x.key = f.key
      OBVIOUS
    <3>1. w # v /\ f \in fenced[w]
      BY <1>1
    <3>2. PICK x \in sources : x.view = w /\ x.key = f.key
      BY <3>1 DEF Inv, HeldForAReason
    <3> QED BY <1>1, <3>1, <3>2
  <2>2. HeldPlain(unfenced'[v]) = {}
    BY <1>1 DEF HeldPlain
  <2>3. \A w \in Views : reports[w] = <<>> =>
          \A b \in HeldPlain(unfenced'[w]) : unfenced'[w][b] >= onScreen[w]
    BY <1>1, <2>2 DEF Inv, HeldForAReason
  <2>4. \A w \in Views \ {bound'} : w = v \/ w \in Views \ {bound}
    BY NoneAssumption
  <2>5. \A w \in Views \ {bound'} : fenced'[w] = {} /\ HeldPlain(unfenced'[w]) = {}
    BY <1>1, <2>2, <2>4 DEF Inv, HeldForAReason
  <2> QED BY <2>1, <2>3, <2>5 DEF HeldForAReason
<1> QED BY <1>3, <1>4, <1>5, <1>6, <1>7, <1>8 DEF Inv

LEMMA UnbindKeeps ==
  ASSUME Inv, NEW v \in Views, Unbind(v)
  PROVE  Inv'
<1>1. TypeOK /\ bound = v /\ bound' = None /\ Cleared(v) /\ Unheld(v)
      /\ reading' = [reading EXCEPT ![v] =
           {[r EXCEPT !.kept = IF @ = "held" THEN "unbound" ELSE @] : r \in @}]
      /\ UNCHANGED <<live, nextKey, linked, onScreen, reports, attached>>
  BY DEF Unbind, Inv
<1>2. /\ seq' \in [Views -> 0 .. MaxSeq] /\ cleared' \in [Views -> BOOLEAN]
      /\ \A w \in Views : seq'[w] >= seq[w] /\ (~cleared'[w] /\ seq'[w] # 0 => seq'[w] < MaxSeq)
  BY <1>1, ClearedCounts
<1>3. /\ \A w \in Views \ {v} : reading'[w] = reading[w]
      /\ reading'[v] = {[r EXCEPT !.kept = IF @ = "held" THEN "unbound" ELSE @] : r \in reading[v]}
      /\ reading[v] \subseteq Read
  BY <1>1 DEF TypeOK
<1>4. \A r \in reading'[v] : /\ r \in Read /\ r.kept # "held"
                            /\ \E x \in reading[v] : r.seq = x.seq /\ r.key = x.key
  <2> SUFFICES ASSUME NEW r \in reading'[v]
               PROVE  r \in Read /\ r.kept # "held" /\ \E x \in reading[v] : r.seq = x.seq /\ r.key = x.key
    OBVIOUS
  <2>1. PICK x \in reading[v] : r = [x EXCEPT !.kept = IF @ = "held" THEN "unbound" ELSE @]
    BY <1>3
  <2>2. x \in Read
    BY <1>3
  <2> QED BY <2>1, <2>2 DEF Read
<1>5. reading' \in [Views -> SUBSET Read]
  BY <1>1, <1>4 DEF TypeOK
<1>6. nextKey' \in [Views -> Keys \cup {0}] /\ linked \subseteq live'
  BY <1>1 DEF Inv, TypeOK
<1> QED BY <1>1, <1>2, <1>3, <1>4, <1>5, <1>6, UnheldKeeps

LEMMA ViewDisposedKeeps ==
  ASSUME Inv, NEW v \in Views, ViewDisposed(v)
  PROVE  Inv'
<1>1. /\ TypeOK /\ v \notin linked /\ v \in live /\ reports[v] = <<>> /\ live' = live \ {v}
      /\ bound' = (IF bound = v THEN None ELSE bound) /\ Unheld(v)
      /\ seq' = [seq EXCEPT ![v] = 0] /\ cleared' = [cleared EXCEPT ![v] = FALSE]
      /\ nextKey' = [nextKey EXCEPT ![v] = 0]
      /\ UNCHANGED <<linked, reading, onScreen, reports, attached>>
  BY DEF Inv, ViewDisposed, shellVars
<1>2. /\ seq' \in [Views -> 0 .. MaxSeq] /\ cleared' \in [Views -> BOOLEAN]
      /\ nextKey' \in [Views -> Keys \cup {0}]
      /\ seq'[v] = 0 /\ nextKey'[v] = 0
      /\ \A w \in Views \ {v} : seq'[w] = seq[w] /\ cleared'[w] = cleared[w] /\ nextKey'[w] = nextKey[w]
  BY <1>1, LimitsAssumption DEF TypeOK
<1>3. \A w \in Views : seq[w] \in Nat /\ (~cleared'[w] /\ seq'[w] # 0 => seq'[w] < MaxSeq)
  BY <1>1, <1>2 DEF Inv, FramesInv, TypeOK
<1>4. \A w \in Views \ {v} : seq'[w] >= seq[w]
  BY <1>2, <1>3
<1>5. reading[v] = {} /\ reading' \in [Views -> SUBSET Read]
  BY <1>1 DEF Inv, FramesInv, TypeOK
<1>6. bound' \in live' \cup {None} /\ linked \subseteq live' /\ \A w \in live \ live' : reports[w] = <<>>
  BY <1>1 DEF Inv, TypeOK
<1>7. \A r \in reading'[v] : r.kept # "held" /\ \E x \in reading[v] : r.seq = x.seq /\ r.key = x.key
  BY <1>1, <1>5
<1> QED BY <1>1, <1>2, <1>3, <1>4, <1>5, <1>6, <1>7, UnheldKeeps

LEMMA ViewCreatedKeeps ==
  ASSUME Inv, NEW v \in Views, ViewCreated(v)
  PROVE  Inv'
<1>1. /\ TypeOK /\ v \notin live /\ v \notin linked
      /\ live' = live \cup {v} /\ linked' = linked \cup {v}
      /\ UNCHANGED <<bound, seq, cleared, nextKey, fenced, unfenced, sources, reading, onScreen,
                     reports, attached>>
  BY DEF Inv, ViewCreated, holdVars
<1>2. TypeOK'
  BY <1>1 DEF TypeOK
<1>3. \A w \in Views : FramesInv(w)'
  <2>1. reports[v] = <<>> /\ Len(reports[v]) = 0
    BY <1>1 DEF Inv, FramesInv
  <2> QED BY <1>1, <2>1 DEF Inv, FramesInv
<1>4. \A w \in Views : KeysInv(w)'
  BY <1>1 DEF Inv, KeysInv
<1>5. HeldWhileRead' /\ HeldForAReason'
  BY <1>1 DEF Inv, HeldWhileRead, HeldForAReason
<1> QED BY <1>1, <1>2, <1>3, <1>4, <1>5 DEF Inv

LEMMA OnDisposeKeeps ==
  ASSUME Inv, NEW v \in Views, OnDispose(v)
  PROVE  Inv'
<1>1. /\ TypeOK /\ linked' = linked \ {v}
      /\ reading' = [reading EXCEPT ![v] = {}] /\ onScreen' = [onScreen EXCEPT ![v] = 0]
      /\ UNCHANGED <<live, bound, seq, cleared, nextKey, fenced, unfenced, sources, reports, attached>>
  BY DEF Inv, OnDispose, serverVars, viewVars, holdVars
<1>2. /\ reading'[v] = {} /\ onScreen'[v] = 0
      /\ \A w \in Views \ {v} : reading'[w] = reading[w] /\ onScreen'[w] = onScreen[w]
  BY <1>1 DEF TypeOK
<1>3. TypeOK'
  <2>1. reading' \in [Views -> SUBSET Read] /\ onScreen' \in [Views -> 0 .. MaxSeq]
    BY <1>1, LimitsAssumption DEF TypeOK
  <2> QED BY <1>1, <2>1 DEF TypeOK
<1>4. \A w \in Views : FramesInv(w)'
  <2>1. \A w \in Views \ {v} : FramesInv(w)'
    BY <1>1, <1>2 DEF Inv, FramesInv
  <2>2. FramesInv(v)'
    <3>1. seq[v] \in Nat
      BY <1>1 DEF TypeOK
    <3> QED BY <1>1, <1>2, <3>1 DEF Inv, FramesInv
  <2> QED BY <2>1, <2>2
<1>5. \A w \in Views : KeysInv(w)'
  BY <1>1, <1>2 DEF Inv, KeysInv
<1>6. HeldWhileRead'
  BY <1>1, <1>2 DEF Inv, HeldWhileRead
<1>7. HeldForAReason'
  <2>1. \A b \in HeldPlain(unfenced[v]) : unfenced[v][b] >= 0
    BY <1>1 DEF TypeOK, HeldPlain
  <2>2. \A w \in Views : \A f \in fenced'[w] : \E x \in sources' : x.view = w /\ x.key = f.key
    BY <1>1 DEF Inv, HeldForAReason
  <2>3. \A w \in Views : reports'[w] = <<>> =>
          \A b \in HeldPlain(unfenced'[w]) : unfenced'[w][b] >= onScreen'[w]
    <3>1. \A w \in Views \ {v} : reports[w] = <<>> =>
            \A b \in HeldPlain(unfenced[w]) : unfenced[w][b] >= onScreen[w]
      BY DEF Inv, HeldForAReason
    <3> QED BY <1>1, <1>2, <2>1, <3>1
  <2>4. \A w \in Views \ {bound'} : fenced'[w] = {} /\ HeldPlain(unfenced'[w]) = {}
    BY <1>1 DEF Inv, HeldForAReason
  <2> QED BY <2>2, <2>3, <2>4 DEF HeldForAReason
<1> QED BY <1>1, <1>3, <1>4, <1>5, <1>6, <1>7 DEF Inv

-----------------------------------------------------------------------------
(* The invariant *)

LEMMA InitInv == Init => Inv
<1> SUFFICES ASSUME Init PROVE Inv
  OBVIOUS
<1>1. MaxSeq \in Nat /\ NumLayers \in Nat \ {0} /\ MaxUnfenced \in Nat
  BY LimitsAssumption
<1>2. \A v \in Views : HeldPlain(unfenced[v]) = {}
  BY DEF Init, HeldPlain
<1>3. TypeOK
  <2>1. \A v \in Views : Cardinality(HeldPlain(unfenced[v])) <= MaxUnfenced
    BY <1>1, <1>2, FS_EmptySet
  <2>2. unfenced \in [Views -> [Buffers -> 0 .. MaxSeq]] /\ reports \in [Views -> Seq(1 .. MaxSeq)]
    BY <1>1 DEF Init
  <2> QED BY <1>1, <2>1, <2>2 DEF Init, TypeOK
<1>4. \A v \in Views : FramesInv(v) /\ KeysInv(v)
  BY <1>1 DEF Init, FramesInv, KeysInv
<1>5. \A v \in Views : \E lay \in [Buffers -> Layers] : OnePerLayer(unfenced[v], lay)
  <2>1. [b \in Buffers |-> 1] \in [Buffers -> Layers]
    BY <1>1 DEF Layers
  <2>2. \A v \in Views : OnePerLayer(unfenced[v], [b \in Buffers |-> 1])
    BY DEF Init, OnePerLayer
  <2> QED BY <2>1, <2>2
<1>6. HeldWhileRead /\ HeldForAReason
  BY <1>2 DEF Init, HeldWhileRead, HeldForAReason
<1> QED BY <1>3, <1>4, <1>5, <1>6 DEF Init, Inv

LEMMA NextInv == Inv /\ [Next]_vars => Inv'
<1> SUFFICES ASSUME Inv, [Next]_vars PROVE Inv'
  OBVIOUS
<1>1. ASSUME NEW scene \in [Layers -> Buffers \cup {None}], Commit(scene) PROVE Inv'
  BY <1>1, CommitKeeps
<1>2. ASSUME NEW v \in Views, ViewCreated(v) PROVE Inv'
  BY <1>2, ViewCreatedKeeps
<1>3. ASSUME NEW v \in Views, OnDispose(v) PROVE Inv'
  BY <1>3, OnDisposeKeeps
<1>4. ASSUME NEW v \in Views, ViewDisposed(v) PROVE Inv'
  BY <1>4, ViewDisposedKeeps
<1>5. ASSUME NEW v \in Views, Bind(v) PROVE Inv'
  BY <1>5, BindKeeps
<1>6. ASSUME NEW v \in Views, Unbind(v) PROVE Inv'
  BY <1>6, UnbindKeeps
<1>7. ASSUME NEW v \in Views, Presented(v) PROVE Inv'
  BY <1>7, PresentedKeeps
<1>8. ASSUME NEW v \in Views, NEW s \in 1 .. MaxSeq, Shows(v, s) PROVE Inv'
  BY <1>8, ShowsKeeps
<1>9. ASSUME NEW v \in Views, NEW k \in Keys, FenceSignals(v, k) PROVE Inv'
  BY <1>9, FenceSignalsKeeps
<1>10. ASSUME NEW s \in sources, Signalled(s) PROVE Inv'
  BY <1>10, SignalledKeeps
<1>11. CASE UNCHANGED vars
  <2>1. UNCHANGED <<live, linked, bound, attached, seq, cleared, nextKey, fenced, unfenced,
                    sources, reading, onScreen, reports>>
    BY <1>11 DEF vars, serverVars, viewVars, holdVars, shellVars
  <2>2. TypeOK' /\ HeldWhileRead' /\ HeldForAReason'
    BY <2>1 DEF Inv, TypeOK, HeldWhileRead, HeldForAReason
  <2>3. \A v \in Views : FramesInv(v)' /\ KeysInv(v)'
    BY <2>1 DEF Inv, FramesInv, KeysInv
  <2> QED BY <2>1, <2>2, <2>3 DEF Inv
<1> QED BY <1>1, <1>2, <1>3, <1>4, <1>5, <1>6, <1>7, <1>8, <1>9, <1>10, <1>11 DEF Next

LEMMA AlwaysInv == Spec => []Inv
BY InitInv, NextInv, PTL DEF Spec

-----------------------------------------------------------------------------
(* Theorems *)

\* The holds are well formed, and no view holds more buffers without a fence
\* than hold_unfenced's limit, whatever is submitted (submit.rs:80-93).
THEOREM HoldsTypeCorrect == Spec => []TypeOK
<1>1. Inv => TypeOK
  BY DEF Inv
<1> QED BY <1>1, AlwaysInv, PTL

\* What the shell may be reading is held, for any number of layers and any
\* limit that holds the shell's pipeline of them: hold_unfenced's cap gives
\* back no buffer of a frame still read (submit.rs:53-93).
THEOREM AlwaysHeldWhileRead == Spec => []HeldWhileRead
<1>1. Inv => HeldWhileRead
  BY DEF Inv
<1> QED BY <1>1, AlwaysInv, PTL

\* Every hold ends with a source that is still to run or a frame the shell is
\* still to be heard to show, and a view that shows nothing holds nothing
\* (submit.rs:53-107).
THEOREM AlwaysHeldForAReason == Spec => []HeldForAReason
<1>1. Inv => HeldForAReason
  BY DEF Inv
<1> QED BY <1>1, AlwaysInv, PTL
=============================================================================
