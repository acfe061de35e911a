---------------------------- MODULE Pacing_proof -----------------------------
(***************************************************************************)
(* Theorems about Pacing, for any views and any limits and periods.        *)
(*                                                                         *)
(* The timer covers all that waits because every handler that leaves       *)
(* something waiting brings it forward, and a tick asks for the least of   *)
(* what it leaves; a client is left blocked by nobody because what clears  *)
(* a barrier unblocks its client in the same step, or leaves it a newer    *)
(* barrier, but where the code does not know the client any more.          *)
(***************************************************************************)
EXTENDS Pacing, FiniteSetTheorems, FunctionTheorems, SequenceTheorems,
        WellFoundedInduction, TLAPS

Loose == [client : Views, due : Times]

\* A non-empty set of naturals has a least element, and Min is it.
LEMMA LeastIs ==
  ASSUME NEW S \in SUBSET Nat, S # {}
  PROVE  Min(S) \in S /\ \A y \in S : Min(S) <= y
<1>1. PICK x \in S : \A y \in S : ~(<<y, x>> \in OpToRel(<, Nat))
  BY NatLessThanWellFounded, WFMin
<1>2. \A y \in S : ~(y < x)
  BY <1>1 DEF OpToRel
<1>3. \A y \in S : x <= y
  BY <1>2
<1> QED BY <1>3 DEF Min

LEMMA TimesAre ==
  /\ Refresh \in Nat \ {0} /\ Stale \in Nat \ {0} /\ HiddenRelease \in Nat \ {0} /\ Never \notin Nat
  /\ MaxInFlight \in Nat \ {0} /\ MaxLoose \in Nat \ {0}
  /\ Times \subseteq Nat /\ HiddenRelease \in Times /\ 0 .. Stale \subseteq Times /\ 0 .. Refresh \subseteq Times
  /\ \A t \in Times : 0 .. t \subseteq Times
BY TimesAssumption, LimitsAssumption DEF Times

-----------------------------------------------------------------------------
(* Sequences cut in two, and what is left of one *)

LEMMA CutIs ==
  ASSUME NEW S, NEW s \in Seq(S), NEW m \in 0 .. Len(s)
  PROVE  /\ SubSeq(s, m + 1, Len(s)) \in Seq(S) /\ Len(SubSeq(s, m + 1, Len(s))) = Len(s) - m
         /\ \A i \in DOMAIN SubSeq(s, m + 1, Len(s)) : i + m \in DOMAIN s /\ SubSeq(s, m + 1, Len(s))[i] = s[i + m]
         /\ SubSeq(s, 1, m) \in Seq(S)
         /\ DOMAIN SubSeq(s, 1, m) = 1 .. m /\ \A i \in 1 .. m : i \in DOMAIN s /\ SubSeq(s, 1, m)[i] = s[i]
         /\ \A j \in DOMAIN s :
              \/ j \in 1 .. m
              \/ j - m \in DOMAIN SubSeq(s, m + 1, Len(s)) /\ SubSeq(s, m + 1, Len(s))[j - m] = s[j]
<1>1. Len(s) \in Nat /\ DOMAIN s = 1 .. Len(s) /\ m \in Nat /\ m <= Len(s)
  OBVIOUS
<1>2. \A j \in DOMAIN s : s[j] \in S
  OBVIOUS
<1> DEFINE l == Len(s)
           t == SubSeq(s, m + 1, l)
           u == SubSeq(s, 1, m)
<1>3. t = [i \in 1 .. (l - m) |-> s[i + m]] /\ Len(t) = l - m
  <2>1. Len(t) = l - m /\ DOMAIN t = 1 .. (l - m)
    <3>1. t \in Seq(S) /\ Len(t) = IF m + 1 <= l THEN l - (m + 1) + 1 ELSE 0
      <4>1. \A i \in (m + 1) .. l : s[i] \in S
        BY <1>1, <1>2
      <4> QED BY <1>1, <4>1, SubSeqProperties
    <3> HIDE DEF t, l
    <3>2. DOMAIN t = 1 .. Len(t)
      BY <3>1
    <3>3. l \in Nat /\ m \in Nat /\ m <= l
      BY <1>1 DEF l
    <3> QED BY <3>1, <3>2, <3>3
  <2>2. \A i \in 1 .. (l - m) : t[i] = s[i + m]
    BY <1>1
  <2>3. t \in Seq(S)
    BY <1>1
  <2> HIDE DEF t, l
  <2>4. t = [i \in DOMAIN t |-> t[i]]
    BY <2>3
  <2> QED BY <2>1, <2>2, <2>4
<1>4. u \in Seq(S) /\ DOMAIN u = 1 .. m /\ \A i \in 1 .. m : u[i] = s[i]
  BY <1>1
<1>5. l - m \in Nat /\ \A i \in 1 .. (l - m) : i + m \in DOMAIN s
  BY <1>1
<1>6. \A i \in 1 .. m : i \in DOMAIN s
  BY <1>1
<1>7. \A j \in DOMAIN s : j \in 1 .. m \/ (j - m \in 1 .. (l - m) /\ (j - m) + m = j)
  BY <1>1
<1>8. t \in Seq(S) /\ DOMAIN t = 1 .. (l - m)
  BY <1>2, <1>3, <1>5
<1> HIDE DEF t, u, l
<1>9. \A j \in DOMAIN s : j \in 1 .. m \/ (j - m \in DOMAIN t /\ t[j - m] = s[j])
  BY <1>3, <1>7
<1>10. \A i \in DOMAIN t : i + m \in DOMAIN s /\ t[i] = s[i + m]
  BY <1>3, <1>5
<1> QED BY <1>3, <1>4, <1>6, <1>8, <1>9, <1>10 DEF t, u, l

LEMMA AppendIs ==
  ASSUME NEW S, NEW s \in Seq(S), NEW e \in S
  PROVE  /\ Append(s, e) \in Seq(S) /\ Len(Append(s, e)) = Len(s) + 1 /\ Len(s) \in Nat
         /\ DOMAIN Append(s, e) = DOMAIN s \cup {Len(s) + 1}
         /\ Append(s, e)[Len(s) + 1] = e /\ \A i \in DOMAIN s : Append(s, e)[i] = s[i]
OBVIOUS

\* Each place of At is that of one element of T, and each element has its place.
LEMMA AtIs ==
  ASSUME NEW S, NEW s \in Seq(S), NEW T \in SUBSET DOMAIN s
  PROVE  /\ At(s, T) \in Seq(S) /\ Len(At(s, T)) <= Len(s)
         /\ \A i \in DOMAIN At(s, T) : \E j \in T : At(s, T)[i] = s[j]
         /\ \A j \in T : \E i \in DOMAIN At(s, T) : At(s, T)[i] = s[j]
<1> DEFINE n == Cardinality(T)
           upTo(j) == {k \in T : k <= j}
           rank == [j \in T |-> Cardinality(upTo(j))]
<1>1. /\ Len(s) \in Nat /\ DOMAIN s = 1 .. Len(s) /\ \A j \in T : j \in 1 .. Len(s) /\ j \in Nat /\ s[j] \in S
      /\ IsFiniteSet(1 .. Len(s)) /\ Cardinality(1 .. Len(s)) = Len(s)
  <2>1. Len(s) \in Nat /\ DOMAIN s = 1 .. Len(s)
    OBVIOUS
  <2>2. IsFiniteSet(1 .. Len(s)) /\ Cardinality(1 .. Len(s)) = IF 1 > Len(s) THEN 0 ELSE Len(s) - 1 + 1
    BY <2>1, FS_Interval
  <2> QED BY <2>1, <2>2
<1>2. IsFiniteSet(T) /\ n \in Nat /\ n <= Len(s)
  BY <1>1, FS_Subset, FS_CardinalityType
<1>3. \A j \in T : IsFiniteSet(upTo(j)) /\ Cardinality(upTo(j)) \in Nat /\ Cardinality(upTo(j)) <= n
  BY <1>2, FS_Subset, FS_CardinalityType
<1>4. \A j \in T : Cardinality(upTo(j)) # 0
  <2> SUFFICES ASSUME NEW j \in T PROVE Cardinality(upTo(j)) # 0
    OBVIOUS
  <2>1. j \in upTo(j)
    BY <1>1
  <2> QED BY <1>3, <2>1, FS_EmptySet
<1>5. ASSUME NEW j \in T, NEW k \in T, j < k
      PROVE  Cardinality(upTo(j)) < Cardinality(upTo(k))
  <2>1. upTo(j) \subseteq upTo(k) /\ k \in upTo(k) /\ k \notin upTo(j)
    BY <1>1, <1>5
  <2> DEFINE A == upTo(j)
             B == upTo(k)
  <2>2. A \subseteq B /\ A # B /\ IsFiniteSet(B) /\ IsFiniteSet(A)
    BY <1>3, <2>1
  <2> HIDE DEF A, B
  <2>3. Cardinality(A) <= Cardinality(B) /\ (Cardinality(A) = Cardinality(B) => A = B)
    BY <2>2, FS_Subset
  <2>4. Cardinality(A) \in Nat /\ Cardinality(B) \in Nat
    BY <2>2, FS_CardinalityType
  <2>5. Cardinality(A) < Cardinality(B)
    BY <2>2, <2>3, <2>4
  <2> QED BY <2>5 DEF A, B
<1>6. \A j, k \in T : rank[j] = rank[k] => j = k
  <2> SUFFICES ASSUME NEW j \in T, NEW k \in T, j # k PROVE rank[j] # rank[k]
    OBVIOUS
  <2>1. j < k \/ k < j
    BY <1>1
  <2>2. rank[j] = Cardinality(upTo(j)) /\ rank[k] = Cardinality(upTo(k))
    OBVIOUS
  <2>3. rank[j] < rank[k] \/ rank[k] < rank[j]
    BY <1>5, <2>1, <2>2
  <2>4. rank[j] \in Nat /\ rank[k] \in Nat
    BY <1>3, <2>2
  <2> HIDE DEF rank
  <2> QED BY <2>3, <2>4
<1>7. rank \in [T -> 1 .. n]
  <2>1. \A j \in T : Cardinality(upTo(j)) \in 1 .. n
    <3> SUFFICES ASSUME NEW j \in T PROVE Cardinality(upTo(j)) \in 1 .. n
      OBVIOUS
    <3> DEFINE c == Cardinality(upTo(j))
    <3>1. c \in Nat /\ c <= n /\ c # 0 /\ n \in Nat
      BY <1>2, <1>3, <1>4
    <3> HIDE DEF c, n
    <3>2. c \in 1 .. n
      BY <3>1
    <3> QED BY <3>2 DEF c
  <2> QED BY <2>1
<1> HIDE DEF upTo
<1>8. rank \in Surjection(T, 1 .. n)
  <2>1. rank \in Injection(T, 1 .. n)
    <3> HIDE DEF rank, n
    <3> QED BY <1>6, <1>7 DEF Injection, IsInjective
  <2>2. IsFiniteSet(1 .. n) /\ Cardinality(1 .. n) = n
    <3>1. n \in Nat
      BY <1>2
    <3> HIDE DEF n
    <3>2. IsFiniteSet(1 .. n) /\ Cardinality(1 .. n) = IF 1 > n THEN 0 ELSE n - 1 + 1
      BY <3>1, FS_Interval
    <3> QED BY <3>1, <3>2
  <2> QED BY <2>1, <2>2, FS_Injection
<1>9. \A i \in 1 .. n : \E j \in T : rank[j] = i
  BY <1>8 DEF Surjection
<1> DEFINE nth(i) == CHOOSE j \in T : Cardinality({k \in T : k <= j}) = i
<1>10. \A i \in 1 .. n : nth(i) \in T /\ rank[nth(i)] = i
  BY <1>9 DEF upTo
<1>11. At(s, T) = [i \in 1 .. n |-> s[nth(i)]]
  BY DEF At
<1> HIDE DEF nth, n, rank
<1>12. /\ At(s, T) \in Seq(S) /\ Len(At(s, T)) = n /\ DOMAIN At(s, T) = 1 .. n
  BY <1>1, <1>2, <1>10, <1>11
<1>13. ASSUME NEW j \in T PROVE rank[j] \in 1 .. n /\ nth(rank[j]) = j
  BY <1>6, <1>7, <1>10
<1> QED BY <1>2, <1>10, <1>11, <1>12, <1>13

-----------------------------------------------------------------------------
(* The operators of Pacing *)

LEMMA BarrierCut ==
  ASSUME NEW fs \in Seq(Frame), NEW m \in 0 .. Len(fs)
  PROVE  /\ HasBarrier(SubSeq(fs, m + 1, Len(fs))) => HasBarrier(fs)
         /\ HasBarrier(fs) => HasBarrier(SubSeq(fs, 1, m)) \/ HasBarrier(SubSeq(fs, m + 1, Len(fs)))
<1> DEFINE t == SubSeq(fs, m + 1, Len(fs))
           u == SubSeq(fs, 1, m)
<1>1. /\ \A i \in DOMAIN t : i + m \in DOMAIN fs /\ t[i] = fs[i + m]
      /\ DOMAIN u = 1 .. m /\ \A i \in 1 .. m : i \in DOMAIN fs /\ u[i] = fs[i]
      /\ \A j \in DOMAIN fs : j \in 1 .. m \/ (j - m \in DOMAIN t /\ t[j - m] = fs[j])
  <2>1. \A i \in DOMAIN t : i + m \in DOMAIN fs /\ t[i] = fs[i + m]
    BY CutIs
  <2>2. DOMAIN u = 1 .. m /\ \A i \in 1 .. m : i \in DOMAIN fs /\ u[i] = fs[i]
    BY CutIs
  <2>3. \A j \in DOMAIN fs : j \in 1 .. m \/ (j - m \in DOMAIN t /\ t[j - m] = fs[j])
    BY CutIs
  <2> QED BY <2>1, <2>2, <2>3
<1> HIDE DEF t, u
<1>2. HasBarrier(t) => HasBarrier(fs)
  BY <1>1 DEF HasBarrier
<1>3. HasBarrier(fs) => HasBarrier(u) \/ HasBarrier(t)
  BY <1>1 DEF HasBarrier
<1> QED BY <1>2, <1>3 DEF t, u

\* What is released when it goes stale is so within Stale.
LEMMA StaleIs ==
  ASSUME NEW fs \in Seq(Frame), NEW onScreen \in BOOLEAN
  PROVE  /\ NextStale(fs, onScreen) \in (0 .. Stale) \cup {Never}
         /\ NextStale(fs, onScreen) # Never <=>
              \E i \in DOMAIN fs : fs[i].barrier \/ (onScreen /\ ~fs[i].flushed)
<1> DEFINE waiting == {i \in DOMAIN fs : fs[i].barrier \/ (onScreen /\ ~fs[i].flushed)}
<1>1. waiting \subseteq Nat
  OBVIOUS
<1>2. CASE waiting = {}
  BY <1>2, TimesAre DEF NextStale
<1>3. CASE waiting # {}
  <2> HIDE DEF waiting
  <2>1. Min(waiting) \in waiting
    BY <1>1, <1>3, LeastIs
  <2>2. fs[Min(waiting)].age \in 0 .. Stale + 1
    <3> DEFINE i == Min(waiting)
    <3>1. i \in DOMAIN fs
      BY <2>1 DEF waiting
    <3> HIDE DEF i
    <3>2. fs[i] \in Frame
      BY <3>1
    <3> QED BY <3>2 DEF Frame, i
  <2>3. Later(0, Stale - fs[Min(waiting)].age) \in 0 .. Stale
    BY <2>2, TimesAre DEF Later
  <2>4. NextStale(fs, onScreen) = Later(0, Stale - fs[Min(waiting)].age)
    BY <1>3 DEF NextStale, waiting
  <2> QED BY <1>3, <2>3, <2>4, TimesAre DEF waiting
<1> QED BY <1>2, <1>3

\* Time t is not missed by a timer set for tk.
Covers(tk, t) == t # Never => tk # Never /\ tk <= t

Ticks == Nat \cup {Never}

LEMMA SoonerCovers ==
  ASSUME NEW s \in Ticks, NEW t \in Ticks
  PROVE  /\ Sooner(s, t) \in Ticks /\ Sooner(s, t) \in {s, t}
         /\ \A u \in Ticks : Covers(s, u) \/ Covers(t, u) => Covers(Sooner(s, t), u)
BY TimesAre DEF Ticks, Sooner, Covers

LEMMA LaterIs ==
  ASSUME NEW s \in Nat, NEW t \in Nat
  PROVE  Later(s, t) \in {s, t} /\ s <= Later(s, t) /\ t <= Later(s, t)
BY DEF Later

\* By when the clock must run for frames fs of a view, as DueBy has it.
Due(fs, hidden, release) ==
  IF hidden THEN IF HasBarrier(fs) THEN Later(release, Refresh) ELSE Never
  ELSE IF NextStale(fs, TRUE) = Never THEN Never ELSE Stale

\* A timer set for the wake of some frames, or for 1 when that is past, is in
\* time for them.
LEMMA WakeIs ==
  ASSUME NEW fs \in Seq(Frame), NEW hidden \in BOOLEAN, NEW release \in Times, vblank \in 1 .. Refresh
  PROVE  /\ WakeFor(fs, hidden, release) \in Times \cup {Never}
         /\ Due(fs, hidden, release) \in Times \cup {Never}
         /\ Due(fs, hidden, release) # Never =>
              /\ WakeFor(fs, hidden, release) # Never
              /\ WakeFor(fs, hidden, release) <= Due(fs, hidden, release)
              /\ 1 <= Due(fs, hidden, release)
<1>1. release \in Nat /\ vblank \in Times /\ Refresh \in Times /\ Stale \in Times
  BY TimesAre
<1>2. CASE hidden
  <2>1. NextStale(fs, FALSE) = Never <=> ~HasBarrier(fs)
    BY StaleIs DEF HasBarrier
  <2>2. /\ WakeFor(fs, hidden, release) = IF HasBarrier(fs) THEN Later(release, vblank) ELSE Never
        /\ Due(fs, hidden, release) = IF HasBarrier(fs) THEN Later(release, Refresh) ELSE Never
    BY <1>2, <2>1 DEF WakeFor, Due
  <2>3. /\ Later(release, vblank) \in Times /\ Later(release, Refresh) \in Times
        /\ Later(release, vblank) <= Later(release, Refresh) /\ 1 <= Later(release, Refresh)
    BY <1>1, TimesAre DEF Later
  <2>4. Never \notin Times
    BY TimesAre
  <2> QED BY <2>2, <2>3, <2>4
<1>3. CASE ~hidden
  <2>1. /\ WakeFor(fs, hidden, release) = NextStale(fs, TRUE)
        /\ Due(fs, hidden, release) = IF NextStale(fs, TRUE) = Never THEN Never ELSE Stale
    BY <1>3 DEF WakeFor, Due
  <2>2. NextStale(fs, TRUE) \in (0 .. Stale) \cup {Never}
    BY StaleIs
  <2>3. Stale \in Nat /\ 1 <= Stale
    BY TimesAre
  <2>4. Never \notin Times /\ 0 .. Stale \subseteq Times
    <3>1. Never \notin Nat /\ Times \subseteq Nat /\ 0 .. Stale \subseteq Times
      BY TimesAre
    <3> QED BY <3>1
  <2> DEFINE n == NextStale(fs, TRUE)
  <2> HIDE DEF n
  <2>5. CASE n = Never
    BY <2>1, <2>5 DEF n
  <2>6. CASE n \in 0 .. Stale
    <3>1. n <= Stale
      BY <2>3, <2>6
    <3>2. n \in Times /\ n # Never
      BY <2>4, <2>6
    <3>3. WakeFor(fs, hidden, release) = n /\ Due(fs, hidden, release) = Stale
      BY <2>1, <3>2 DEF n
    <3> QED BY <1>1, <2>3, <3>1, <3>2, <3>3
  <2> QED BY <2>2, <2>5, <2>6 DEF n
<1> QED BY <1>2, <1>3

LEMMA WakeOf ==
  ASSUME TypeOK, NEW v \in Views, NEW fs \in Seq(Frame)
  PROVE  /\ WakeFor(fs, v \in suspended, hiddenAt[v]) \in Times \cup {Never}
         /\ Due(fs, v \in suspended, hiddenAt[v]) \in Times \cup {Never}
         /\ Covers(WakeFor(fs, v \in suspended, hiddenAt[v]), Due(fs, v \in suspended, hiddenAt[v]))
<1> DEFINE hidden == v \in suspended
<1>1. hidden \in BOOLEAN /\ hiddenAt[v] \in Times /\ vblank \in 1 .. Refresh
  BY DEF TypeOK
<1> HIDE DEF hidden
<1>2. /\ WakeFor(fs, hidden, hiddenAt[v]) \in Times \cup {Never}
      /\ Due(fs, hidden, hiddenAt[v]) \in Times \cup {Never}
      /\ Covers(WakeFor(fs, hidden, hiddenAt[v]), Due(fs, hidden, hiddenAt[v]))
  BY <1>1, WakeIs DEF Covers
<1> QED BY <1>2 DEF hidden

\* Fewer frames, or the same ones older, are due at the same time or never.
LEMMA DueAgain ==
  ASSUME NEW fs \in Seq(Frame), NEW gs \in Seq(Frame), NEW hidden \in BOOLEAN, NEW release \in Times,
         \A i \in DOMAIN gs : \E j \in DOMAIN fs :
           (gs[i].barrier => fs[j].barrier) /\ (fs[j].flushed => gs[i].flushed)
  PROVE  Due(gs, hidden, release) \in {Never, Due(fs, hidden, release)}
<1>1. HasBarrier(gs) => HasBarrier(fs)
  BY DEF HasBarrier
<1>2. NextStale(gs, TRUE) # Never => NextStale(fs, TRUE) # Never
  <2>1. /\ NextStale(gs, TRUE) # Never <=> \E i \in DOMAIN gs : gs[i].barrier \/ ~gs[i].flushed
        /\ NextStale(fs, TRUE) # Never <=> \E i \in DOMAIN fs : fs[i].barrier \/ ~fs[i].flushed
    BY StaleIs
  <2> QED BY <2>1
<1> QED BY <1>1, <1>2 DEF Due

LEMMA CoveredIs ==
  /\ TickCovers <=> /\ \A v \in Views : /\ Covers(tick, Due(frames[v], v \in suspended, hiddenAt[v]))
                                        /\ Covers(tick, unsubmitted[v])
                    /\ \A i \in DOMAIN loose : Covers(tick, loose[i].due)
  /\ TickCovers' <=> /\ \A v \in Views : /\ Covers(tick', Due(frames'[v], v \in suspended', hiddenAt'[v]))
                                         /\ Covers(tick', unsubmitted'[v])
                     /\ \A i \in DOMAIN loose' : Covers(tick', loose'[i].due)
<1>1. \A v : DueBy(v) = Due(frames[v], v \in suspended, hiddenAt[v])
  BY DEF DueBy, Due
<1>2. \A v : DueBy(v)' = Due(frames'[v], v \in suspended', hiddenAt'[v])
  BY DEF DueBy, Due
<1> QED BY <1>1, <1>2 DEF TickCovers, Covers

LEMMA LooseCut ==
  ASSUME NEW ls \in Seq(Loose), NEW m \in 0 .. Len(ls)
  PROVE  /\ ClientsOf(ls) = ClientsOf(SubSeq(ls, 1, m)) \cup ClientsOf(SubSeq(ls, m + 1, Len(ls)))
         /\ ClientsOf(ls) \subseteq Views
<1> DEFINE t == SubSeq(ls, m + 1, Len(ls))
           u == SubSeq(ls, 1, m)
<1>1. /\ \A i \in DOMAIN t : i + m \in DOMAIN ls /\ t[i] = ls[i + m]
      /\ DOMAIN u = 1 .. m /\ \A i \in 1 .. m : i \in DOMAIN ls /\ u[i] = ls[i]
      /\ \A j \in DOMAIN ls : j \in 1 .. m \/ (j - m \in DOMAIN t /\ t[j - m] = ls[j])
  <2>1. \A i \in DOMAIN t : i + m \in DOMAIN ls /\ t[i] = ls[i + m]
    BY CutIs
  <2>2. DOMAIN u = 1 .. m /\ \A i \in 1 .. m : i \in DOMAIN ls /\ u[i] = ls[i]
    BY CutIs
  <2>3. \A j \in DOMAIN ls : j \in 1 .. m \/ (j - m \in DOMAIN t /\ t[j - m] = ls[j])
    BY CutIs
  <2> QED BY <2>1, <2>2, <2>3
<1>2. \A i \in DOMAIN ls : ls[i].client \in Views
  <2>1. \A i \in DOMAIN ls : ls[i] \in Loose
    OBVIOUS
  <2> QED BY <2>1 DEF Loose
<1> HIDE DEF t, u
<1>3. ClientsOf(ls) = ClientsOf(u) \cup ClientsOf(t)
  BY <1>1 DEF ClientsOf
<1> QED BY <1>2, <1>3 DEF ClientsOf, t, u

-----------------------------------------------------------------------------
(* The invariant *)

Inv == TypeOK /\ TickCovers /\ ClearedIsUnblocked

LEMMA InitInv == Init => Inv
<1> SUFFICES ASSUME Init PROVE Inv
  OBVIOUS
<1>1. TypeOK
  <2>1. 0 \in Times /\ <<>> \in Seq(Frame) /\ Len(<<>>) <= MaxInFlight /\ Len(<<>>) <= MaxLoose
    BY TimesAre
  <2> QED BY <2>1 DEF Init, TypeOK
<1>2. TickCovers
  <2>1. ~HasBarrier(<<>>) /\ NextStale(<<>>, TRUE) = Never
    <3>1. <<>> \in Seq(Frame) /\ DOMAIN <<>> = {}
      OBVIOUS
    <3> QED BY <3>1, StaleIs DEF HasBarrier
  <2> QED BY <2>1 DEF Init, TickCovers, DueBy
<1> QED BY <1>1, <1>2 DEF Inv, ClearedIsUnblocked, Init

\* Clearing barriers keeps the clients unblocked when each of those it leaves
\* with none is told, or is lost.
LEMMA SettledIs ==
  ASSUME Inv, NEW cleared \in SUBSET Views, NEW lost \in SUBSET Views, NEW told, Settle(cleared, lost, told),
         \A w \in Views : Barred(w) \/ w \in cleared => Barred(w)' \/ w \in lost \cup told
  PROVE  ClearedIsUnblocked' /\ owed' \subseteq Views /\ forgotten' \subseteq Views
<1>1. /\ owed' = (owed \cup cleared) \ told
      /\ forgotten' = {w \in (forgotten \cup lost) \ told : ~Barred(w)'}
      /\ owed \subseteq Views /\ forgotten \subseteq Views
      /\ \A w \in owed : Barred(w) \/ w \in forgotten
  BY DEF Settle, Inv, TypeOK, ClearedIsUnblocked
<1> QED BY <1>1 DEF ClearedIsUnblocked

\* What hold_loose leaves of the loose barriers, and whom it owes.
LEMMA HoldLooseKeeps ==
  ASSUME Inv, NEW v \in Views, NEW barrier \in BOOLEAN, HoldLoose(v, barrier), UNCHANGED frames
  PROVE  /\ loose' \in Seq(Loose) /\ Len(loose') <= MaxLoose
         /\ \A i \in DOMAIN loose' : \/ barrier /\ loose'[i].due = vblank
                                     \/ \E j \in DOMAIN loose : loose'[i].due = loose[j].due
         /\ owed' \subseteq Views /\ forgotten' \subseteq Views
         /\ ClearedIsUnblocked'
<1> DEFINE last == [client |-> v, due |-> vblank]
           all == IF barrier THEN Append(loose, last) ELSE loose
           excess == Excess(all, MaxLoose)
           left == SubSeq(all, excess + 1, Len(all))
           pushed == ClientsOf(SubSeq(all, 1, excess))
<1>1. /\ loose \in Seq(Loose) /\ Len(loose) <= MaxLoose /\ Len(loose) \in Nat /\ vblank \in Times
      /\ owed \subseteq Views /\ forgotten \subseteq Views
  BY TimesAre DEF Inv, TypeOK, Loose
<1>2. last \in Loose
  BY <1>1 DEF Loose
<1>3. loose' = left /\ Settle(pushed, pushed \ {v}, {})
  BY DEF HoldLoose
<1> HIDE DEF last
<1>4. /\ all \in Seq(Loose) /\ Len(all) \in Nat /\ Len(all) <= MaxLoose + 1
      /\ \A i \in DOMAIN all : \/ barrier /\ all[i] = last
                               \/ i \in DOMAIN loose /\ all[i] = loose[i]
      /\ ClientsOf(loose) \subseteq ClientsOf(all)
  <2>1. CASE barrier
    <3>1. /\ all = Append(loose, last)
          /\ all \in Seq(Loose) /\ Len(all) = Len(loose) + 1 /\ DOMAIN all = DOMAIN loose \cup {Len(loose) + 1}
          /\ all[Len(loose) + 1] = last /\ \A i \in DOMAIN loose : all[i] = loose[i]
      BY <1>1, <1>2, <2>1, AppendIs
    <3> HIDE DEF all
    <3> QED BY <1>1, <2>1, <3>1, TimesAre DEF ClientsOf
  <2>2. CASE ~barrier
    <3>1. all = loose
      BY <2>2
    <3> HIDE DEF all
    <3> QED BY <1>1, <3>1, TimesAre
  <2> QED BY <2>1, <2>2
<1>5. /\ excess \in 0 .. Len(all) /\ Len(all) - excess <= MaxLoose
      /\ excess # 0 => barrier
  <2>1. ~barrier => all = loose
    OBVIOUS
  <2> HIDE DEF all
  <2> QED BY <1>1, <1>4, <2>1, TimesAre DEF Excess, Later
<1>6. barrier => v \in ClientsOf(left)
  <2> SUFFICES ASSUME barrier PROVE v \in ClientsOf(left)
    OBVIOUS
  <2>1. /\ Len(all) = Len(loose) + 1 /\ Len(all) \in DOMAIN all /\ all[Len(all)] = last
    BY <1>1, <1>2, AppendIs
  <2>2. Len(all) \notin 1 .. excess
    <3> HIDE DEF all
    <3> QED BY <1>1, <1>4, <2>1, TimesAre DEF Excess, Later
  <2> HIDE DEF all, excess
  <2>3. Len(all) - excess \in DOMAIN left /\ left[Len(all) - excess] = all[Len(all)]
    BY <1>4, <1>5, <2>1, <2>2, CutIs
  <2> HIDE DEF left
  <2> QED BY <2>1, <2>3 DEF ClientsOf, last
<1> HIDE DEF excess, all
<1>7. /\ left \in Seq(Loose) /\ Len(left) = Len(all) - excess
      /\ \A i \in DOMAIN left : i + excess \in DOMAIN all /\ left[i] = all[i + excess]
  BY <1>4, <1>5, CutIs
<1>8. ClientsOf(all) = pushed \cup ClientsOf(left) /\ pushed \subseteq Views
  BY <1>4, <1>5, LooseCut
<1>9. excess = 0 => pushed = {}
  <2> SUFFICES ASSUME excess = 0 PROVE pushed = {}
    OBVIOUS
  <2>1. DOMAIN SubSeq(all, 1, excess) = {}
    BY <1>4, <1>5, CutIs
  <2> QED BY <2>1 DEF ClientsOf
<1> HIDE DEF left, pushed
<1>10. ASSUME NEW i \in DOMAIN left
       PROVE  \/ barrier /\ left[i].due = vblank
              \/ \E j \in DOMAIN loose : left[i].due = loose[j].due
  BY <1>4, <1>7, <1>10 DEF last
<1>11. ClearedIsUnblocked' /\ owed' \subseteq Views /\ forgotten' \subseteq Views
  <2>1. ASSUME NEW w \in Views, Barred(w) \/ w \in pushed
        PROVE  Barred(w)' \/ w \in pushed \ {v}
    <3>1. CASE w \in pushed
      BY <1>3, <1>5, <1>6, <1>9, <3>1 DEF Barred
    <3>2. CASE w \notin pushed
      BY <1>3, <1>4, <1>8, <2>1, <3>2 DEF Barred
    <3> QED BY <3>1, <3>2
  <2> QED BY <1>3, <1>8, <2>1, SettledIs
<1> QED BY <1>1, <1>3, <1>4, <1>5, <1>7, <1>10, <1>11

LEMMA Known ==
  ASSUME Inv
  PROVE  /\ tick \in Ticks /\ vblank \in Ticks /\ vblank \in Times /\ vblank \in 1 .. Refresh
         /\ Times \cup {Never} \subseteq Ticks
         /\ \A v \in Views : /\ frames[v] \in Seq(Frame) /\ hiddenAt[v] \in Times /\ unsubmitted[v] \in Ticks
                             /\ unsubmitted[v] \in Times \cup {Never}
                             /\ Due(frames[v], v \in suspended, hiddenAt[v]) \in Ticks
         /\ loose \in Seq(Loose) /\ Len(loose) \in Nat /\ \A i \in DOMAIN loose : loose[i] \in Loose /\ loose[i].due \in Ticks
<1>1. Times \cup {Never} \subseteq Ticks
  BY TimesAre DEF Ticks
<1>2. vblank \in 1 .. Refresh /\ vblank \in Times /\ tick \in Times \cup {Never}
  BY TimesAre DEF Inv, TypeOK
<1>3. ASSUME NEW v \in Views
      PROVE  /\ frames[v] \in Seq(Frame) /\ hiddenAt[v] \in Times /\ unsubmitted[v] \in Times \cup {Never}
             /\ Due(frames[v], v \in suspended, hiddenAt[v]) \in Times \cup {Never}
  <2>1. frames[v] \in Seq(Frame) /\ hiddenAt[v] \in Times /\ unsubmitted[v] \in Times \cup {Never}
    BY DEF Inv, TypeOK
  <2> QED BY <2>1, WakeOf DEF Inv
<1>4. loose \in Seq(Loose)
  BY DEF Inv, TypeOK, Loose
<1>5. Len(loose) \in Nat /\ \A i \in DOMAIN loose : loose[i] \in Loose
  BY <1>4
<1>6. \A i \in DOMAIN loose : loose[i].due \in Times
  BY <1>5 DEF Loose
<1> QED BY <1>1, <1>2, <1>3, <1>4, <1>5, <1>6

\* The timer still covers all when it is no later than it was, and covers what
\* is newly due.
LEMMA CoversOn ==
  ASSUME Inv, \A u \in Ticks : Covers(tick, u) => Covers(tick', u),
         \A v \in Views : \/ Due(frames'[v], v \in suspended', hiddenAt'[v])
                               \in {Never, Due(frames[v], v \in suspended, hiddenAt[v])}
                          \/ Covers(tick', Due(frames'[v], v \in suspended', hiddenAt'[v])),
         \A v \in Views : unsubmitted'[v] \in {Never, unsubmitted[v]} \/ Covers(tick', unsubmitted'[v]),
         \A i \in DOMAIN loose' : \/ \E j \in DOMAIN loose : loose'[i].due = loose[j].due
                                  \/ Covers(tick', loose'[i].due)
  PROVE  TickCovers'
<1>1. Covers(tick', Never)
  BY DEF Covers
<1>2. ASSUME NEW v \in Views
      PROVE  /\ Covers(tick', Due(frames[v], v \in suspended, hiddenAt[v]))
             /\ Covers(tick', unsubmitted[v])
  BY Known, CoveredIs DEF Inv
<1>3. ASSUME NEW j \in DOMAIN loose PROVE Covers(tick', loose[j].due)
  BY Known, CoveredIs DEF Inv
<1>4. \A v \in Views : /\ Covers(tick', Due(frames'[v], v \in suspended', hiddenAt'[v]))
                       /\ Covers(tick', unsubmitted'[v])
  BY <1>1, <1>2
<1>5. \A i \in DOMAIN loose' : Covers(tick', loose'[i].due)
  BY <1>3
<1> QED BY <1>4, <1>5, CoveredIs

-----------------------------------------------------------------------------
(* Updates of clients *)

LEMMA SubmittedKeeps ==
  ASSUME Inv, NEW v \in Views, NEW callback \in BOOLEAN, NEW barrier \in BOOLEAN,
         Submitted(v, callback, barrier), bound' \subseteq Views, unbinding' \subseteq bound', UNCHANGED <<vblank, suspended, hiddenAt>>
  PROVE  Inv'
<1> DEFINE new == [age |-> 0, barrier |-> barrier, flushed |-> FALSE]
           all == Append(frames[v], new)
           excess == Excess(all, MaxInFlight)
           kept == SubSeq(all, excess + 1, Len(all))
           cut == SubSeq(all, 1, excess)
           wake == WakeFor(kept, v \in suspended, hiddenAt[v])
<1>1. /\ frames' = [frames EXCEPT ![v] = kept]
      /\ late' \in {late, late \cup {v}}
      /\ Release(v, cut, {v})
      /\ callbacks' = [callbacks EXCEPT ![v] = IF callback \/ @ # "none" THEN "submitted" ELSE "none"]
      /\ tick' = Sooner(tick, wake)
      /\ UNCHANGED <<loose, unsubmitted>>
  BY DEF Submitted
<1>2. /\ frames \in [Views -> Seq(Frame)] /\ frames[v] \in Seq(Frame)
      /\ Len(frames[v]) \in Nat /\ Len(frames[v]) <= MaxInFlight
  BY DEF Inv, TypeOK
<1>3. new \in Frame
  BY TimesAre DEF Frame
<1> HIDE DEF new
<1>4. /\ all \in Seq(Frame) /\ Len(all) \in Nat /\ Len(all) <= MaxInFlight + 1
      /\ HasBarrier(frames[v]) => HasBarrier(all)
  <2>1. /\ all \in Seq(Frame) /\ Len(all) = Len(frames[v]) + 1
        /\ DOMAIN all = DOMAIN frames[v] \cup {Len(frames[v]) + 1}
        /\ \A i \in DOMAIN frames[v] : all[i] = frames[v][i]
    BY <1>2, <1>3, AppendIs
  <2> HIDE DEF all
  <2> QED BY <1>2, <2>1, TimesAre DEF HasBarrier
<1> HIDE DEF all
<1>5. excess \in 0 .. Len(all) /\ Len(all) - excess <= MaxInFlight
  BY <1>4, TimesAre DEF Excess, Later
<1> HIDE DEF excess
<1>6. /\ kept \in Seq(Frame) /\ Len(kept) <= MaxInFlight
      /\ HasBarrier(all) => HasBarrier(cut) \/ HasBarrier(kept)
  BY <1>4, <1>5, CutIs, BarrierCut
<1> HIDE DEF kept, cut
<1>7. wake \in Times \cup {Never} /\ Covers(wake, Due(kept, v \in suspended, hiddenAt[v]))
  BY <1>6, WakeOf DEF Inv
<1> HIDE DEF wake
<1>8. tick' \in Times \cup {Never} /\ \A u \in Ticks : Covers(tick, u) \/ Covers(wake, u) => Covers(tick', u)
  <2>1. tick \in Times \cup {Never} /\ tick \in Ticks /\ wake \in Ticks
    BY <1>7, Known DEF Inv, TypeOK
  <2> QED BY <1>1, <1>7, <2>1, SoonerCovers
<1>9. ClearedIsUnblocked' /\ owed' \subseteq Views /\ forgotten' \subseteq Views
  <2> DEFINE told == IF HasBarrier(cut) THEN {v} ELSE {}
  <2>1. told \in SUBSET Views /\ {} \in SUBSET Views /\ Settle(told, {}, told)
    BY <1>1 DEF Release, Clearing, Released
  <2>2. ASSUME NEW w \in Views, Barred(w) \/ w \in told
        PROVE  Barred(w)' \/ w \in {} \cup told
    <3>1. CASE w = v
      BY <1>1, <1>2, <1>4, <1>6, <2>2, <3>1 DEF Barred
    <3>2. CASE w # v
      <4>1. frames'[w] = frames[w]
        BY <1>1, <1>2, <3>2
      <4> QED BY <1>1, <2>2, <3>2, <4>1 DEF Barred
    <3> QED BY <3>1, <3>2
  <2> HIDE DEF told
  <2> QED BY <2>1, <2>2, SettledIs
<1>10. TypeOK'
  <2>1. frames' \in [Views -> Seq(Frame)] /\ \A w \in Views : Len(frames'[w]) <= MaxInFlight
    BY <1>1, <1>2, <1>6 DEF Inv, TypeOK
  <2>2. callbacks' \in [Views -> {"none", "waiting", "submitted"}]
    BY <1>1 DEF Inv, TypeOK
  <2> QED BY <1>1, <1>8, <1>9, <2>1, <2>2 DEF Inv, TypeOK
<1>11. TickCovers'
  <2>1. ASSUME NEW w \in Views
        PROVE  \/ Due(frames'[w], w \in suspended', hiddenAt'[w]) = Due(frames[w], w \in suspended, hiddenAt[w])
               \/ Covers(tick', Due(frames'[w], w \in suspended', hiddenAt'[w]))
    <3>1. CASE w = v
      <4>1. frames'[w] = kept
        BY <1>1, <1>2, <3>1
      <4>2. Due(kept, v \in suspended, hiddenAt[v]) \in Ticks
        BY <1>6, Known, WakeOf DEF Inv
      <4> QED BY <1>7, <1>8, <3>1, <4>1, <4>2
    <3>2. CASE w # v
      BY <1>1, <1>2, <3>2
    <3> QED BY <3>1, <3>2
  <2> QED BY <1>1, <1>8, <2>1, CoversOn
<1> QED BY <1>9, <1>10, <1>11 DEF Inv

LEMMA RefusedKeeps ==
  ASSUME Inv, NEW v \in Views, NEW callback \in BOOLEAN, NEW barrier \in BOOLEAN,
         Refused(v, callback, barrier), bound' \subseteq Views, unbinding' \subseteq bound', UNCHANGED <<vblank, suspended, hiddenAt>>
  PROVE  Inv'
<1>1. /\ HoldLoose(v, barrier) /\ UNCHANGED frames /\ late' \in {late, late \cup {v}}
      /\ unsubmitted' = [unsubmitted EXCEPT ![v] = IF @ = Never THEN vblank ELSE @]
      /\ callbacks' = [callbacks EXCEPT ![v] = IF callback /\ @ = "none" THEN "waiting" ELSE @]
      /\ tick' = Sooner(tick, vblank)
  BY DEF Refused
<1>2. /\ loose' \in Seq(Loose) /\ Len(loose') <= MaxLoose
      /\ \A i \in DOMAIN loose' : \/ barrier /\ loose'[i].due = vblank
                                  \/ \E j \in DOMAIN loose : loose'[i].due = loose[j].due
      /\ owed' \subseteq Views /\ forgotten' \subseteq Views
      /\ ClearedIsUnblocked'
  BY <1>1, HoldLooseKeeps
<1>3. /\ tick' \in Times \cup {Never} /\ Covers(tick', vblank)
      /\ \A u \in Ticks : Covers(tick, u) => Covers(tick', u)
  <2>1. tick \in Times \cup {Never} /\ tick \in Ticks /\ vblank \in Ticks /\ vblank \in Times /\ vblank \in Nat
    BY Known, TimesAre DEF Inv, TypeOK
  <2>2. Covers(vblank, vblank)
    BY <2>1 DEF Covers
  <2> QED BY <1>1, <2>1, <2>2, SoonerCovers
<1>4. TypeOK'
  <2>1. unsubmitted' \in [Views -> Times \cup {Never}]
    BY <1>1, Known DEF Inv, TypeOK
  <2>2. callbacks' \in [Views -> {"none", "waiting", "submitted"}]
    BY <1>1 DEF Inv, TypeOK
  <2> QED BY <1>1, <1>2, <1>3, <2>1, <2>2 DEF Inv, TypeOK, Loose
<1>5. TickCovers'
  <2>1. \A w \in Views : unsubmitted'[w] \in {unsubmitted[w], vblank}
    BY <1>1 DEF Inv, TypeOK
  <2> QED BY <1>1, <1>2, <1>3, <2>1, CoversOn
<1> QED BY <1>2, <1>4, <1>5 DEF Inv

LEMMA NotShownKeeps ==
  ASSUME Inv, NEW v \in Views, NEW callback \in BOOLEAN, NEW barrier \in BOOLEAN,
         NotShown(v, callback, barrier), UNCHANGED <<vblank, bound, unbinding, suspended, hiddenAt>>
  PROVE  Inv'
<1>1. /\ HoldLoose(v, barrier) /\ UNCHANGED <<frames, late, unsubmitted>>
      /\ callbacks' = [callbacks EXCEPT ![v] = IF callback THEN "waiting" ELSE @]
      /\ tick' = IF barrier THEN Sooner(tick, vblank) ELSE tick
  BY DEF NotShown
<1>2. /\ loose' \in Seq(Loose) /\ Len(loose') <= MaxLoose
      /\ \A i \in DOMAIN loose' : \/ barrier /\ loose'[i].due = vblank
                                  \/ \E j \in DOMAIN loose : loose'[i].due = loose[j].due
      /\ owed' \subseteq Views /\ forgotten' \subseteq Views
      /\ ClearedIsUnblocked'
  BY <1>1, HoldLooseKeeps
<1>3. /\ tick' \in Times \cup {Never}
      /\ barrier => Covers(tick', vblank)
      /\ \A u \in Ticks : Covers(tick, u) => Covers(tick', u)
  <2>1. tick \in Times \cup {Never} /\ tick \in Ticks /\ vblank \in Ticks /\ vblank \in Times /\ vblank \in Nat
    BY Known, TimesAre DEF Inv, TypeOK
  <2>2. Covers(vblank, vblank)
    BY <2>1 DEF Covers
  <2> QED BY <1>1, <2>1, <2>2, SoonerCovers
<1>4. TypeOK'
  <2>1. callbacks' \in [Views -> {"none", "waiting", "submitted"}]
    BY <1>1 DEF Inv, TypeOK
  <2> QED BY <1>1, <1>2, <1>3, <2>1 DEF Inv, TypeOK, Loose
<1>5. TickCovers'
  BY <1>1, <1>2, <1>3, CoversOn
<1> QED BY <1>2, <1>4, <1>5 DEF Inv

LEMMA CommitKeeps ==
  ASSUME Inv, NEW v \in Views, NEW callback \in BOOLEAN, NEW barrier \in BOOLEAN, Commit(v, callback, barrier)
  PROVE  Inv'
<1>1. /\ bound' \subseteq Views /\ unbinding' \subseteq bound'
      /\ UNCHANGED <<vblank, bound, unbinding, suspended, hiddenAt>>
  BY DEF Commit, Inv, TypeOK
<1> QED BY <1>1, SubmittedKeeps, RefusedKeeps, NotShownKeeps DEF Commit

LEMMA BindKeeps ==
  ASSUME Inv, NEW v \in Views, Bind(v)
  PROVE  Inv'
<1>1. /\ bound' \subseteq Views /\ unbinding' \subseteq bound'
      /\ UNCHANGED <<vblank, suspended, hiddenAt>> /\ FALSE \in BOOLEAN
  BY DEF Bind, Inv, TypeOK
<1> QED BY <1>1, SubmittedKeeps, RefusedKeeps DEF Bind

\* Some of v's oldest frames go, and the client they held back is unblocked if
\* the view still shows it.
LEMMA FewerFrames ==
  ASSUME Inv, NEW v \in Views, NEW n \in 0 .. Len(frames[v]),
         frames' = [frames EXCEPT ![v] = SubSeq(@, n + 1, Len(@))],
         Release(v, SubSeq(frames[v], 1, n), ViewClient(v)),
         vblank' \in 1 .. Refresh, bound' \subseteq Views, unbinding' \subseteq bound', late' \subseteq Views,
         callbacks' \in [Views -> {"none", "waiting", "submitted"}],
         UNCHANGED <<tick, suspended, hiddenAt, loose, unsubmitted>>
  PROVE  Inv'
<1> DEFINE fs == frames[v]
           kept == SubSeq(fs, n + 1, Len(fs))
           cut == SubSeq(fs, 1, n)
<1>1. /\ fs \in Seq(Frame) /\ Len(fs) \in Nat /\ Len(fs) <= MaxInFlight /\ n \in 0 .. Len(fs)
      /\ frames' = [frames EXCEPT ![v] = kept]
  BY DEF Inv, TypeOK
<1>2. /\ kept \in Seq(Frame) /\ Len(kept) = Len(fs) - n
      /\ \A i \in DOMAIN kept : i + n \in DOMAIN fs /\ kept[i] = fs[i + n]
      /\ HasBarrier(fs) => HasBarrier(cut) \/ HasBarrier(kept)
  <2> HIDE DEF fs
  <2>1. HasBarrier(fs) => HasBarrier(cut) \/ HasBarrier(kept)
    BY <1>1, BarrierCut
  <2> QED BY <1>1, <2>1, CutIs
<1>3. Release(v, cut, ViewClient(v)) /\ loose' = loose
  OBVIOUS
<1> HIDE DEF fs, kept, cut
<1>5. \A w \in Views : frames'[w] = IF w = v THEN kept ELSE frames[w]
  BY <1>1 DEF Inv, TypeOK
<1>4. ClearedIsUnblocked' /\ owed' \subseteq Views /\ forgotten' \subseteq Views
  <2> DEFINE cleared == IF HasBarrier(cut) THEN {v} ELSE {}
             lost == cleared \ ViewClient(v)
             told == IF HasBarrier(cut) THEN ViewClient(v) ELSE {}
  <2>1. cleared \in SUBSET Views /\ lost \in SUBSET Views /\ Settle(cleared, lost, told)
    BY <1>3 DEF Release, Clearing, Released
  <2>2. ASSUME NEW w \in Views, Barred(w) \/ w \in cleared
        PROVE  Barred(w)' \/ w \in lost \cup told
    <3>1. CASE w = v
      BY <1>2, <1>3, <1>5, <2>2, <3>1 DEF Barred, fs
    <3>2. CASE w # v
      BY <1>3, <1>5, <2>2, <3>2 DEF Barred
    <3> QED BY <3>1, <3>2
  <2> HIDE DEF cleared, lost, told
  <2> QED BY <2>1, <2>2, SettledIs
<1>6. TypeOK'
  <2>1. frames' \in [Views -> Seq(Frame)] /\ \A w \in Views : Len(frames'[w]) <= MaxInFlight
    <3>1. Len(kept) <= MaxInFlight
      BY <1>1, <1>2, TimesAre
    <3> QED BY <1>1, <1>2, <1>5, <3>1 DEF Inv, TypeOK
  <2> QED BY <1>4, <2>1 DEF Inv, TypeOK
<1>7. TickCovers'
  <2>1. \A w \in Views : Due(frames'[w], w \in suspended', hiddenAt'[w])
                           \in {Never, Due(frames[w], w \in suspended, hiddenAt[w])}
    <3>1. ASSUME NEW hidden \in BOOLEAN PROVE Due(kept, hidden, hiddenAt[v]) \in {Never, Due(fs, hidden, hiddenAt[v])}
      <4>1. \A i \in DOMAIN kept : \E j \in DOMAIN fs :
              (kept[i].barrier => fs[j].barrier) /\ (fs[j].flushed => kept[i].flushed)
        BY <1>2
      <4>2. hiddenAt[v] \in Times
        BY Known
      <4> QED BY <1>1, <1>2, <4>1, <4>2, DueAgain
    <3> DEFINE hidden == v \in suspended
    <3>2. hidden \in BOOLEAN
      OBVIOUS
    <3> HIDE DEF hidden
    <3>3. Due(kept, hidden, hiddenAt[v]) \in {Never, Due(fs, hidden, hiddenAt[v])}
      BY <3>1, <3>2
    <3> QED BY <1>5, <3>3 DEF hidden, fs
  <2>2. UNCHANGED <<tick, loose, unsubmitted>>
    OBVIOUS
  <2> QED BY <2>1, <2>2, CoversOn
<1> QED BY <1>4, <1>6, <1>7 DEF Inv

LEMMA UnbindKeeps ==
  ASSUME Inv, NEW v \in Views, Unbind(v)
  PROVE  Inv'
<1> DEFINE fs == frames[v]
           n == Len(fs)
<1>1. /\ fs \in Seq(Frame) /\ n \in Nat /\ n \in 0 .. n /\ vblank' \in 1 .. Refresh
      /\ bound' \subseteq Views /\ unbinding' \subseteq bound' /\ late' \subseteq Views
  BY DEF Unbind, ClearView, Inv, TypeOK
<1>2. callbacks' \in [Views -> {"none", "waiting", "submitted"}]
  BY DEF Unbind, ClearView, Inv, TypeOK
<1>3. SubSeq(fs, n + 1, Len(fs)) = <<>> /\ SubSeq(fs, 1, n) = fs
  BY <1>1, SubSeqEmpty, SubSeqFull
<1>4. frames' = [frames EXCEPT ![v] = SubSeq(@, n + 1, Len(@))]
  BY <1>3 DEF Unbind
<1>5. Release(v, SubSeq(frames[v], 1, n), ViewClient(v))
  BY <1>3 DEF Unbind
<1>6. UNCHANGED <<tick, suspended, hiddenAt, loose, unsubmitted>>
  BY DEF Unbind
<1> QED BY <1>1, <1>2, <1>4, <1>5, <1>6, FewerFrames

LEMMA UnboundKeeps ==
  ASSUME Inv, NEW v \in Views, Unbound(v)
  PROVE  Inv'
<1>1. /\ UNCHANGED <<vblank, tick, suspended, hiddenAt, frames, loose, unsubmitted, owed, forgotten>>
      /\ bound' = bound \ {v} /\ unbinding' = {} /\ late' \in {late, late \cup {v}}
      /\ callbacks' = [callbacks EXCEPT ![v] = IF @ = "none" THEN "none" ELSE "waiting"]
  BY DEF Unbound, ClearView
<1>2. TypeOK'
  <2>1. callbacks' \in [Views -> {"none", "waiting", "submitted"}]
    BY <1>1 DEF Inv, TypeOK
  <2> QED BY <1>1, <2>1 DEF Inv, TypeOK
<1>3. TickCovers'
  BY <1>1, CoveredIs DEF Inv
<1>4. ClearedIsUnblocked'
  BY <1>1 DEF Inv, ClearedIsUnblocked, Barred
<1> QED BY <1>2, <1>3, <1>4 DEF Inv

-----------------------------------------------------------------------------
(* The shell *)

LEMMA PresentedKeeps ==
  ASSUME Inv, NEW v \in Views, NEW n \in 0 .. MaxInFlight, Presented(v, n)
  PROVE  Inv'
<1>1. n \in 0 .. Len(frames[v])
  <2>1. frames[v] \in Seq(Frame)
    BY DEF Inv, TypeOK
  <2>2. Len(frames[v]) \in Nat
    BY <2>1
  <2> QED BY <2>2, TimesAre DEF Presented
<1>2. bound' \subseteq Views /\ unbinding' \subseteq bound' /\ late' \subseteq Views /\ vblank' \in 1 .. Refresh
  BY DEF Presented, Inv, TypeOK
<1>3. callbacks' \in [Views -> {"none", "waiting", "submitted"}]
  BY DEF Presented, Inv, TypeOK
<1>4. /\ frames' = [frames EXCEPT ![v] = SubSeq(@, n + 1, Len(@))]
      /\ Release(v, SubSeq(frames[v], 1, n), ViewClient(v))
      /\ UNCHANGED <<tick, suspended, hiddenAt, loose, unsubmitted>>
  BY DEF Presented
<1> QED BY <1>1, <1>2, <1>3, <1>4, FewerFrames

LEMMA SuspendKeeps ==
  ASSUME Inv, NEW v \in Views, NEW on \in BOOLEAN, Suspend(v, on)
  PROVE  Inv'
<1> DEFINE stale == NextStale(frames[v], ~on)
           wake == IF on THEN vblank ELSE Later(stale, Stale)
           due == Due(frames[v], on, hiddenAt'[v])
<1>1. /\ suspended' = IF on THEN suspended \cup {v} ELSE suspended \ {v}
      /\ hiddenAt' = [hiddenAt EXCEPT ![v] = IF on THEN vblank ELSE 0]
      /\ tick' = IF stale = Never THEN tick ELSE Sooner(tick, wake)
      /\ UNCHANGED <<vblank, bound, unbinding, frames, late, callbacks, loose, unsubmitted, owed, forgotten>>
  BY DEF Suspend
<1>2. /\ vblank \in Times /\ vblank \in 1 .. Refresh /\ frames[v] \in Seq(Frame)
      /\ tick \in Ticks /\ tick \in Times \cup {Never} /\ Times \cup {Never} \subseteq Ticks
  BY Known DEF Inv, TypeOK
<1>3. hiddenAt' \in [Views -> Times] /\ hiddenAt'[v] \in Times
  BY <1>1, <1>2, TimesAre DEF Inv, TypeOK
<1>4. stale \in (0 .. Stale) \cup {Never}
  BY <1>2, StaleIs
<1>5. due \in Ticks /\ (stale = Never => due = Never)
  <2>1. due \in Ticks
    BY <1>2, <1>3, WakeIs
  <2>2. CASE on
    <3>1. stale = Never <=> ~HasBarrier(frames[v])
      BY <1>2, <2>2, StaleIs DEF HasBarrier
    <3> QED BY <2>1, <2>2, <3>1 DEF Due
  <2>3. CASE ~on
    BY <2>1, <2>3 DEF Due
  <2> QED BY <2>2, <2>3
<1>6. ASSUME stale # Never PROVE wake \in Times /\ Covers(wake, due)
  <2>1. stale \in Nat /\ stale <= Stale /\ Stale \in Nat /\ Stale \in Times
    <3>1. stale \in 0 .. Stale
      BY <1>4, <1>6
    <3> HIDE DEF stale
    <3> QED BY <3>1, TimesAre
  <2>2. CASE on
    <3>1. hiddenAt'[v] = vblank
      BY <1>1, <2>2 DEF Inv, TypeOK
    <3>2. due \in {Never, Later(vblank, Refresh)}
      BY <2>2, <3>1 DEF Due
    <3>3. vblank <= Later(vblank, Refresh) /\ vblank \in Nat /\ Never \notin Nat
      BY <1>2, TimesAre DEF Later
    <3> HIDE DEF due
    <3>4. Covers(vblank, due)
      BY <3>2, <3>3 DEF Covers
    <3> QED BY <1>2, <2>2, <3>4
  <2>3. CASE ~on
    <3>1. wake = Stale
      <4> HIDE DEF stale
      <4> QED BY <2>1, <2>3 DEF Later
    <3>2. due \in {Never, Stale}
      BY <2>3 DEF Due
    <3> HIDE DEF due
    <3>3. Covers(Stale, due)
      BY <2>1, <3>2, TimesAre DEF Covers
    <3> QED BY <2>1, <3>1, <3>3
  <2> QED BY <2>2, <2>3
<1> HIDE DEF stale, wake, due
<1>7. /\ tick' \in Times \cup {Never} /\ Covers(tick', due)
      /\ \A u \in Ticks : Covers(tick, u) => Covers(tick', u)
  <2>1. CASE stale = Never
    BY <1>1, <1>2, <1>5, <2>1 DEF Covers
  <2>2. CASE stale # Never
    BY <1>1, <1>2, <1>5, <1>6, <2>2, SoonerCovers
  <2> QED BY <2>1, <2>2
<1>8. TypeOK'
  BY <1>1, <1>3, <1>7 DEF Inv, TypeOK
<1>9. TickCovers'
  <2>1. ASSUME NEW w \in Views
        PROVE  \/ Due(frames'[w], w \in suspended', hiddenAt'[w]) = Due(frames[w], w \in suspended, hiddenAt[w])
               \/ Covers(tick', Due(frames'[w], w \in suspended', hiddenAt'[w]))
    <3>1. CASE w = v
      <4>1. (v \in suspended') = on
        BY <1>1
      <4> QED BY <1>1, <1>7, <3>1, <4>1 DEF due
    <3>2. CASE w # v
      <4>1. (w \in suspended') = (w \in suspended) /\ hiddenAt'[w] = hiddenAt[w] /\ frames'[w] = frames[w]
        BY <1>1, <3>2 DEF Inv, TypeOK
      <4> QED BY <4>1
    <3> QED BY <3>1, <3>2
  <2> QED BY <1>1, <1>7, <2>1, CoversOn
<1>10. ClearedIsUnblocked'
  BY <1>1 DEF Inv, ClearedIsUnblocked, Barred
<1> QED BY <1>8, <1>9, <1>10 DEF Inv

-----------------------------------------------------------------------------
(* The clock *)

LEMMA AfterIs ==
  ASSUME Inv, NEW v \in Views
  PROVE  /\ AfterTick(v) \in Seq(Frame) /\ Len(AfterTick(v)) <= MaxInFlight
         /\ DOMAIN AfterTick(v) = DOMAIN frames[v]
         /\ \A i \in DOMAIN frames[v] :
              AfterTick(v)[i].barrier <=> frames[v][i].barrier /\ ~Releases(v, frames[v][i])
<1> DEFINE fs == frames[v]
<1>1. fs \in Seq(Frame) /\ Len(fs) \in Nat /\ Len(fs) <= MaxInFlight /\ DOMAIN fs = 1 .. Len(fs)
  BY DEF Inv, TypeOK
<1>2. \A i \in DOMAIN fs : fs[i] \in Frame
  BY <1>1
<1> DEFINE next(f) == [f EXCEPT !.barrier = @ /\ ~Releases(v, f),
                                !.flushed = @ \/ (v \notin suspended /\ f.age > Stale)]
<1>3. AfterTick(v) = [i \in DOMAIN fs |-> next(fs[i])]
  BY DEF AfterTick
<1>4. ASSUME NEW f \in Frame
      PROVE  next(f) \in Frame /\ (next(f).barrier <=> f.barrier /\ ~Releases(v, f))
  <2> DEFINE barrier == f.barrier /\ ~Releases(v, f)
             flushed == f.flushed \/ (v \notin suspended /\ f.age > Stale)
  <2>1. barrier \in BOOLEAN /\ flushed \in BOOLEAN
    OBVIOUS
  <2>2. next(f) = [f EXCEPT !.barrier = barrier, !.flushed = flushed]
    OBVIOUS
  <2> HIDE DEF barrier, flushed, next
  <2>3. next(f) \in Frame /\ next(f).barrier = barrier
    BY <2>1, <2>2 DEF Frame
  <2> QED BY <2>3 DEF barrier
<1> HIDE DEF fs, next
<1>5. AfterTick(v) \in Seq(Frame) /\ DOMAIN AfterTick(v) = DOMAIN fs /\ Len(AfterTick(v)) = Len(fs)
  BY <1>1, <1>2, <1>3, <1>4
<1>6. \A i \in DOMAIN fs : AfterTick(v)[i].barrier <=> fs[i].barrier /\ ~Releases(v, fs[i])
  BY <1>2, <1>3, <1>4
<1> QED BY <1>1, <1>5, <1>6 DEF fs

LEMMA TickKeeps ==
  ASSUME Inv, Tick
  PROVE  Inv'
<1> DEFINE after == [v \in Views |-> AfterTick(v)]
           hidden == [v \in Views |-> IF v \in suspended /\ hiddenAt[v] = 0 /\ HasBarrier(frames[v])
                                      THEN HiddenRelease ELSE hiddenAt[v]]
           T == {i \in DOMAIN loose : loose[i].due > 0}
           held == At(loose, T)
           unsent == [v \in Views |-> IF unsubmitted[v] = 0 THEN Never ELSE unsubmitted[v]]
           wake(v) == WakeFor(after[v], v \in suspended, hidden[v])
           wakes == ({wake(v) : v \in Views} \cup {held[i].due : i \in DOMAIN held}
                     \cup {unsent[v] : v \in Views}) \ {Never}
<1>1. /\ frames' = after /\ hiddenAt' = hidden /\ loose' = held /\ unsubmitted' = unsent
      /\ callbacks' = [v \in Views |-> IF Flushed(v) THEN "none" ELSE callbacks[v]]
      /\ Settle(ReleasedViews \cup LooseClients, ReleasedViews \ bound, Unblocks)
      /\ tick' = IF wakes = {} THEN Never ELSE Later(Min(wakes), 1)
      /\ UNCHANGED <<vblank, bound, unbinding, suspended, late>>
  BY DEF Tick
<1>2. \A v \in Views : /\ after[v] = AfterTick(v) /\ after[v] \in Seq(Frame) /\ Len(after[v]) <= MaxInFlight
                       /\ hidden[v] \in Times
                       /\ unsent[v] \in (Times \ {0}) \cup {Never}
  <2>1. ASSUME NEW v \in Views PROVE unsent[v] \in (Times \ {0}) \cup {Never}
    <3>1. unsubmitted[v] \in Times \cup {Never}
      BY Known
    <3> QED BY <3>1
  <2>2. ASSUME NEW v \in Views PROVE hidden[v] \in Times
    BY Known, TimesAre
  <2> QED BY <2>1, <2>2, AfterIs
<1>3. T \in SUBSET DOMAIN loose /\ loose \in Seq(Loose) /\ Len(loose) \in Nat /\ Len(loose) <= MaxLoose
  BY Known DEF Inv, TypeOK
<1>4. /\ held \in Seq(Loose) /\ Len(held) <= Len(loose)
      /\ \A i \in DOMAIN held : \E j \in T : held[i] = loose[j]
      /\ \A j \in T : \E i \in DOMAIN held : held[i] = loose[j]
  <2> HIDE DEF T
  <2> QED BY <1>3, AtIs
<1>5. \A i \in DOMAIN held : held[i].due \in Times \ {0}
  <2>1. \A j \in T : loose[j] \in Loose /\ loose[j].due > 0
    BY <1>3
  <2>2. \A j \in T : loose[j].due \in Times \ {0}
    BY <2>1, TimesAre DEF Loose
  <2> HIDE DEF T, held
  <2> QED BY <1>4, <2>2
<1> DEFINE aim(v) == Due(after[v], v \in suspended, hidden[v])
<1>6. ASSUME NEW v \in Views
      PROVE  /\ wake(v) \in Times \cup {Never}
             /\ aim(v) \in Times \cup {Never}
             /\ aim(v) # Never => wake(v) # Never /\ wake(v) <= aim(v) /\ 1 <= aim(v)
  <2> DEFINE off == v \in suspended
             fs == after[v]
             release == hidden[v]
  <2>1. off \in BOOLEAN /\ fs \in Seq(Frame) /\ release \in Times /\ vblank \in 1 .. Refresh
    BY <1>2, Known
  <2> HIDE DEF off, fs, release
  <2>2. /\ WakeFor(fs, off, release) \in Times \cup {Never}
        /\ Due(fs, off, release) \in Times \cup {Never}
        /\ Due(fs, off, release) # Never =>
             /\ WakeFor(fs, off, release) # Never
             /\ WakeFor(fs, off, release) <= Due(fs, off, release)
             /\ 1 <= Due(fs, off, release)
    BY <2>1, WakeIs
  <2> QED BY <2>2 DEF off, fs, release
<1> HIDE DEF after, hidden, held, unsent, wake, aim, T
<1>7. /\ tick' \in Times \cup {Never}
      /\ \A w \in wakes : tick' # Never /\ tick' <= Later(w, 1)
  <2>1. wakes \subseteq Times
    BY <1>2, <1>5, <1>6
  <2>2. CASE wakes = {}
    BY <1>1, <2>2
  <2>3. CASE wakes # {}
    <3> HIDE DEF wakes
    <3>1. /\ wakes \in SUBSET Nat /\ wakes \subseteq Times /\ Times \subseteq Nat /\ Never \notin Nat
          /\ 1 \in Times
      BY <2>1, TimesAre DEF Times
    <3>2. Min(wakes) \in wakes /\ \A w \in wakes : Min(wakes) <= w
      BY <2>3, <3>1, LeastIs
    <3>3. tick' = Later(Min(wakes), 1) /\ Min(wakes) \in Times
      BY <1>1, <2>3, <3>1, <3>2
    <3>4. Later(Min(wakes), 1) \in Times
      BY <3>1, <3>3 DEF Later
    <3>5. ASSUME NEW w \in wakes PROVE Later(Min(wakes), 1) <= Later(w, 1)
      <4>1. Min(wakes) \in Nat /\ w \in Nat /\ Min(wakes) <= w
        BY <3>1, <3>2, <3>3
      <4> QED BY <4>1 DEF Later
    <3> QED BY <3>1, <3>3, <3>4, <3>5
  <2> QED BY <2>2, <2>3
<1>8. ASSUME NEW w \in Times, w # 0, w \in wakes PROVE Covers(tick', w)
  <2>1. Later(w, 1) = w
    BY <1>8, TimesAre DEF Later
  <2> QED BY <1>7, <1>8, <2>1 DEF Covers
<1>9. ASSUME NEW v \in Views PROVE Covers(tick', aim(v)) /\ Covers(tick', unsent[v])
  <2>1. ASSUME aim(v) # Never PROVE Covers(tick', aim(v))
    <3>1. wake(v) \in wakes /\ wake(v) \in Times /\ wake(v) <= aim(v) /\ 1 <= aim(v) /\ aim(v) \in Times
      BY <1>6, <2>1
    <3>2. Later(wake(v), 1) <= aim(v) /\ Later(wake(v), 1) \in Nat
      BY <3>1, TimesAre DEF Later
    <3>3. tick' # Never /\ tick' <= Later(wake(v), 1) /\ tick' \in Times
      BY <1>7, <3>1
    <3>4. tick' <= aim(v)
      BY <3>1, <3>2, <3>3, TimesAre
    <3> QED BY <3>3, <3>4 DEF Covers
  <2>2. ASSUME unsent[v] # Never PROVE Covers(tick', unsent[v])
    <3>1. unsent[v] \in wakes /\ unsent[v] \in Times \ {0}
      BY <1>2, <2>2
    <3> QED BY <1>8, <3>1
  <2>3. Covers(tick', Never)
    BY DEF Covers
  <2> QED BY <2>1, <2>2, <2>3
<1>10. ASSUME NEW i \in DOMAIN held PROVE Covers(tick', held[i].due)
  <2>1. held[i].due \in wakes /\ held[i].due \in Times \ {0}
    <3>1. Never \notin Times
      BY TimesAre
    <3> QED BY <1>5, <3>1
  <2> QED BY <1>8, <2>1
<1>11. ClearedIsUnblocked' /\ owed' \subseteq Views /\ forgotten' \subseteq Views
  <2> DEFINE cleared == ReleasedViews \cup LooseClients
             lost == ReleasedViews \ bound
  <2>1. cleared \in SUBSET Views /\ lost \in SUBSET Views
    <3>1. \A i \in DOMAIN loose : loose[i].client \in Views
      BY Known DEF Loose
    <3> QED BY <3>1 DEF ReleasedViews, LooseClients
  <2>2. cleared \subseteq lost \cup Unblocks
    BY DEF Unblocks, ViewClient, ReleasedViews
  <2>3. ASSUME NEW w \in Views, Barred(w), w \notin cleared
        PROVE  Barred(w)'
    <3>1. CASE HasBarrier(frames[w])
      <4>1. HasBarrier(AfterTick(w))
        BY <2>3, <3>1, AfterIs DEF HasBarrier, ReleasedViews
      <4> QED BY <1>1, <1>2, <4>1 DEF Barred
    <3>2. CASE w \in ClientsOf(loose)
      <4>1. PICK j \in DOMAIN loose : loose[j].client = w
        BY <3>2 DEF ClientsOf
      <4>2. loose[j].due # 0
        BY <2>3, <4>1 DEF LooseClients
      <4>3. loose[j].due \in Nat
        BY Known, TimesAre DEF Loose
      <4>4. j \in T
        BY <4>2, <4>3 DEF T
      <4>5. PICK i \in DOMAIN held : held[i] = loose[j]
        BY <1>4, <4>4
      <4>6. w \in ClientsOf(held)
        BY <4>1, <4>5 DEF ClientsOf
      <4> QED BY <1>1, <4>6 DEF Barred
    <3> QED BY <2>3, <3>1, <3>2 DEF Barred
  <2>4. Settle(cleared, lost, Unblocks)
    BY <1>1
  <2> HIDE DEF cleared, lost
  <2> QED BY <2>1, <2>2, <2>3, <2>4, SettledIs
<1>12. TypeOK'
  <2>1. frames' \in [Views -> Seq(Frame)] /\ hiddenAt' \in [Views -> Times]
    BY <1>1, <1>2 DEF after, hidden
  <2>2. unsubmitted' \in [Views -> Times \cup {Never}]
    BY <1>1, <1>2 DEF unsent
  <2>3. callbacks' \in [Views -> {"none", "waiting", "submitted"}]
    BY <1>1 DEF Inv, TypeOK
  <2>4. loose' \in Seq(Loose) /\ Len(loose') <= MaxLoose
    <3>1. Len(held) \in Nat
      BY <1>4
    <3> QED BY <1>1, <1>3, <1>4, <3>1, TimesAre
  <2>5. owed' \subseteq Views /\ forgotten' \subseteq Views
    BY <1>11
  <2>6. \A v \in Views : Len(frames'[v]) <= MaxInFlight
    BY <1>1, <1>2
  <2> QED BY <1>1, <1>7, <2>1, <2>2, <2>3, <2>4, <2>5, <2>6 DEF Inv, TypeOK, Loose
<1>13. TickCovers'
  BY <1>1, <1>9, <1>10, CoveredIs DEF aim
<1> QED BY <1>11, <1>12, <1>13 DEF Inv

\* A time after a unit of time, as Pass has it.
Down1(t) == IF t = Never THEN Never ELSE Later(0, t - 1)

LEMMA DownIs ==
  ASSUME NEW s \in Times \cup {Never}, NEW t \in Times \cup {Never}
  PROVE  /\ Down1(t) \in Times \cup {Never} /\ (t \in Times => Down1(t) \in Times)
         /\ Covers(s, t) => Covers(Down1(s), Down1(t))
         /\ Covers(s, t) => Covers(Down1(s), t)
<1>1. \A u \in Times : /\ u \in Nat /\ u # Never /\ Down1(u) = Later(0, u - 1)
                       /\ Later(0, u - 1) \in Times /\ Later(0, u - 1) # Never /\ Later(0, u - 1) <= u
  <2>1. \A u \in Times : Later(0, u - 1) \in 0 .. u
    BY TimesAre DEF Later
  <2>2. \A u \in Times : u \in Nat /\ u # Never
    BY TimesAre
  <2>3. \A u \in Times : Later(0, u - 1) \in Times
    BY <2>1, TimesAre
  <2>4. \A u \in Times : Later(0, u - 1) <= u
    BY <2>1, <2>2
  <2> QED BY <2>2, <2>3, <2>4 DEF Down1
<1>2. Down1(Never) = Never
  BY DEF Down1
<1>3. CASE t = Never
  BY <1>2, <1>3 DEF Covers
<1>4. CASE t \in Times /\ s = Never
  BY <1>1, <1>4 DEF Covers
<1>5. CASE t \in Times /\ s \in Times
  <2>1. s <= t => Later(0, s - 1) <= Later(0, t - 1)
    BY <1>1, <1>5 DEF Later
  <2>2. s <= t => Later(0, s - 1) <= t
    <3>1. s \in Nat /\ t \in Nat /\ Later(0, s - 1) <= s /\ Later(0, s - 1) \in Nat
      BY <1>1, <1>5
    <3> QED BY <3>1
  <2> QED BY <1>1, <1>5, <2>1, <2>2 DEF Covers
<1> QED BY <1>3, <1>4, <1>5

LEMMA PassKeeps ==
  ASSUME Inv, Pass
  PROVE  Inv'
<1> DEFINE older(f) == [f EXCEPT !.age = IF @ > Stale THEN @ ELSE @ + 1]
           aged(fs) == [i \in DOMAIN fs |-> older(fs[i])]
           nearer(b) == [b EXCEPT !.due = Down1(@)]
<1>1. /\ vblank' = IF vblank = 1 THEN Refresh ELSE vblank - 1
      /\ tick' = Down1(tick)
      /\ hiddenAt' = [v \in Views |-> Down1(hiddenAt[v])]
      /\ unsubmitted' = [v \in Views |-> Down1(unsubmitted[v])]
      /\ loose' = [i \in DOMAIN loose |-> nearer(loose[i])]
      /\ frames' = [v \in Views |-> aged(frames[v])]
      /\ UNCHANGED <<bound, unbinding, suspended, late, callbacks, owed, forgotten>>
  BY DEF Pass, Down1
<1>2. tick \in Times \cup {Never} /\ vblank \in 1 .. Refresh /\ Refresh \in Nat
  BY Known, TimesAre DEF Inv, TypeOK
<1>3. ASSUME NEW f \in Frame
      PROVE  older(f) \in Frame /\ older(f).barrier = f.barrier /\ older(f).flushed = f.flushed
  <2> DEFINE age == IF f.age > Stale THEN f.age ELSE f.age + 1
  <2>1. f.age \in 0 .. Stale + 1
    BY DEF Frame
  <2>2. age \in 0 .. Stale + 1
    BY <2>1, TimesAre
  <2>3. older(f) = [f EXCEPT !.age = age]
    OBVIOUS
  <2> HIDE DEF age, older
  <2> QED BY <2>2, <2>3 DEF Frame
<1>4. ASSUME NEW fs \in Seq(Frame)
      PROVE  /\ aged(fs) \in Seq(Frame) /\ Len(aged(fs)) = Len(fs) /\ DOMAIN aged(fs) = DOMAIN fs
             /\ \A i \in DOMAIN fs : aged(fs)[i].barrier = fs[i].barrier /\ aged(fs)[i].flushed = fs[i].flushed
  <2>1. Len(fs) \in Nat /\ DOMAIN fs = 1 .. Len(fs) /\ \A i \in DOMAIN fs : fs[i] \in Frame
    OBVIOUS
  <2> HIDE DEF older
  <2> QED BY <1>3, <2>1
<1>5. ASSUME NEW b \in Loose
      PROVE  nearer(b) \in Loose /\ nearer(b).client = b.client /\ nearer(b).due = Down1(b.due)
  <2>1. b.due \in Times
    BY DEF Loose
  <2>2. Down1(b.due) \in Times
    BY <2>1, DownIs
  <2> QED BY <2>2 DEF Loose
<1> HIDE DEF older, aged, nearer
<1>6. /\ loose' \in Seq(Loose) /\ Len(loose') = Len(loose) /\ DOMAIN loose' = DOMAIN loose
      /\ \A i \in DOMAIN loose : /\ loose'[i].client = loose[i].client
                                 /\ loose'[i].due = Down1(loose[i].due) /\ loose[i].due \in Times
  <2>1. /\ Len(loose) \in Nat /\ DOMAIN loose = 1 .. Len(loose) /\ \A i \in DOMAIN loose : loose[i] \in Loose
        /\ \A i \in DOMAIN loose : loose[i].due \in Times
    BY Known DEF Loose
  <2> QED BY <1>1, <1>5, <2>1
<1>7. TypeOK'
  <2>1. vblank' \in 1 .. Refresh
    BY <1>1, <1>2
  <2>2. tick' \in Times \cup {Never} /\ \A v \in Views : Down1(unsubmitted[v]) \in Times \cup {Never} /\ Down1(hiddenAt[v]) \in Times
    BY <1>1, <1>2, Known, DownIs
  <2>3. frames' \in [Views -> Seq(Frame)] /\ \A v \in Views : Len(frames'[v]) <= MaxInFlight
    BY <1>1, <1>4, Known DEF Inv, TypeOK
  <2>4. loose' \in Seq(Loose) /\ Len(loose') <= MaxLoose
    BY <1>6 DEF Inv, TypeOK
  <2> QED BY <1>1, <2>1, <2>2, <2>3, <2>4 DEF Inv, TypeOK, Loose
<1>8. TickCovers'
  <2>1. ASSUME NEW v \in Views PROVE Covers(tick', unsubmitted'[v])
    <3>1. Covers(tick, unsubmitted[v]) /\ unsubmitted[v] \in Times \cup {Never}
      BY CoveredIs, Known DEF Inv
    <3> QED BY <1>1, <1>2, <3>1, DownIs
  <2>2. ASSUME NEW i \in DOMAIN loose PROVE Covers(tick', loose'[i].due)
    <3>1. Covers(tick, loose[i].due) /\ loose[i].due \in Times \cup {Never}
      BY <1>6, CoveredIs DEF Inv
    <3> QED BY <1>1, <1>2, <1>6, <3>1, DownIs
  <2>3. ASSUME NEW v \in Views, NEW hidden \in BOOLEAN, Covers(tick, Due(frames[v], hidden, hiddenAt[v]))
        PROVE  Covers(tick', Due(frames'[v], hidden, hiddenAt'[v]))
    <3> DEFINE fs == frames[v]
               gs == frames'[v]
               h == hiddenAt[v]
               due == Due(fs, hidden, h)
    <3>1. /\ fs \in Seq(Frame) /\ h \in Times /\ vblank \in 1 .. Refresh /\ Down1(h) \in Times
          /\ gs = aged(fs) /\ hiddenAt'[v] = Down1(h)
      BY <1>1, Known, DownIs
    <3> HIDE DEF fs, gs, h
    <3>2. /\ gs \in Seq(Frame) /\ DOMAIN gs = DOMAIN fs
          /\ \A i \in DOMAIN gs : (gs[i].barrier => fs[i].barrier) /\ (fs[i].flushed => gs[i].flushed)
      BY <1>4, <3>1
    <3>3. due \in Times \cup {Never}
      BY <3>1, WakeIs
    <3>4. Covers(tick, due) /\ Covers(tick', due) /\ Covers(tick', Never)
      BY <1>1, <1>2, <2>3, <3>3, DownIs DEF Covers, fs, h
    <3>5. Due(gs, hidden, h) \in {Never, due}
      BY <3>1, <3>2, DueAgain
    <3>6. CASE ~hidden
      <4>1. Due(gs, hidden, Down1(h)) = Due(gs, hidden, h)
        BY <3>6 DEF Due
      <4> QED BY <3>1, <3>4, <3>5, <4>1 DEF gs
    <3>7. CASE hidden
      <4>1. \/ Due(gs, hidden, Down1(h)) = Never
            \/ Due(gs, hidden, Down1(h)) = Later(Down1(h), Refresh) /\ due = Later(h, Refresh)
        <5>1. HasBarrier(gs) => HasBarrier(fs)
          BY <3>2 DEF HasBarrier
        <5> QED BY <3>7, <5>1 DEF Due
      <4>2. Covers(tick, Later(h, Refresh)) => Covers(tick', Later(Down1(h), Refresh))
        <5>1. h \in Nat /\ Refresh \in Nat \ {0} /\ Never \notin Nat /\ Down1(h) = Later(0, h - 1)
          <6>1. h # Never
            BY <3>1, TimesAre
          <6> QED BY <3>1, <6>1, TimesAre DEF Down1
        <5>2. SUFFICES ASSUME tick # Never, tick <= Later(h, Refresh)
                       PROVE  tick' # Never /\ tick' <= Later(Down1(h), Refresh)
          <6>1. Later(h, Refresh) # Never
            BY <5>1 DEF Later
          <6> QED BY <5>2, <6>1 DEF Covers
        <5>3. tick \in Nat /\ tick' = Later(0, tick - 1)
          BY <1>1, <1>2, <5>2, TimesAre DEF Down1
        <5>4. tick' <= Later(Down1(h), Refresh) /\ tick' \in Nat
          BY <5>1, <5>2, <5>3 DEF Later
        <5> QED BY <5>1, <5>4
      <4> QED BY <3>1, <3>4, <4>1, <4>2 DEF gs
    <3> QED BY <3>6, <3>7
  <2>4. ASSUME NEW v \in Views
        PROVE  Covers(tick', Due(frames'[v], v \in suspended', hiddenAt'[v]))
    <3> DEFINE hidden == v \in suspended
    <3>1. hidden \in BOOLEAN /\ Covers(tick, Due(frames[v], hidden, hiddenAt[v])) /\ suspended' = suspended
      BY <1>1, CoveredIs DEF Inv
    <3> HIDE DEF hidden
    <3>2. Covers(tick', Due(frames'[v], hidden, hiddenAt'[v]))
      BY <2>3, <3>1
    <3> QED BY <3>1, <3>2 DEF hidden
  <2> QED BY <1>6, <2>1, <2>2, <2>4, CoveredIs
<1>9. ClearedIsUnblocked'
  <2>1. ASSUME NEW v \in Views PROVE Barred(v)' <=> Barred(v)
    <3>1. frames[v] \in Seq(Frame) /\ frames'[v] = aged(frames[v])
      BY <1>1, Known
    <3>2. HasBarrier(frames'[v]) <=> HasBarrier(frames[v])
      BY <1>4, <3>1 DEF HasBarrier
    <3>3. ClientsOf(loose') = ClientsOf(loose)
      BY <1>6 DEF ClientsOf
    <3> QED BY <3>2, <3>3 DEF Barred
  <2> QED BY <1>1, <2>1 DEF Inv, TypeOK, ClearedIsUnblocked
<1> QED BY <1>7, <1>8, <1>9 DEF Inv

LEMMA StutterKeeps ==
  ASSUME Inv, UNCHANGED vars
  PROVE  Inv'
<1>1. UNCHANGED <<vblank, tick, bound, unbinding, suspended, hiddenAt, frames, late, callbacks, loose, unsubmitted,
                  owed, forgotten>>
  BY DEF vars
<1>2. TypeOK'
  BY <1>1 DEF Inv, TypeOK
<1>3. TickCovers'
  BY <1>1, CoveredIs DEF Inv
<1>4. ClearedIsUnblocked'
  BY <1>1 DEF Inv, ClearedIsUnblocked, Barred
<1> QED BY <1>2, <1>3, <1>4 DEF Inv

LEMMA NextKeeps == Inv /\ [Next]_vars => Inv'
<1> SUFFICES ASSUME Inv, [Next]_vars PROVE Inv'
  OBVIOUS
<1>1. ASSUME NEW v \in Views, NEW callback \in BOOLEAN, NEW barrier \in BOOLEAN, Commit(v, callback, barrier)
      PROVE  Inv'
  BY <1>1, CommitKeeps
<1>2. ASSUME NEW v \in Views, Bind(v) \/ Unbind(v) \/ Unbound(v)
      PROVE  Inv'
  BY <1>2, BindKeeps, UnbindKeeps, UnboundKeeps
<1>3. ASSUME NEW v \in Views, NEW n \in 0 .. MaxInFlight, Presented(v, n)
      PROVE  Inv'
  BY <1>3, PresentedKeeps
<1>4. ASSUME NEW v \in Views, NEW on \in BOOLEAN, Suspend(v, on)
      PROVE  Inv'
  BY <1>4, SuspendKeeps
<1>5. CASE Tick \/ Pass
  BY <1>5, TickKeeps, PassKeeps
<1>6. CASE UNCHANGED vars
  BY <1>6, StutterKeeps
<1> QED BY <1>1, <1>2, <1>3, <1>4, <1>5, <1>6 DEF Next

LEMMA InvAlways == Spec => []Inv
BY InitInv, NextKeeps, PTL DEF Spec

-----------------------------------------------------------------------------
(* What holds of every run *)

\* The state is always well typed: in particular no view has more frames in
\* flight than MAX_IN_FLIGHT, and no more than MAX_LOOSE barriers of unshown
\* updates are kept (timing.rs Frames::push, pacing.rs hold_loose).
THEOREM PacingTypes == Spec => []TypeOK
<1>1. Inv => TypeOK
  BY DEF Inv
<1> QED BY <1>1, InvAlways, PTL

\* Whatever waits for the clock has it run in time, whatever the clients and
\* the shell do (pacing.rs schedule_tick, watch_frames, on_tick).
THEOREM TickAlwaysCovers == Spec => []TickCovers
<1>1. Inv => TickCovers
  BY DEF Inv
<1> QED BY <1>1, InvAlways, PTL

\* A client whose barriers are all cleared has been unblocked, whichever of a
\* newer frame, a report, the end of the binding or the clock cleared the last,
\* unless another client's barrier pushed it out of the loose ones, or its view
\* was being unbound when its frame went out (pacing.rs unblock, unblock_all,
\* hold_loose, drop_frames).
THEOREM ClearedAlwaysUnblocked == Spec => []ClearedIsUnblocked
<1>1. Inv => ClearedIsUnblocked
  BY DEF Inv
<1> QED BY <1>1, InvAlways, PTL

\* While a view is off screen, only a report of the shell ends its client's
\* wait for frame callbacks: no update, binding or tick does (pacing.rs
\* flush_callbacks, submit.rs submit_view).
THEOREM HiddenCallbacksAlwaysWait == Spec => HiddenCallbacksWait
<1> DEFINE Step == \A v \in Views \cap suspended :
                     callbacks[v] # "none" /\ callbacks'[v] = "none" =>
                       \E n \in 0 .. MaxInFlight : Presented(v, n)
<1>1. Inv /\ [Next]_vars => [Step]_vars
  <2> SUFFICES ASSUME Inv, Next, NEW v \in Views, v \in suspended, callbacks[v] # "none", callbacks'[v] = "none"
               PROVE  \E n \in 0 .. MaxInFlight : Presented(v, n)
    OBVIOUS
  <2>1. callbacks \in [Views -> {"none", "waiting", "submitted"}]
    BY DEF Inv, TypeOK
  <2>2. ASSUME NEW w \in Views, NEW callback \in BOOLEAN, NEW barrier \in BOOLEAN, Commit(w, callback, barrier)
        PROVE  FALSE
    BY <2>1, <2>2 DEF Commit, Submitted, Refused, NotShown
  <2>3. ASSUME NEW w \in Views, Bind(w) \/ Unbind(w) \/ Unbound(w)
        PROVE  FALSE
    BY <2>1, <2>3 DEF Bind, Unbind, Unbound, ClearView, Submitted, Refused
  <2>4. ASSUME NEW w \in Views, NEW n \in 0 .. MaxInFlight, Presented(w, n)
        PROVE  w = v
    BY <2>1, <2>4 DEF Presented
  <2>5. ASSUME NEW w \in Views, NEW on \in BOOLEAN, Suspend(w, on)
        PROVE  FALSE
    BY <2>5 DEF Suspend
  <2>6. CASE Tick
    <3>1. ~Flushed(v)
      BY DEF Flushed
    <3> QED BY <2>6, <3>1 DEF Tick
  <2>7. CASE Pass
    BY <2>7 DEF Pass
  <2> QED BY <2>2, <2>3, <2>4, <2>5, <2>6, <2>7 DEF Next
<1>2. HiddenCallbacksWait <=> [][Step]_vars
  BY DEF HiddenCallbacksWait
<1> QED BY <1>1, <1>2, InvAlways, PTL DEF Spec
=============================================================================
