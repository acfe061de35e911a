---------------------------- MODULE Updates_proof ----------------------------
(***************************************************************************)
(* Theorems about Updates, for any clients, surfaces and bounds.           *)
(*                                                                         *)
(* Only finished content is applied because what is unfinished and not let *)
(* through is blocked while its client is there; feedback is answered once *)
(* because the frames share none, and a report answers just the frames it  *)
(* takes away, the first ones, as their numbers ascend; it is answered     *)
(* truly because a frame number stands for one frame handed over, whose    *)
(* content was on the screen when its report was sent, or an older slot's  *)
(* for it, all being busy.                                                 *)
(***************************************************************************)
EXTENDS Updates, FiniteSetTheorems, WellFoundedInduction, TLAPS

LEMMA MaxExists ==
  ASSUME NEW N \in Nat, NEW T \in SUBSET (1 .. N), T # {}
  PROVE  \E k \in T : \A other \in T : other <= k
<1> DEFINE D == {d \in 0 .. N : N - d \in T}
<1>1. D \subseteq Nat /\ D # {}
  <2>1. \E k : k \in T
    OBVIOUS
  <2>2. \A k \in T : N - k \in 0 .. N /\ N - (N - k) \in T
    OBVIOUS
  <2>3. \E d \in 0 .. N : N - d \in T
    BY <2>1, <2>2
  <2>4. \E d : d \in D
    BY <2>3, Zenon
  <2>5. D \subseteq Nat
    OBVIOUS
  <2> HIDE DEF D
  <2> QED BY <2>4, <2>5
<1>2. PICK x \in D : \A y \in D : ~(<<y, x>> \in OpToRel(<, Nat))
  <2> HIDE DEF D
  <2> QED BY <1>1, NatLessThanWellFounded, WFMin
<1>3. \A y \in D : ~(y < x)
  BY <1>1, <1>2 DEF OpToRel
<1>4. N - x \in T /\ x \in 0 .. N
  OBVIOUS
<1>5. ASSUME NEW other \in T PROVE other <= N - x
  <2>1. other \in 1 .. N /\ N - other \in 0 .. N /\ N - (N - other) = other
    OBVIOUS
  <2>2. N - other \in D
    BY <2>1
  <2>3. ~(N - other < x)
    BY <1>3, <2>2
  <2> QED BY <1>4, <2>1, <2>3
<1> QED BY <1>4, <1>5

LEMMA OneMore ==
  ASSUME NEW T, IsFiniteSet(T), NEW x
  PROVE  Cardinality(T \cup {x}) <= Cardinality(T) + 1 /\ Cardinality(T) \in Nat
<1>1. Cardinality(T) \in Nat
  BY FS_CardinalityType
<1>2. Cardinality(T \cup {x}) = IF x \in T THEN Cardinality(T) ELSE Cardinality(T) + 1
  BY FS_AddElement
<1> QED BY <1>1, <1>2

LEMMA UpToNumber == ASSUME NEW k \in Nat PROVE IsFiniteSet(1 .. k) /\ Cardinality(1 .. k) = k
<1>1. k \in Int /\ 1 \in Int
  OBVIOUS
<1>2. IsFiniteSet(1 .. k) /\ Cardinality(1 .. k) = IF 1 > k THEN 0 ELSE k - 1 + 1
  BY <1>1, FS_Interval
<1> QED BY <1>2

LEMMA UpdatesFinite == \A T \in SUBSET Updates : IsFiniteSet(T)
<1>1. IsFiniteSet(1 .. MaxUpdates)
  BY FS_Interval, BoundsAssumption
<1>2. IsFiniteSet(Updates)
  BY <1>1, TreeAssumption, FS_Product DEF Updates
<1> QED BY <1>2, FS_Subset

\* The bound on all the updates bounds each surface's.
LEMMA RoomForOne ==
  ASSUME TypeOK, NEW s \in Surfaces, Cardinality(UpTo(committed)) < MaxUpdates
  PROVE  committed[s] < MaxUpdates
<1> DEFINE mine == {s} \X (1 .. committed[s])
<1>1. committed[s] \in 0 .. MaxUpdates /\ MaxUpdates \in Nat
  BY BoundsAssumption DEF TypeOK
<1>2. IsFiniteSet(1 .. committed[s]) /\ Cardinality(1 .. committed[s]) = committed[s]
  BY <1>1, UpToNumber
<1>3. IsFiniteSet({s}) /\ Cardinality({s}) = 1
  BY FS_Singleton
<1>4. Cardinality(mine) = 1 * committed[s]
  <2> DEFINE numbers == 1 .. committed[s]
  <2>1. Cardinality({s} \X numbers) = Cardinality({s}) * Cardinality(numbers)
    <3> HIDE DEF numbers
    <3> QED BY <1>2, <1>3, FS_Product, Zenon DEF numbers
  <2> QED BY <1>2, <1>3, <2>1
<1>5. mine \subseteq UpTo(committed) /\ IsFiniteSet(UpTo(committed))
  BY <1>1, UpdatesFinite DEF UpTo, Updates
<1>6. Cardinality(mine) <= Cardinality(UpTo(committed))
  BY <1>5, FS_Subset
<1>7. Cardinality(UpTo(committed)) \in Nat
  BY <1>5, FS_CardinalityType
<1> HIDE DEF mine
<1> QED BY <1>1, <1>4, <1>6, <1>7

-----------------------------------------------------------------------------
(* The invariant *)

WaitsInv == gone \cap connected = {} /\ WaitsAgree

\* Unfinished content that was not let through is blocked, or its client gone.
Pending ==
  /\ \A s \in Surfaces : applied[s] <= committed[s]
  /\ rendering \subseteq UpTo(committed)
  /\ \A u \in rendering \ through : Owner[u[1]] \in connected => u \in blocked

\* What the shell may show was applied.
GivenInv == \A g \in given : g.seq <= seq /\ g.content \subseteq UpTo(applied)

\* A frame's number is that of one submission, and what it shows was in it.
FramesInv ==
  /\ \A i, j \in DOMAIN frames : i < j => frames[i].seq < frames[j].seq
  /\ \A i \in DOMAIN frames :
       /\ frames[i].seq <= seq
       /\ \A g \in given : g.seq = frames[i].seq => \A u \in frames[i].shown : ShownIn(g.content, g.again, u)

\* A report is of a frame that was on the screen.
ReportsInv ==
  \A k \in DOMAIN reports :
    /\ reports[k] <= seq
    /\ \A i \in DOMAIN frames :
         frames[i].seq = reports[k] => \A u \in frames[i].shown : ShownIn(seen, again, u)

FinishedInv == Pending /\ GivenInv /\ ShownIsFinished
AnswersInv == FramesInv /\ ReportsInv /\ FeedbackAccounted /\ PresentedWasShown

Inv == TypeOK /\ WaitsInv /\ FinishedInv /\ AnswersInv

LEMMA InitInv == Init => Inv
<1> SUFFICES ASSUME Init PROVE Inv
  OBVIOUS
<1>1. TypeOK
  <2>1. MaxUpdates \in Nat /\ MaxBinds \in Nat /\ MaxInFlight \in Nat
    BY BoundsAssumption
  <2>2. frames \in Seq(Frame) /\ Len(frames) = 0 /\ reports \in Seq(Nat)
    BY DEF Init
  <2>3. /\ committed \in [Surfaces -> 0 .. MaxUpdates] /\ applied \in [Surfaces -> 0 .. MaxUpdates]
        /\ waits \in [Clients -> SUBSET Updates] /\ binds \in 0 .. MaxBinds
    BY <2>1 DEF Init
  <2>4. Len(frames) <= MaxInFlight
    BY <2>1, <2>2
  <2> QED BY <2>2, <2>3, <2>4 DEF Init, TypeOK
<1>2. Cardinality({}) = 0 /\ MaxWaits \in Nat
  BY FS_EmptySet, BoundsAssumption
<1>3. WaitsInv
  BY <1>2 DEF Init, WaitsInv, WaitsAgree
<1>4. FinishedInv
  BY DEF Init, FinishedInv, Pending, GivenInv, ShownIsFinished
<1>5. UpTo(applied) = {}
  BY DEF Init, UpTo, Updates
<1>6. AnswersInv
  BY <1>5 DEF Init, AnswersInv, FramesInv, ReportsInv, FeedbackAccounted, PresentedWasShown, AllFeedback
<1> QED BY <1>1, <1>3, <1>4, <1>6 DEF Inv

-----------------------------------------------------------------------------
(* Holding commits *)

LEMMA HoldKeeps ==
  ASSUME Inv, NEW u \in Updates, Owner[u[1]] \in connected, HoldCommit(u),
         UNCHANGED clientVars
  PROVE  /\ waits' \in [Clients -> SUBSET Updates]
         /\ sources' \in SUBSET Updates /\ blocked' \in SUBSET Updates /\ through' \in SUBSET Updates
         /\ WaitsInv'
         /\ blocked \subseteq blocked' /\ through \subseteq through' /\ u \in blocked' \cup through'
<1> DEFINE c == Owner[u[1]]
<1>0. u[1] \in Surfaces /\ c \in Clients
  BY TreeAssumption DEF Updates
<1>1. CASE through' = through \cup {u} /\ UNCHANGED <<waits, sources, blocked>>
  BY <1>1 DEF Inv, TypeOK, WaitsInv, WaitsAgree, clientVars
<1>2. CASE /\ HasRoom(c) /\ waits' = [waits EXCEPT ![c] = @ \cup {u}]
           /\ sources' = sources \cup {u} /\ blocked' = blocked \cup {u}
           /\ UNCHANGED through
  <2>1. waits \in [Clients -> SUBSET Updates]
    BY DEF Inv, TypeOK
  <2>2. waits'[c] = waits[c] \cup {u} /\ \A d \in Clients : d # c => waits'[d] = waits[d]
    BY <1>0, <1>2, <2>1
  <2>3. Cardinality(waits'[c]) <= MaxWaits
    <3>1. IsFiniteSet(waits[c])
      BY <1>0, <2>1, UpdatesFinite
    <3> DEFINE old == waits[c]
    <3>2. Cardinality(old \cup {u}) <= Cardinality(old) + 1 /\ Cardinality(old) \in Nat
      <4> HIDE DEF old, c
      <4> QED BY <3>1, OneMore DEF old
    <3>3. MaxWaits \in Nat /\ Cardinality(old \cup {u}) \in Nat
      <4>1. IsFiniteSet(old \cup {u})
        BY <3>1, FS_AddElement
      <4> QED BY <4>1, FS_CardinalityType, BoundsAssumption
    <3>4. Cardinality(old) < MaxWaits
      BY <1>2 DEF HasRoom
    <3>5. Cardinality(old \cup {u}) <= MaxWaits
      <4> HIDE DEF old
      <4> QED BY <3>2, <3>3, <3>4
    <3> QED BY <2>2, <3>5
  <2>4. u \in Of(c) /\ \A d \in Clients : d # c => u \notin Of(d)
    BY DEF Of
  <2>5. WaitsInv'
    <3> SUFFICES ASSUME NEW d \in Clients
                 PROVE  /\ waits'[d] = sources' \cap Of(d) /\ Cardinality(waits'[d]) <= MaxWaits
                        /\ d \in connected => blocked' \cap Of(d) = waits'[d]
                        /\ d \notin connected \cup gone => waits'[d] = {}
      BY DEF Inv, WaitsInv, WaitsAgree, clientVars, Of
    <3>1. CASE d = c
      BY <1>0, <1>2, <2>2, <2>3, <2>4, <3>1 DEF Inv, WaitsInv, WaitsAgree
    <3>2. CASE d # c
      BY <1>0, <1>2, <2>2, <2>4, <3>2 DEF Inv, WaitsInv, WaitsAgree
    <3> QED BY <3>1, <3>2
  <2> QED BY <1>0, <1>2, <2>1, <2>5 DEF Inv, TypeOK
<1> QED BY <1>1, <1>2 DEF HoldCommit

WaitTypes ==
  /\ connected \subseteq Clients /\ gone \subseteq Clients
  /\ waits \in [Clients -> SUBSET Updates]
  /\ {sources, rendering, blocked, through} \subseteq SUBSET Updates
  /\ committed \in [Surfaces -> 0 .. MaxUpdates] /\ applied \in [Surfaces -> 0 .. MaxUpdates]

ViewTypes ==
  /\ binds \in 0 .. MaxBinds /\ bound \in BOOLEAN /\ seq \in Nat /\ cleared \in BOOLEAN
  /\ frames \in Seq(Frame) /\ Len(frames) <= MaxInFlight
  /\ given \in SUBSET Given /\ screen \in Nat /\ reports \in Seq(Nat)
  /\ {presented, discarded, seen, again} \subseteq SUBSET Updates

LEMMA TypesJoin == TypeOK <=> WaitTypes /\ ViewTypes
BY DEF TypeOK, WaitTypes, ViewTypes

LEMMA InvJoins ==
  ASSUME WaitTypes', ViewTypes', WaitsInv', Pending', GivenInv', ShownIsFinished', AnswersInv'
  PROVE  Inv'
BY DEF TypeOK, WaitTypes, ViewTypes, Inv, FinishedInv

\* What the view and the shell keep.
viewSide == <<viewVars, frames, shellVars, answers>>

LEMMA ViewSideKeeps ==
  ASSUME Inv, UNCHANGED <<viewSide, applied>>
  PROVE  ViewTypes' /\ AnswersInv' /\ GivenInv'
BY TypesJoin DEF viewSide, viewVars, shellVars, answers, Inv, ViewTypes, AnswersInv, FinishedInv,
   GivenInv, FramesInv, ReportsInv, FeedbackAccounted, PresentedWasShown, AllFeedback, UpTo

LEMMA CommitKeeps ==
  ASSUME Inv, NEW s \in Surfaces, NEW finished \in BOOLEAN, Commit(s, finished)
  PROVE  Inv'
<1> DEFINE u == <<s, committed[s] + 1>>
<1>1. committed[s] \in 0 .. MaxUpdates /\ MaxUpdates \in Nat /\ committed[s] < MaxUpdates
  BY RoomForOne, BoundsAssumption DEF Inv, TypeOK, Commit
<1>2. u \in Updates /\ u[1] = s /\ u[2] = committed[s] + 1
  BY <1>1 DEF Updates
<1>3. committed' = [committed EXCEPT ![s] = @ + 1] /\ committed' \in [Surfaces -> 0 .. MaxUpdates]
  BY <1>1 DEF Commit, Inv, TypeOK
<1>4. /\ Owner[s] \in connected /\ rendering' \subseteq rendering \cup {u} /\ Gate(u, finished)
      /\ finished => rendering' = rendering
      /\ UNCHANGED <<clientVars, applied, viewSide>>
  BY DEF Commit, viewSide
<1>5. /\ waits' \in [Clients -> SUBSET Updates]
      /\ sources' \in SUBSET Updates /\ blocked' \in SUBSET Updates /\ through' \in SUBSET Updates
      /\ WaitsInv' /\ blocked \subseteq blocked' /\ through \subseteq through'
      /\ ~finished => u \in blocked' \cup through'
  <2>1. CASE finished
    BY <1>4, <2>1 DEF Gate, waitVars, clientVars, Inv, TypeOK, WaitsInv, WaitsAgree
  <2>2. CASE ~finished
    BY <1>2, <1>4, <2>2, HoldKeeps DEF Gate
  <2> QED BY <2>1, <2>2
<1>6. WaitTypes'
  BY <1>2, <1>3, <1>4, <1>5 DEF WaitTypes, Inv, TypeOK, clientVars
<1>7. ViewTypes' /\ AnswersInv' /\ GivenInv'
  BY <1>4, ViewSideKeeps
<1>8. \A x \in Surfaces : committed[x] \in Nat /\ committed'[x] \in Nat /\ committed[x] <= committed'[x]
  BY <1>1, <1>3 DEF Inv, TypeOK
<1>9. Pending'
  <2>1. \A x \in Surfaces : applied'[x] <= committed'[x]
    BY <1>4, <1>8 DEF Inv, TypeOK, FinishedInv, Pending
  <2>2. rendering' \subseteq UpTo(committed)'
    <3>1. \A w \in rendering : w \in Updates /\ w[2] <= committed[w[1]] /\ w[1] \in Surfaces /\ w[2] \in Nat
      BY DEF Inv, FinishedInv, Pending, UpTo, Updates
    <3>2. committed'[s] = committed[s] + 1
      BY <1>3 DEF Inv, TypeOK
    <3> QED BY <1>1, <1>2, <1>4, <1>8, <3>1, <3>2 DEF UpTo
  <2>3. \A w \in rendering' \ through' : Owner[w[1]] \in connected' => w \in blocked'
    BY <1>2, <1>4, <1>5 DEF Inv, FinishedInv, Pending, clientVars
  <2> QED BY <2>1, <2>2, <2>3 DEF Pending
<1>10. ShownIsFinished'
  <2>1. \A x \in Surfaces : \A n \in 1 .. applied[x] : <<x, n>> # u
    BY <1>1 DEF Inv, TypeOK, FinishedInv, Pending
  <2>2. \A g \in given : u \notin g.content
    BY <1>1, <1>2 DEF Inv, TypeOK, FinishedInv, Pending, GivenInv, UpTo
  <2>3. UNCHANGED <<given, applied>>
    BY <1>4 DEF viewSide, shellVars
  <2> HIDE DEF u
  <2> QED BY <1>4, <1>5, <2>1, <2>2, <2>3 DEF Inv, FinishedInv, ShownIsFinished
<1> QED BY <1>5, <1>6, <1>7, <1>9, <1>10, InvJoins

LEMMA FinishKeeps ==
  ASSUME Inv, NEW u \in Updates, Finish(u)
  PROVE  Inv'
<1>1. UNCHANGED <<clientVars, waitVars, committed, applied, viewSide>> /\ rendering' = rendering \ {u}
  BY DEF Finish, viewSide
<1>2. ViewTypes' /\ AnswersInv' /\ GivenInv'
  BY <1>1, ViewSideKeeps
<1>3. WaitTypes' /\ WaitsInv' /\ Pending'
  BY <1>1 DEF clientVars, waitVars, Inv, TypeOK, WaitTypes, WaitsInv, WaitsAgree, FinishedInv, Pending, UpTo
<1>4. ShownIsFinished'
  BY <1>1 DEF waitVars, viewSide, shellVars, Inv, FinishedInv, ShownIsFinished
<1> QED BY <1>2, <1>3, <1>4, InvJoins

LEMMA SourceFiresKeeps ==
  ASSUME Inv, NEW u \in Updates, SourceFires(u)
  PROVE  Inv'
<1> DEFINE c == Owner[u[1]]
<1>1. /\ u \in sources /\ u \notin rendering
      /\ sources' = sources \ {u} /\ blocked' = blocked \ {u}
      /\ waits' = [waits EXCEPT ![c] = @ \ {u}]
      /\ UNCHANGED <<clientVars, through, updateVars, viewSide>>
  BY DEF SourceFires, viewSide
<1>2. ViewTypes' /\ AnswersInv' /\ GivenInv'
  BY <1>1, ViewSideKeeps DEF updateVars
<1>3. c \in Clients
  BY TreeAssumption DEF Updates
<1>4. WaitTypes'
  BY <1>1, <1>3 DEF WaitTypes, Inv, TypeOK, clientVars, updateVars
<1>5. WaitsInv'
  <2>1. u \in Of(c) /\ \A d \in Clients : d # c => u \notin Of(d)
    BY DEF Of
  <2>2. waits'[c] = waits[c] \ {u} /\ \A d \in Clients : d # c => waits'[d] = waits[d]
    BY <1>1, <1>3 DEF Inv, TypeOK
  <2>3. Cardinality(waits'[c]) <= MaxWaits
    <3>1. IsFiniteSet(waits[c]) /\ waits'[c] \subseteq waits[c]
      BY <1>3, <2>2, UpdatesFinite DEF Inv, TypeOK
    <3>2. Cardinality(waits'[c]) <= Cardinality(waits[c]) /\ IsFiniteSet(waits'[c])
      BY <3>1, FS_Subset
    <3>3. Cardinality(waits[c]) \in Nat /\ Cardinality(waits'[c]) \in Nat /\ MaxWaits \in Nat
      BY <3>1, <3>2, FS_CardinalityType, BoundsAssumption
    <3>4. Cardinality(waits[c]) <= MaxWaits
      BY <1>3 DEF Inv, WaitsInv, WaitsAgree
    <3> QED BY <3>2, <3>3, <3>4
  <2> SUFFICES ASSUME NEW d \in Clients
               PROVE  /\ waits'[d] = sources' \cap Of(d) /\ Cardinality(waits'[d]) <= MaxWaits
                      /\ d \in connected => blocked' \cap Of(d) = waits'[d]
                      /\ d \notin connected \cup gone => waits'[d] = {}
    BY <1>1 DEF Inv, WaitsInv, WaitsAgree, clientVars, Of
  <2>4. CASE d = c
    BY <1>1, <1>3, <2>1, <2>2, <2>3, <2>4 DEF Inv, WaitsInv, WaitsAgree
  <2>5. CASE d # c
    BY <1>1, <2>1, <2>2, <2>5 DEF Inv, WaitsInv, WaitsAgree
  <2> QED BY <2>4, <2>5
<1>6. Pending' /\ ShownIsFinished'
  BY <1>1 DEF clientVars, updateVars, viewSide, shellVars, Inv, FinishedInv, Pending, ShownIsFinished, UpTo
<1> QED BY <1>2, <1>4, <1>5, <1>6, InvJoins

LEMMA ReapKeeps ==
  ASSUME Inv, Reap
  PROVE  Inv'
<1>1. /\ gone' = {} /\ sources' = sources \ UNION {waits[c] : c \in gone}
      /\ waits' = [c \in Clients |-> IF c \in gone THEN {} ELSE waits[c]]
      /\ UNCHANGED <<connected, blocked, through, updateVars, viewSide>>
  BY DEF Reap, Unreaped, viewSide
<1>2. ViewTypes' /\ AnswersInv' /\ GivenInv'
  BY <1>1, ViewSideKeeps DEF updateVars
<1>3. WaitTypes'
  BY <1>1 DEF WaitTypes, Inv, TypeOK, updateVars
<1>4. WaitsInv'
  <2> SUFFICES ASSUME NEW d \in Clients
               PROVE  /\ waits'[d] = sources' \cap Of(d) /\ Cardinality(waits'[d]) <= MaxWaits
                      /\ d \in connected => blocked \cap Of(d) = waits'[d]
                      /\ d \notin connected => waits'[d] = {}
    BY <1>1 DEF Inv, WaitsInv, WaitsAgree, Of
  <2>1. \A c \in gone : c \in Clients /\ waits[c] = sources \cap Of(c)
    BY DEF Inv, TypeOK, WaitsInv, WaitsAgree
  <2>2. CASE d \in gone
    <3>1. sources' \cap Of(d) = {}
      BY <1>1, <2>1, <2>2
    <3>2. Cardinality({}) <= MaxWaits
      BY FS_EmptySet, BoundsAssumption
    <3> QED BY <1>1, <2>2, <3>1, <3>2 DEF Inv, WaitsInv
  <2>3. CASE d \notin gone
    <3>1. \A c \in gone : waits[c] \cap Of(d) = {}
      BY <2>1, <2>3 DEF Of
    <3>2. sources' \cap Of(d) = sources \cap Of(d)
      BY <1>1, <3>1
    <3> QED BY <1>1, <2>3, <3>2 DEF Inv, WaitsInv, WaitsAgree
  <2> QED BY <2>2, <2>3
<1>5. Pending' /\ ShownIsFinished'
  BY <1>1 DEF updateVars, viewSide, shellVars, Inv, FinishedInv, Pending, ShownIsFinished, UpTo
<1> QED BY <1>2, <1>3, <1>4, <1>5, InvJoins

-----------------------------------------------------------------------------
(* Sequences of frames *)

Ascend(fr) == \A i, j \in DOMAIN fr : i < j => fr[i].seq < fr[j].seq
Apart(fr) == \A i, j \in DOMAIN fr : i # j => fr[i].feedback \cap fr[j].feedback = {}
Fed(fr) == UNION {fr[i].feedback : i \in DOMAIN fr}
FedFirst(fr, k) == UNION {fr[i].feedback : i \in 1 .. k}

\* The frames after the first k.
Rest(fr, k, out) ==
  /\ out \in Seq(Frame) /\ k \in 0 .. Len(fr) /\ Len(out) = Len(fr) - k
  /\ \A i \in 1 .. Len(out) : out[i] = fr[i + k]

LEMMA RestKeeps ==
  ASSUME NEW fr \in Seq(Frame), NEW k, NEW out, Rest(fr, k, out), Ascend(fr), Apart(fr)
  PROVE  /\ Ascend(out) /\ Apart(out)
         /\ Fed(fr) = Fed(out) \cup FedFirst(fr, k) /\ Fed(out) \cap FedFirst(fr, k) = {}
         /\ \A i \in DOMAIN out : \E j \in DOMAIN fr : out[i] = fr[j]
<1>1. /\ Len(fr) \in Nat /\ Len(out) \in Nat /\ k \in Nat /\ k <= Len(fr) /\ Len(out) = Len(fr) - k
      /\ DOMAIN fr = 1 .. Len(fr) /\ DOMAIN out = 1 .. Len(out)
  BY DEF Rest
<1>2. \A i \in DOMAIN out : i \in Nat /\ i + k \in DOMAIN fr /\ i + k > k /\ out[i] = fr[i + k]
  BY <1>1 DEF Rest
<1>3. \A j \in DOMAIN fr : j > k => j - k \in DOMAIN out /\ out[j - k] = fr[j]
  <2> SUFFICES ASSUME NEW j \in DOMAIN fr, j > k
               PROVE  j - k \in DOMAIN out /\ out[j - k] = fr[j]
    OBVIOUS
  <2>1. j - k \in DOMAIN out /\ (j - k) + k = j
    BY <1>1
  <2> QED BY <1>2, <2>1
<1>4. \A i, j \in DOMAIN out : (i < j => i + k < j + k) /\ (i # j => i + k # j + k)
  BY <1>1, <1>2
<1>5. Ascend(out) /\ Apart(out)
  BY <1>2, <1>4 DEF Ascend, Apart
<1>6. Fed(fr) \subseteq Fed(out) \cup FedFirst(fr, k)
  <2> SUFFICES ASSUME NEW j \in DOMAIN fr, NEW u \in fr[j].feedback
               PROVE  u \in Fed(out) \cup FedFirst(fr, k)
    BY DEF Fed
  <2>1. CASE j > k
    BY <1>3, <2>1 DEF Fed
  <2>2. CASE ~(j > k)
    <3>1. j \in 1 .. k
      BY <1>1, <2>2
    <3> QED BY <3>1 DEF FedFirst
  <2> QED BY <2>1, <2>2
<1>7. Fed(out) \subseteq Fed(fr)
  BY <1>2 DEF Fed
<1>8. FedFirst(fr, k) \subseteq Fed(fr)
  BY <1>1 DEF Fed, FedFirst
<1>9. Fed(out) \cap FedFirst(fr, k) = {}
  <2> SUFFICES ASSUME NEW i \in DOMAIN out, NEW j \in 1 .. k
               PROVE  out[i].feedback \cap fr[j].feedback = {}
    BY DEF Fed, FedFirst
  <2>1. j \in DOMAIN fr /\ i + k # j
    BY <1>1, <1>2
  <2> QED BY <1>2, <2>1 DEF Apart
<1> QED BY <1>2, <1>5, <1>6, <1>7, <1>8, <1>9

LEMMA AppendKeeps ==
  ASSUME NEW fr \in Seq(Frame), NEW f \in Frame, Ascend(fr), Apart(fr),
         \A i \in DOMAIN fr : fr[i].seq < f.seq,
         f.feedback \cap Fed(fr) = {}
  PROVE  /\ Append(fr, f) \in Seq(Frame) /\ Len(Append(fr, f)) = Len(fr) + 1
         /\ Ascend(Append(fr, f)) /\ Apart(Append(fr, f))
         /\ Fed(Append(fr, f)) = Fed(fr) \cup f.feedback
         /\ \A i \in DOMAIN Append(fr, f) :
              Append(fr, f)[i] = f \/ \E j \in DOMAIN fr : Append(fr, f)[i] = fr[j]
<1> DEFINE out == Append(fr, f)
           last == Len(fr) + 1
<1>1. out \in Seq(Frame) /\ Len(out) = last /\ DOMAIN out = 1 .. last /\ out[last] = f
  OBVIOUS
<1>2. DOMAIN fr = 1 .. Len(fr) /\ Len(fr) \in Nat /\ \A i \in DOMAIN fr : out[i] = fr[i] /\ i < last
  OBVIOUS
<1>3. DOMAIN out = DOMAIN fr \cup {last} /\ last \in Nat /\ last \notin DOMAIN fr
  BY <1>1, <1>2
<1> HIDE DEF out, last
<1>4. Ascend(out)
  <2> SUFFICES ASSUME NEW i \in DOMAIN out, NEW j \in DOMAIN out, i < j
               PROVE  out[i].seq < out[j].seq
    BY DEF Ascend
  <2>1. i \in DOMAIN fr
    BY <1>1, <1>3
  <2> QED BY <1>1, <1>2, <1>3, <2>1 DEF Ascend
<1>5. Apart(out)
  <2> SUFFICES ASSUME NEW i \in DOMAIN out, NEW j \in DOMAIN out, i # j
               PROVE  out[i].feedback \cap out[j].feedback = {}
    BY DEF Apart
  <2>1. \A k \in DOMAIN fr : fr[k].feedback \cap f.feedback = {}
    BY DEF Fed
  <2> QED BY <1>1, <1>2, <1>3, <2>1 DEF Apart
<1>6. Fed(out) = Fed(fr) \cup f.feedback
  <2>1. \A i \in DOMAIN out : out[i].feedback \subseteq Fed(fr) \cup f.feedback
    BY <1>1, <1>2, <1>3 DEF Fed
  <2>2. f.feedback \subseteq Fed(out)
    BY <1>1, <1>3 DEF Fed
  <2>3. \A i \in DOMAIN fr : fr[i].feedback \subseteq Fed(out)
    BY <1>2, <1>3 DEF Fed
  <2> QED BY <2>1, <2>2, <2>3 DEF Fed
<1>7. \A i \in DOMAIN out : out[i] = f \/ \E j \in DOMAIN fr : out[i] = fr[j]
  BY <1>1, <1>2, <1>3
<1> QED BY <1>1, <1>4, <1>5, <1>6, <1>7 DEF out, last

-----------------------------------------------------------------------------
(* The view and the shell *)

LEMMA Typed ==
  ASSUME Inv
  PROVE  /\ seq \in Nat /\ screen \in Nat /\ given \subseteq Given
         /\ frames \in Seq(Frame) /\ DOMAIN frames = 1 .. Len(frames) /\ Len(frames) \in Nat
         /\ reports \in Seq(Nat) /\ DOMAIN reports = 1 .. Len(reports) /\ Len(reports) \in Nat
         /\ \A i \in DOMAIN frames : /\ frames[i] \in Frame /\ frames[i].seq \in Nat
                                    /\ frames[i].shown \subseteq Updates /\ frames[i].feedback \subseteq Updates
         /\ \A g \in given : g.seq \in Nat /\ g.content \subseteq Updates /\ g.again \subseteq Updates
         /\ \A k \in DOMAIN reports : reports[k] \in Nat
         /\ Ascend(frames) /\ Apart(frames) /\ AllFeedback = Fed(frames)
         /\ \A s \in Surfaces : applied[s] \in 0 .. MaxUpdates
         /\ applied \in [Surfaces -> 0 .. MaxUpdates] /\ MaxUpdates \in Nat
<1>1. frames \in Seq(Frame) /\ reports \in Seq(Nat) /\ given \subseteq Given /\ seq \in Nat /\ screen \in Nat
  BY DEF Inv, TypeOK
<1>2. \A i \in DOMAIN frames : frames[i] \in Frame
  BY <1>1
<1>3. \A k \in DOMAIN reports : reports[k] \in Nat
  BY <1>1
<1>4. /\ DOMAIN frames = 1 .. Len(frames) /\ Len(frames) \in Nat
      /\ DOMAIN reports = 1 .. Len(reports) /\ Len(reports) \in Nat
  BY <1>1
<1>5. /\ \A f \in Frame : f.seq \in Nat /\ f.shown \subseteq Updates /\ f.feedback \subseteq Updates
      /\ \A g \in Given : g.seq \in Nat /\ g.content \subseteq Updates /\ g.again \subseteq Updates
  BY DEF Frame, Given
<1>6. Ascend(frames) /\ Apart(frames) /\ AllFeedback = Fed(frames)
  BY DEF Inv, AnswersInv, FramesInv, FeedbackAccounted, Ascend, Apart, AllFeedback, Fed
<1> QED BY <1>1, <1>2, <1>3, <1>4, <1>5, <1>6, BoundsAssumption DEF Inv, TypeOK

\* Frames may go, and frames be given to the shell under new numbers.
LEMMA FewerKeep ==
  ASSUME Inv, ViewTypes', Ascend(frames'), seq <= seq', UNCHANGED <<reports, seen, again>>,
         \A i \in DOMAIN frames' : \E j \in DOMAIN frames : frames'[i] = frames[j],
         \A h \in given' : \/ \E g \in given : h.seq = g.seq /\ h.content = g.content /\ h.again = g.again
                          \/ h.seq > seq
  PROVE  FramesInv' /\ ReportsInv'
<1>1. seq' \in Nat /\ \A h \in given' : h.seq \in Nat
  BY DEF ViewTypes, Given
<1>2. ASSUME NEW i \in DOMAIN frames'
      PROVE  /\ frames'[i].seq <= seq'
             /\ \A h \in given' : h.seq = frames'[i].seq => \A u \in frames'[i].shown : ShownIn(h.content, h.again, u)
             /\ \A k \in DOMAIN reports : frames'[i].seq = reports[k] => \A u \in frames'[i].shown : ShownIn(seen, again, u)
  <2>1. PICK j \in DOMAIN frames : frames'[i] = frames[j]
    BY <1>2
  <2>2. frames[j].seq \in Nat /\ frames[j].seq <= seq
    BY Typed DEF Inv, AnswersInv, FramesInv
  <2>3. ASSUME NEW h \in given', h.seq = frames'[i].seq, NEW u \in frames'[i].shown
        PROVE  ShownIn(h.content, h.again, u)
    <3>1. PICK g \in given : h.seq = g.seq /\ h.content = g.content /\ h.again = g.again
      BY <1>1, <2>1, <2>2, <2>3, Typed, SMTT(20)
    <3> QED BY <2>1, <2>3, <3>1 DEF Inv, AnswersInv, FramesInv
  <2> QED BY <1>1, <2>1, <2>2, <2>3, Typed DEF Inv, AnswersInv, ReportsInv
<1>3. \A k \in DOMAIN reports : reports[k] <= seq'
  BY <1>1, Typed DEF Inv, AnswersInv, ReportsInv
<1>4. FramesInv'
  BY <1>2 DEF FramesInv, Ascend, ShownIn
<1>5. ReportsInv'
  BY <1>2, <1>3 DEF ReportsInv, ShownIn
<1> QED BY <1>4, <1>5

\* An empty frame, or none, is given.
LEMMA ClearViewKeeps ==
  ASSUME Inv, NEW G \in SUBSET Given, ClearView(G)
  PROVE  /\ seq' \in Nat /\ seq <= seq' /\ cleared' \in BOOLEAN /\ given' \subseteq Given
         /\ \A h \in given' : h \in G \/ (h.seq > seq /\ h.seq = seq' /\ h.content = {})
<1>1. CASE given' = G /\ UNCHANGED <<seq, cleared>>
  BY <1>1, Typed DEF Inv, TypeOK
<1>2. CASE /\ seq' = seq + 1 /\ cleared' = TRUE
           /\ given' = G \cup {[seq |-> seq + 1, content |-> {}, again |-> {}, held |-> FALSE]}
  <2> DEFINE e == [seq |-> seq + 1, content |-> {}, again |-> {}, held |-> FALSE]
  <2>1. e \in Given /\ e.seq = seq + 1 /\ e.content = {}
    BY Typed DEF Given
  <2>2. seq \in Nat /\ given' = G \cup {e}
    BY <1>2, Typed
  <2> HIDE DEF e
  <2> QED BY <1>2, <2>1, <2>2
<1> QED BY <1>1, <1>2 DEF ClearView

\* Feedback for taken, which is new, is discarded.
LEMMA DiscardKeeps ==
  ASSUME Inv, NEW taken \in SUBSET Updates, Discard(taken), frames' = frames,
         taken \cap UpTo(applied) = {}, UpTo(applied)' = UpTo(applied) \cup taken, UNCHANGED <<seen, again>>
  PROVE  FeedbackAccounted' /\ PresentedWasShown' /\ discarded' \in SUBSET Updates /\ presented' \in SUBSET Updates
<1>1. AllFeedback' = AllFeedback
  BY DEF AllFeedback
<1>2. FeedbackAccounted'
  BY <1>1 DEF Discard, Inv, AnswersInv, FeedbackAccounted
<1>3. PresentedWasShown'
  BY DEF Discard, Inv, AnswersInv, PresentedWasShown, ShownIn
<1> QED BY <1>2, <1>3 DEF Discard, Inv, TypeOK

LEMMA InBufferIs ==
  ASSUME Inv, NEW latest \in [Surfaces -> 0 .. MaxUpdates],
         \A x \in Surfaces : applied[x] <= latest[x],
         NEW s \in Surfaces, latest[s] # 0
  PROVE  LET b == InBuffer(s, latest[s])
         IN /\ b \in 1 .. latest[s]
            /\ b = latest[s] \/ (AllBusy(s) /\ b < latest[s])
<1>1. latest[s] \in Nat /\ latest[s] \in 1 .. latest[s]
  BY Typed
<1>2. CASE AllBusy(s)
  <2>1. Busy(s) \in SUBSET (1 .. latest[s])
    BY <1>1, Typed DEF Busy, Inv, FinishedInv, GivenInv, UpTo
  <2>2. Busy(s) # {}
    BY <1>2, FS_EmptySet, BoundsAssumption DEF AllBusy
  <2>3. \E b \in Busy(s) : \A other \in Busy(s) : other <= b
    BY <1>1, <2>1, <2>2, MaxExists
  <2>4. InBuffer(s, latest[s]) \in Busy(s)
    <3> HIDE DEF Busy
    <3> QED BY <1>2, <2>3 DEF InBuffer
  <2>5. InBuffer(s, latest[s]) \in 1 .. latest[s]
    BY <2>1, <2>4
  <2> QED BY <1>1, <1>2, <2>5
<1>3. CASE ~AllBusy(s)
  BY <1>1, <1>3 DEF InBuffer
<1> QED BY <1>2, <1>3

LEMMA PushIs ==
  ASSUME Inv, NEW f \in Frame, NEW taken \in SUBSET Updates, Push(f, taken)
  PROVE  \E k \in Nat, rest \in Seq(Frame) :
           /\ Rest(frames, k, rest) /\ frames' = Append(rest, f) /\ Len(rest) < MaxInFlight
           /\ presented' = presented
           /\ discarded' = discarded \cup (taken \ f.shown) \cup FedFirst(frames, k)
<1>1. /\ MaxInFlight \in Nat /\ MaxInFlight # 0 /\ Len(frames) <= MaxInFlight
      /\ Len(frames) \in Nat /\ frames \in Seq(Frame)
  BY BoundsAssumption, Typed DEF Inv, TypeOK
<1>2. CASE Len(frames) < MaxInFlight
  <2>1. Rest(frames, 0, frames)
    BY Typed DEF Rest
  <2>2. FedFirst(frames, 0) = {}
    BY DEF FedFirst
  <2> QED BY <1>2, <2>1, <2>2, Typed DEF Push, Discard
<1>3. CASE ~(Len(frames) < MaxInFlight)
  <2>1. Len(frames) = MaxInFlight /\ Len(frames) # 0
    BY <1>1, <1>3
  <2>2. /\ Tail(frames) \in Seq(Frame) /\ Len(Tail(frames)) = Len(frames) - 1
        /\ \A i \in 1 .. Len(Tail(frames)) : Tail(frames)[i] = frames[i + 1]
    <3>1. frames \in Seq(Frame) /\ Len(frames) # 0
      BY <1>1, <2>1
    <3> QED BY <3>1
  <2>3. Rest(frames, 1, Tail(frames))
    BY <1>1, <2>1, <2>2 DEF Rest
  <2>4. FedFirst(frames, 1) = Head(frames).feedback
    BY <2>1, Typed DEF FedFirst
  <2>5. Len(Tail(frames)) < MaxInFlight
    BY <1>1, <2>1, <2>2
  <2>6. /\ frames' = Append(Tail(frames), f) /\ presented' = presented
        /\ discarded' = discarded \cup ((taken \ f.shown) \cup Head(frames).feedback)
    BY <1>3 DEF Push, Discard
  <2> QED BY <2>2, <2>3, <2>4, <2>5, <2>6
<1> QED BY <1>2, <1>3

\* latest updates are finished, taken those of them not applied before.
Latest(latest, taken) ==
  /\ latest \in [Surfaces -> 0 .. MaxUpdates] /\ taken \subseteq Updates
  /\ \A x \in Surfaces : applied[x] <= latest[x]
  /\ \A x \in Surfaces : \A n \in 1 .. latest[x] : <<x, n>> \notin rendering \ through
  /\ taken \cap UpTo(applied) = {} /\ UpTo(latest) = UpTo(applied) \cup taken

LEMMA HandOverKeeps ==
  ASSUME Inv, NEW latest, NEW taken, Latest(latest, taken),
         NEW layers \in SUBSET {s \in Tree : latest[s] # 0}, HandOver(layers, latest, taken),
         UNCHANGED <<screen, reports, seen, again, rendering, through>>, applied' = latest,
         binds' \in 0 .. MaxBinds, bound' \in BOOLEAN
  PROVE  ViewTypes' /\ GivenInv' /\ ShownIsFinished' /\ AnswersInv'
<1> DEFINE shown == {<<s, latest[s]>> : s \in layers}
           content == {<<s, InBuffer(s, latest[s])>> : s \in layers}
           f == [seq |-> seq + 1, shown |-> shown, feedback |-> taken \cap shown]
           standsIn == {<<s, latest[s]>> : s \in {x \in layers : AllBusy(x)}} \ content
           g == [seq |-> seq + 1, content |-> content, again |-> standsIn, held |-> TRUE]
<1>1. /\ seq' = seq + 1 /\ cleared' = FALSE /\ given' = given \cup {g} /\ Push(f, taken)
      /\ seq \in Nat
  BY Typed DEF HandOver
<1>2. \A s \in layers : s \in Surfaces /\ latest[s] \in 1 .. MaxUpdates
  BY TreeAssumption, BoundsAssumption DEF Latest
<1>3. ASSUME NEW s \in layers
      PROVE  LET b == InBuffer(s, latest[s])
             IN /\ b \in 1 .. latest[s]
                /\ b = latest[s] \/ (AllBusy(s) /\ b < latest[s])
  <2>1. s \in Surfaces /\ latest[s] # 0
    BY <1>2
  <2> QED BY <2>1, InBufferIs DEF Latest
<1>4. shown \subseteq Updates /\ content \subseteq Updates /\ content \subseteq UpTo(latest) /\ standsIn \subseteq Updates
  <2> SUFFICES ASSUME NEW s \in layers
               PROVE  /\ <<s, latest[s]>> \in Updates
                      /\ <<s, InBuffer(s, latest[s])>> \in UpTo(latest)
    BY DEF UpTo
  <2>1. latest[s] \in 1 .. MaxUpdates /\ s \in Surfaces /\ MaxUpdates \in Nat
    BY <1>2, Typed
  <2>2. InBuffer(s, latest[s]) \in 1 .. latest[s]
    BY <1>3
  <2>3. InBuffer(s, latest[s]) \in 1 .. MaxUpdates /\ InBuffer(s, latest[s]) <= latest[s]
    BY <2>1, <2>2
  <2> QED BY <2>1, <2>3 DEF Updates, UpTo
<1>5. f \in Frame /\ g \in Given
  BY <1>1, <1>4 DEF Frame, Given, Latest
<1>6. \A u \in shown : ShownIn(content, standsIn, u)
  <2> SUFFICES ASSUME NEW s \in layers PROVE ShownIn(content, standsIn, <<s, latest[s]>>)
    OBVIOUS
  <2> DEFINE u == <<s, latest[s]>>
  <2>1. <<s, InBuffer(s, latest[s])>> \in content
    OBVIOUS
  <2>2. CASE InBuffer(s, latest[s]) = latest[s]
    <3> HIDE DEF content
    <3> QED BY <2>1, <2>2 DEF ShownIn
  <2>3. CASE AllBusy(s) /\ InBuffer(s, latest[s]) < latest[s]
    <3>1. u \in content \/ u \in standsIn
      BY <2>3
    <3>2. latest[s] \in Nat
      BY <1>2
    <3>3. InBuffer(s, latest[s]) \in 1 .. latest[s]
      BY <1>3
    <3>4. InBuffer(s, latest[s]) \in 1 .. u[2] - 1 /\ u[1] = s
      BY <2>3, <3>2, <3>3
    <3> HIDE DEF content, standsIn
    <3> QED BY <2>1, <3>1, <3>4, Zenon DEF ShownIn
  <2> QED BY <1>3, <2>2, <2>3
<1>7. content \cap rendering \subseteq through
  <2> SUFFICES ASSUME NEW s \in layers, <<s, InBuffer(s, latest[s])>> \in rendering
               PROVE  <<s, InBuffer(s, latest[s])>> \in through
    OBVIOUS
  <2>1. s \in Surfaces /\ InBuffer(s, latest[s]) \in 1 .. latest[s]
    BY <1>2, <1>3
  <2> QED BY <2>1 DEF Latest
<1>8. PICK k \in Nat, rest \in Seq(Frame) :
           /\ Rest(frames, k, rest) /\ frames' = Append(rest, f) /\ Len(rest) < MaxInFlight
           /\ presented' = presented
           /\ discarded' = discarded \cup (taken \ f.shown) \cup FedFirst(frames, k)
  BY <1>1, <1>5, PushIs DEF Latest
<1>9. /\ Ascend(rest) /\ Apart(rest)
      /\ Fed(frames) = Fed(rest) \cup FedFirst(frames, k) /\ Fed(rest) \cap FedFirst(frames, k) = {}
      /\ \A i \in DOMAIN rest : \E j \in DOMAIN frames : rest[i] = frames[j]
  BY <1>8, RestKeeps, Typed
<1>10. /\ f.seq = seq + 1 /\ f.shown = shown /\ f.feedback = taken \cap shown
       /\ g.seq = seq + 1 /\ g.content = content /\ g.again = standsIn
  OBVIOUS
<1> HIDE DEF f, g, shown, content, standsIn
<1>11. \A i \in DOMAIN rest : rest[i].seq < f.seq
  BY <1>1, <1>9, <1>10, Typed DEF Inv, AnswersInv, FramesInv
<1>12. presented \cup discarded \cup Fed(frames) = UpTo(applied)
  BY Typed DEF Inv, AnswersInv, FeedbackAccounted
<1>13. f.feedback \cap Fed(rest) = {}
  BY <1>9, <1>10, <1>12 DEF Latest
<1>14. /\ frames' \in Seq(Frame) /\ Len(frames') = Len(rest) + 1
       /\ Ascend(frames') /\ Apart(frames')
       /\ Fed(frames') = Fed(rest) \cup f.feedback
       /\ \A i \in DOMAIN frames' : frames'[i] = f \/ \E j \in DOMAIN rest : frames'[i] = rest[j]
  BY <1>5, <1>8, <1>9, <1>11, <1>13, AppendKeeps
<1>15. ViewTypes'
  <2>1. Len(frames') <= MaxInFlight
    <3>1. Len(rest) \in Nat /\ MaxInFlight \in Nat
      BY BoundsAssumption
    <3> QED BY <1>8, <1>14, <3>1
  <2>2. FedFirst(frames, k) \subseteq Updates
    BY <1>9, <1>12 DEF UpTo
  <2>3. discarded' \subseteq Updates /\ presented' \subseteq Updates /\ seen' \subseteq Updates /\ again' \subseteq Updates
    BY <1>8, <2>2 DEF Latest, Inv, TypeOK
  <2>4. given \subseteq Given /\ screen \in Nat /\ reports \in Seq(Nat) /\ seq \in Nat
    BY Typed
  <2>5. given' \subseteq Given
    BY <1>1, <1>5, <2>4
  <2>6. screen' \in Nat /\ reports' \in Seq(Nat)
    BY <2>4
  <2>7. seq' \in Nat
    BY <1>1
  <2>8. cleared' \in BOOLEAN
    BY <1>1
  <2> QED BY <1>14, <2>1, <2>3, <2>5, <2>6, <2>7, <2>8 DEF ViewTypes
<1>16. \A u \in UpTo(applied) : u \in UpTo(latest)
  BY DEF Latest
<1>17. GivenInv'
  BY <1>1, <1>4, <1>10, <1>16, Typed DEF GivenInv, Inv, FinishedInv, UpTo
<1>18. ShownIsFinished'
  BY <1>1, <1>7, <1>10 DEF Latest, ShownIsFinished, Inv, FinishedInv
<1>19. \A h \in given : h.seq \in Nat /\ h.seq <= seq
  BY Typed DEF Inv, FinishedInv, GivenInv
<1>20. ASSUME NEW i \in DOMAIN frames'
       PROVE  /\ frames'[i].seq <= seq'
              /\ \A h \in given' : h.seq = frames'[i].seq => \A u \in frames'[i].shown : ShownIn(h.content, h.again, u)
              /\ \A r \in DOMAIN reports : frames'[i].seq = reports[r] => \A u \in frames'[i].shown : ShownIn(seen, again, u)
  <2>1. CASE frames'[i] = f
    <3>1. \A h \in given' : h.seq = f.seq => h = g
      BY <1>1, <1>10, <1>19
    <3>2. \A r \in DOMAIN reports : reports[r] # f.seq
      BY <1>1, <1>10, Typed DEF Inv, AnswersInv, ReportsInv
    <3> QED BY <1>1, <1>6, <1>10, <2>1, <3>1, <3>2
  <2>2. CASE \E j \in DOMAIN rest : frames'[i] = rest[j]
    <3>1. PICK j \in DOMAIN frames : frames'[i] = frames[j]
      BY <1>9, <2>2
    <3>2. frames[j].seq \in Nat /\ frames[j].seq <= seq
      BY Typed DEF Inv, AnswersInv, FramesInv
    <3>3. \A h \in given' : h.seq = frames[j].seq => h \in given
      BY <1>1, <1>10, <3>2
    <3> QED BY <1>1, <3>1, <3>2, <3>3 DEF Inv, AnswersInv, FramesInv, ReportsInv
  <2> QED BY <1>14, <2>1, <2>2
<1>21. FramesInv'
  BY <1>14, <1>20 DEF FramesInv, Ascend, ShownIn
<1>22. ReportsInv'
  <2>1. \A r \in DOMAIN reports : reports[r] <= seq'
    BY <1>1, Typed DEF Inv, AnswersInv, ReportsInv
  <2> QED BY <1>20, <2>1 DEF ReportsInv, ShownIn
<1>23. FeedbackAccounted'
  <2>1. AllFeedback' = Fed(frames')
    BY DEF AllFeedback, Fed
  <2>2. \A i, j \in DOMAIN frames' : i # j => frames'[i].feedback \cap frames'[j].feedback = {}
    BY <1>14 DEF Apart
  <2>3. presented \cap discarded = {} /\ Fed(frames) \cap (presented \cup discarded) = {}
    BY Typed DEF Inv, AnswersInv, FeedbackAccounted
  <2>4. UpTo(applied)' = UpTo(applied) \cup taken /\ taken \cap UpTo(applied) = {}
    BY DEF Latest, UpTo
  <2>5. presented' \cap discarded' = {} /\ Fed(frames') \cap (presented' \cup discarded') = {}
    BY <1>8, <1>9, <1>10, <1>12, <1>14, <2>3, <2>4
  <2>6. presented' \cup discarded' \cup Fed(frames') = UpTo(applied)'
    BY <1>8, <1>9, <1>10, <1>12, <1>14, <2>4
  <2> QED BY <2>1, <2>2, <2>5, <2>6 DEF FeedbackAccounted
<1>24. PresentedWasShown'
  BY <1>8 DEF Inv, AnswersInv, PresentedWasShown, ShownIn
<1> QED BY <1>15, <1>17, <1>18, <1>21, <1>22, <1>23, <1>24 DEF AnswersInv

LEMMA SubmitKeeps ==
  ASSUME Inv, NEW latest, NEW taken, Latest(latest, taken), SubmitView(latest, taken),
         UNCHANGED <<rendering, through>>, applied' = latest,
         binds' \in 0 .. MaxBinds, bound' \in BOOLEAN
  PROVE  ViewTypes' /\ GivenInv' /\ ShownIsFinished' /\ AnswersInv'
<1>1. UNCHANGED <<screen, reports, seen, again>>
  BY DEF SubmitView
<1>2. CASE \E layers \in SUBSET {s \in Tree : latest[s] # 0} : HandOver(layers, latest, taken)
  BY <1>1, <1>2, HandOverKeeps
<1>3. CASE ClearView(given) /\ Discard(taken) /\ UNCHANGED frames
  <2>1. /\ seq' \in Nat /\ seq <= seq' /\ cleared' \in BOOLEAN /\ given' \subseteq Given
        /\ \A h \in given' : h \in given \/ (h.seq > seq /\ h.seq = seq' /\ h.content = {})
    BY <1>3, ClearViewKeeps, Typed
  <2>2. FeedbackAccounted' /\ PresentedWasShown' /\ discarded' \in SUBSET Updates /\ presented' \in SUBSET Updates
    BY <1>1, <1>3, DiscardKeeps DEF Latest, UpTo
  <2>3. ViewTypes'
    BY <1>1, <1>3, <2>1, <2>2 DEF ViewTypes, Inv, TypeOK
  <2>4. FramesInv' /\ ReportsInv'
    <3>1. Ascend(frames')
      BY <1>3, Typed
    <3> QED BY <1>1, <1>3, <2>1, <2>3, <3>1, FewerKeep
  <2>5. \A g \in given : g.seq \in Nat /\ g.seq <= seq /\ g.content \subseteq UpTo(applied)
    BY Typed DEF Inv, FinishedInv, GivenInv
  <2>6. UpTo(applied) \subseteq UpTo(applied)'
    BY DEF Latest, UpTo
  <2>7. GivenInv'
    <3> SUFFICES ASSUME NEW h \in given' PROVE h.seq <= seq' /\ h.content \subseteq UpTo(applied)'
      BY DEF GivenInv
    <3>1. CASE h \in given
      BY <2>1, <2>5, <2>6, <3>1, Typed
    <3>2. CASE h.seq = seq' /\ h.content = {}
      BY <2>1, <3>2
    <3> QED BY <2>1, <3>1, <3>2
  <2>8. ShownIsFinished'
    BY <2>1 DEF Latest, ShownIsFinished, Inv, FinishedInv
  <2> QED BY <2>2, <2>3, <2>4, <2>7, <2>8 DEF AnswersInv
<1> QED BY <1>2, <1>3 DEF SubmitView

LEMMA UnbindingKeeps ==
  ASSUME Inv, Unbinding, UNCHANGED <<rendering, through, applied>>
  PROVE  ViewTypes' /\ GivenInv' /\ ShownIsFinished' /\ AnswersInv'
<1> DEFINE G == {[g EXCEPT !.held = FALSE] : g \in given}
<1>1. /\ bound' = FALSE /\ frames' = <<>> /\ Discard(AllFeedback) /\ ClearView(G)
      /\ UNCHANGED <<binds, screen, reports, seen, again>>
  BY DEF Unbinding
<1>2. \A h \in G : h \in Given /\ \E g \in given : h.seq = g.seq /\ h.content = g.content /\ h.again = g.again
  <2> SUFFICES ASSUME NEW g \in given
               PROVE  LET h == [g EXCEPT !.held = FALSE]
                      IN h \in Given /\ h.seq = g.seq /\ h.content = g.content /\ h.again = g.again
    OBVIOUS
  <2> QED BY Typed DEF Given
<1>3. /\ seq' \in Nat /\ seq <= seq' /\ cleared' \in BOOLEAN /\ given' \subseteq Given
      /\ \A h \in given' : h \in G \/ (h.seq > seq /\ h.seq = seq' /\ h.content = {})
  <2> HIDE DEF G
  <2> QED BY <1>1, <1>2, ClearViewKeeps
<1> HIDE DEF G
<1>4. AllFeedback \subseteq Updates
  BY Typed DEF Fed
<1>5. presented' = presented /\ discarded' = discarded \cup AllFeedback
  BY <1>1 DEF Discard
<1>6. ViewTypes'
  <2>1. frames' \in Seq(Frame) /\ Len(frames') = 0 /\ MaxInFlight \in Nat
    BY <1>1, BoundsAssumption
  <2>2. Len(frames') <= MaxInFlight
    BY <2>1
  <2> QED BY <1>1, <1>3, <1>4, <1>5, <2>1, <2>2 DEF ViewTypes, Inv, TypeOK
<1>7. FramesInv' /\ ReportsInv'
  <2>1. Ascend(frames') /\ DOMAIN frames' = {}
    BY <1>1 DEF Ascend
  <2> QED BY <1>1, <1>2, <1>3, <1>6, <2>1, FewerKeep
<1>8. FeedbackAccounted'
  <2>1. AllFeedback' = {} /\ DOMAIN frames' = {}
    BY <1>1 DEF AllFeedback
  <2>2. UpTo(applied)' = UpTo(applied)
    BY DEF UpTo
  <2> QED BY <1>5, <2>1, <2>2 DEF Inv, AnswersInv, FeedbackAccounted
<1>9. PresentedWasShown'
  BY <1>1, <1>5 DEF Inv, AnswersInv, PresentedWasShown, ShownIn
<1>10. \A g \in given : g.seq \in Nat /\ g.seq <= seq /\ g.content \subseteq UpTo(applied)
  BY Typed DEF Inv, FinishedInv, GivenInv
<1>11. GivenInv'
  <2> SUFFICES ASSUME NEW h \in given' PROVE h.seq <= seq' /\ h.content \subseteq UpTo(applied)
    BY DEF GivenInv, UpTo
  <2>1. CASE h \in G
    <3>1. PICK g \in given : h.seq = g.seq /\ h.content = g.content /\ h.again = g.again
      BY <1>2, <2>1
    <3> QED BY <1>3, <1>10, <3>1, Typed
  <2>2. CASE h.seq = seq' /\ h.content = {}
    BY <1>3, <2>2
  <2> QED BY <1>3, <2>1, <2>2
<1>12. ShownIsFinished'
  <2>1. \A h \in given' : h.content \cap rendering \subseteq through
    BY <1>2, <1>3 DEF Inv, FinishedInv, ShownIsFinished
  <2> QED BY <2>1 DEF Inv, FinishedInv, ShownIsFinished
<1> QED BY <1>6, <1>7, <1>8, <1>9, <1>11, <1>12 DEF AnswersInv

LEMMA ShowKeeps ==
  ASSUME Inv, NEW g \in given, Show(g)
  PROVE  Inv'
<1>1. /\ g.seq \in Nat /\ g.seq <= seq /\ g.content \subseteq Updates /\ g.again \subseteq Updates
  BY Typed DEF Inv, FinishedInv, GivenInv
<1>2. /\ screen' = g.seq /\ seen' = seen \cup g.content /\ again' = again \cup g.again /\ reports' = Append(reports, g.seq)
      /\ given' \subseteq given
      /\ UNCHANGED <<clientVars, waitVars, updateVars, viewVars, frames, answers>>
  BY DEF Show
<1>3. /\ reports' \in Seq(Nat) /\ DOMAIN reports' = DOMAIN reports \cup {Len(reports) + 1}
      /\ reports'[Len(reports) + 1] = g.seq /\ \A k \in DOMAIN reports : reports'[k] = reports[k]
  BY <1>1, <1>2, Typed
<1>4. WaitTypes' /\ WaitsInv' /\ Pending'
  BY <1>2 DEF clientVars, waitVars, updateVars, Inv, TypeOK, WaitTypes, WaitsInv, WaitsAgree, FinishedInv, Pending, UpTo
<1>5. ViewTypes'
  BY <1>1, <1>2, <1>3 DEF viewVars, answers, ViewTypes, Inv, TypeOK
<1>6. GivenInv' /\ ShownIsFinished'
  BY <1>2 DEF viewVars, waitVars, updateVars, Inv, FinishedInv, GivenInv, ShownIsFinished, UpTo
<1>7. FramesInv' /\ FeedbackAccounted'
  BY <1>2 DEF viewVars, updateVars, answers, Inv, AnswersInv, FramesInv, FeedbackAccounted, AllFeedback, UpTo
<1>8. \A u : ShownIn(seen, again, u) \/ ShownIn(g.content, g.again, u) => ShownIn(seen', again', u)
  BY <1>2 DEF ShownIn
<1>9. PresentedWasShown'
  BY <1>2, <1>8 DEF answers, Inv, AnswersInv, PresentedWasShown, ShownIn
<1>10. ReportsInv'
  <2> SUFFICES ASSUME NEW k \in DOMAIN reports'
               PROVE  /\ reports'[k] <= seq
                      /\ \A i \in DOMAIN frames :
                           frames[i].seq = reports'[k] => \A u \in frames[i].shown : ShownIn(seen', again', u)
    BY <1>2 DEF viewVars, ReportsInv, ShownIn
  <2>1. CASE k \in DOMAIN reports
    BY <1>3, <1>8, <2>1 DEF Inv, AnswersInv, ReportsInv
  <2>2. CASE reports'[k] = g.seq
    BY <1>1, <1>8, <2>2 DEF Inv, AnswersInv, FramesInv
  <2> QED BY <1>3, <2>1, <2>2
<1> QED BY <1>4, <1>5, <1>6, <1>7, <1>9, <1>10, InvJoins DEF AnswersInv

\* The frames a report answers are the first ones.
LEMMA AnsweredFirst ==
  ASSUME Inv, NEW q \in Nat
  PROVE  Cardinality(Answered(q)) \in 0 .. Len(frames) /\ Answered(q) = 1 .. Cardinality(Answered(q))
<1>1. Answered(q) \in SUBSET (1 .. Len(frames)) /\ Len(frames) \in Nat
  BY Typed DEF Answered
<1>2. \E k \in 0 .. Len(frames) : Answered(q) = 1 .. k
  <2>1. CASE Answered(q) = {}
    <3>1. Answered(q) = 1 .. 0 /\ 0 \in 0 .. Len(frames)
      BY <1>1, <2>1
    <3> QED BY <3>1
  <2>2. CASE Answered(q) # {}
    <3>1. PICK k \in Answered(q) : \A other \in Answered(q) : other <= k
      BY <1>1, <2>2, MaxExists
    <3>2. ASSUME NEW i \in 1 .. k PROVE i \in Answered(q)
      <4>1. i \in DOMAIN frames /\ k \in DOMAIN frames /\ frames[k].seq <= q /\ (i < k \/ i = k)
        BY <1>1, <3>1, Typed DEF Answered
      <4>2. frames[i].seq \in Nat /\ frames[k].seq \in Nat
        BY <4>1, Typed
      <4>3. i < k => frames[i].seq < frames[k].seq
        BY <4>1, Typed DEF Ascend
      <4> QED BY <4>1, <4>2, <4>3 DEF Answered
    <3>3. Answered(q) \subseteq 1 .. k
      BY <1>1, <3>1
    <3>4. Answered(q) = 1 .. k
      BY <3>2, <3>3
    <3> QED BY <1>1, <3>1, <3>4
  <2> QED BY <2>1, <2>2
<1>3. PICK k \in 0 .. Len(frames) : Answered(q) = 1 .. k
  BY <1>2
<1>4. Cardinality(Answered(q)) = k
  BY <1>1, <1>3, UpToNumber
<1> QED BY <1>3, <1>4

LEMMA PresentedKeeps ==
  ASSUME Inv, Presented
  PROVE  Inv'
<1> DEFINE q == Head(reports)
           k == Cardinality(Answered(q))
           due == FedFirst(frames, k)
           told == due \cap ShownBy(q)
<1>1. /\ reports # <<>> /\ reports' = Tail(reports)
      /\ frames' = SubSeq(frames, k + 1, Len(frames))
      /\ given' \subseteq given
      /\ UNCHANGED <<clientVars, waitVars, updateVars, viewVars, screen, seen, again>>
  BY DEF Presented
<1>2. q \in Nat /\ q = reports[1] /\ 1 \in DOMAIN reports
  <2>1. reports \in Seq(Nat) /\ Len(reports) # 0
    BY <1>1, Typed
  <2> QED BY <2>1
<1>3. /\ reports' \in Seq(Nat) /\ DOMAIN reports' = 1 .. (Len(reports) - 1)
      /\ \A r \in DOMAIN reports' : r + 1 \in DOMAIN reports /\ reports'[r] = reports[r + 1]
  <2>1. reports \in Seq(Nat) /\ Len(reports) # 0
    BY <1>1, Typed
  <2> QED BY <1>1, <2>1
<1>4. k \in 0 .. Len(frames) /\ Answered(q) = 1 .. k
  <2> HIDE DEF q
  <2> QED BY <1>2, AnsweredFirst
<1>5. presented' = presented \cup told /\ discarded' = discarded \cup (due \ ShownBy(q))
  <2>1. due = UNION {frames[i].feedback : i \in Answered(q)}
    BY <1>4 DEF FedFirst
  <2> QED BY <2>1 DEF Presented
<1>6. Rest(frames, k, frames') /\ Len(frames') \in Nat /\ DOMAIN frames' = 1 .. Len(frames')
  <2>1. frames \in Seq(Frame) /\ Len(frames) \in Nat /\ k \in Nat /\ k <= Len(frames)
    BY <1>4, Typed
  <2> HIDE DEF k
  <2> QED BY <1>1, <1>4, <2>1 DEF Rest
<1>7. /\ Ascend(frames') /\ Apart(frames')
      /\ Fed(frames) = Fed(frames') \cup due /\ Fed(frames') \cap due = {}
      /\ \A i \in DOMAIN frames' : \E j \in DOMAIN frames : frames'[i] = frames[j]
  <2> HIDE DEF k
  <2> QED BY <1>6, RestKeeps, Typed
<1>8. \A u \in ShownBy(q) : ShownIn(seen, again, u)
  <2> SUFFICES ASSUME NEW i \in DOMAIN frames, frames[i].seq = q, NEW u \in frames[i].shown
               PROVE  ShownIn(seen, again, u)
    BY DEF ShownBy
  <2> QED BY <1>2 DEF Inv, AnswersInv, ReportsInv
<1> HIDE DEF due, k, q
<1>9. WaitTypes' /\ WaitsInv' /\ Pending'
  BY <1>1 DEF clientVars, waitVars, updateVars, Inv, TypeOK, WaitTypes, WaitsInv, WaitsAgree, FinishedInv, Pending, UpTo
<1>10. due \subseteq Updates
  BY <1>7, Typed DEF Fed
<1>11. ViewTypes'
  <2>1. frames' \in Seq(Frame) /\ Len(frames') <= MaxInFlight
    <3>1. frames' \in Seq(Frame) /\ Len(frames') = Len(frames) - k /\ k \in Nat
      BY <1>6 DEF Rest
    <3>2. Len(frames) <= MaxInFlight /\ Len(frames) \in Nat /\ MaxInFlight \in Nat
      BY Typed, BoundsAssumption DEF Inv, TypeOK
    <3> QED BY <3>1, <3>2
  <2>2. binds' \in 0 .. MaxBinds /\ bound' \in BOOLEAN /\ seq' \in Nat /\ cleared' \in BOOLEAN /\ screen' \in Nat
    BY <1>1 DEF viewVars, Inv, TypeOK
  <2>3. given' \in SUBSET Given /\ reports' \in Seq(Nat)
    BY <1>1, <1>3, Typed
  <2>4. {presented', discarded', seen', again'} \subseteq SUBSET Updates
    BY <1>1, <1>5, <1>10 DEF Inv, TypeOK
  <2> QED BY <2>1, <2>2, <2>3, <2>4 DEF ViewTypes
<1>12. GivenInv' /\ ShownIsFinished'
  <2>1. given' \subseteq given /\ UNCHANGED <<seq, applied, rendering, through>>
    BY <1>1 DEF viewVars, waitVars, updateVars
  <2>2. GivenInv'
    BY <2>1 DEF Inv, FinishedInv, GivenInv, UpTo
  <2>3. ShownIsFinished'
    BY <2>1 DEF Inv, FinishedInv, ShownIsFinished
  <2> QED BY <2>2, <2>3
<1>13. FramesInv'
  <2>1. given' \subseteq given /\ seq' = seq
    BY <1>1 DEF viewVars
  <2>2. ASSUME NEW i \in DOMAIN frames'
        PROVE  /\ frames'[i].seq <= seq
               /\ \A g \in given' : g.seq = frames'[i].seq => \A u \in frames'[i].shown : ShownIn(g.content, g.again, u)
    BY <1>7, <2>1 DEF Inv, AnswersInv, FramesInv
  <2> QED BY <1>7, <2>1, <2>2 DEF FramesInv, Ascend, ShownIn
<1>14. ReportsInv'
  <2> SUFFICES ASSUME NEW r \in DOMAIN reports'
               PROVE  /\ reports'[r] <= seq
                      /\ \A i \in DOMAIN frames' :
                           frames'[i].seq = reports'[r] => \A u \in frames'[i].shown : ShownIn(seen, again, u)
    BY <1>1 DEF viewVars, ReportsInv, ShownIn
  <2>1. r + 1 \in DOMAIN reports /\ reports'[r] = reports[r + 1]
    BY <1>3
  <2> QED BY <1>7, <2>1 DEF Inv, AnswersInv, ReportsInv
<1>15. FeedbackAccounted'
  <2>1. AllFeedback' = Fed(frames') /\ UpTo(applied)' = UpTo(applied)
    BY <1>1 DEF AllFeedback, Fed, UpTo, updateVars
  <2>2. \A i, j \in DOMAIN frames' : i # j => frames'[i].feedback \cap frames'[j].feedback = {}
    BY <1>7 DEF Apart
  <2>3. /\ presented \cap discarded = {} /\ Fed(frames) \cap (presented \cup discarded) = {}
        /\ presented \cup discarded \cup Fed(frames) = UpTo(applied)
    BY Typed DEF Inv, AnswersInv, FeedbackAccounted
  <2>4. presented' \cap discarded' = {} /\ Fed(frames') \cap (presented' \cup discarded') = {}
    BY <1>5, <1>7, <2>3
  <2>5. presented' \cup discarded' \cup Fed(frames') = UpTo(applied)
    BY <1>5, <1>7, <2>3
  <2> QED BY <2>1, <2>2, <2>4, <2>5 DEF FeedbackAccounted
<1>16. PresentedWasShown'
  BY <1>1, <1>5, <1>8 DEF Inv, AnswersInv, PresentedWasShown, ShownIn
<1> QED BY <1>9, <1>11, <1>12, <1>13, <1>14, <1>15, <1>16, InvJoins DEF AnswersInv

\* The next update of a surface that is ready is finished, or was let through.
LEMMA ApplyKeeps ==
  ASSUME Inv, NEW s \in Surfaces, Apply(s)
  PROVE  Inv'
<1> DEFINE u == <<s, applied[s] + 1>>
           latest == [applied EXCEPT ![s] = @ + 1]
<1>1. /\ Owner[s] \in connected /\ applied[s] < committed[s] /\ u \notin blocked
      /\ applied' = latest
      /\ UNCHANGED <<clientVars, waitVars, rendering, committed, binds, bound>>
  BY DEF Apply, Ready
<1>2. /\ applied[s] \in Nat /\ committed[s] \in 0 .. MaxUpdates /\ MaxUpdates \in Nat
      /\ applied[s] + 1 \in 1 .. MaxUpdates
  BY <1>1, Typed DEF Inv, TypeOK
<1>3. /\ latest \in [Surfaces -> 0 .. MaxUpdates] /\ latest[s] = applied[s] + 1
      /\ \A x \in Surfaces : x # s => latest[x] = applied[x]
      /\ \A x \in Surfaces : applied[x] \in Nat /\ latest[x] \in Nat /\ applied[x] <= latest[x]
  BY <1>2, Typed
<1>4. u \in Updates /\ u[1] = s /\ u[2] = applied[s] + 1
  BY <1>2 DEF Updates
<1>5. u \notin rendering \ through
  BY <1>1, <1>4 DEF Inv, FinishedInv, Pending
<1>6. \A x \in Surfaces : \A n \in 1 .. latest[x] : n \in 1 .. applied[x] \/ <<x, n>> = u
  BY <1>2, <1>3
<1>7. \A w \in Updates : w[1] \in Surfaces /\ w[2] \in Nat /\ w = <<w[1], w[2]>>
  BY <1>2 DEF Updates
<1>8. UpTo(latest) = UpTo(applied) \cup {u} /\ {u} \cap UpTo(applied) = {}
  <2>1. \A w \in UpTo(latest) : w \in UpTo(applied) \/ w = u
    BY <1>2, <1>3, <1>7 DEF UpTo
  <2>2. \A w \in UpTo(applied) : w \in UpTo(latest) /\ w # u
    BY <1>2, <1>3, <1>4, <1>7 DEF UpTo
  <2>3. u \in UpTo(latest)
    BY <1>2, <1>3, <1>4 DEF UpTo
  <2> HIDE DEF u, latest
  <2> QED BY <2>1, <2>2, <2>3
<1>9. Latest(latest, {u})
  <2>1. \A x \in Surfaces : \A n \in 1 .. latest[x] : <<x, n>> \notin rendering \ through
    BY <1>5, <1>6 DEF Inv, FinishedInv, ShownIsFinished
  <2> HIDE DEF u, latest
  <2> QED BY <1>3, <1>4, <1>8, <2>1 DEF Latest
<1>10. UNCHANGED <<rendering, through>> /\ binds' \in 0 .. MaxBinds /\ bound' \in BOOLEAN
  BY <1>1 DEF waitVars, Inv, TypeOK
<1>11. ViewTypes' /\ GivenInv' /\ ShownIsFinished' /\ AnswersInv'
  <2>1. CASE s \in Tree /\ bound
    <3>1. SubmitView(latest, {u})
      BY <1>1, <1>3, <2>1 DEF Apply
    <3> HIDE DEF u, latest
    <3> QED BY <1>1, <1>9, <1>10, <3>1, SubmitKeeps
  <2>2. CASE ~(s \in Tree /\ bound)
    <3>1. Discard({u}) /\ UNCHANGED <<seq, cleared, frames, shellVars>>
      BY <1>1, <1>3, <2>2 DEF Apply
    <3> HIDE DEF u, latest
    <3>2. UpTo(applied)' = UpTo(applied) \cup {u}
      BY <1>1, <1>8 DEF UpTo
    <3>3. FeedbackAccounted' /\ PresentedWasShown' /\ discarded' \in SUBSET Updates /\ presented' \in SUBSET Updates
      BY <1>4, <1>8, <3>1, <3>2, DiscardKeeps DEF shellVars
    <3>4. ViewTypes' /\ FramesInv' /\ ReportsInv'
      BY <1>10, <3>1, <3>3 DEF shellVars, ViewTypes, Inv, TypeOK, AnswersInv, FramesInv, ReportsInv, ShownIn
    <3>5. GivenInv'
      BY <3>1, <3>2 DEF shellVars, GivenInv, Inv, FinishedInv
    <3>6. ShownIsFinished'
      BY <1>1, <1>9, <1>10, <3>1 DEF Latest, shellVars, ShownIsFinished, Inv, FinishedInv
    <3> QED BY <3>3, <3>4, <3>5, <3>6 DEF AnswersInv
  <2> QED BY <2>1, <2>2
<1>12. WaitTypes' /\ WaitsInv'
  BY <1>1, <1>3 DEF clientVars, waitVars, Inv, TypeOK, WaitTypes, WaitsInv, WaitsAgree
<1>13. Pending'
  BY <1>1, <1>2, <1>3 DEF clientVars, waitVars, Inv, FinishedInv, Pending, UpTo
<1> QED BY <1>11, <1>12, <1>13, InvJoins

LEMMA BindKeeps ==
  ASSUME Inv, Bind
  PROVE  Inv'
<1>1. /\ bound' = TRUE /\ binds' = binds + 1 /\ binds < MaxBinds /\ SubmitView(applied, {})
      /\ UNCHANGED <<clientVars, waitVars, updateVars>>
  BY DEF Bind
<1>2. binds' \in 0 .. MaxBinds
  BY <1>1, BoundsAssumption DEF Inv, TypeOK
<1>3. Latest(applied, {})
  BY Typed DEF Latest, Inv, FinishedInv, ShownIsFinished
<1>4. ViewTypes' /\ GivenInv' /\ ShownIsFinished' /\ AnswersInv'
  BY <1>1, <1>2, <1>3, SubmitKeeps DEF waitVars, updateVars
<1>5. WaitTypes' /\ WaitsInv' /\ Pending'
  BY <1>1 DEF clientVars, waitVars, updateVars, Inv, TypeOK, WaitTypes, WaitsInv, WaitsAgree, FinishedInv, Pending, UpTo
<1> QED BY <1>4, <1>5, InvJoins

LEMMA UnbindKeeps ==
  ASSUME Inv, Unbind
  PROVE  Inv'
<1>1. Unbinding /\ UNCHANGED <<clientVars, waitVars, updateVars>>
  BY DEF Unbind
<1>2. ViewTypes' /\ GivenInv' /\ ShownIsFinished' /\ AnswersInv'
  BY <1>1, UnbindingKeeps DEF waitVars, updateVars
<1>3. WaitTypes' /\ WaitsInv' /\ Pending'
  BY <1>1 DEF clientVars, waitVars, updateVars, Inv, TypeOK, WaitTypes, WaitsInv, WaitsAgree, FinishedInv, Pending, UpTo
<1> QED BY <1>2, <1>3, InvJoins

LEMMA DisconnectKeeps ==
  ASSUME Inv, NEW c \in Clients, Disconnect(c)
  PROVE  Inv'
<1>1. /\ c \in connected /\ connected' = connected \ {c} /\ gone' = gone \cup {c}
      /\ Unbinding \/ UNCHANGED viewSide
      /\ UNCHANGED <<waitVars, updateVars>>
  BY DEF Disconnect, viewSide
<1>2. ViewTypes' /\ GivenInv' /\ ShownIsFinished' /\ AnswersInv'
  <2>1. CASE Unbinding
    BY <1>1, <2>1, UnbindingKeeps DEF waitVars, updateVars
  <2>2. CASE UNCHANGED viewSide
    <3>1. ViewTypes' /\ GivenInv' /\ AnswersInv'
      BY <1>1, <2>2, ViewSideKeeps DEF updateVars
    <3>2. ShownIsFinished'
      BY <1>1, <2>2 DEF viewSide, shellVars, waitVars, updateVars, Inv, FinishedInv, ShownIsFinished
    <3> QED BY <3>1, <3>2
  <2> QED BY <1>1, <2>1, <2>2
<1>3. WaitTypes'
  BY <1>1 DEF waitVars, updateVars, Inv, TypeOK, WaitTypes
<1>4. WaitsInv'
  BY <1>1 DEF waitVars, Inv, WaitsInv, WaitsAgree, Of
<1>5. Pending'
  BY <1>1 DEF waitVars, updateVars, Inv, FinishedInv, Pending, UpTo
<1> QED BY <1>2, <1>3, <1>4, <1>5, InvJoins

-----------------------------------------------------------------------------
(* Every step keeps the invariant *)

LEMMA NextKeeps == Inv /\ [Next]_vars => Inv'
<1> SUFFICES ASSUME Inv, [Next]_vars PROVE Inv'
  OBVIOUS
<1>1. CASE \E s \in Surfaces : Apply(s) \/ \E finished \in BOOLEAN : Commit(s, finished)
  BY <1>1, ApplyKeeps, CommitKeeps
<1>2. CASE \E u \in Updates : Finish(u) \/ SourceFires(u)
  BY <1>2, FinishKeeps, SourceFiresKeeps
<1>3. CASE \E c \in Clients : Disconnect(c)
  BY <1>3, DisconnectKeeps
<1>4. CASE \E g \in given : Show(g)
  BY <1>4, ShowKeeps
<1>5. CASE Bind \/ Unbind \/ Reap \/ Presented
  BY <1>5, BindKeeps, UnbindKeeps, ReapKeeps, PresentedKeeps
<1>6. CASE UNCHANGED vars
  <2>1. UNCHANGED <<clientVars, waitVars, updateVars, viewSide>>
    BY <1>6 DEF vars, viewSide
  <2>2. ViewTypes' /\ AnswersInv' /\ GivenInv'
    BY <2>1, ViewSideKeeps DEF updateVars
  <2>3. WaitTypes' /\ WaitsInv' /\ Pending'
    BY <2>1 DEF clientVars, waitVars, updateVars, Inv, TypeOK, WaitTypes, WaitsInv, WaitsAgree, FinishedInv, Pending, UpTo
  <2>4. ShownIsFinished'
    BY <2>1 DEF viewSide, shellVars, waitVars, updateVars, Inv, FinishedInv, ShownIsFinished
  <2> QED BY <2>2, <2>3, <2>4, InvJoins
<1> QED BY <1>1, <1>2, <1>3, <1>4, <1>5, <1>6 DEF Next

LEMMA InvAlways == Spec => []Inv
BY InitInv, NextKeeps, PTL DEF Spec

\* The state is always well typed: in particular no more than MAX_IN_FLIGHT
\* frames await their report (timing.rs Frames::push).
THEOREM UpdatesTypes == Spec => []TypeOK
<1>1. Inv => TypeOK
  BY DEF Inv
<1> QED BY <1>1, InvAlways, PTL

\* The keys a client's waits keep, the sources of the event loop and the
\* blockers of its commits always agree, and no client holds more than the
\* limit (handlers/compositor.rs hold_commit, state.rs reap_clients).
THEOREM WaitsAlwaysAgree == Spec => []WaitsAgree
<1>1. Inv => WaitsAgree
  BY DEF Inv, WaitsInv
<1> QED BY <1>1, InvAlways, PTL

\* The shell is never handed a buffer its client still renders into, but one
\* that was let through (handlers/compositor.rs gate_on_readiness).
THEOREM ShownAlwaysFinished == Spec => []ShownIsFinished
<1>1. Inv => ShownIsFinished
  BY DEF Inv, FinishedInv
<1> QED BY <1>1, InvAlways, PTL

\* Feedback asked for is always in exactly one place: answered with presented,
\* with discarded, or kept with one frame (timing.rs Frames).
THEOREM FeedbackAlwaysAccounted == Spec => []FeedbackAccounted
<1>1. Inv => FeedbackAccounted
  BY DEF Inv, AnswersInv
<1> QED BY <1>1, InvAlways, PTL

\* Presented is only ever told of content that was on the screen, or, where
\* every slot of the surface was busy when its frame was staged, of content
\* that an older slot on the screen stood in for (timing.rs Frames::presented).
THEOREM PresentedAlwaysShown == Spec => []PresentedWasShown
<1>1. Inv => PresentedWasShown
  BY DEF Inv, AnswersInv
<1> QED BY <1>1, InvAlways, PTL
=============================================================================
