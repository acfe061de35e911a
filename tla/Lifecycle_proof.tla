--------------------------- MODULE Lifecycle_proof ---------------------------
(***************************************************************************)
(* Theorems about Lifecycle, for any callers, servers and views.           *)
(*                                                                         *)
(* LifeInv is about LIFECYCLE: what has not ended is either what SERVER    *)
(* stores or what the one caller inside is making or stopping.  LinkInv is *)
(* about the links: a link is Some exactly while its view lives, and who   *)
(* is in a call for a view has its link, alone.  ViewsInv is about views:  *)
(* what a channel tells of them is in turn, and all of it is what was told *)
(* and not taken back.  WaitInv is about whoever waits for a thread.       *)
(***************************************************************************)
EXTENDS Lifecycle, SequenceTheorems, TLAPS

Ended(s) == thread[s] \in {"none", "done"}

OneInside ==
  \A c, d \in Callers : call[c] \in InLifecycle /\ call[d] \in InLifecycle => c = d
Owned ==
  \A s \in Servers : ~Ended(s) =>
    running = s \/ \E c \in Callers : call[c] \in {"boot", "quit", "join"} /\ target[c] = s
Emptied ==
  \A c \in Callers : call[c] \in {"query", "boot", "quit", "join"} => running = None
Withdrawn ==
  \A c \in Callers : call[c] \in {"take", "quit", "join"} => ~registered

CallTypes ==
  /\ call \in [Callers -> CallStates]
  /\ target \in [Callers -> Servers \cup {None}]
  /\ running \in Servers \cup {None}
  /\ thread \in [Servers -> ThreadStates]

LifeInv == CallTypes /\ OneInside /\ Owned /\ Emptied /\ Withdrawn

InFactory == {"check", "negotiate", "announce", "return"}
InCallback == {"renegotiate", "regrant", "clear", "part"}

\* The server may have been told of v.
Announced(v) ==
  status[v] # "new" \/ (platform.at = "return" /\ platform.view = v)

PlatformInv ==
  /\ platform.at \in InFactory => platform.view \in Views /\ status[platform.view] = "new"
  /\ platform.at \in InCallback => platform.view \in Views /\ status[platform.view] = "live"
Linked ==
  \A v \in Views : link[v] <=>
    \/ status[v] = "live" /\ ~(platform.at = "part" /\ platform.view = v)
    \/ platform.at \in {"announce", "return"} /\ platform.view = v
Known == \A s \in Servers, v \in Views : views[s][IdOf[v]] = v => Announced(v)
Queued ==
  \A s \in Servers, v \in Views : \A i \in 1 .. Len(chan[s]) :
    chan[s][i] = [kind |-> "created", of |-> v] => Announced(v)
InCall ==
  \A s \in Servers, v \in Views : submitting[s] = v =>
    /\ link[v] /\ Announced(v)
    /\ ~(platform.at = "regrant" /\ platform.view = v)
    /\ \A t \in Servers : submitting[t] = v => t = s

LinkInv == TypeOK /\ PlatformInv /\ Linked /\ Known /\ Queued /\ InCall

-----------------------------------------------------------------------------
(* Sending *)

LEMMA CmdTypes ==
  /\ \A v \in Views : [kind |-> "created", of |-> v] \in Cmd /\ IdOf[v] \in Ids
  /\ \A v \in Views : [kind |-> "disposed", of |-> IdOf[v]] \in Cmd
  /\ [kind |-> "quit", of |-> None] \in Cmd
  /\ \A m \in Cmd : /\ m.kind = "created" => m.of \in Views
                    /\ m.kind = "disposed" => m.of \in Ids
BY IdAssumption DEF Cmd

\* A channel stays one, and holds the command sent at most besides what it held.
LEMMA SendKeeps ==
  ASSUME TypeOK, NEW cmd \in Cmd, NEW to \in Servers \cup {None},
         chan' = IF Sendable(to) THEN [chan EXCEPT ![to] = Append(@, cmd)] ELSE chan
  PROVE  /\ chan' \in [Servers -> Seq(Cmd)]
         /\ \A s \in Servers : \A i \in 1 .. Len(chan'[s]) :
              \/ i \in 1 .. Len(chan[s]) /\ chan'[s][i] = chan[s][i]
              \/ chan'[s][i] = cmd /\ Sendable(to)
<1>1. CASE Sendable(to)
  <2>1. to \in Servers /\ chan[to] \in Seq(Cmd)
    BY <1>1 DEF Sendable, TypeOK
  <2>2. /\ Append(chan[to], cmd) \in Seq(Cmd)
        /\ \A i \in 1 .. Len(Append(chan[to], cmd)) :
             \/ i \in 1 .. Len(chan[to]) /\ Append(chan[to], cmd)[i] = chan[to][i]
             \/ Append(chan[to], cmd)[i] = cmd
    BY <2>1
  <2> QED BY <1>1, <2>1, <2>2 DEF TypeOK
<1>2. CASE ~Sendable(to)
  BY <1>2 DEF TypeOK
<1> QED BY <1>1, <1>2

LEMMA TailKeeps ==
  ASSUME TypeOK, NEW s \in Servers, chan[s] # <<>>,
         chan' = [chan EXCEPT ![s] = Tail(@)]
  PROVE  /\ chan' \in [Servers -> Seq(Cmd)]
         /\ \A t \in Servers : \A i \in 1 .. Len(chan'[t]) :
              \E j \in 1 .. Len(chan[t]) : chan'[t][i] = chan[t][j]
         /\ Head(chan[s]) \in Cmd /\ 1 \in 1 .. Len(chan[s]) /\ Head(chan[s]) = chan[s][1]
<1>1. chan[s] \in Seq(Cmd)
  BY DEF TypeOK
<1>2. /\ Tail(chan[s]) \in Seq(Cmd)
      /\ \A i \in 1 .. Len(Tail(chan[s])) :
           i + 1 \in 1 .. Len(chan[s]) /\ Tail(chan[s])[i] = chan[s][i + 1]
      /\ Head(chan[s]) \in Cmd /\ 1 \in 1 .. Len(chan[s]) /\ Head(chan[s]) = chan[s][1]
  BY <1>1
<1> QED BY <1>2 DEF TypeOK

-----------------------------------------------------------------------------
(* Types *)

LEMMA TypesStart == Init => TypeOK
<1> SUFFICES ASSUME Init PROVE TypeOK
  OBVIOUS
<1>1. chan \in [Servers -> Seq(Cmd)]
  <2>1. <<>> \in Seq(Cmd)
    OBVIOUS
  <2> QED BY <2>1 DEF Init
<1>2. platform \in [at : PlatformStates, view : Views \cup {None}, locked : BOOLEAN]
  BY DEF Init, PlatformStates
<1> QED BY <1>1, <1>2 DEF Init, TypeOK, CallStates, ThreadStates

LEMMA PlatformIs ==
  /\ PlatformIdle => /\ platform' \in [at : PlatformStates, view : Views \cup {None},
                                      locked : BOOLEAN]
                     /\ platform'.at = "idle" /\ platform'.view = None
  /\ \A at \in PlatformStates, v \in Views : TypeOK /\ Platform(at, v) =>
       /\ platform' \in [at : PlatformStates, view : Views \cup {None}, locked : BOOLEAN]
       /\ platform'.at = at /\ platform'.view = v
<1>1. PlatformIdle => /\ platform' \in [at : PlatformStates, view : Views \cup {None},
                                      locked : BOOLEAN]
                     /\ platform'.at = "idle" /\ platform'.view = None
  BY DEF PlatformIdle, PlatformStates
<1>2. ASSUME NEW at \in PlatformStates, NEW v \in Views, TypeOK, Platform(at, v)
      PROVE  /\ platform' \in [at : PlatformStates, view : Views \cup {None}, locked : BOOLEAN]
             /\ platform'.at = at /\ platform'.view = v
  <2>1. platform \in [at : PlatformStates, view : Views \cup {None}, locked : BOOLEAN]
    BY <1>2 DEF TypeOK
  <2> QED BY <1>2, <2>1 DEF Platform
<1> QED BY <1>1, <1>2

LEMMA PlatformNames ==
  {"idle", "check", "negotiate", "announce", "return", "clear", "part", "renegotiate",
   "regrant"} \subseteq PlatformStates
BY DEF PlatformStates

LEMMA CallerTypes ==
  ASSUME TypeOK, NEW c \in Callers,
         CallerStep(c) \/ \E what \in {"start", "stop", "ask"} : Call(c, what)
  PROVE  TypeOK'
<1> USE DEF TypeOK, vars, callVars, serverVars, viewVars, Go, Release, CallStates,
        InLifecycle, InServer
<1>1. CASE \E what \in {"start", "stop", "ask"} : Call(c, what)
  BY <1>1 DEF Call
<1>2. CASE LockLifecycle(c)
  BY <1>2 DEF LockLifecycle
<1>3. CASE StartStep(c)
  <2>1. CASE StartLocks(c) \/ AlreadyRunning(c) \/ Reap(c) \/ SpawnFails(c) \/ Register(c)
    BY <2>1 DEF StartLocks, AlreadyRunning, Reap, SpawnFails, Register
  <2>2. CASE \E s \in Servers : Spawn(c, s)
    BY <2>2 DEF Spawn, ThreadStates
  <2>3. CASE Booted(c)
    BY <2>3 DEF Booted
  <2>4. CASE BootFails(c)
    BY <2>4 DEF BootFails, ThreadStates
  <2> QED BY <1>3, <2>1, <2>2, <2>3, <2>4 DEF StartStep
<1>4. CASE StopStep(c)
  <2>1. CASE StopChecks(c)
    BY <2>1 DEF StopChecks
  <2>2. CASE Unregister(c)
    BY <2>2 DEF Unregister
  <2>3. CASE Take(c)
    BY <2>3 DEF Take
  <2>4. CASE SendQuit(c)
    <3>1. chan' \in [Servers -> Seq(Cmd)]
      BY <2>4, CmdTypes, SendKeeps DEF SendQuit
    <3> QED BY <2>4, <3>1 DEF SendQuit
  <2>5. CASE Join(c)
    BY <2>5 DEF Join
  <2> QED BY <1>4, <2>1, <2>2, <2>3, <2>4, <2>5 DEF StopStep
<1>5. CASE AskStep(c)
  <2>1. CASE AskSends(c)
    <3>1. CASE Sendable(running)
      <4>1. running \in Servers
        BY <3>1 DEF Sendable
      <4>2. /\ call' = [call EXCEPT ![c] = "wait"]
            /\ target' = [target EXCEPT ![c] = running]
            /\ UNCHANGED <<running, registered, serverVars, viewVars>>
        BY <2>1, <3>1 DEF AskSends
      <4>3. call' \in [Callers -> CallStates] /\ target' \in [Callers -> Servers \cup {None}]
        BY <4>1, <4>2
      <4> QED BY <4>2, <4>3
    <3>2. CASE ~Sendable(running)
      BY <2>1, <3>2 DEF AskSends
    <3> QED BY <3>1, <3>2
  <2>2. CASE Answered(c) \/ TimesOut(c)
    BY <2>2 DEF Answered, TimesOut
  <2> QED BY <1>5, <2>1, <2>2 DEF AskStep
<1> QED BY <1>1, <1>2, <1>3, <1>4, <1>5 DEF CallerStep

ViewCall(v) ==
  \/ \E locked \in BOOLEAN : CallFactory(v, locked)
  \/ \E at \in {"renegotiate", "clear"} : CallBack(v, at)
  \/ FactoryStep(v) \/ BackStep(v)

LEMMA PlatformTypes ==
  ASSUME TypeOK, NEW v \in Views, ViewCall(v)
  PROVE  TypeOK'
<1> USE PlatformIs, PlatformNames DEF callVars, serverVars, viewVars
<1>1. CASE \E locked \in BOOLEAN : CallFactory(v, locked)
  <2>1. platform' \in [at : PlatformStates, view : Views \cup {None}, locked : BOOLEAN]
    BY <1>1 DEF CallFactory
  <2> QED BY <1>1, <2>1 DEF CallFactory, TypeOK
<1>2. CASE \E at \in {"renegotiate", "clear"} : CallBack(v, at)
  <2>1. platform' \in [at : PlatformStates, view : Views \cup {None}, locked : BOOLEAN]
    BY <1>2 DEF CallBack
  <2> QED BY <1>2, <2>1 DEF CallBack, TypeOK
<1>3. CASE FactoryChecks(v)
  <2>1. platform' \in [at : PlatformStates, view : Views \cup {None}, locked : BOOLEAN]
    BY <1>3 DEF FactoryChecks, Refused
  <2> QED BY <1>3, <2>1 DEF FactoryChecks, Refused, TypeOK
<1>4. CASE Negotiate(v)
  <2>1. platform' \in [at : PlatformStates, view : Views \cup {None}, locked : BOOLEAN]
    BY <1>4 DEF Negotiate, Refused
  <2> QED BY <1>4, <2>1 DEF Negotiate, Refused, TypeOK
<1>5. CASE Announce(v)
  <2>1. platform' \in [at : PlatformStates, view : Views \cup {None}, locked : BOOLEAN]
    BY <1>5 DEF Announce, Refused
  <2>2. chan' \in [Servers -> Seq(Cmd)] /\ running \in Servers \cup {None}
    BY <1>5, CmdTypes, SendKeeps DEF Announce, Send, TypeOK
  <2>3. CASE Sendable(running)
    <3>1. told' = [told EXCEPT ![v] = running] /\ UNCHANGED <<status, link>>
      BY <1>5, <2>3 DEF Announce
    <3>2. told' \in [Views -> Servers \cup {None}]
      BY <2>2, <3>1 DEF TypeOK
    <3> QED BY <1>5, <2>1, <2>2, <3>1, <3>2 DEF Announce, TypeOK
  <2>4. CASE ~Sendable(running)
    BY <1>5, <2>1, <2>2, <2>4 DEF Announce, Refused, TypeOK
  <2> QED BY <2>3, <2>4
<1>6. CASE FactoryReturns(v)
  BY <1>6 DEF FactoryReturns, TypeOK
<1>7. CASE Renegotiate(v) \/ Regrant(v)
  <2>1. platform' \in [at : PlatformStates, view : Views \cup {None}, locked : BOOLEAN]
    BY <1>7 DEF Renegotiate, Regrant
  <2> QED BY <1>7, <2>1 DEF Renegotiate, Regrant, TypeOK
<1>8. CASE DisposeClears(v)
  BY <1>8 DEF DisposeClears, TypeOK
<1>9. CASE DisposeSends(v)
  <2>1. chan' \in [Servers -> Seq(Cmd)] /\ running \in Servers \cup {None}
    BY <1>9, CmdTypes, SendKeeps DEF DisposeSends, Send, TypeOK
  <2> QED BY <1>9, <2>1 DEF DisposeSends, TypeOK
<1> QED BY <1>1, <1>2, <1>3, <1>4, <1>5, <1>6, <1>7, <1>8, <1>9
        DEF ViewCall, FactoryStep, BackStep

ServerStep(s) ==
  \/ ThreadStep(s) \/ HandleCmd(s) \/ LeaveLoop(s) \/ Die(s)
  \/ \E v \in Views : Submit(s, v)
  \/ \E c \in Callers : Answer(s, c)

LEMMA ServerTypes ==
  ASSUME TypeOK, NEW s \in Servers, ServerStep(s)
  PROVE  TypeOK'
<1> USE DEF TypeOK, callVars, serverVars, viewVars, ThreadGoes, ThreadStates
<1>1. CASE StartsUp(s)
  BY <1>1 DEF StartsUp
<1>2. CASE SubmitReturns(s)
  BY <1>2 DEF SubmitReturns
<1>3. CASE Drop(s)
  <2>1. chan' \in [Servers -> Seq(Cmd)]
    BY <1>3 DEF Drop
  <2>2. views' \in [Servers -> [Ids -> Views \cup {None}]]
    BY <1>3 DEF Drop
  <2>3. call' \in [Callers -> CallStates]
    BY <1>3 DEF Drop, CallStates
  <2> QED BY <1>3, <2>1, <2>2, <2>3 DEF Drop
<1>4. CASE Exit(s)
  BY <1>4 DEF Exit
<1>5. CASE HandleCmd(s)
  <2>1. /\ chan' \in [Servers -> Seq(Cmd)]
        /\ Head(chan[s]) \in Cmd
    BY <1>5, TailKeeps DEF HandleCmd
  <2>2. views' \in [Servers -> [Ids -> Views \cup {None}]]
    <3>1. CASE Head(chan[s]).kind = "created"
      <4> DEFINE v == Head(chan[s]).of
      <4>1. v \in Views /\ IdOf[v] \in Ids
        BY <2>1, <3>1, CmdTypes
      <4>2. views' = [views EXCEPT ![s][IdOf[v]] = v]
        BY <1>5, <3>1 DEF HandleCmd
      <4> QED BY <4>1, <4>2
    <3>2. CASE Head(chan[s]).kind = "disposed"
      <4> DEFINE i == Head(chan[s]).of
      <4>1. i \in Ids /\ views' = [views EXCEPT ![s][i] = None]
        BY <1>5, <2>1, <3>2, CmdTypes DEF HandleCmd
      <4> QED BY <4>1
    <3>3. CASE Head(chan[s]).kind = "quit"
      BY <1>5, <3>3 DEF HandleCmd
    <3> QED BY <1>5, <3>1, <3>2, <3>3 DEF HandleCmd
  <2>3. thread' \in [Servers -> ThreadStates]
    BY <1>5 DEF HandleCmd
  <2> QED BY <1>5, <2>1, <2>2, <2>3 DEF HandleCmd
<1>6. CASE LeaveLoop(s)
  BY <1>6 DEF LeaveLoop
<1>7. CASE Die(s)
  BY <1>7 DEF Die
<1>8. CASE \E v \in Views : Submit(s, v)
  BY <1>8 DEF Submit
<1>9. CASE \E c \in Callers : Answer(s, c)
  BY <1>9 DEF Answer, Go, CallStates
<1> QED BY <1>1, <1>2, <1>3, <1>4, <1>5, <1>6, <1>7, <1>8, <1>9 DEF ServerStep, ThreadStep

LEMMA NextSplits ==
  Next => \/ \E c \in Callers : \/ CallerStep(c)
                                \/ \E what \in {"start", "stop", "ask"} : Call(c, what)
          \/ \E v \in Views : ViewCall(v)
          \/ \E s \in Servers : ServerStep(s)
BY DEF Next, PlatformStep, ViewCall, ServerStep

LEMMA TypesKept == TypeOK /\ [Next]_vars => TypeOK'
<1> SUFFICES ASSUME TypeOK, [Next]_vars PROVE TypeOK'
  OBVIOUS
<1>1. CASE UNCHANGED vars
  BY <1>1 DEF vars, callVars, serverVars, viewVars, TypeOK
<1> QED BY <1>1, NextSplits, CallerTypes, PlatformTypes, ServerTypes

\* Every variable keeps its type: in particular each channel holds commands of
\* the kinds handle_cmd takes, about views and ids that are.
THEOREM LifecycleTypeCorrect == Spec => []TypeOK
BY TypesStart, TypesKept, PTL DEF Spec

-----------------------------------------------------------------------------
(* Starting and stopping *)

LEMMA LifeStarts == Init => LifeInv
<1>1. Init => CallTypes
  BY TypesStart DEF TypeOK, CallTypes
<1>2. Init => OneInside /\ Owned /\ Emptied /\ Withdrawn
  BY DEF Init, OneInside, Owned, Emptied, Withdrawn, Ended, InLifecycle
<1> QED BY <1>1, <1>2 DEF LifeInv

\* Whoever is inside sees that nothing runs but what SERVER stores.
LEMMA NothingElseRuns ==
  ASSUME LifeInv, NEW c \in Callers, call[c] \in InLifecycle \ {"boot", "quit", "join"},
         NEW s \in Servers, ~Ended(s)
  PROVE  running = s
BY DEF LifeInv, OneInside, Owned, InLifecycle

LEMMA StartKeeps ==
  ASSUME LifeInv, NEW c \in Callers, StartStep(c) \/ LockLifecycle(c)
  PROVE  OneInside' /\ Owned' /\ Emptied' /\ Withdrawn'
<1> USE DEF LifeInv, CallTypes, Go, Release, InLifecycle, serverVars
<1>1. CASE LockLifecycle(c)
  BY <1>1 DEF LockLifecycle, LifecycleFree, OneInside, Owned, Emptied, Withdrawn, Ended
<1>2. CASE StartLocks(c) \/ AlreadyRunning(c)
  BY <1>2 DEF StartLocks, AlreadyRunning, OneInside, Owned, Emptied, Withdrawn, Ended
<1>3. CASE Reap(c) \/ SpawnFails(c)
  <2>1. CASE Reap(c)
    <3>1. \A s \in Servers : Ended(s)
      BY <2>1, NothingElseRuns, NoneAssumption DEF Reap, IsRunning, Finished, Ended
    <3> QED BY <2>1, <3>1 DEF Reap, OneInside, Owned, Emptied, Withdrawn, Ended
  <2>2. CASE SpawnFails(c)
    BY <2>2 DEF SpawnFails, OneInside, Owned, Emptied, Withdrawn, Ended
  <2> QED BY <1>3, <2>1, <2>2
<1>4. CASE \E s \in Servers : Spawn(c, s)
  <2>1. PICK s \in Servers : Spawn(c, s)
    BY <1>4
  <2>2. \A t \in Servers : Ended(t)
    BY <2>1, NothingElseRuns, NoneAssumption DEF Spawn, Emptied, Ended
  <2>3. Owned'
    BY <2>1, <2>2 DEF Spawn, Owned, Ended
  <2> QED BY <2>1, <2>3 DEF Spawn, OneInside, Emptied, Withdrawn
<1>5. CASE Booted(c)
  <2>1. \A d \in Callers : d # c => call[d] \notin InLifecycle
    BY <1>5 DEF Booted, OneInside
  <2>2. Owned'
    BY <1>5, <2>1, NoneAssumption DEF Booted, Owned, Emptied, Ended
  <2> QED BY <1>5, <2>1, <2>2 DEF Booted, OneInside, Emptied, Withdrawn
<1>6. CASE BootFails(c)
  BY <1>6 DEF BootFails, OneInside, Owned, Emptied, Withdrawn, Ended
<1>7. CASE Register(c)
  BY <1>7 DEF Register, OneInside, Owned, Emptied, Withdrawn, Ended
<1> QED BY <1>1, <1>2, <1>3, <1>4, <1>5, <1>6, <1>7 DEF StartStep

LEMMA StopKeeps ==
  ASSUME LifeInv, NEW c \in Callers, StopStep(c)
  PROVE  OneInside' /\ Owned' /\ Emptied' /\ Withdrawn'
<1> USE DEF LifeInv, CallTypes, Go, Release, InLifecycle, serverVars
<1>1. CASE StopChecks(c)
  BY <1>1 DEF StopChecks, OneInside, Owned, Emptied, Withdrawn, Ended
<1>2. CASE Unregister(c)
  BY <1>2 DEF Unregister, OneInside, Owned, Emptied, Withdrawn, Ended
<1>3. CASE Take(c)
  BY <1>3, NoneAssumption DEF Take, OneInside, Owned, Emptied, Withdrawn, Ended
<1>4. CASE SendQuit(c)
  BY <1>4 DEF SendQuit, OneInside, Owned, Emptied, Withdrawn, Ended
<1>5. CASE Join(c)
  BY <1>5 DEF Join, Finished, OneInside, Owned, Emptied, Withdrawn, Ended
<1> QED BY <1>1, <1>2, <1>3, <1>4, <1>5 DEF StopStep

\* No other step starts a thread, or moves a caller that is inside.
Elsewhere ==
  /\ \A c \in Callers : \/ call'[c] = call[c] /\ target'[c] = target[c]
                        \/ call[c] \notin InLifecycle /\ call'[c] \notin InLifecycle
  /\ UNCHANGED <<running, registered>>
  /\ \A s \in Servers : thread[s] \in {"none", "done"} => thread'[s] \in {"none", "done"}

LEMMA OthersKeep ==
  LifeInv /\ Elsewhere => OneInside' /\ Owned' /\ Emptied' /\ Withdrawn'
BY DEF LifeInv, Elsewhere, OneInside, Owned, Emptied, Withdrawn, InLifecycle, Ended

LEMMA LifeKept == TypeOK' /\ LifeInv /\ [Next]_vars => LifeInv'
<1> SUFFICES ASSUME LifeInv, [Next]_vars PROVE OneInside' /\ Owned' /\ Emptied' /\ Withdrawn'
  BY DEF LifeInv, CallTypes, TypeOK
<1>1. ASSUME NEW c \in Callers, CallerStep(c)
      PROVE  OneInside' /\ Owned' /\ Emptied' /\ Withdrawn'
  <2>1. CASE StartStep(c) \/ LockLifecycle(c)
    BY <2>1, StartKeeps
  <2>2. CASE StopStep(c)
    BY <2>2, StopKeeps
  <2>3. CASE AskStep(c)
    <3>1. Elsewhere
      BY <2>3 DEF Elsewhere, AskStep, AskSends, Answered, TimesOut, Go, Release, InLifecycle,
                  LifeInv, CallTypes, serverVars
    <3> QED BY <3>1, OthersKeep
  <2> QED BY <1>1, <2>1, <2>2, <2>3 DEF CallerStep
<1>2. ASSUME NEW c \in Callers, NEW what \in {"start", "stop", "ask"}, Call(c, what)
      PROVE  OneInside' /\ Owned' /\ Emptied' /\ Withdrawn'
  <2>1. Elsewhere
    BY <1>2 DEF Elsewhere, Call, Go, InLifecycle, LifeInv, CallTypes, serverVars
  <2> QED BY <2>1, OthersKeep
<1>3. ASSUME NEW v \in Views, ViewCall(v)
      PROVE  OneInside' /\ Owned' /\ Emptied' /\ Withdrawn'
  <2>1. UNCHANGED <<call, target, running, registered, thread>>
    BY <1>3 DEF ViewCall, CallFactory, CallBack, FactoryStep, FactoryChecks, Negotiate,
                Announce, FactoryReturns, BackStep, Renegotiate, Regrant, DisposeClears,
                DisposeSends, callVars, serverVars
  <2> QED BY <2>1, OthersKeep DEF Elsewhere
<1>4. ASSUME NEW s \in Servers, ServerStep(s)
      PROVE  OneInside' /\ Owned' /\ Emptied' /\ Withdrawn'
  <2>1. UNCHANGED <<running, registered, target>>
    BY <1>4 DEF ServerStep, ThreadStep, StartsUp, SubmitReturns, Drop, Exit, HandleCmd,
                LeaveLoop, Die, Submit, Answer, callVars
  <2>2. \A c \in Callers : \/ call'[c] = call[c]
                           \/ call[c] \notin InLifecycle /\ call'[c] \notin InLifecycle
    <3>1. CASE Drop(s)
      BY <3>1 DEF Drop, InLifecycle, LifeInv, CallTypes
    <3>2. CASE \E c \in Callers : Answer(s, c)
      <4>1. PICK c \in Callers : Answer(s, c)
        BY <3>2
      <4> QED BY <4>1 DEF Answer, Go, InLifecycle, LifeInv, CallTypes
    <3>3. CASE HandleCmd(s)
      BY <3>3 DEF HandleCmd, callVars
    <3>4. CASE StartsUp(s) \/ SubmitReturns(s) \/ Exit(s) \/ LeaveLoop(s) \/ Die(s)
      BY <3>4 DEF StartsUp, SubmitReturns, Exit, LeaveLoop, Die, callVars
    <3>5. CASE \E v \in Views : Submit(s, v)
      BY <3>5 DEF Submit, callVars
    <3> QED BY <1>4, <3>1, <3>2, <3>3, <3>4, <3>5 DEF ServerStep, ThreadStep
  <2>3. \A t \in Servers : thread[t] \in {"none", "done"} => thread'[t] \in {"none", "done"}
    <3>1. CASE UNCHANGED thread
      BY <3>1
    <3>2. CASE thread[s] \notin {"none", "done"} /\ \E to : ThreadGoes(s, to)
      BY <3>2 DEF ThreadGoes, LifeInv, CallTypes
    <3>3. \/ UNCHANGED thread
          \/ thread[s] \notin {"none", "done"} /\ \E to : ThreadGoes(s, to)
      <4>1. CASE ThreadStep(s) \/ LeaveLoop(s) \/ Die(s)
        BY <4>1 DEF ThreadStep, StartsUp, SubmitReturns, Drop, Exit, LeaveLoop, Die, serverVars
      <4>2. CASE HandleCmd(s)
        BY <4>2 DEF HandleCmd, Looping
      <4>3. CASE (\E v \in Views : Submit(s, v)) \/ (\E c \in Callers : Answer(s, c))
        BY <4>3 DEF Submit, Answer, serverVars
      <4> QED BY <1>4, <4>1, <4>2, <4>3 DEF ServerStep
    <3> QED BY <3>1, <3>2, <3>3
  <2> QED BY <2>1, <2>2, <2>3, OthersKeep DEF Elsewhere
<1>5. CASE UNCHANGED vars
  <2>1. Elsewhere
    BY <1>5 DEF vars, callVars, serverVars, Elsewhere
  <2> QED BY <2>1, OthersKeep
<1> QED BY <1>1, <1>2, <1>3, <1>4, <1>5, NextSplits

\* At most one compositor thread has not ended: start makes one only when it finds
\* none, and stop lets nobody in before its own has.
THEOREM OneThreadAlways == Spec => []OneThread
<1>1. LifeInv => OneThread
  BY NoneAssumption DEF LifeInv, OneInside, Owned, Emptied, OneThread, Ended, InLifecycle
<1> QED BY <1>1, LifecycleTypeCorrect, LifeStarts, LifeKept, PTL DEF Spec

\* When stop returns, nothing runs, is stored or is registered.
THEOREM StopAlwaysLeavesNothing == Spec => StopLeavesNothing
<1> DEFINE Clean == \A c \in Callers : call[c] = "join" /\ call'[c] = "idle" =>
       ~registered' /\ running' = None /\ \A s \in Servers : thread'[s] \in {"none", "done"}
<1>1. ASSUME LifeInv, [Next]_vars PROVE Clean
  <2> SUFFICES ASSUME NEW c \in Callers, call[c] = "join", call'[c] = "idle"
               PROVE  /\ ~registered' /\ running' = None
                      /\ \A s \in Servers : thread'[s] \in {"none", "done"}
    OBVIOUS
  <2>1. Join(c)
    <3>1. ~UNCHANGED vars
      BY DEF vars, callVars
    <3>2. ASSUME NEW d \in Callers,
                 CallerStep(d) \/ \E what \in {"start", "stop", "ask"} : Call(d, what)
          PROVE  Join(c)
      <4>1. d # c => call'[c] = call[c]
        BY <1>1, <3>2 DEF CallerStep, Call, LockLifecycle, StartStep, StartLocks, AlreadyRunning, Reap,
                    Spawn, SpawnFails, Booted, BootFails, Register, StopStep, StopChecks,
                    Unregister, Take, SendQuit, Join, AskStep, AskSends, Answered, TimesOut,
                    Go, Release, LifeInv, CallTypes, callVars
      <4>2. d = c
        BY <4>1
      <4> QED BY <3>2, <4>2 DEF CallerStep, Call, LockLifecycle, StartStep, StartLocks,
                    AlreadyRunning, Reap, Spawn, SpawnFails, Booted, BootFails, Register, StopStep,
                    StopChecks, Unregister, Take, SendQuit, AskStep, AskSends, Answered, TimesOut
    <3>3. ASSUME NEW v \in Views, ViewCall(v)
          PROVE  FALSE
      BY <3>3 DEF ViewCall, CallFactory, CallBack, FactoryStep, FactoryChecks, Negotiate,
                  Announce, FactoryReturns, BackStep, Renegotiate, Regrant, DisposeClears,
                  DisposeSends, callVars
    <3>4. ASSUME NEW s \in Servers, ServerStep(s)
          PROVE  FALSE
      BY <1>1, <3>4 DEF ServerStep, ThreadStep, StartsUp, SubmitReturns, Drop, Exit, HandleCmd,
                  LeaveLoop, Die, Submit, Answer, Go, callVars, LifeInv, CallTypes
    <3> QED BY <1>1, <3>1, <3>2, <3>3, <3>4, NextSplits
  <2>2. ~registered /\ running = None
    BY <1>1 DEF LifeInv, Emptied, Withdrawn
  <2>3. \A s \in Servers : Ended(s)
    BY <1>1, <2>1, <2>2, NoneAssumption
    DEF Join, Finished, LifeInv, OneInside, Owned, Ended, InLifecycle
  <2> QED BY <2>1, <2>2, <2>3 DEF Join, serverVars, Ended
<1> QED BY <1>1, LifecycleTypeCorrect, LifeStarts, LifeKept, PTL DEF Spec, StopLeavesNothing
-----------------------------------------------------------------------------
(* Links *)

Rest == PlatformInv /\ Linked /\ Known /\ Queued /\ InCall

LEMMA LinkStarts == Init => LinkInv
<1>1. Init => TypeOK
  BY TypesStart
<1>2. ASSUME Init PROVE Rest
  <2>1. PlatformInv /\ Linked
    BY <1>2 DEF Init, PlatformInv, Linked, InFactory, InCallback
  <2>2. Known /\ InCall
    BY <1>2, NoneAssumption, IdAssumption DEF Init, Known, InCall
  <2>3. Queued
    BY <1>2 DEF Init, Queued
  <2> QED BY <2>1, <2>2, <2>3 DEF Rest
<1> QED BY <1>1, <1>2 DEF LinkInv, Rest

\* Commands of another kind, or about a view announced, are as good as none.
LEMMA QueuedKept ==
  ASSUME Queued, \A v \in Views : Announced(v) => Announced(v)',
         \A s \in Servers : \A i \in 1 .. Len(chan'[s]) :
           \/ \E j \in 1 .. Len(chan[s]) : chan'[s][i] = chan[s][j]
           \/ \A v \in Views : chan'[s][i] = [kind |-> "created", of |-> v] => Announced(v)'
  PROVE  Queued'
<1> SUFFICES ASSUME NEW s \in Servers, NEW v \in Views, NEW i \in 1 .. Len(chan'[s]),
                    chan'[s][i] = [kind |-> "created", of |-> v]
             PROVE  Announced(v)'
  BY DEF Queued
<1>1. CASE \E j \in 1 .. Len(chan[s]) : chan'[s][i] = chan[s][j]
  BY <1>1 DEF Queued
<1> QED BY <1>1

LEMMA CallersKeepLinks ==
  ASSUME LinkInv, NEW c \in Callers,
         CallerStep(c) \/ \E what \in {"start", "stop", "ask"} : Call(c, what)
  PROVE  Rest'
<1>1. UNCHANGED <<viewVars, views, submitting>>
  BY DEF CallerStep, Call, LockLifecycle, StartStep, StartLocks, AlreadyRunning, Reap, Spawn,
         SpawnFails, Booted, BootFails, Register, StopStep, StopChecks, Unregister, Take,
         SendQuit, Join, AskStep, AskSends, Answered, TimesOut, serverVars
<1>2. UNCHANGED <<platform, status, link, views, submitting>>
  BY <1>1 DEF viewVars
<1>3. PlatformInv' /\ Linked' /\ Known' /\ InCall'
  BY <1>2 DEF LinkInv, PlatformInv, Linked, Known, InCall, Announced
<1>4. Queued'
  <2>1. CASE UNCHANGED chan
    BY <1>2, <2>1 DEF LinkInv, Queued, Announced
  <2>2. CASE SendQuit(c)
    <3>1. \A s \in Servers : \A i \in 1 .. Len(chan'[s]) :
            \/ i \in 1 .. Len(chan[s]) /\ chan'[s][i] = chan[s][i]
            \/ chan'[s][i] = [kind |-> "quit", of |-> None]
      <4>1. target[c] \in Servers \cup {None}
        BY DEF LinkInv, TypeOK
      <4> QED BY <2>2, <4>1, CmdTypes, SendKeeps DEF SendQuit, LinkInv
    <3>2. \A v \in Views : [kind |-> "quit", of |-> None] # [kind |-> "created", of |-> v]
      <4>1. \A v \in Views : [kind |-> "quit", of |-> None].kind # [kind |-> "created", of |-> v].kind
        OBVIOUS
      <4> QED BY <4>1
    <3>3. \A v \in Views : Announced(v) => Announced(v)'
      BY <1>2 DEF Announced
    <3> QED BY <3>1, <3>2, <3>3, QueuedKept DEF LinkInv
  <2> QED BY <2>1, <2>2
      DEF CallerStep, Call, LockLifecycle, StartStep, StartLocks, AlreadyRunning, Reap, Spawn,
          SpawnFails, Booted, BootFails, Register, StopStep, StopChecks, Unregister, Take,
          Join, AskStep, AskSends, Answered, TimesOut, serverVars
<1> QED BY <1>3, <1>4 DEF Rest

\* A step that sends nothing and announces or has announced what was.
LEMMA ViewsKept ==
  ASSUME Known, Queued, UNCHANGED <<views, chan>>,
         \A v \in Views : Announced(v) => Announced(v)'
  PROVE  Known' /\ Queued'
BY DEF Known, Queued

LEMMA PlatformKeepsLinks ==
  ASSUME LinkInv, NEW v \in Views, ViewCall(v)
  PROVE  Rest'
<1> DEFINE Types == /\ platform \in [at : PlatformStates, view : Views \cup {None},
                                     locked : BOOLEAN]
                    /\ status \in [Views -> {"new", "live", "gone"}]
                    /\ link \in [Views -> BOOLEAN]
<1>0. Types /\ TypeOK
  BY DEF LinkInv, TypeOK
<1> HIDE DEF Types
<1> USE NoneAssumption DEF LinkInv, InFactory, InCallback
<1>1. CASE \E locked \in BOOLEAN : CallFactory(v, locked)
  <2>1. /\ platform.at = "idle" /\ platform'.at = "check" /\ platform'.view = v
        /\ status[v] = "new" /\ UNCHANGED <<status, link, views, chan, submitting>>
    BY <1>1 DEF CallFactory, serverVars
  <2>2. Known' /\ Queued'
    BY <2>1, ViewsKept DEF Announced
  <2> QED BY <2>1, <2>2 DEF Rest, PlatformInv, Linked, InCall, Announced
<1>2. CASE \E at \in {"renegotiate", "clear"} : CallBack(v, at)
  <2>1. /\ platform.at = "idle" /\ platform'.at \in {"renegotiate", "clear"}
        /\ platform'.view = v /\ status[v] = "live"
        /\ UNCHANGED <<status, link, views, chan, submitting>>
    BY <1>0, <1>2, PlatformIs, PlatformNames DEF CallBack, serverVars
  <2>2. Known' /\ Queued'
    BY <2>1, ViewsKept DEF Announced
  <2> QED BY <2>1, <2>2 DEF Rest, PlatformInv, Linked, InCall, Announced
<1>3. CASE FactoryChecks(v)
  <2>1. /\ platform.at = "check" /\ platform.view = v
        /\ UNCHANGED <<link, views, chan, submitting>>
        /\ \/ platform'.at = "negotiate" /\ platform'.view = v /\ UNCHANGED status
           \/ platform'.at = "idle" /\ status' = [status EXCEPT ![v] = "gone"]
    BY <1>0, <1>3, PlatformIs, PlatformNames DEF FactoryChecks, Refused, serverVars
  <2>2. Known' /\ Queued'
    BY <1>0, <2>1, ViewsKept DEF Announced, Types
  <2> QED BY <1>0, <2>1, <2>2 DEF Rest, PlatformInv, Linked, InCall, Announced, Types
<1>4. CASE Negotiate(v)
  <2>1. /\ platform.at = "negotiate" /\ platform.view = v
        /\ UNCHANGED <<views, chan, submitting>>
        /\ \/ /\ platform'.at = "announce" /\ platform'.view = v /\ UNCHANGED status
              /\ link' = [link EXCEPT ![v] = TRUE]
           \/ /\ platform'.at = "idle" /\ status' = [status EXCEPT ![v] = "gone"]
              /\ UNCHANGED link
    BY <1>0, <1>4, PlatformIs, PlatformNames DEF Negotiate, Refused, serverVars
  <2>2. Known' /\ Queued'
    BY <1>0, <2>1, ViewsKept DEF Announced, Types
  <2> QED BY <1>0, <2>1, <2>2 DEF Rest, PlatformInv, Linked, InCall, Announced, Types
<1>5. CASE Announce(v)
  <2>1. /\ platform.at = "announce" /\ platform.view = v /\ status[v] = "new"
        /\ UNCHANGED <<views, submitting>>
    BY <1>5 DEF Announce, PlatformInv
  <2>2. \A s \in Servers : \A i \in 1 .. Len(chan'[s]) :
          \/ i \in 1 .. Len(chan[s]) /\ chan'[s][i] = chan[s][i]
          \/ chan'[s][i] = [kind |-> "created", of |-> v] /\ Sendable(running)
    <3>1. running \in Servers \cup {None}
      BY DEF TypeOK
    <3> QED BY <1>5, <3>1, CmdTypes, SendKeeps DEF Announce, Send
  <2>3. \A w \in Views : w # v =>
          [kind |-> "created", of |-> v] # [kind |-> "created", of |-> w]
    <3>1. \A w \in Views : w # v =>
            [kind |-> "created", of |-> v].of # [kind |-> "created", of |-> w].of
      OBVIOUS
    <3> QED BY <3>1
  <2>4. CASE Sendable(running)
    <3>1. platform'.at = "return" /\ platform'.view = v /\ UNCHANGED <<status, link>>
      BY <1>0, <1>5, <2>4, PlatformIs, PlatformNames DEF Announce
    <3>2. \A w \in Views : Announced(w) => Announced(w)'
      BY <2>1, <3>1 DEF Announced
    <3>3. Announced(v)'
      BY <3>1 DEF Announced
    <3>4. Queued'
      BY <2>2, <2>3, <3>2, <3>3, QueuedKept
    <3>5. Known'
      BY <2>1, <3>2 DEF Known
    <3> QED BY <1>0, <2>1, <3>1, <3>2, <3>4, <3>5 DEF Rest, PlatformInv, Linked, InCall
  <2>5. CASE ~Sendable(running)
    <3>1. /\ platform'.at = "idle" /\ status' = [status EXCEPT ![v] = "gone"]
          /\ link' = [link EXCEPT ![v] = FALSE] /\ UNCHANGED chan
      BY <1>0, <1>5, <2>5, PlatformIs DEF Announce, Refused, Send
    <3>2. \A w \in Views : Announced(w) => Announced(w)'
      BY <1>0, <2>1, <3>1 DEF Announced, Types
    <3>3. Known' /\ Queued'
      BY <2>1, <3>1, <3>2, ViewsKept
    <3>4. ~Announced(v)
      BY <2>1 DEF Announced
    <3>5. InCall'
      BY <1>0, <2>1, <3>1, <3>2, <3>4 DEF InCall, Types
    <3> QED BY <1>0, <2>1, <3>1, <3>3, <3>5 DEF Rest, PlatformInv, Linked, Types
  <2> QED BY <2>4, <2>5
<1>6. CASE FactoryReturns(v)
  <2>1. /\ platform.at = "return" /\ platform.view = v /\ platform'.at = "idle"
        /\ status' = [status EXCEPT ![v] = "live"]
        /\ UNCHANGED <<link, views, chan, submitting>>
    BY <1>0, <1>6, PlatformIs DEF FactoryReturns, serverVars
  <2>2. Known' /\ Queued'
    BY <1>0, <2>1, ViewsKept DEF Announced, Types
  <2> QED BY <1>0, <2>1, <2>2 DEF Rest, PlatformInv, Linked, InCall, Announced, Types
<1>7. CASE Renegotiate(v) \/ Regrant(v)
  <2>1. /\ UNCHANGED <<status, link, views, chan, submitting>>
        /\ \/ platform.at = "renegotiate" /\ platform'.at = "regrant" /\ LinkFree(v)
           \/ platform.at \in {"renegotiate", "regrant"} /\ platform'.at = "idle"
        /\ platform.view = v
        /\ platform'.at = "regrant" => platform'.view = v
    BY <1>0, <1>7, PlatformIs, PlatformNames DEF Renegotiate, Regrant, serverVars
  <2>2. Known' /\ Queued'
    BY <2>1, ViewsKept DEF Announced
  <2> QED BY <2>1, <2>2 DEF Rest, PlatformInv, Linked, InCall, Announced, LinkFree
<1>8. CASE DisposeClears(v)
  <2>1. /\ platform.at = "clear" /\ platform.view = v /\ LinkFree(v)
        /\ platform'.at = "part" /\ platform'.view = v
        /\ link' = [link EXCEPT ![v] = FALSE]
        /\ UNCHANGED <<status, views, chan, submitting>>
    BY <1>0, <1>8, PlatformIs, PlatformNames DEF DisposeClears, serverVars
  <2>2. Known' /\ Queued'
    BY <2>1, ViewsKept DEF Announced
  <2> QED BY <1>0, <2>1, <2>2 DEF Rest, PlatformInv, Linked, InCall, Announced, LinkFree, Types
<1>9. CASE DisposeSends(v)
  <2>1. /\ platform.at = "part" /\ platform.view = v /\ platform'.at = "idle"
        /\ status' = [status EXCEPT ![v] = "gone"]
        /\ UNCHANGED <<link, views, submitting>>
    BY <1>0, <1>9, PlatformIs DEF DisposeSends
  <2>2. \A w \in Views : Announced(w) => Announced(w)'
    BY <1>0, <2>1 DEF Announced, Types
  <2>3. \A s \in Servers : \A i \in 1 .. Len(chan'[s]) :
          \/ i \in 1 .. Len(chan[s]) /\ chan'[s][i] = chan[s][i]
          \/ chan'[s][i] = [kind |-> "disposed", of |-> IdOf[v]]
    <3>1. running \in Servers \cup {None}
      BY DEF TypeOK
    <3> QED BY <1>9, <3>1, CmdTypes, SendKeeps DEF DisposeSends, Send
  <2>4. \A w \in Views : [kind |-> "disposed", of |-> IdOf[v]] # [kind |-> "created", of |-> w]
    <3>1. \A w \in Views :
            [kind |-> "disposed", of |-> IdOf[v]].kind # [kind |-> "created", of |-> w].kind
      OBVIOUS
    <3> QED BY <3>1
  <2>5. Queued'
    BY <2>2, <2>3, <2>4, QueuedKept
  <2>6. Known'
    BY <2>1, <2>2 DEF Known
  <2> QED BY <1>0, <2>1, <2>2, <2>5, <2>6 DEF Rest, PlatformInv, Linked, InCall, Types
<1> QED BY <1>1, <1>2, <1>3, <1>4, <1>5, <1>6, <1>7, <1>8, <1>9
        DEF ViewCall, FactoryStep, BackStep

LEMMA ServersKeepLinks ==
  ASSUME LinkInv, NEW s \in Servers, ServerStep(s)
  PROVE  Rest'
<1>0. /\ views \in [Servers -> [Ids -> Views \cup {None}]]
      /\ submitting \in [Servers -> Views \cup {None}]
      /\ TypeOK
  BY DEF LinkInv, TypeOK
<1>1. UNCHANGED <<platform, status, link>>
  BY DEF ServerStep, ThreadStep, StartsUp, SubmitReturns, Drop, Exit, HandleCmd, LeaveLoop,
         Die, Submit, Answer, viewVars
<1>2. PlatformInv' /\ Linked' /\ \A v \in Views : Announced(v)' <=> Announced(v)
  BY <1>1 DEF LinkInv, PlatformInv, Linked, Announced
<1> USE NoneAssumption DEF LinkInv, ThreadGoes
<1>3. CASE StartsUp(s) \/ Exit(s) \/ LeaveLoop(s) \/ \E c \in Callers : Answer(s, c)
  <2>1. UNCHANGED <<views, chan, submitting>>
    BY <1>3 DEF StartsUp, Exit, LeaveLoop, Answer, serverVars
  <2> QED BY <1>1, <1>2, <2>1 DEF Rest, Known, Queued, InCall
<1>4. CASE SubmitReturns(s) \/ Die(s)
  <2>1. submitting' = [submitting EXCEPT ![s] = None] /\ UNCHANGED <<views, chan>>
    BY <1>4 DEF SubmitReturns, Die
  <2>2. InCall'
    BY <1>0, <1>1, <1>2, <2>1 DEF InCall
  <2> QED BY <1>2, <2>1, <2>2 DEF Rest, Known, Queued
<1>5. CASE \E v \in Views : Submit(s, v)
  <2>1. PICK v \in Views : Submit(s, v)
    BY <1>5
  <2>2. Announced(v)
    BY <2>1 DEF Submit, Known
  <2>3. InCall'
    BY <1>0, <1>1, <1>2, <2>1, <2>2 DEF Submit, InCall, LinkFree
  <2> QED BY <1>2, <2>1, <2>3 DEF Submit, Rest, Known, Queued
<1>6. CASE Drop(s)
  <2>1. Queued'
    <3>1. \A t \in Servers : \A i \in 1 .. Len(chan'[t]) :
            \E j \in 1 .. Len(chan[t]) : chan'[t][i] = chan[t][j]
      BY <1>0, <1>6 DEF Drop, TypeOK
    <3> QED BY <1>2, <3>1, QueuedKept
  <2>2. Known'
    <3>1. views' = [views EXCEPT ![s] = [i \in Ids |-> None]]
      BY <1>6 DEF Drop
    <3> QED BY <1>0, <1>2, <3>1, IdAssumption DEF Known
  <2>3. InCall'
    BY <1>1, <1>2, <1>6 DEF Drop, InCall
  <2> QED BY <1>2, <2>1, <2>2, <2>3 DEF Rest
<1>7. CASE HandleCmd(s)
  <2>1. /\ \A t \in Servers : \A i \in 1 .. Len(chan'[t]) :
             \E j \in 1 .. Len(chan[t]) : chan'[t][i] = chan[t][j]
        /\ Head(chan[s]) \in Cmd /\ 1 \in 1 .. Len(chan[s]) /\ Head(chan[s]) = chan[s][1]
    BY <1>7, TailKeeps DEF HandleCmd
  <2>2. Queued'
    BY <1>2, <2>1, QueuedKept
  <2>3. InCall'
    BY <1>1, <1>2, <1>7 DEF HandleCmd, InCall
  <2>4. Known'
    <3>1. CASE Head(chan[s]).kind = "created"
      <4> DEFINE w == Head(chan[s]).of
      <4>1. w \in Views /\ IdOf[w] \in Ids
        BY <2>1, <3>1, CmdTypes
      <4>2. Head(chan[s]) = [kind |-> "created", of |-> w]
        BY <2>1, <3>1 DEF Cmd
      <4>3. Announced(w)
        BY <2>1, <4>1, <4>2 DEF Queued
      <4>4. views' = [views EXCEPT ![s][IdOf[w]] = w]
        BY <1>7, <3>1 DEF HandleCmd
      <4> QED BY <1>0, <1>2, <4>1, <4>3, <4>4, IdAssumption DEF Known
    <3>2. CASE Head(chan[s]).kind = "disposed"
      <4> DEFINE i == Head(chan[s]).of
      <4>1. i \in Ids /\ views' = [views EXCEPT ![s][i] = None]
        BY <1>7, <2>1, <3>2, CmdTypes DEF HandleCmd
      <4> QED BY <1>0, <1>2, <4>1, IdAssumption DEF Known
    <3>3. CASE Head(chan[s]).kind = "quit"
      BY <1>2, <1>7, <3>3 DEF HandleCmd, Known
    <3> QED BY <1>7, <3>1, <3>2, <3>3 DEF HandleCmd
  <2> QED BY <1>2, <2>2, <2>3, <2>4 DEF Rest
<1> QED BY <1>3, <1>4, <1>5, <1>6, <1>7 DEF ServerStep, ThreadStep

LEMMA LinksKept == LinkInv /\ [Next]_vars => LinkInv'
<1> SUFFICES ASSUME LinkInv, [Next]_vars PROVE Rest'
  BY TypesKept DEF LinkInv, Rest
<1>1. CASE UNCHANGED vars
  BY <1>1 DEF vars, serverVars, viewVars, LinkInv, Rest, PlatformInv, Linked, Known, Queued,
              InCall, Announced
<1> QED BY <1>1, NextSplits, CallersKeepLinks, PlatformKeepsLinks, ServersKeepLinks

\* The dispose rule: no call into the shell for a view once its dispose returned.
THEOREM DisposeAlwaysWaitsOut == Spec => []DisposeWaitsOut
<1>1. LinkInv => DisposeWaitsOut
  <2> SUFFICES ASSUME LinkInv, NEW s \in Servers, submitting[s] # None
               PROVE  status[submitting[s]] # "gone"
    BY DEF DisposeWaitsOut
  <2>1. submitting[s] \in Views
    BY DEF LinkInv, TypeOK
  <2> QED BY <2>1 DEF LinkInv, InCall, Linked, PlatformInv, InFactory
<1> QED BY <1>1, LinkStarts, LinksKept, PTL DEF Spec

\* Who is in a call with which view; nobody is, when its link is free.
LEMMA UsesAre ==
  /\ InUse \subseteq Users \X Views
  /\ \A v \in Views : <<None, v>> \in InUse <=> platform.at = "regrant" /\ platform.view = v
  /\ \A s \in Servers, v \in Views : <<s, v>> \in InUse <=> submitting[s] = v
  /\ \A v \in Views : Contract!Idle(v) <=> LinkFree(v)
<1> USE NoneAssumption
<1>1. InUse \subseteq Users \X Views
  BY DEF InUse
<1>2. \A v \in Views : <<None, v>> \in InUse <=> platform.at = "regrant" /\ platform.view = v
  BY DEF InUse, Users
<1>3. \A s \in Servers, v \in Views : <<s, v>> \in InUse <=> submitting[s] = v
  BY DEF InUse, Users
<1>4. \A v \in Views : Contract!Idle(v) <=> LinkFree(v)
  BY <1>2, <1>3 DEF Contract!Idle, LinkFree, Users
<1> QED BY <1>1, <1>2, <1>3, <1>4

\* Two relations are one when they hold of the same servers and views, and of None.
LEMMA SameUses ==
  ASSUME NEW A \in SUBSET (Users \X Views), NEW B \in SUBSET (Users \X Views),
         \A v \in Views : <<None, v>> \in A <=> <<None, v>> \in B,
         \A s \in Servers, v \in Views : <<s, v>> \in A <=> <<s, v>> \in B
  PROVE  A = B
BY DEF Users

LEMMA UsesStay ==
  ASSUME UNCHANGED submitting,
         \/ UNCHANGED platform
         \/ platform.at # "regrant" /\ platform'.at # "regrant"
  PROVE  InUse' = InUse
BY DEF InUse

\* One call is begun, or ended, by the platform thread or by a server.
LEMMA UsesOfPlatform ==
  ASSUME NEW v \in Views, UNCHANGED submitting
  PROVE  /\ platform.at # "regrant" /\ platform'.at = "regrant" /\ platform'.view = v
              => InUse' = InUse \cup {<<None, v>>}
         /\ platform.at = "regrant" /\ platform.view = v /\ platform'.at # "regrant"
              => InUse' = InUse \ {<<None, v>>} /\ <<None, v>> \in InUse
<1>1. /\ InUse \subseteq Users \X Views /\ InUse' \subseteq Users \X Views
      /\ <<None, v>> \in Users \X Views
  BY UsesAre DEF InUse, Users
<1>2. \A w \in Views : /\ <<None, w>> \in InUse <=> platform.at = "regrant" /\ platform.view = w
                       /\ <<None, w>> \in InUse' <=> platform'.at = "regrant" /\ platform'.view = w
  BY DEF InUse, Users
<1>3. \A s \in Servers, w \in Views : <<s, w>> \in InUse' <=> <<s, w>> \in InUse
  BY NoneAssumption DEF InUse, Users
<1>4. ASSUME platform.at # "regrant", platform'.at = "regrant", platform'.view = v
      PROVE  InUse' = InUse \cup {<<None, v>>}
  <2> DEFINE B == InUse \cup {<<None, v>>}
  <2>1. B \subseteq Users \X Views
    BY <1>1
  <2>2. \A w \in Views : <<None, w>> \in InUse' <=> <<None, w>> \in B
    BY <1>2, <1>4
  <2>3. \A s \in Servers, w \in Views : <<s, w>> \in InUse' <=> <<s, w>> \in B
    BY <1>3, NoneAssumption
  <2>4. InUse' = B
    <3> HIDE DEF B
    <3> QED BY <1>1, <2>1, <2>2, <2>3, SameUses
  <2> QED BY <2>4
<1>5. ASSUME platform.at = "regrant", platform.view = v, platform'.at # "regrant"
      PROVE  InUse' = InUse \ {<<None, v>>} /\ <<None, v>> \in InUse
  <2> DEFINE B == InUse \ {<<None, v>>}
  <2>1. B \subseteq Users \X Views
    BY <1>1
  <2>2. \A w \in Views : <<None, w>> \in InUse' <=> <<None, w>> \in B
    BY <1>2, <1>5
  <2>3. \A s \in Servers, w \in Views : <<s, w>> \in InUse' <=> <<s, w>> \in B
    BY <1>3, NoneAssumption
  <2>4. InUse' = B
    <3> HIDE DEF B
    <3> QED BY <1>1, <2>1, <2>2, <2>3, SameUses
  <2> QED BY <1>2, <1>5, <2>4
<1> QED BY <1>4, <1>5

LEMMA UsesOfServer ==
  ASSUME NEW s \in Servers, NEW v \in Views, UNCHANGED platform,
         submitting \in [Servers -> Views \cup {None}]
  PROVE  /\ submitting[s] = None /\ submitting' = [submitting EXCEPT ![s] = v]
              => InUse' = InUse \cup {<<s, v>>}
         /\ submitting[s] = v /\ submitting' = [submitting EXCEPT ![s] = None]
              => InUse' = InUse \ {<<s, v>>} /\ <<s, v>> \in InUse
<1>1. /\ InUse \subseteq Users \X Views /\ InUse' \subseteq Users \X Views
      /\ <<s, v>> \in Users \X Views
  BY UsesAre DEF InUse, Users
<1>2. \A w \in Views : <<None, w>> \in InUse' <=> <<None, w>> \in InUse
  BY DEF InUse, Users
<1>3. \A t \in Servers, w \in Views : /\ <<t, w>> \in InUse <=> submitting[t] = w
                                      /\ <<t, w>> \in InUse' <=> submitting'[t] = w
  BY NoneAssumption DEF InUse, Users
<1>4. ASSUME submitting[s] = None, submitting' = [submitting EXCEPT ![s] = v]
      PROVE  InUse' = InUse \cup {<<s, v>>}
  <2> DEFINE B == InUse \cup {<<s, v>>}
  <2>1. B \subseteq Users \X Views
    BY <1>1
  <2>2. \A w \in Views : <<None, w>> \in InUse' <=> <<None, w>> \in B
    BY <1>2, NoneAssumption
  <2>3. \A t \in Servers, w \in Views : <<t, w>> \in InUse' <=> <<t, w>> \in B
    BY <1>3, <1>4, NoneAssumption
  <2>4. InUse' = B
    <3> HIDE DEF B
    <3> QED BY <1>1, <2>1, <2>2, <2>3, SameUses
  <2> QED BY <2>4
<1>5. ASSUME submitting[s] = v, submitting' = [submitting EXCEPT ![s] = None]
      PROVE  InUse' = InUse \ {<<s, v>>} /\ <<s, v>> \in InUse
  <2> DEFINE B == InUse \ {<<s, v>>}
  <2>1. B \subseteq Users \X Views
    BY <1>1
  <2>2. \A w \in Views : <<None, w>> \in InUse' <=> <<None, w>> \in B
    BY <1>2, NoneAssumption
  <2>3. \A t \in Servers, w \in Views : <<t, w>> \in InUse' <=> <<t, w>> \in B
    BY <1>3, <1>5, NoneAssumption
  <2>4. InUse' = B
    <3> HIDE DEF B
    <3> QED BY <1>1, <2>1, <2>2, <2>3, SameUses
  <2> QED BY <1>3, <1>5, <2>4
<1> QED BY <1>4, <1>5

\* Calls with the handles of views keep the shell's contract, module Handle: a call
\* is under way exactly while its thread has the link's lock.
THEOREM ContractKept == Spec => KeepsContract
<1> DEFINE opened == {v \in Views : link[v]}
<1>1. Init => Contract!Init
  BY NoneAssumption DEF Init, Contract!Init, InUse, Users
<1>2. ASSUME LinkInv, [Next]_vars PROVE [Contract!Next]_<<opened, InUse>>
  <2>0. /\ submitting \in [Servers -> Views \cup {None}]
        /\ link \in [Views -> BOOLEAN]
        /\ platform \in [at : PlatformStates, view : Views \cup {None}, locked : BOOLEAN]
        /\ TypeOK
    BY <1>2 DEF LinkInv, TypeOK
  <2> USE NoneAssumption
  <2>1. ASSUME UNCHANGED <<link, submitting, platform>>
        PROVE  UNCHANGED <<opened, InUse>>
    BY <2>1, UsesStay
  <2>2. ASSUME UNCHANGED <<link, submitting>>, platform.at # "regrant", platform'.at # "regrant"
        PROVE  UNCHANGED <<opened, InUse>>
    BY <2>2, UsesStay
  <2>3. ASSUME NEW c \in Callers,
               CallerStep(c) \/ \E what \in {"start", "stop", "ask"} : Call(c, what)
        PROVE  UNCHANGED <<opened, InUse>>
    <3>1. UNCHANGED <<link, submitting, platform>>
      BY <2>3 DEF CallerStep, Call, LockLifecycle, StartStep, StartLocks, AlreadyRunning, Reap,
         Spawn, SpawnFails, Booted, BootFails, Register, StopStep, StopChecks, Unregister,
         Take, SendQuit, Join, AskStep, AskSends, Answered, TimesOut, serverVars, viewVars
    <3> QED BY <2>1, <3>1
  <2>4. ASSUME NEW v \in Views, ViewCall(v)
        PROVE  [Contract!Next]_<<opened, InUse>>
    <3>1. CASE \/ \E locked \in BOOLEAN : CallFactory(v, locked)
               \/ \E at \in {"renegotiate", "clear"} : CallBack(v, at)
               \/ FactoryChecks(v) \/ FactoryReturns(v) \/ DisposeSends(v)
      <4>1. UNCHANGED <<link, submitting>> /\ platform.at # "regrant" /\ platform'.at # "regrant"
        BY <2>0, <3>1, PlatformIs, PlatformNames
        DEF CallFactory, CallBack, FactoryChecks, FactoryReturns, DisposeSends, Refused, serverVars
      <4> QED BY <2>2, <4>1
    <3>2. CASE Negotiate(v)
      <4>1. /\ platform.at = "negotiate" /\ platform.view = v /\ platform'.at # "regrant"
            /\ UNCHANGED submitting
            /\ link' = [link EXCEPT ![v] = TRUE] \/ UNCHANGED link
        BY <2>0, <3>2, PlatformIs, PlatformNames DEF Negotiate, Refused, serverVars
      <4>2. CASE UNCHANGED link
        BY <2>2, <4>1, <4>2
      <4>3. CASE link' = [link EXCEPT ![v] = TRUE]
        <5>1. ~Announced(v) /\ ~link[v]
          BY <1>2, <4>1 DEF LinkInv, PlatformInv, Linked, Announced, InFactory
        <5>2. v \notin opened /\ Contract!Idle(v)
          BY <1>2, <4>1, <5>1, UsesAre DEF LinkInv, InCall, LinkFree
        <5>3. opened' = opened \cup {v} /\ InUse' = InUse
          BY <2>0, <4>1, <4>3, UsesStay
        <5> QED BY <5>2, <5>3 DEF Contract!Next, Contract!Open
      <4> QED BY <4>1, <4>2, <4>3
    <3>3. CASE Announce(v) \/ DisposeClears(v)
      <4>1. /\ platform.at \in {"announce", "clear"} /\ platform.view = v
            /\ platform'.at # "regrant" /\ UNCHANGED submitting
            /\ link' = [link EXCEPT ![v] = FALSE] \/ UNCHANGED link
        BY <2>0, <3>3, PlatformIs, PlatformNames DEF Announce, DisposeClears, Refused, serverVars
      <4>2. CASE UNCHANGED link
        BY <2>2, <4>1, <4>2
      <4>3. CASE link' = [link EXCEPT ![v] = FALSE]
        <5>1. link[v]
          BY <1>2, <4>1 DEF LinkInv, PlatformInv, Linked, InCallback
        <5>2. Contract!Idle(v)
          <6>1. CASE Announce(v)
            <7>1. ~Announced(v)
              BY <1>2, <6>1 DEF Announce, LinkInv, PlatformInv, Announced, InFactory
            <7> QED BY <1>2, <4>1, <7>1, UsesAre DEF LinkInv, InCall, LinkFree
          <6>2. CASE DisposeClears(v)
            BY <6>2, UsesAre DEF DisposeClears
          <6> QED BY <3>3, <6>1, <6>2
        <5>3. opened' = opened \ {v} /\ InUse' = InUse
          BY <2>0, <4>1, <4>3, UsesStay
        <5> QED BY <5>1, <5>2, <5>3 DEF Contract!Next, Contract!Close
      <4> QED BY <4>1, <4>2, <4>3
    <3>4. CASE Renegotiate(v)
      <4>1. /\ platform.at = "renegotiate" /\ LinkFree(v) /\ UNCHANGED <<link, submitting>>
            /\ \/ link[v] /\ platform'.at = "regrant" /\ platform'.view = v
               \/ platform'.at = "idle"
        BY <2>0, <3>4, PlatformIs, PlatformNames DEF Renegotiate, serverVars
      <4>2. CASE platform'.at = "idle"
        BY <2>2, <4>1, <4>2
      <4>3. CASE link[v] /\ platform'.at = "regrant" /\ platform'.view = v
        <5>1. opened' = opened /\ InUse' = InUse \cup {<<None, v>>}
          BY <4>1, <4>3, UsesOfPlatform
        <5>2. v \in opened /\ Contract!Idle(v)
          BY <4>1, <4>3, UsesAre
        <5> QED BY <5>1, <5>2 DEF Contract!Next, Contract!Begin, Users
      <4> QED BY <4>1, <4>2, <4>3
    <3>5. CASE Regrant(v)
      <4>1. /\ platform.at = "regrant" /\ platform.view = v /\ platform'.at = "idle"
            /\ UNCHANGED <<link, submitting>>
        BY <2>0, <3>5, PlatformIs DEF Regrant, serverVars
      <4>2. opened' = opened /\ InUse' = InUse \ {<<None, v>>} /\ <<None, v>> \in InUse
        BY <4>1, UsesOfPlatform
      <4> QED BY <4>2 DEF Contract!Next, Contract!End, Users
    <3> QED BY <2>4, <3>1, <3>2, <3>3, <3>4, <3>5 DEF ViewCall, FactoryStep, BackStep
  <2>5. ASSUME NEW s \in Servers, ServerStep(s)
        PROVE  [Contract!Next]_<<opened, InUse>>
    <3>0. UNCHANGED <<link, platform>>
      BY <2>5 DEF ServerStep, ThreadStep, StartsUp, SubmitReturns, Drop, Exit, HandleCmd,
                  LeaveLoop, Die, Submit, Answer, viewVars
    <3>1. CASE UNCHANGED submitting
      BY <2>1, <3>0, <3>1
    <3>2. CASE submitting' = [submitting EXCEPT ![s] = None] /\ submitting[s] # None
      <4> DEFINE v == submitting[s]
      <4>1. v \in Views
        BY <2>0, <3>2
      <4>2. <<s, v>> \in InUse /\ opened' = opened /\ InUse' = InUse \ {<<s, v>>}
        BY <2>0, <3>0, <3>2, <4>1, UsesOfServer
      <4> QED BY <4>1, <4>2 DEF Contract!Next, Contract!End, Users
    <3>3. ASSUME NEW v \in Views, Submit(s, v)
          PROVE  [Contract!Next]_<<opened, InUse>>
      <4>1. /\ link[v] /\ LinkFree(v) /\ submitting[s] = None
            /\ submitting' = [submitting EXCEPT ![s] = v]
        BY <3>3 DEF Submit, Looping
      <4>2. v \in opened /\ Contract!Idle(v)
        BY <4>1, UsesAre
      <4>3. opened' = opened /\ InUse' = InUse \cup {<<s, v>>}
        BY <2>0, <3>0, <4>1, UsesOfServer
      <4> QED BY <4>2, <4>3 DEF Contract!Next, Contract!Begin, Users
    <3>4. CASE ThreadStep(s) \/ HandleCmd(s) \/ LeaveLoop(s) \/ Die(s)
               \/ \E c \in Callers : Answer(s, c)
      <4>1. \/ UNCHANGED submitting
            \/ submitting' = [submitting EXCEPT ![s] = None]
        BY <3>4 DEF ThreadStep, StartsUp, SubmitReturns, Drop, Exit, HandleCmd, LeaveLoop, Die,
                    Answer, serverVars
      <4>2. submitting[s] = None /\ submitting' = [submitting EXCEPT ![s] = None]
              => UNCHANGED submitting
        BY <2>0
      <4> QED BY <3>1, <3>2, <4>1, <4>2
    <3> QED BY <2>5, <3>3, <3>4 DEF ServerStep
  <2>6. CASE UNCHANGED vars
    BY <2>1, <2>6 DEF vars, serverVars, viewVars
  <2> QED BY <1>2, <2>3, <2>4, <2>5, <2>6, NextSplits
<1> QED BY <1>1, <1>2, LinkStarts, LinksKept, PTL DEF Spec, KeepsContract, Contract!Spec

-----------------------------------------------------------------------------
(* What a server knows of its views *)

Created(v) == [kind |-> "created", of |-> v]
Disposed(d) == [kind |-> "disposed", of |-> d]
Unused == [i \in Ids |-> None]

\* Between places k and i of channel q, id d is given up.
Between(q, k, i, d) == \E j \in 1 .. Len(q) : k < j /\ j < i /\ q[j] = Disposed(d)

\* In what a server has, vw, and is told, q, no view is made under an id before
\* the last one there is given up.
InTurn(q, vw) ==
  /\ \A d \in Ids : vw[d] # None => IdOf[vw[d]] = d
  /\ \A i \in 1 .. Len(q), v \in Views : q[i] = Created(v) =>
       /\ vw[IdOf[v]] # None => Between(q, 0, i, IdOf[v])
       /\ \A k \in 1 .. Len(q), w \in Views :
            k < i /\ q[k] = Created(w) /\ IdOf[w] = IdOf[v] => Between(q, k, i, IdOf[v])

\* v is there once all of q is handled.
Has(q, vw, v) ==
  \/ vw[IdOf[v]] = v /\ ~Between(q, 0, Len(q) + 1, IdOf[v])
  \/ \E k \in 1 .. Len(q) : q[k] = Created(v) /\ ~Between(q, k, Len(q) + 1, IdOf[v])

LEMMA CmdsDiffer ==
  /\ \A v, d : Created(v) # Disposed(d)
  /\ \A v, w : Created(v) = Created(w) => v = w
  /\ \A d, e : Disposed(d) = Disposed(e) => d = e
  /\ \A m, x : m.kind = "quit" => m # Created(x) /\ m # Disposed(x)
BY DEF Created, Disposed

LEMMA BetweenTail ==
  ASSUME NEW q \in Seq(Cmd), q # <<>>
  PROVE  /\ Len(q) \in Nat /\ Len(q) # 0 /\ Len(Tail(q)) = Len(q) - 1 /\ q[1] = Head(q)
         /\ \A i \in 1 .. Len(Tail(q)) : i + 1 \in 1 .. Len(q) /\ Tail(q)[i] = q[i + 1]
         /\ \A k, i \in Nat : \A d : Between(Tail(q), k, i, d) <=> Between(q, k + 1, i + 1, d)
         /\ \A i \in Nat : \A d : Between(q, 0, i, d) <=> (1 < i /\ q[1] = Disposed(d)) \/ Between(q, 1, i, d)
<1> DEFINE t == Tail(q)
           n == Len(q)
<1>1. n \in Nat /\ n # 0 /\ Len(t) = n - 1 /\ q[1] = Head(q)
  OBVIOUS
<1>2. \A i \in 1 .. Len(t) : i + 1 \in 1 .. n /\ t[i] = q[i + 1]
  OBVIOUS
<1>3. \A j \in 1 .. n : j = 1 \/ (j - 1 \in 1 .. Len(t) /\ t[j - 1] = q[j])
  <2> SUFFICES ASSUME NEW j \in 1 .. n, j # 1 PROVE j - 1 \in 1 .. Len(t) /\ t[j - 1] = q[j]
    OBVIOUS
  <2>1. j - 1 \in 1 .. Len(t) /\ (j - 1) + 1 = j
    BY <1>1
  <2> QED BY <1>2, <2>1
<1> HIDE DEF t, n
<1>4. ASSUME NEW k \in Nat, NEW i \in Nat, NEW d
      PROVE  Between(t, k, i, d) <=> Between(q, k + 1, i + 1, d)
  <2>1. ASSUME NEW j \in 1 .. Len(t), k < j, j < i, t[j] = Disposed(d)
        PROVE  Between(q, k + 1, i + 1, d)
    <3>1. j + 1 \in 1 .. n /\ k + 1 < j + 1 /\ j + 1 < i + 1 /\ q[j + 1] = Disposed(d)
      BY <1>2, <2>1
    <3> QED BY <3>1 DEF Between, n
  <2>2. ASSUME NEW j \in 1 .. n, k + 1 < j, j < i + 1, q[j] = Disposed(d)
        PROVE  Between(t, k, i, d)
    <3>1. j - 1 \in 1 .. Len(t) /\ k < j - 1 /\ j - 1 < i /\ t[j - 1] = Disposed(d)
      BY <1>1, <1>3, <2>2
    <3> QED BY <3>1 DEF Between
  <2> QED BY <2>1, <2>2 DEF Between, n
<1>5. ASSUME NEW i \in Nat, NEW d
      PROVE  Between(q, 0, i, d) <=> (1 < i /\ q[1] = Disposed(d)) \/ Between(q, 1, i, d)
  BY <1>1 DEF Between, n
<1> QED BY <1>1, <1>2, <1>4, <1>5 DEF t, n

\* Handling a command brings the server on, and changes nothing of where it is
\* to come to.
LEMMA HandlingKeeps ==
  ASSUME NEW q \in Seq(Cmd), q # <<>>,
         NEW vw \in [Ids -> Views \cup {None}], NEW new \in [Ids -> Views \cup {None}], InTurn(q, vw),
         \/ \E u \in Views : Head(q) = Created(u) /\ new = [vw EXCEPT ![IdOf[u]] = u]
         \/ \E e \in Ids : Head(q) = Disposed(e) /\ new = [vw EXCEPT ![e] = None]
         \/ Head(q).kind = "quit" /\ new = vw
  PROVE  InTurn(Tail(q), new) /\ \A v \in Views : Has(Tail(q), new, v) <=> Has(q, vw, v)
<1> DEFINE t == Tail(q)
           n == Len(q)
<1>1. /\ n \in Nat /\ n # 0 /\ Len(t) = n - 1 /\ q[1] = Head(q)
      /\ \A i \in 1 .. Len(t) : i + 1 \in 1 .. n /\ t[i] = q[i + 1]
      /\ \A k, i \in Nat : \A d : Between(t, k, i, d) <=> Between(q, k + 1, i + 1, d)
      /\ \A i \in Nat : \A d : Between(q, 0, i, d) <=> (1 < i /\ q[1] = Disposed(d)) \/ Between(q, 1, i, d)
  BY BetweenTail
<1>2. /\ \A d \in Ids : vw[d] # None => IdOf[vw[d]] = d
      /\ \A i \in 1 .. n, v \in Views : q[i] = Created(v) =>
           /\ vw[IdOf[v]] # None => Between(q, 0, i, IdOf[v])
           /\ \A k \in 1 .. n, w \in Views :
                k < i /\ q[k] = Created(w) /\ IdOf[w] = IdOf[v] => Between(q, k, i, IdOf[v])
  BY DEF InTurn
<1>3. \A v \in Views : IdOf[v] \in Ids /\ v # None
  BY IdAssumption, NoneAssumption
<1> HIDE DEF t, n
<1>4. \A k \in 1 .. n : k = 1 \/ (k - 1 \in 1 .. Len(t) /\ t[k - 1] = q[k] /\ (k - 1) + 1 = k)
  <2> SUFFICES ASSUME NEW k \in 1 .. n, k # 1 PROVE k - 1 \in 1 .. Len(t) /\ t[k - 1] = q[k] /\ (k - 1) + 1 = k
    OBVIOUS
  <2>1. k - 1 \in 1 .. Len(t) /\ (k - 1) + 1 = k
    BY <1>1
  <2> QED BY <1>1, <2>1
\* What the tail says of the past, whatever the head is.
<1>5. ASSUME NEW i \in 1 .. Len(t), NEW v \in Views, t[i] = Created(v),
             NEW k \in 1 .. Len(t), NEW w \in Views, k < i, t[k] = Created(w), IdOf[w] = IdOf[v]
      PROVE  Between(t, k, i, IdOf[v])
  <2>1. i + 1 \in 1 .. n /\ k + 1 \in 1 .. n /\ k + 1 < i + 1 /\ q[i + 1] = Created(v) /\ q[k + 1] = Created(w)
        /\ i \in Nat /\ k \in Nat
    BY <1>1, <1>5
  <2> QED BY <1>1, <1>2, <1>5, <2>1
\* And of what is made and not given up.
<1>6. ASSUME NEW v \in Views
      PROVE  /\ \A k \in 1 .. Len(t) : t[k] = Created(v) /\ ~Between(t, k, Len(t) + 1, IdOf[v]) =>
                  q[k + 1] = Created(v) /\ k + 1 \in 1 .. n /\ ~Between(q, k + 1, n + 1, IdOf[v])
             /\ \A k \in 1 .. n : k # 1 /\ q[k] = Created(v) /\ ~Between(q, k, n + 1, IdOf[v]) =>
                  t[k - 1] = Created(v) /\ k - 1 \in 1 .. Len(t) /\ ~Between(t, k - 1, Len(t) + 1, IdOf[v])
             /\ Between(t, 0, Len(t) + 1, IdOf[v]) <=> Between(q, 1, n + 1, IdOf[v])
  <2>1. Len(t) + 1 = n /\ n \in Nat /\ 0 \in Nat /\ \A k \in 1 .. Len(t) : k \in Nat
    BY <1>1
  <2>2. Between(t, 0, n, IdOf[v]) <=> Between(q, 1, n + 1, IdOf[v])
    <3>1. Between(t, 0, n, IdOf[v]) <=> Between(q, 0 + 1, n + 1, IdOf[v])
      BY <1>1, <2>1
    <3> QED BY <3>1
  <2>3. ASSUME NEW k \in 1 .. Len(t), t[k] = Created(v), ~Between(t, k, Len(t) + 1, IdOf[v])
        PROVE  q[k + 1] = Created(v) /\ k + 1 \in 1 .. n /\ ~Between(q, k + 1, n + 1, IdOf[v])
    BY <1>1, <2>1, <2>3
  <2>4. ASSUME NEW k \in 1 .. n, k # 1, q[k] = Created(v), ~Between(q, k, n + 1, IdOf[v])
        PROVE  t[k - 1] = Created(v) /\ k - 1 \in 1 .. Len(t) /\ ~Between(t, k - 1, Len(t) + 1, IdOf[v])
    <3>1. k - 1 \in 1 .. Len(t) /\ t[k - 1] = q[k] /\ (k - 1) + 1 = k /\ k - 1 \in Nat
      BY <1>4, <2>4
    <3>2. Between(t, k - 1, n, IdOf[v]) <=> Between(q, (k - 1) + 1, n + 1, IdOf[v])
      BY <1>1, <2>1, <3>1
    <3> QED BY <2>1, <2>4, <3>1, <3>2
  <2> QED BY <2>1, <2>2, <2>3, <2>4
<1>7. ASSUME NEW i \in 1 .. Len(t), NEW v \in Views, t[i] = Created(v)
      PROVE  /\ vw[IdOf[v]] # None => q[1] = Disposed(IdOf[v]) \/ Between(t, 0, i, IdOf[v])
             /\ \A w \in Views : q[1] = Created(w) /\ IdOf[w] = IdOf[v] => Between(t, 0, i, IdOf[v])
  <2>1. i \in Nat /\ i + 1 \in 1 .. n /\ q[i + 1] = Created(v) /\ 1 < i + 1 /\ 1 \in 1 .. n /\ i + 1 \in Nat
    BY <1>1, <1>7
  <2>2. Between(t, 0, i, IdOf[v]) <=> Between(q, 1, i + 1, IdOf[v])
    <3>1. Between(t, 0, i, IdOf[v]) <=> Between(q, 0 + 1, i + 1, IdOf[v])
      BY <1>1, <2>1
    <3> QED BY <3>1
  <2> QED BY <1>1, <1>2, <2>1, <2>2
<1>8. \A v \in Views : Between(q, 0, n + 1, IdOf[v]) <=> q[1] = Disposed(IdOf[v]) \/ Between(q, 1, n + 1, IdOf[v])
  <2>1. n + 1 \in Nat /\ 1 < n + 1
    BY <1>1
  <2> QED BY <1>1, <2>1
<1>9. ASSUME \A d \in Ids : new[d] # None => IdOf[new[d]] = d,
             \A i \in 1 .. Len(t), v \in Views : t[i] = Created(v) /\ new[IdOf[v]] # None => Between(t, 0, i, IdOf[v])
      PROVE  InTurn(t, new)
  BY <1>5, <1>9 DEF InTurn
<1>10. ASSUME NEW u \in Views, Head(q) = Created(u), new = [vw EXCEPT ![IdOf[u]] = u]
       PROVE  InTurn(t, new) /\ \A v \in Views : Has(t, new, v) <=> Has(q, vw, v)
  <2>1. vw[IdOf[u]] = None
    <3>1. 1 \in 1 .. n /\ ~Between(q, 0, 1, IdOf[u])
      BY <1>1 DEF Between
    <3> QED BY <1>1, <1>2, <1>10, <3>1
  <2>2. \A d \in Ids : new[d] = IF d = IdOf[u] THEN u ELSE vw[d]
    BY <1>3, <1>10
  <2>3. InTurn(t, new)
    BY <1>1, <1>2, <1>3, <1>7, <1>9, <1>10, <2>2, CmdsDiffer
  <2>4. ASSUME NEW v \in Views PROVE Has(t, new, v) <=> Has(q, vw, v)
    <3>1. q[1] = Created(v) <=> v = u
      BY <1>1, <1>10, CmdsDiffer
    <3>2. 1 \in 1 .. n /\ ~(q[1] = Disposed(IdOf[v]))
      BY <1>1, <1>10, CmdsDiffer
    <3>3. Has(t, new, v) => Has(q, vw, v)
      BY <1>3, <1>6, <1>8, <2>2, <3>1, <3>2 DEF Has, n
    <3>4. Has(q, vw, v) => Has(t, new, v)
      BY <1>3, <1>6, <1>8, <2>1, <2>2, <3>1, <3>2 DEF Has, n
    <3> QED BY <3>3, <3>4
  <2> QED BY <2>3, <2>4
<1>11. ASSUME NEW e \in Ids, Head(q) = Disposed(e), new = [vw EXCEPT ![e] = None]
       PROVE  InTurn(t, new) /\ \A v \in Views : Has(t, new, v) <=> Has(q, vw, v)
  <2>1. \A d \in Ids : new[d] = IF d = e THEN None ELSE vw[d]
    BY <1>11
  <2>2. InTurn(t, new)
    BY <1>1, <1>2, <1>3, <1>7, <1>9, <1>11, <2>1, CmdsDiffer
  <2>3. ASSUME NEW v \in Views PROVE Has(t, new, v) <=> Has(q, vw, v)
    <3>1. q[1] # Created(v) /\ (q[1] = Disposed(IdOf[v]) <=> IdOf[v] = e)
      BY <1>1, <1>11, CmdsDiffer
    <3>2. Has(t, new, v) => Has(q, vw, v)
      BY <1>3, <1>6, <1>8, <2>1, <3>1 DEF Has, n
    <3>3. Has(q, vw, v) => Has(t, new, v)
      BY <1>3, <1>6, <1>8, <2>1, <3>1 DEF Has, n
    <3> QED BY <3>2, <3>3
  <2> QED BY <2>2, <2>3
<1>12. ASSUME Head(q).kind = "quit", new = vw
       PROVE  InTurn(t, new) /\ \A v \in Views : Has(t, new, v) <=> Has(q, vw, v)
  <2>1. \A x : q[1] # Created(x) /\ q[1] # Disposed(x)
    BY <1>1, <1>12, CmdsDiffer
  <2>2. InTurn(t, new)
    BY <1>2, <1>7, <1>9, <1>12, <2>1
  <2>3. ASSUME NEW v \in Views PROVE Has(t, new, v) <=> Has(q, vw, v)
    BY <1>6, <1>8, <1>12, <2>1 DEF Has, n
  <2> QED BY <2>2, <2>3
<1> QED BY <1>10, <1>11, <1>12 DEF t

\* What a channel is once m is sent.
LEMMA BetweenAppend ==
  ASSUME NEW q \in Seq(Cmd), NEW m \in Cmd
  PROVE  /\ Len(q) \in Nat /\ Len(Append(q, m)) = Len(q) + 1
         /\ Append(q, m)[Len(q) + 1] = m
         /\ \A i \in 1 .. Len(q) : Append(q, m)[i] = q[i]
         /\ \A k, i \in Nat : \A d : i <= Len(q) + 1 =>
              (Between(Append(q, m), k, i, d) <=> Between(q, k, i, d))
         /\ \A k \in Nat : \A d : k <= Len(q) =>
              (Between(Append(q, m), k, Len(q) + 2, d) <=> Between(q, k, Len(q) + 1, d) \/ m = Disposed(d))
         /\ \A d : ~Between(Append(q, m), Len(q) + 1, Len(q) + 2, d)
<1> DEFINE r == Append(q, m)
           n == Len(q)
<1>1. n \in Nat /\ Len(r) = n + 1 /\ r[n + 1] = m /\ \A i \in 1 .. n : r[i] = q[i]
  OBVIOUS
<1> HIDE DEF r, n
<1>2. ASSUME NEW k \in Nat, NEW i \in Nat, NEW d, i <= n + 1
      PROVE  Between(r, k, i, d) <=> Between(q, k, i, d)
  BY <1>1, <1>2 DEF Between, n
<1>3. ASSUME NEW k \in Nat, NEW d, k <= n
      PROVE  Between(r, k, n + 2, d) <=> Between(q, k, n + 1, d) \/ m = Disposed(d)
  <2>1. \A j \in 1 .. (n + 1) : j = n + 1 \/ (j \in 1 .. n /\ j < n + 1)
    BY <1>1
  <2>2. \A j \in 1 .. n : j \in 1 .. (n + 1) /\ j < n + 1 /\ j < n + 2
    BY <1>1
  <2>3. n + 1 \in 1 .. (n + 1) /\ k < n + 1 /\ n + 1 < n + 2
    BY <1>1, <1>3
  <2> QED BY <1>1, <2>1, <2>2, <2>3 DEF Between, n
<1>4. ASSUME NEW d PROVE ~Between(r, n + 1, n + 2, d)
  BY <1>1 DEF Between
<1> QED BY <1>1, <1>2, <1>3, <1>4 DEF r, n

\* What was in turn is, if what is sent makes no view.
LEMMA SendingKeeps ==
  ASSUME NEW q \in Seq(Cmd), NEW m \in Cmd, NEW vw \in [Ids -> Views \cup {None}], InTurn(q, vw),
         \/ \E v \in Views : m = Created(v) /\ \A w \in Views : IdOf[w] = IdOf[v] => ~Has(q, vw, w)
         \/ \A v \in Views : m # Created(v)
  PROVE  /\ InTurn(Append(q, m), vw)
         /\ \A w \in Views : Has(Append(q, m), vw, w) <=>
              \/ m = Created(w)
              \/ Has(q, vw, w) /\ m # Disposed(IdOf[w])
<1> DEFINE r == Append(q, m)
           n == Len(q)
<1>1. /\ n \in Nat /\ Len(r) = n + 1 /\ r[n + 1] = m
      /\ \A i \in 1 .. n : r[i] = q[i]
      /\ \A k, i \in Nat : \A d : i <= n + 1 => (Between(r, k, i, d) <=> Between(q, k, i, d))
      /\ \A k \in Nat : \A d : k <= n =>
           (Between(r, k, n + 2, d) <=> Between(q, k, n + 1, d) \/ m = Disposed(d))
      /\ \A d : ~Between(r, n + 1, n + 2, d)
  BY BetweenAppend
<1>2. /\ \A d \in Ids : vw[d] # None => IdOf[vw[d]] = d
      /\ \A i \in 1 .. n, v \in Views : q[i] = Created(v) =>
           /\ vw[IdOf[v]] # None => Between(q, 0, i, IdOf[v])
           /\ \A k \in 1 .. n, w \in Views :
                k < i /\ q[k] = Created(w) /\ IdOf[w] = IdOf[v] => Between(q, k, i, IdOf[v])
  BY DEF InTurn
<1>3. \A v \in Views : IdOf[v] \in Ids /\ v # None /\ (vw[IdOf[v]] = None \/ vw[IdOf[v]] \in Views)
  BY IdAssumption, NoneAssumption
<1> HIDE DEF r, n
<1>4. /\ \A k \in 1 .. (n + 1) : k = n + 1 \/ k \in 1 .. n
      /\ \A k \in 1 .. n : k \in 1 .. (n + 1) /\ k \in Nat /\ k <= n /\ k < n + 1 /\ k <= n + 1
      /\ n + 1 \in 1 .. (n + 1) /\ n + 1 \in Nat /\ 0 \in Nat /\ 0 <= n /\ ~(n + 1 < n + 1)
  BY <1>1
<1>5. Len(r) + 1 = n + 2
  BY <1>1
<1>6. ASSUME NEW w \in Views
      PROVE  Has(r, vw, w) <=> m = Created(w) \/ (Has(q, vw, w) /\ m # Disposed(IdOf[w]))
  <2>1. /\ Between(r, 0, Len(r) + 1, IdOf[w]) <=> Between(q, 0, n + 1, IdOf[w]) \/ m = Disposed(IdOf[w])
        /\ \A k \in 1 .. n : Between(r, k, Len(r) + 1, IdOf[w]) <=>
                               Between(q, k, n + 1, IdOf[w]) \/ m = Disposed(IdOf[w])
        /\ ~Between(r, n + 1, Len(r) + 1, IdOf[w])
    BY <1>1, <1>4, <1>5
  <2>2. m = Created(w) => m # Disposed(IdOf[w])
    BY CmdsDiffer
  <2>3. Has(r, vw, w) => m = Created(w) \/ (Has(q, vw, w) /\ m # Disposed(IdOf[w]))
    BY <1>1, <1>4, <2>1 DEF Has, n
  <2>4. m = Created(w) \/ (Has(q, vw, w) /\ m # Disposed(IdOf[w])) => Has(r, vw, w)
    BY <1>1, <1>4, <2>1 DEF Has, n
  <2> QED BY <2>3, <2>4
<1>7. ASSUME NEW i \in 1 .. n, NEW v \in Views, r[i] = Created(v)
      PROVE  /\ vw[IdOf[v]] # None => Between(r, 0, i, IdOf[v])
             /\ \A k \in 1 .. (n + 1), w \in Views :
                  k < i /\ r[k] = Created(w) /\ IdOf[w] = IdOf[v] => Between(r, k, i, IdOf[v])
  <2>1. i \in Nat /\ i <= n + 1 /\ ~(n + 1 < i) /\ q[i] = Created(v)
    BY <1>1, <1>4, <1>7
  <2>2. vw[IdOf[v]] # None => Between(r, 0, i, IdOf[v])
    BY <1>1, <1>2, <1>4, <2>1
  <2>3. ASSUME NEW k \in 1 .. (n + 1), NEW w \in Views, k < i, r[k] = Created(w), IdOf[w] = IdOf[v]
        PROVE  Between(r, k, i, IdOf[v])
    <3>1. k \in 1 .. n /\ k \in Nat /\ q[k] = Created(w)
      BY <1>1, <1>4, <2>1, <2>3
    <3> QED BY <1>1, <1>2, <2>1, <2>3, <3>1
  <2> QED BY <2>2, <2>3
<1>8. ASSUME NEW v \in Views, r[n + 1] = Created(v)
      PROVE  /\ vw[IdOf[v]] # None => Between(r, 0, n + 1, IdOf[v])
             /\ \A k \in 1 .. (n + 1), w \in Views :
                  k < n + 1 /\ r[k] = Created(w) /\ IdOf[w] = IdOf[v] => Between(r, k, n + 1, IdOf[v])
  <2>1. \A w \in Views : IdOf[w] = IdOf[v] => ~Has(q, vw, w)
    BY <1>1, <1>8, CmdsDiffer
  <2>2. ASSUME vw[IdOf[v]] # None PROVE Between(r, 0, n + 1, IdOf[v])
    <3> DEFINE w == vw[IdOf[v]]
    <3>1. w \in Views /\ IdOf[w] = IdOf[v] /\ vw[IdOf[w]] = w
      BY <1>2, <1>3, <2>2
    <3>2. Between(q, 0, n + 1, IdOf[v])
      <4> HIDE DEF w
      <4> QED BY <2>1, <3>1 DEF Has, n
    <3> QED BY <1>1, <1>4, <3>2
  <2>3. ASSUME NEW k \in 1 .. (n + 1), NEW w \in Views, k < n + 1, r[k] = Created(w), IdOf[w] = IdOf[v]
        PROVE  Between(r, k, n + 1, IdOf[v])
    <3>1. k \in 1 .. n /\ k \in Nat /\ q[k] = Created(w) /\ ~Has(q, vw, w)
      BY <1>1, <1>4, <2>1, <2>3
    <3>2. Between(q, k, n + 1, IdOf[v])
      BY <2>3, <3>1 DEF Has, n
    <3> QED BY <1>1, <1>4, <3>1, <3>2
  <2> QED BY <2>2, <2>3
<1>9. InTurn(r, vw)
  BY <1>1, <1>2, <1>4, <1>7, <1>8 DEF InTurn
<1> QED BY <1>6, <1>9 DEF r

\* Of an unused server's empty channel.
LEMMA NothingYet ==
  /\ InTurn(<<>>, Unused)
  /\ \A v \in Views : ~Has(<<>>, Unused, v)
BY IdAssumption, NoneAssumption DEF InTurn, Has, Unused


Quiet == {"none", "starting", "failed", "exiting", "done"}

Turns == \A s \in Servers : InTurn(chan[s], views[s])
Clean == \A s \in Servers : thread[s] \in Quiet => chan[s] = <<>> /\ views[s] = Unused
Started == running # None => thread[running] \notin {"none", "starting"}
Tellable == \A v \in Views : told[v] # None =>
  /\ thread[told[v]] # "none"
  /\ status[v] = "live" \/ (platform.at = "return" /\ platform.view = v)
\* A server is nothing but new until SERVER stores it.
Fresh == \A c \in Callers : call[c] = "boot" =>
  /\ target[c] \in Servers /\ thread[target[c]] # "none"
  /\ chan[target[c]] = <<>> /\ views[target[c]] = Unused
  /\ \A v \in Views : told[v] # target[c]
Alone ==
  /\ \A v, w \in Views : IdOf[v] = IdOf[w] /\ status[v] = "live" /\ status[w] = "live" => v = w
  /\ platform.at \in InFactory =>
       \A v \in Views : IdOf[v] = IdOf[platform.view] => status[v] # "live"
\* The running server comes to have what it was told of and not told the end of.
Settled == \A s \in Servers : running = s => \A v \in Views :
  /\ Has(chan[s], views[s], v) => told[v] = s
  /\ Sendable(s) /\ told[v] = s => Has(chan[s], views[s], v)

ViewsInv == Turns /\ Clean /\ Started /\ Tellable /\ Fresh /\ Alone /\ Settled

LEMMA ViewsStart == Init => ViewsInv
<1> SUFFICES ASSUME Init PROVE ViewsInv
  OBVIOUS
<1>1. /\ \A s \in Servers : chan[s] = <<>> /\ views[s] = Unused
      /\ \A v \in Views : told[v] = None /\ status[v] = "new"
      /\ running = None /\ platform.at = "idle" /\ \A c \in Callers : call[c] = "idle"
  BY DEF Init, Unused
<1>2. Turns
  BY <1>1, NothingYet DEF Turns
<1>3. Settled
  BY <1>1, NoneAssumption DEF Settled
<1> QED BY <1>1, <1>2, <1>3 DEF ViewsInv, Clean, Started, Tellable, Fresh, Alone, InFactory

\* Threads and callers that send nothing leave it.
LEMMA ViewsStay ==
  ASSUME ViewsInv, UNCHANGED <<chan, views, told, platform, status>>, running' \in {running, None},
         \A c \in Callers : call'[c] = "boot" => call[c] = "boot" /\ target'[c] = target[c],
         running \in Servers \cup {None},
         \A v \in Views : told[v] \in Servers \cup {None},
         \A s \in Servers :
           /\ thread'[s] \in {"none", "starting"} => thread[s] = thread'[s]
           /\ thread'[s] \in Quiet => thread[s] \in Quiet
           /\ running = s /\ Sendable(s)' => Sendable(s)
  PROVE  ViewsInv'
<1>1. Turns'
  BY DEF ViewsInv, Turns
<1>2. Clean'
  BY DEF ViewsInv, Clean
<1>3. Started'
  BY DEF ViewsInv, Started
<1>4. Tellable'
  BY DEF ViewsInv, Tellable
<1>5. Fresh'
  BY DEF ViewsInv, Fresh
<1>6. Alone'
  BY DEF ViewsInv, Alone
<1>7. Settled'
  BY NoneAssumption DEF ViewsInv, Settled
<1> QED BY <1>1, <1>2, <1>3, <1>4, <1>5, <1>6, <1>7 DEF ViewsInv

LEMMA SentKeeps ==
  ASSUME TypeOK, Turns, Clean, NEW m \in Cmd, NEW to \in Servers \cup {None},
         chan' = IF Sendable(to) THEN [chan EXCEPT ![to] = Append(@, m)] ELSE chan,
         UNCHANGED <<views, thread>>,
         \/ \A v \in Views : m # Created(v)
         \/ \E v \in Views : m = Created(v) /\ \A w \in Views : Sendable(to) /\ IdOf[w] = IdOf[v]
                                 => ~Has(chan[to], views[to], w)
  PROVE  /\ Turns' /\ Clean'
         /\ \A s \in Servers : ~Sendable(s) \/ s # to => chan'[s] = chan[s]
         /\ Sendable(to) => to \in Servers /\ \A w \in Views :
              Has(chan'[to], views'[to], w) <=>
                \/ m = Created(w)
                \/ Has(chan[to], views[to], w) /\ m # Disposed(IdOf[w])
<1>0. /\ chan \in [Servers -> Seq(Cmd)] /\ views \in [Servers -> [Ids -> Views \cup {None}]]
  BY DEF TypeOK
<1>1. CASE ~Sendable(to)
  BY <1>0, <1>1 DEF Turns, Clean
<1>2. CASE Sendable(to)
  <2>1. to \in Servers /\ thread[to] \notin Quiet
    BY <1>2 DEF Sendable, Quiet
  <2>2. chan'[to] = Append(chan[to], m) /\ \A s \in Servers : s # to => chan'[s] = chan[s]
    BY <1>0, <1>2, <2>1
  <2>3. chan[to] \in Seq(Cmd) /\ views[to] \in [Ids -> Views \cup {None}] /\ InTurn(chan[to], views[to])
    BY <1>0, <2>1 DEF Turns
  <2>4. \/ \E v \in Views : m = Created(v) /\ \A w \in Views : IdOf[w] = IdOf[v] => ~Has(chan[to], views[to], w)
        \/ \A v \in Views : m # Created(v)
    BY <1>2
  <2>5. /\ InTurn(Append(chan[to], m), views[to])
        /\ \A w \in Views : Has(Append(chan[to], m), views[to], w) <=>
             \/ m = Created(w)
             \/ Has(chan[to], views[to], w) /\ m # Disposed(IdOf[w])
    BY <2>3, <2>4, SendingKeeps
  <2>6. Turns'
    BY <2>2, <2>5 DEF Turns
  <2>7. Clean'
    BY <2>1, <2>2 DEF Clean
  <2> QED BY <2>1, <2>2, <2>5, <2>6, <2>7
<1> QED BY <1>1, <1>2

\* A server that cannot be sent to has no view, if it is stored.
LEMMA EndedHasNone ==
  ASSUME Clean, Started, NEW s \in Servers, running = s, ~Sendable(s), thread[s] \in ThreadStates
  PROVE  \A v \in Views : ~Has(chan[s], views[s], v)
<1>1. thread[s] \in Quiet
  BY NoneAssumption DEF Sendable, Quiet, ThreadStates
<1> QED BY <1>1, NothingYet DEF Clean

\* Whoever starts or stops keeps it.
LEMMA CallersKeepViews ==
  ASSUME TypeOK, LifeInv, ViewsInv, NEW c \in Callers,
         CallerStep(c) \/ \E what \in {"start", "stop", "ask"} : Call(c, what)
  PROVE  ViewsInv'
<1>0. /\ running \in Servers \cup {None} /\ \A v \in Views : told[v] \in Servers \cup {None}
      /\ call \in [Callers -> CallStates] /\ target \in [Callers -> Servers \cup {None}]
      /\ thread \in [Servers -> ThreadStates]
      /\ Turns /\ Clean /\ Started /\ Tellable /\ Fresh /\ Alone /\ Settled
  BY DEF TypeOK, ViewsInv
<1>1. ASSUME UNCHANGED <<serverVars, viewVars>>, running' \in {running, None},
             \A d \in Callers : call'[d] = "boot" => call[d] = "boot" /\ target'[d] = target[d]
      PROVE  ViewsInv'
  BY <1>0, <1>1, ViewsStay DEF serverVars, viewVars, Sendable
<1>2. CASE \/ \E what \in {"start", "stop", "ask"} : Call(c, what)
           \/ LockLifecycle(c) \/ StartLocks(c) \/ AlreadyRunning(c) \/ Reap(c) \/ SpawnFails(c) \/ Register(c)
           \/ StopChecks(c) \/ Unregister(c) \/ Take(c) \/ Join(c)
           \/ AskStep(c)
  <2>1. /\ UNCHANGED <<serverVars, viewVars>> /\ running' \in {running, None}
    BY <1>2 DEF Call, LockLifecycle, StartLocks, AlreadyRunning, Reap, SpawnFails, Register, StopChecks,
       Unregister, Take, Join, AskStep, AskSends, Answered, TimesOut
  <2>2. \A d \in Callers : call'[d] = "boot" => call[d] = "boot" /\ target'[d] = target[d]
    BY <1>0, <1>2 DEF Call, LockLifecycle, StartLocks, AlreadyRunning, Reap, SpawnFails, Register, StopChecks,
       Unregister, Take, Join, AskStep, AskSends, Answered, TimesOut, Go, Release
  <2> QED BY <1>1, <2>1, <2>2
<1>3. ASSUME NEW s \in Servers, Spawn(c, s) PROVE ViewsInv'
  <2>1. /\ running' = None /\ thread[s] = "none" /\ thread' = [thread EXCEPT ![s] = "starting"]
        /\ \A d \in Callers : call'[d] = "boot" => d = c \/ (call[d] = "boot" /\ target'[d] = target[d])
        /\ target'[c] = s /\ UNCHANGED <<chan, views, told, status, platform>>
    BY <1>0, <1>3 DEF Spawn, Go, viewVars, LifeInv, Emptied
  <2>2. chan[s] = <<>> /\ views[s] = Unused /\ \A v \in Views : told[v] # s
    BY <1>0, <2>1, NoneAssumption DEF Clean, Quiet, Tellable
  <2>3. Turns' /\ Alone' /\ Started' /\ Settled'
    BY <1>0, <2>1, NoneAssumption DEF Turns, Alone, Started, Settled
  <2>4. Clean' /\ Tellable'
    BY <1>0, <2>1 DEF Clean, Quiet, Tellable
  <2>5. Fresh'
    BY <1>0, <2>1, <2>2 DEF Fresh
  <2> QED BY <2>3, <2>4, <2>5 DEF ViewsInv
<1>4. CASE Booted(c)
  <2>1. /\ call[c] = "boot" /\ thread[target[c]] \notin {"starting", "failed"}
        /\ running' = target[c] /\ UNCHANGED <<target, thread, chan, views, told, status, platform>>
        /\ \A d \in Callers : call'[d] = "boot" => call[d] = "boot"
    BY <1>0, <1>4 DEF Booted, Go, serverVars, viewVars
  <2>2. /\ target[c] \in Servers /\ thread[target[c]] # "none"
        /\ chan[target[c]] = <<>> /\ views[target[c]] = Unused
        /\ \A v \in Views : told[v] # target[c]
    BY <1>0, <2>1 DEF Fresh
  <2>3. Turns' /\ Clean' /\ Alone' /\ Started' /\ Tellable' /\ Fresh'
    BY <1>0, <2>1, <2>2 DEF Turns, Clean, Alone, Started, Tellable, Fresh
  <2>4. Settled'
    BY <2>1, <2>2, NothingYet DEF Settled
  <2> QED BY <2>3, <2>4 DEF ViewsInv
<1>5. CASE BootFails(c)
  <2>1. /\ call[c] = "boot" /\ thread[target[c]] = "failed" /\ target[c] \in Servers
        /\ thread' = [thread EXCEPT ![target[c]] = "done"]
        /\ UNCHANGED <<running, chan, views, told, status, platform>>
        /\ \A d \in Callers : call'[d] = "boot" => call[d] = "boot" /\ target'[d] = target[d]
    BY <1>0, <1>5 DEF BootFails, Go, Release, viewVars, Fresh
  <2>2. \A s \in Servers :
           /\ thread'[s] \in {"none", "starting"} => thread[s] = thread'[s]
           /\ thread'[s] \in Quiet => thread[s] \in Quiet
           /\ running = s /\ Sendable(s)' => Sendable(s)
    BY <1>0, <2>1 DEF Quiet, Sendable
  <2> QED BY <1>0, <2>1, <2>2, ViewsStay
<1>6. CASE SendQuit(c)
  <2> DEFINE quit == [kind |-> "quit", of |-> None]
  <2>1. /\ call[c] = "quit" /\ UNCHANGED <<running, thread, views, told, status, platform, target>>
        /\ chan' = IF Sendable(target[c]) THEN [chan EXCEPT ![target[c]] = Append(@, quit)] ELSE chan
        /\ \A d \in Callers : call'[d] = "boot" => call[d] = "boot"
        /\ target[c] \in Servers \cup {None}
    BY <1>0, <1>6 DEF SendQuit, Go, viewVars
  <2>2. quit \in Cmd /\ (\A v \in Views : quit # Created(v)) /\ running = None
    BY <2>1, CmdTypes, CmdsDiffer DEF LifeInv, Emptied
  <2> HIDE DEF quit
  <2>3. Turns' /\ Clean'
    BY <1>0, <2>1, <2>2, SentKeeps
  <2>4. Alone' /\ Started' /\ Tellable' /\ Settled'
    BY <1>0, <2>1, <2>2, NoneAssumption DEF Alone, Started, Tellable, Settled
  <2>5. Fresh'
    <3>1. \A d \in Callers : call[d] # "boot"
      BY <2>1 DEF LifeInv, OneInside, InLifecycle
    <3> QED BY <2>1, <3>1 DEF Fresh
  <2> QED BY <2>3, <2>4, <2>5 DEF ViewsInv
<1> QED BY <1>2, <1>3, <1>4, <1>5, <1>6 DEF CallerStep, StartStep, StopStep

\* The platform thread makes a view under an id only when none lives there.
LEMMA PlatformKeepsAlone ==
  ASSUME TypeOK, PlatformInv, Alone, NEW v \in Views, ViewCall(v)
  PROVE  Alone'
<1>0. status \in [Views -> {"new", "live", "gone"}] /\ TypeOK
  BY DEF TypeOK
<1> USE PlatformIs, PlatformNames
<1>1. CASE \E locked \in BOOLEAN : CallFactory(v, locked)
  BY <1>1 DEF CallFactory, Alone
<1>2. CASE FactoryReturns(v)
  <2>1. /\ status' = [status EXCEPT ![v] = "live"] /\ platform'.at = "idle"
        /\ \A w \in Views : IdOf[w] = IdOf[v] => status[w] # "live"
    BY <1>0, <1>2 DEF FactoryReturns, Alone, InFactory
  <2> QED BY <1>0, <2>1 DEF Alone, InFactory
<1>3. CASE FactoryChecks(v) \/ Negotiate(v) \/ Announce(v)
  <2>1. /\ status' = status \/ status' = [status EXCEPT ![v] = "gone"]
        /\ \/ platform'.at \in InFactory /\ platform'.view = v /\ platform.view = v
              /\ platform.at \in InFactory
           \/ platform'.at = "idle"
    BY <1>0, <1>3 DEF FactoryChecks, Negotiate, Announce, Refused, InFactory
  <2>2. \A w \in Views : status'[w] = "live" => status[w] = "live"
    BY <1>0, <2>1
  <2> QED BY <2>1, <2>2 DEF Alone, InFactory
<1>4. CASE (\E at \in {"renegotiate", "clear"} : CallBack(v, at)) \/ BackStep(v)
  <2>1. /\ status' = status \/ status' = [status EXCEPT ![v] = "gone"]
        /\ platform'.at \notin InFactory
    BY <1>0, <1>4 DEF CallBack, BackStep, Renegotiate, Regrant, DisposeClears, DisposeSends, InFactory
  <2>2. \A w \in Views : status'[w] = "live" => status[w] = "live"
    BY <1>0, <2>1
  <2> QED BY <2>1, <2>2 DEF Alone
<1> QED BY <1>1, <1>2, <1>3, <1>4 DEF ViewCall, FactoryStep

LEMMA PlatformKeepsViews ==
  ASSUME TypeOK, LifeInv, PlatformInv, ViewsInv, NEW v \in Views, ViewCall(v)
  PROVE  ViewsInv'
<1>0. /\ running \in Servers \cup {None} /\ told \in [Views -> Servers \cup {None}]
      /\ status \in [Views -> {"new", "live", "gone"}]
      /\ thread \in [Servers -> ThreadStates]
      /\ Turns /\ Clean /\ Started /\ Tellable /\ Fresh /\ Alone /\ Settled /\ TypeOK
  BY DEF TypeOK, ViewsInv
<1>1. Alone'
  BY <1>0, PlatformKeepsAlone
<1>2. UNCHANGED <<callVars, running, registered, thread, views, submitting>>
  BY DEF ViewCall, CallFactory, CallBack, FactoryStep, FactoryChecks, Negotiate, Announce,
     FactoryReturns, BackStep, Renegotiate, Regrant, DisposeClears, DisposeSends, serverVars
<1>3. Started'
  BY <1>0, <1>2 DEF Started
<1> USE PlatformIs, PlatformNames
<1>4. ASSUME UNCHANGED <<chan, told>>, Tellable' PROVE ViewsInv'
  <2>1. UNCHANGED <<call, target>>
    BY <1>2 DEF callVars
  <2>2. Turns' /\ Clean' /\ Fresh' /\ Settled'
    BY <1>0, <1>2, <1>4, <2>1 DEF Turns, Clean, Fresh, Settled, Sendable
  <2> QED BY <1>1, <1>3, <1>4, <2>2 DEF ViewsInv
\* Nothing is said to have been told but what lives, or returns.
<1>5. ASSUME platform.at \in InFactory, platform.view = v, platform.at # "return" PROVE told[v] = None
  BY <1>0, <1>5 DEF PlatformInv, Tellable
<1>6. CASE (\E locked \in BOOLEAN : CallFactory(v, locked)) \/ FactoryChecks(v) \/ Negotiate(v)
  <2>1. /\ UNCHANGED <<chan, told>> /\ platform.at \in {"idle", "check", "negotiate"}
        /\ status' = status \/ (status' = [status EXCEPT ![v] = "gone"] /\ told[v] = None)
    BY <1>0, <1>5, <1>6 DEF CallFactory, FactoryChecks, Negotiate, Refused, serverVars, InFactory
  <2>2. Tellable'
    BY <1>0, <1>2, <2>1 DEF Tellable
  <2> QED BY <1>4, <2>1, <2>2
<1>7. CASE FactoryReturns(v)
  <2>1. /\ UNCHANGED <<chan, told>> /\ platform.view = v /\ status' = [status EXCEPT ![v] = "live"]
    BY <1>7 DEF FactoryReturns, serverVars
  <2>2. Tellable'
    BY <1>0, <1>2, <2>1 DEF Tellable
  <2> QED BY <1>4, <2>1, <2>2
<1>8. CASE \/ \E at \in {"renegotiate", "clear"} : CallBack(v, at)
           \/ Renegotiate(v) \/ Regrant(v) \/ DisposeClears(v)
  <2>1. UNCHANGED <<chan, told, status>> /\ platform.at # "return"
    BY <1>8 DEF CallBack, Renegotiate, Regrant, DisposeClears, serverVars
  <2>2. Tellable'
    BY <1>0, <1>2, <2>1 DEF Tellable
  <2> QED BY <1>4, <2>1, <2>2
<1>9. CASE Announce(v)
  <2> DEFINE m == Created(v)
  <2>1. /\ platform.at = "announce" /\ platform.view = v
        /\ chan' = IF Sendable(running) THEN [chan EXCEPT ![running] = Append(@, m)] ELSE chan
        /\ IF Sendable(running)
           THEN platform'.at = "return" /\ platform'.view = v /\ told' = [told EXCEPT ![v] = running]
                /\ UNCHANGED status
           ELSE status' = [status EXCEPT ![v] = "gone"] /\ UNCHANGED told
    BY <1>0, <1>9 DEF Announce, Send, Created, Refused
  <2>2. m \in Cmd
    BY CmdTypes DEF Created
  <2>3. told[v] = None /\ \A w \in Views : IdOf[w] = IdOf[v] => status[w] # "live" /\ told[w] = None
    BY <1>0, <1>5, <2>1 DEF InFactory, Alone, Tellable
  <2>4. \A w \in Views : Sendable(running) /\ IdOf[w] = IdOf[v] => ~Has(chan[running], views[running], w)
    BY <1>0, <2>3, NoneAssumption DEF Settled, Sendable
  <2>5. \E u \in Views : m = Created(u) /\ \A w \in Views : Sendable(running) /\ IdOf[w] = IdOf[u]
                             => ~Has(chan[running], views[running], w)
    BY <2>4
  <2>6. /\ \A w \in Views : m = Created(w) <=> w = v
        /\ \A d : m # Disposed(d)
    BY CmdsDiffer
  <2> HIDE DEF m
  <2>7. UNCHANGED <<views, thread, call, target>>
    BY <1>2 DEF callVars
  <2>8. /\ Turns' /\ Clean'
        /\ \A s \in Servers : ~Sendable(s) \/ s # running => chan'[s] = chan[s]
        /\ Sendable(running) => running \in Servers /\ \A w \in Views :
             Has(chan'[running], views'[running], w) <=>
               \/ m = Created(w)
               \/ Has(chan[running], views[running], w) /\ m # Disposed(IdOf[w])
    BY <1>0, <2>1, <2>2, <2>5, <2>7, SentKeeps
  <2>9. Fresh'
    <3>1. ASSUME NEW c \in Callers, call[c] = "boot" PROVE ~Sendable(running) /\ UNCHANGED <<told, chan>>
      BY <2>1, <3>1, NoneAssumption DEF LifeInv, Emptied, Sendable
    <3> QED BY <1>0, <2>7, <3>1 DEF Fresh
  <2>10. CASE Sendable(running)
    <3>1. running \in Servers /\ running' = running /\ thread[running] # "none"
          /\ \A w \in Views : told'[w] = IF w = v THEN running ELSE told[w]
      BY <1>0, <1>2, <2>1, <2>8, <2>10 DEF Sendable
    <3>2. Tellable'
      BY <1>0, <2>1, <2>7, <2>10, <3>1, NoneAssumption DEF Tellable
    <3>3. ASSUME NEW w \in Views
          PROVE  Has(chan'[running], views'[running], w) <=> told'[w] = running
      BY <1>0, <2>6, <2>8, <2>10, <3>1, <3>3 DEF Settled
    <3>4. Settled'
      BY <3>1, <3>3 DEF Settled
    <3> QED BY <1>1, <1>3, <2>8, <2>9, <3>2, <3>4 DEF ViewsInv
  <2>11. CASE ~Sendable(running)
    <3>1. UNCHANGED <<chan, told>> /\ status' = [status EXCEPT ![v] = "gone"]
      BY <2>1, <2>11
    <3>2. Tellable'
      BY <1>0, <2>1, <2>3, <2>7, <3>1 DEF Tellable
    <3> QED BY <1>4, <3>1, <3>2
  <2> QED BY <2>10, <2>11
<1>10. CASE DisposeSends(v)
  <2> DEFINE m == Disposed(IdOf[v])
  <2>1. /\ platform.at = "part" /\ platform.view = v
        /\ chan' = IF Sendable(running) THEN [chan EXCEPT ![running] = Append(@, m)] ELSE chan
        /\ told' = [told EXCEPT ![v] = None]
        /\ status' = [status EXCEPT ![v] = "gone"]
    BY <1>10 DEF DisposeSends, Send, Disposed
  <2>2. m \in Cmd /\ (\A u \in Views : m # Created(u)) /\ status[v] = "live"
        /\ \A w \in Views : m = Disposed(IdOf[w]) <=> IdOf[w] = IdOf[v]
    BY <2>1, CmdTypes, CmdsDiffer DEF Disposed, PlatformInv, InCallback
  <2> HIDE DEF m
  <2>3. UNCHANGED <<views, thread, call, target>> /\ running' = running
    BY <1>2 DEF callVars
  <2>4. /\ Turns' /\ Clean'
        /\ \A s \in Servers : ~Sendable(s) \/ s # running => chan'[s] = chan[s]
        /\ Sendable(running) => running \in Servers /\ \A w \in Views :
             Has(chan'[running], views'[running], w) <=>
               \/ m = Created(w)
               \/ Has(chan[running], views[running], w) /\ m # Disposed(IdOf[w])
    BY <1>0, <2>1, <2>2, <2>3, SentKeeps
  <2>5. \A w \in Views : told'[w] = IF w = v THEN None ELSE told[w]
    BY <1>0, <2>1
  <2>6. Tellable'
    BY <1>0, <2>1, <2>3, <2>5 DEF Tellable
  <2>7. Fresh'
    <3>1. ASSUME NEW c \in Callers, call[c] = "boot" PROVE UNCHANGED chan
      BY <2>1, <3>1, NoneAssumption DEF LifeInv, Emptied, Sendable
    <3> QED BY <1>0, <2>3, <2>5, <3>1, NoneAssumption DEF Fresh
  \* What was told under the id, and lives, is v.
  <2>8. \A w \in Views : told[w] # None /\ IdOf[w] = IdOf[v] => w = v
    BY <1>0, <2>1, <2>2 DEF Tellable, Alone
  <2>9. CASE Sendable(running)
    <3>1. ASSUME NEW w \in Views
          PROVE  Has(chan'[running], views'[running], w) <=> told'[w] = running
      BY <1>0, <2>2, <2>4, <2>5, <2>8, <2>9, NoneAssumption DEF Settled
    <3> QED BY <1>1, <1>3, <2>3, <2>4, <2>6, <2>7, <2>9, <3>1 DEF Settled, ViewsInv
  <2>10. CASE ~Sendable(running)
    <3>1. ASSUME NEW s \in Servers, running = s
          PROVE  ~Sendable(s)' /\ \A w \in Views : ~Has(chan'[s], views'[s], w)
      BY <1>0, <2>1, <2>3, <2>10, <3>1, EndedHasNone DEF Sendable
    <3>2. Settled'
      BY <2>3, <3>1 DEF Settled
    <3> QED BY <1>1, <1>3, <2>4, <2>6, <2>7, <3>2 DEF ViewsInv
  <2> QED BY <2>9, <2>10
<1> QED BY <1>6, <1>7, <1>8, <1>9, <1>10 DEF ViewCall, FactoryStep, BackStep

LEMMA ServersKeepViews ==
  ASSUME TypeOK, ViewsInv, NEW s \in Servers, ServerStep(s)
  PROVE  ViewsInv'
<1>0. /\ running \in Servers \cup {None} /\ \A v \in Views : told[v] \in Servers \cup {None}
      /\ call \in [Callers -> CallStates] /\ thread \in [Servers -> ThreadStates]
      /\ chan \in [Servers -> Seq(Cmd)] /\ views \in [Servers -> [Ids -> Views \cup {None}]]
      /\ Turns /\ Clean /\ Started /\ Tellable /\ Fresh /\ Alone /\ Settled /\ TypeOK
  BY DEF TypeOK, ViewsInv
<1>1. CASE \/ StartsUp(s) \/ SubmitReturns(s) \/ Exit(s) \/ LeaveLoop(s) \/ Die(s)
           \/ \E v \in Views : Submit(s, v)
           \/ \E c \in Callers : Answer(s, c)
  <2>1. UNCHANGED <<running, chan, views, told, platform, status, target>>
    BY <1>1 DEF StartsUp, SubmitReturns, Exit, LeaveLoop, Die, Submit, Answer, callVars, serverVars, viewVars
  <2>2. \A c \in Callers : call'[c] = "boot" => call[c] = "boot"
    BY <1>0, <1>1 DEF StartsUp, SubmitReturns, Exit, LeaveLoop, Die, Submit, Answer, callVars, Go
  <2>3. \/ UNCHANGED thread
        \/ /\ thread[s] \in {"starting", "up", "stopping", "exiting"}
           /\ \/ thread[s] = "starting" /\ thread' = [thread EXCEPT ![s] = "up"]
              \/ thread[s] = "starting" /\ thread' = [thread EXCEPT ![s] = "failed"]
              \/ thread[s] \in {"up", "stopping"} /\ thread' = [thread EXCEPT ![s] = "dropping"]
              \/ thread[s] = "exiting" /\ thread' = [thread EXCEPT ![s] = "done"]
    BY <1>1 DEF StartsUp, SubmitReturns, Exit, LeaveLoop, Die, Submit, Answer, ThreadGoes, serverVars
  <2>4. \A t \in Servers :
           /\ thread'[t] \in {"none", "starting"} => thread[t] = thread'[t]
           /\ thread'[t] \in Quiet => thread[t] \in Quiet
           /\ running = t /\ Sendable(t)' => Sendable(t)
    BY <1>0, <2>3, NoneAssumption DEF Quiet, Sendable, Started
  <2> QED BY <1>0, <2>1, <2>2, <2>4, ViewsStay
<1>2. CASE Drop(s)
  <2>1. /\ thread[s] = "dropping" /\ thread' = [thread EXCEPT ![s] = "exiting"]
        /\ chan' = [chan EXCEPT ![s] = <<>>] /\ views' = [views EXCEPT ![s] = Unused]
        /\ UNCHANGED <<running, told, platform, status, target>>
        /\ \A c \in Callers : call'[c] = "boot" => call[c] = "boot"
    BY <1>2 DEF Drop, ThreadGoes, Unused, viewVars
  <2>2. /\ chan'[s] = <<>> /\ views'[s] = Unused /\ thread'[s] = "exiting"
        /\ \A t \in Servers : t # s => UNCHANGED <<chan[t], views[t], thread[t]>>
    BY <1>0, <2>1
  <2>3. Turns' /\ Clean' /\ Alone'
    BY <1>0, <2>1, <2>2, NothingYet DEF Turns, Clean, Alone
  <2>4. Started' /\ Tellable' /\ Fresh'
    BY <1>0, <2>1, <2>2 DEF Started, Tellable, Fresh
  <2>5. Settled'
    <3>1. ~Sendable(s)' /\ \A t \in Servers : t # s => (Sendable(t)' <=> Sendable(t))
      BY <2>2 DEF Sendable
    <3> QED BY <1>0, <2>1, <2>2, <3>1, NothingYet DEF Settled
  <2> QED BY <2>3, <2>4, <2>5 DEF ViewsInv
<1>3. CASE HandleCmd(s)
  <2>1. /\ thread[s] \in {"up", "stopping"} /\ chan[s] # <<>> /\ chan' = [chan EXCEPT ![s] = Tail(@)]
        /\ UNCHANGED <<call, target, running, told, platform, status>>
    BY <1>3 DEF HandleCmd, Looping, callVars, viewVars
  <2>2. Head(chan[s]) \in Cmd
    BY <1>0, <2>1, TailKeeps
  <2>3. /\ views'[s] \in [Ids -> Views \cup {None}]
        /\ \A t \in Servers : t # s => UNCHANGED <<chan[t], views[t], thread[t]>>
        /\ \/ thread'[s] = thread[s] \/ thread'[s] = "stopping"
        /\ \/ \E u \in Views : Head(chan[s]) = Created(u) /\ views'[s] = [views[s] EXCEPT ![IdOf[u]] = u]
           \/ \E e \in Ids : Head(chan[s]) = Disposed(e) /\ views'[s] = [views[s] EXCEPT ![e] = None]
           \/ Head(chan[s]).kind = "quit" /\ views'[s] = views[s]
    <3>1. CASE Head(chan[s]).kind = "created"
      <4> DEFINE u == Head(chan[s]).of
      <4>1. u \in Views /\ IdOf[u] \in Ids /\ Head(chan[s]) = Created(u)
        BY <2>2, <3>1, CmdTypes DEF Created, Cmd
      <4>2. views' = [views EXCEPT ![s][IdOf[u]] = u] /\ UNCHANGED thread
        BY <1>3, <3>1 DEF HandleCmd
      <4>3. views'[s] = [views[s] EXCEPT ![IdOf[u]] = u] /\ \A t \in Servers : t # s => views'[t] = views[t]
        BY <1>0, <4>2
      <4> HIDE DEF u
      <4> QED BY <1>0, <2>1, <4>1, <4>2, <4>3
    <3>2. CASE Head(chan[s]).kind = "disposed"
      <4> DEFINE e == Head(chan[s]).of
      <4>1. e \in Ids /\ Head(chan[s]) = Disposed(e)
        BY <2>2, <3>2, CmdTypes DEF Disposed, Cmd
      <4>2. views' = [views EXCEPT ![s][e] = None] /\ UNCHANGED thread
        BY <1>3, <3>2 DEF HandleCmd
      <4>3. views'[s] = [views[s] EXCEPT ![e] = None] /\ \A t \in Servers : t # s => views'[t] = views[t]
        BY <1>0, <4>2
      <4> HIDE DEF e
      <4> QED BY <1>0, <2>1, <4>1, <4>2, <4>3
    <3>3. CASE Head(chan[s]).kind = "quit"
      <4>1. UNCHANGED views /\ thread' = [thread EXCEPT ![s] = "stopping"]
        BY <1>3, <3>3 DEF HandleCmd, ThreadGoes
      <4> QED BY <1>0, <2>1, <3>3, <4>1
    <3> QED BY <1>3, <3>1, <3>2, <3>3 DEF HandleCmd
  <2>4. /\ chan[s] \in Seq(Cmd) /\ views[s] \in [Ids -> Views \cup {None}] /\ InTurn(chan[s], views[s])
        /\ chan'[s] = Tail(chan[s])
    BY <1>0, <2>1 DEF Turns
  <2>5. /\ InTurn(chan'[s], views'[s])
        /\ \A v \in Views : Has(chan'[s], views'[s], v) <=> Has(chan[s], views[s], v)
    <3> DEFINE q == chan[s]
               old == views[s]
               new == views'[s]
    <3>1. /\ q \in Seq(Cmd) /\ q # <<>> /\ old \in [Ids -> Views \cup {None}]
          /\ new \in [Ids -> Views \cup {None}] /\ InTurn(q, old)
          /\ \/ \E u \in Views : Head(q) = Created(u) /\ new = [old EXCEPT ![IdOf[u]] = u]
             \/ \E e \in Ids : Head(q) = Disposed(e) /\ new = [old EXCEPT ![e] = None]
             \/ Head(q).kind = "quit" /\ new = old
      BY <2>1, <2>3, <2>4
    <3> HIDE DEF q, old, new
    <3>2. InTurn(Tail(q), new) /\ \A v \in Views : Has(Tail(q), new, v) <=> Has(q, old, v)
      BY <3>1, HandlingKeeps
    <3> QED BY <2>4, <3>2 DEF q, old, new
  <2>6. Turns' /\ Alone'
    BY <1>0, <2>1, <2>3, <2>5 DEF Turns, Alone
  <2>7. Clean' /\ Started' /\ Tellable'
    BY <1>0, <2>1, <2>3 DEF Clean, Started, Tellable, Quiet
  <2>8. Fresh'
    BY <1>0, <2>1, <2>3 DEF Fresh
  <2>9. Settled'
    <3>1. Sendable(s) /\ \A t \in Servers : t # s => (Sendable(t)' <=> Sendable(t))
      BY <2>1, <2>3, NoneAssumption DEF Sendable
    <3> QED BY <1>0, <2>1, <2>3, <2>5, <3>1 DEF Settled
  <2> QED BY <2>6, <2>7, <2>8, <2>9 DEF ViewsInv
<1> QED BY <1>1, <1>2, <1>3 DEF ServerStep, ThreadStep

LEMMA ViewsInvKept == TypeOK /\ LifeInv /\ LinkInv /\ ViewsInv /\ [Next]_vars => ViewsInv'
<1> SUFFICES ASSUME TypeOK, LifeInv, LinkInv, ViewsInv, [Next]_vars PROVE ViewsInv'
  OBVIOUS
<1>1. PlatformInv
  BY DEF LinkInv
<1>2. CASE UNCHANGED vars
  BY <1>2 DEF vars, callVars, serverVars, viewVars, ViewsInv, Turns, Clean, Started, Tellable, Fresh,
              Alone, Settled, Sendable
<1> QED BY <1>1, <1>2, NextSplits, CallersKeepViews, PlatformKeepsViews, ServersKeepViews

\* No view is made under an id its server still has: whatever is stopped, started
\* and disposed between, what had the id is given up first.
THEOREM IdAlwaysFree == Spec => []IdIsFree
<1>1. TypeOK /\ ViewsInv => IdIsFree
  <2> SUFFICES ASSUME TypeOK, ViewsInv, NEW s \in Servers, chan[s] # <<>>, Head(chan[s]).kind = "created"
               PROVE  views[s][IdOf[Head(chan[s]).of]] = None
    BY DEF IdIsFree
  <2> DEFINE v == Head(chan[s]).of
             q == chan[s]
  <2>1. q \in Seq(Cmd) /\ InTurn(q, views[s])
    BY DEF TypeOK, ViewsInv, Turns
  <2>2. Head(q) \in Cmd /\ 1 \in 1 .. Len(q) /\ q[1] = Head(q)
    BY <2>1
  <2>3. v \in Views /\ q[1] = Created(v)
    BY <2>2, CmdTypes DEF Created, Cmd
  <2> HIDE DEF v, q
  <2>4. ~Between(q, 0, 1, IdOf[v])
    BY DEF Between
  <2>5. views[s][IdOf[v]] = None
    BY <2>1, <2>2, <2>3, <2>4 DEF InTurn
  <2> QED BY <2>5 DEF v, q
<1> QED BY <1>1, LifecycleTypeCorrect, LifeStarts, LifeKept, LinkStarts, LinksKept, ViewsStart,
           ViewsInvKept, PTL DEF Spec

\* The running server, once it has handled what it was sent, has just the views
\* made for it and not disposed.
THEOREM ViewsAlwaysKnown == Spec => []KnowsItsViews
<1>1. ViewsInv => KnowsItsViews
  <2> SUFFICES ASSUME ViewsInv, NEW s \in Servers, running = s, thread[s] = "up", chan[s] = <<>>,
                      NEW v \in Views
               PROVE  views[s][IdOf[v]] = v <=> told[v] = s
    BY DEF KnowsItsViews
  <2>1. Has(chan[s], views[s], v) <=> told[v] = s
    BY NoneAssumption DEF ViewsInv, Settled, Sendable
  <2>2. Len(chan[s]) = 0
    OBVIOUS
  <2>3. Has(chan[s], views[s], v) <=> views[s][IdOf[v]] = v
    BY <2>2 DEF Has, Between
  <2> QED BY <2>1, <2>3
<1> QED BY <1>1, LifecycleTypeCorrect, LifeStarts, LifeKept, LinkStarts, LinksKept, ViewsStart,
           ViewsInvKept, PTL DEF Spec

-----------------------------------------------------------------------------
(* Waiting *)

Ran == {"up", "stopping", "dropping", "exiting", "done"}

\* The thread of s ends, or was told to and still reads what it is told.
Ending(s) ==
  \/ thread[s] \in {"stopping", "dropping", "exiting", "done"}
  \/ thread[s] = "up" /\ \E i \in DOMAIN chan[s] : chan[s][i].kind = "quit"

RegistryInFactory == ~RegistryFree => platform.at \in InFactory
RunningRan == running # None => thread[running] \in Ran
\* Whoever is making or stopping a server has one, that has come as far.
TargetsRan ==
  \A c \in Callers :
    /\ call[c] \in {"boot", "quit", "join"} => target[c] \in Servers
    /\ call[c] = "boot" => thread[target[c]] # "none"
    /\ call[c] = "quit" => thread[target[c]] \in Ran
    /\ call[c] = "join" => Ending(target[c])

WaitInv == RegistryInFactory /\ RunningRan /\ TargetsRan

LEMMA WaitStarts == Init => WaitInv
BY DEF Init, WaitInv, RegistryInFactory, RunningRan, TargetsRan, RegistryFree

\* Threads only go on.
GoesOn(s) ==
  /\ thread[s] \in Ran => thread'[s] \in Ran
  /\ thread[s] # "none" => thread'[s] # "none"
  /\ Ending(s) => Ending(s)'

\* Who is making or stopping a server is so with the same one.
SameTargets ==
  \A c \in Callers : call'[c] \in {"boot", "quit", "join"} =>
    call'[c] = call[c] /\ target'[c] = target[c]

LEMMA WaitStays ==
  ASSUME WaitInv, \A s \in Servers : GoesOn(s), SameTargets,
         running \in Servers \cup {None}, running' \in {running, None}, RegistryInFactory'
  PROVE  WaitInv'
<1>1. RunningRan'
  BY DEF WaitInv, RunningRan, GoesOn
<1>2. TargetsRan'
  BY DEF WaitInv, TargetsRan, SameTargets, GoesOn
<1> QED BY <1>1, <1>2 DEF WaitInv

LEMMA CallersKeepWaits ==
  ASSUME TypeOK, WaitInv, NEW c \in Callers,
         CallerStep(c) \/ \E what \in {"start", "stop", "ask"} : Call(c, what)
  PROVE  WaitInv'
<1>0. /\ running \in Servers \cup {None} /\ call \in [Callers -> CallStates]
      /\ target \in [Callers -> Servers \cup {None}] /\ thread \in [Servers -> ThreadStates]
      /\ RegistryInFactory /\ RunningRan /\ TargetsRan
  BY DEF TypeOK, WaitInv
<1>1. RegistryInFactory'
  <2>1. platform' = platform
    BY DEF CallerStep, Call, LockLifecycle, StartStep, StartLocks, AlreadyRunning, Reap, Spawn, SpawnFails, Booted,
       BootFails, Register, StopStep, StopChecks, Unregister, Take, SendQuit, Join, AskStep, AskSends, Answered,
       TimesOut, viewVars
  <2> QED BY <1>0, <2>1 DEF RegistryInFactory, RegistryFree
<1>2. CASE \/ \E what \in {"start", "stop", "ask"} : Call(c, what)
           \/ LockLifecycle(c) \/ StartLocks(c) \/ AlreadyRunning(c) \/ Reap(c) \/ SpawnFails(c) \/ Register(c)
           \/ StopChecks(c) \/ Unregister(c) \/ Join(c) \/ AskStep(c)
  <2>1. /\ UNCHANGED <<thread, chan>> /\ running' \in {running, None}
    BY <1>2 DEF Call, LockLifecycle, StartLocks, AlreadyRunning, Reap, SpawnFails, Register, StopChecks,
       Unregister, Join, AskStep, AskSends, Answered, TimesOut, serverVars
  <2>2. SameTargets
    BY <1>0, <1>2 DEF SameTargets, Call, LockLifecycle, StartLocks, AlreadyRunning, Reap, SpawnFails, Register,
       StopChecks, Unregister, Join, AskStep, AskSends, Answered, TimesOut, Go, Release
  <2>3. \A s \in Servers : GoesOn(s)
    BY <2>1 DEF GoesOn, Ending
  <2> QED BY <1>0, <1>1, <2>1, <2>2, <2>3, WaitStays
<1>3. ASSUME NEW s \in Servers, Spawn(c, s) PROVE WaitInv'
  <2>1. /\ UNCHANGED running /\ thread[s] = "none" /\ thread' = [thread EXCEPT ![s] = "starting"]
        /\ UNCHANGED chan /\ call'[c] = "boot" /\ target'[c] = s
        /\ \A d \in Callers : d # c => call'[d] = call[d] /\ target'[d] = target[d]
    BY <1>0, <1>3 DEF Spawn, Go
  <2>2. \A t \in Servers : GoesOn(t)
    BY <1>0, <2>1 DEF GoesOn, Ran, Ending
  <2>3. TargetsRan'
    BY <1>0, <2>1, <2>2 DEF TargetsRan, GoesOn
  <2> QED BY <1>0, <1>1, <2>1, <2>2, <2>3 DEF WaitInv, RunningRan, GoesOn
<1>4. CASE Booted(c)
  <2>1. /\ call[c] = "boot" /\ thread[target[c]] \notin {"starting", "failed"}
        /\ running' = target[c] /\ UNCHANGED <<target, thread, chan>> /\ call'[c] = "register"
        /\ \A d \in Callers : d # c => call'[d] = call[d]
    BY <1>0, <1>4 DEF Booted, Go, serverVars
  <2>2. target[c] \in Servers /\ thread[target[c]] \in Ran
    BY <1>0, <2>1 DEF TargetsRan, ThreadStates, Ran
  <2>3. TargetsRan'
    BY <1>0, <2>1 DEF TargetsRan, Ending
  <2> QED BY <1>1, <2>1, <2>2, <2>3 DEF WaitInv, RunningRan
<1>5. CASE BootFails(c)
  <2>1. /\ call[c] = "boot" /\ thread' = [thread EXCEPT ![target[c]] = "done"]
        /\ UNCHANGED <<running, chan>> /\ target[c] \in Servers
    BY <1>0, <1>5 DEF BootFails, TargetsRan
  <2>2. SameTargets
    BY <1>0, <1>5 DEF BootFails, Go, Release, SameTargets
  <2>3. \A s \in Servers : GoesOn(s)
    BY <1>0, <2>1 DEF GoesOn, Ran, Ending
  <2> QED BY <1>0, <1>1, <2>1, <2>2, <2>3, WaitStays
<1>6. CASE Take(c)
  <2>1. /\ running' = None /\ UNCHANGED <<thread, chan>> /\ target'[c] = running
        /\ call'[c] = IF running = None THEN "idle" ELSE "quit"
        /\ \A d \in Callers : d # c => call'[d] = call[d] /\ target'[d] = target[d]
    BY <1>0, <1>6 DEF Take, Go, serverVars
  <2>2. TargetsRan'
    BY <1>0, <2>1, NoneAssumption DEF TargetsRan, RunningRan, Ending
  <2> QED BY <1>1, <2>1, <2>2 DEF WaitInv, RunningRan
<1>7. CASE SendQuit(c)
  <2> DEFINE quit == [kind |-> "quit", of |-> None]
             s == target[c]
  <2>1. /\ call[c] = "quit" /\ UNCHANGED <<running, thread, target>> /\ call'[c] = "join"
        /\ \A d \in Callers : d # c => call'[d] = call[d]
        /\ chan' = IF Sendable(s) THEN [chan EXCEPT ![s] = Append(@, quit)] ELSE chan
    BY <1>0, <1>7 DEF SendQuit, Go
  <2>2. s \in Servers /\ thread[s] \in Ran /\ s # None
    BY <1>0, <2>1, NoneAssumption DEF TargetsRan
  <2>3. chan \in [Servers -> Seq(Cmd)] /\ quit \in Cmd /\ quit.kind = "quit"
    BY CmdTypes DEF TypeOK
  <2> HIDE DEF quit, s
  <2>4. ASSUME NEW t \in Servers PROVE GoesOn(t) /\ (t = s => Ending(t)')
    <3>1. chan[t] \in Seq(Cmd) /\ Len(chan[t]) \in Nat
      BY <2>3
    <3>2. \/ chan'[t] = chan[t] /\ ~(t = s /\ Sendable(s))
          \/ chan'[t] = Append(chan[t], quit) /\ t = s
      BY <2>1, <2>3
    <3>3. \A i \in DOMAIN chan[t] : i \in DOMAIN chan'[t] /\ chan'[t][i] = chan[t][i]
      BY <2>3, <3>1, <3>2
    <3>4. GoesOn(t)
      BY <2>1, <3>3 DEF GoesOn, Ending
    <3>5. CASE t = s /\ thread[s] = "up"
      <4>1. chan'[t] = Append(chan[t], quit)
        BY <2>2, <3>2, <3>5 DEF Sendable
      <4>2. Len(chan[t]) + 1 \in DOMAIN chan'[t] /\ chan'[t][Len(chan[t]) + 1] = quit
        BY <2>3, <3>1, <4>1
      <4> QED BY <2>1, <2>3, <3>4, <3>5, <4>2 DEF Ending
    <3>6. CASE t = s /\ thread[s] # "up"
      BY <2>1, <2>2, <3>4, <3>6 DEF Ending, Ran
    <3> QED BY <3>4, <3>5, <3>6
  <2>5. TargetsRan'
    BY <1>0, <2>1, <2>2, <2>4 DEF TargetsRan, GoesOn, s
  <2>6. RunningRan'
    BY <1>0, <2>1 DEF RunningRan
  <2> QED BY <1>1, <2>5, <2>6 DEF WaitInv
<1> QED BY <1>2, <1>3, <1>4, <1>5, <1>6, <1>7 DEF CallerStep, StartStep, StopStep

LEMMA PlatformKeepsWaits ==
  ASSUME TypeOK, WaitInv, NEW v \in Views, ViewCall(v)
  PROVE  WaitInv'
<1>1. UNCHANGED <<call, target, running, thread>>
  BY DEF ViewCall, CallFactory, CallBack, FactoryStep, FactoryChecks, Negotiate,
         Announce, FactoryReturns, BackStep, Renegotiate, Regrant, DisposeClears,
         DisposeSends, callVars, serverVars
<1>2. RegistryInFactory'
  <2>0. platform \in [at : PlatformStates, view : Views \cup {None}, locked : BOOLEAN]
    BY DEF TypeOK
  <2>1. RegistryInFactory
    BY DEF WaitInv
  <2>2. CASE \/ \E locked \in BOOLEAN : CallFactory(v, locked)
    BY <2>2 DEF CallFactory, RegistryInFactory, InFactory
  <2>3. CASE \E at \in {"renegotiate", "clear"} : CallBack(v, at)
    BY <2>0, <2>1, <2>3 DEF CallBack, Platform, RegistryInFactory, RegistryFree, InFactory
  <2>4. ASSUME NEW at \in PlatformStates, Platform(at, v), platform.at \in InFactory => at \in InFactory
        PROVE  RegistryInFactory'
    <3>1. platform'.at = at /\ platform'.locked = platform.locked
      BY <2>0, <2>4 DEF Platform
    <3> QED BY <2>1, <2>4, <3>1 DEF RegistryInFactory, RegistryFree
  <2>5. ASSUME PlatformIdle PROVE RegistryInFactory'
    BY <2>5 DEF PlatformIdle, RegistryInFactory, RegistryFree
  <2>6. CASE FactoryStep(v)
    <3>1. \/ PlatformIdle
          \/ Platform("negotiate", v) \/ Platform("announce", v) \/ Platform("return", v)
      BY <2>6 DEF FactoryStep, FactoryChecks, Negotiate, Announce, FactoryReturns, Refused
    <3> QED BY <2>4, <2>5, <3>1, PlatformNames DEF InFactory
  <2>7. CASE BackStep(v)
    <3>1. \/ PlatformIdle
          \/ platform.at \notin InFactory /\ (Platform("regrant", v) \/ Platform("part", v))
      BY <2>7 DEF BackStep, Renegotiate, Regrant, DisposeClears, DisposeSends, InFactory
    <3> QED BY <2>4, <2>5, <3>1, PlatformNames
  <2> QED BY <2>2, <2>3, <2>6, <2>7 DEF ViewCall
<1>3. ASSUME NEW s \in Servers PROVE GoesOn(s)
  <2>1. ASSUME NEW i \in DOMAIN chan[s], chan[s][i].kind = "quit"
        PROVE  i \in DOMAIN chan'[s] /\ chan'[s][i] = chan[s][i]
    <3>1. chan \in [Servers -> Seq(Cmd)] /\ chan[s] \in Seq(Cmd)
      BY DEF TypeOK
    <3>2. CASE chan' = chan
      BY <3>2
    <3>3. CASE \E m \in Cmd : Send(m)
      BY <2>1, <3>1, <3>3 DEF Send, Sendable
    <3>4. chan' = chan \/ \E m \in Cmd : Send(m)
      BY CmdTypes DEF ViewCall, CallFactory, CallBack, FactoryStep, FactoryChecks, Negotiate,
         Announce, FactoryReturns, BackStep, Renegotiate, Regrant, DisposeClears,
         DisposeSends, serverVars
    <3> QED BY <3>2, <3>3, <3>4
  <2> QED BY <1>1, <2>1 DEF GoesOn, Ending
<1>4. SameTargets
  BY <1>1 DEF SameTargets
<1> QED BY <1>1, <1>2, <1>3, <1>4, WaitStays DEF TypeOK

LEMMA ServersKeepWaits ==
  ASSUME TypeOK, WaitInv, NEW s \in Servers, ServerStep(s)
  PROVE  WaitInv'
<1>0. /\ call \in [Callers -> CallStates] /\ thread \in [Servers -> ThreadStates]
      /\ running \in Servers \cup {None} /\ chan \in [Servers -> Seq(Cmd)]
  BY DEF TypeOK
<1>1. UNCHANGED <<running, target, platform>>
  BY DEF ServerStep, ThreadStep, StartsUp, SubmitReturns, Drop, Exit, HandleCmd, LeaveLoop, Die, Submit,
     Answer, callVars, viewVars
<1>2. RegistryInFactory'
  BY <1>1 DEF WaitInv, RegistryInFactory, RegistryFree
<1>3. SameTargets
  BY <1>0, <1>1 DEF SameTargets, ServerStep, ThreadStep, StartsUp, SubmitReturns, Drop, Exit, HandleCmd, LeaveLoop,
     Die, Submit, Answer, callVars, Go
<1>4. ASSUME NEW t \in Servers PROVE GoesOn(t)
  <2>1. CASE HandleCmd(s)
    <3>1. /\ thread[s] \in {"up", "stopping"} /\ chan[s] # <<>> /\ chan' = [chan EXCEPT ![s] = Tail(@)]
          /\ UNCHANGED thread \/ thread' = [thread EXCEPT ![s] = "stopping"]
          /\ Head(chan[s]).kind = "quit" => thread' = [thread EXCEPT ![s] = "stopping"]
      BY <2>1 DEF HandleCmd, Looping, ThreadGoes
    <3>2. ASSUME t = s, thread'[s] # "stopping", NEW i \in DOMAIN chan[s], chan[s][i].kind = "quit"
          PROVE  i - 1 \in DOMAIN chan'[s] /\ chan'[s][i - 1] = chan[s][i]
      <4>1. chan[s] \in Seq(Cmd) /\ chan'[s] = Tail(chan[s]) /\ thread'[s] # "stopping"
        BY <1>0, <3>1, <3>2
      <4>2. Head(chan[s]).kind # "quit" /\ Head(chan[s]) = chan[s][1]
        BY <1>0, <3>1, <4>1
      <4>3. i \in 1 .. Len(chan[s]) /\ i # 1 /\ Len(chan[s]) \in Nat
        BY <3>2, <4>1, <4>2
      <4>4. i - 1 \in 1 .. Len(Tail(chan[s])) /\ Tail(chan[s])[i - 1] = chan[s][i]
        BY <3>1, <4>1, <4>3
      <4> QED BY <4>1, <4>4
    <3>3. CASE t # s
      BY <1>0, <3>1, <3>3 DEF GoesOn, Ending
    <3>4. CASE t = s
      BY <1>0, <3>1, <3>2, <3>4 DEF GoesOn, Ending, Ran
    <3> QED BY <3>3, <3>4
  <2>2. CASE Drop(s)
    BY <1>0, <2>2 DEF Drop, ThreadGoes, GoesOn, Ending, Ran
  <2>3. CASE \/ StartsUp(s) \/ SubmitReturns(s) \/ Exit(s) \/ LeaveLoop(s) \/ Die(s)
             \/ \E v \in Views : Submit(s, v)
             \/ \E c \in Callers : Answer(s, c)
    <3>1. UNCHANGED chan
      BY <2>3 DEF StartsUp, SubmitReturns, Exit, LeaveLoop, Die, Submit, Answer, serverVars
    <3>2. \/ UNCHANGED thread
          \/ thread[s] = "starting" /\ thread' = [thread EXCEPT ![s] = "up"]
          \/ thread[s] = "starting" /\ thread' = [thread EXCEPT ![s] = "failed"]
          \/ thread[s] \in {"up", "stopping"} /\ thread' = [thread EXCEPT ![s] = "dropping"]
          \/ thread[s] = "exiting" /\ thread' = [thread EXCEPT ![s] = "done"]
      BY <2>3 DEF StartsUp, SubmitReturns, Exit, LeaveLoop, Die, Submit, Answer, ThreadGoes, serverVars
    <3> QED BY <1>0, <3>1, <3>2 DEF GoesOn, Ending, Ran
  <2> QED BY <2>1, <2>2, <2>3 DEF ServerStep, ThreadStep
<1> QED BY <1>0, <1>1, <1>2, <1>3, <1>4, WaitStays

LEMMA WaitsKept == TypeOK /\ WaitInv /\ [Next]_vars => WaitInv'
<1> SUFFICES ASSUME TypeOK, WaitInv, [Next]_vars PROVE WaitInv'
  OBVIOUS
<1>1. CASE UNCHANGED vars
  BY <1>1 DEF vars, callVars, serverVars, viewVars, WaitInv, RegistryInFactory, RegistryFree, RunningRan,
     TargetsRan, Ending
<1> QED BY <1>1, NextSplits, CallersKeepWaits, PlatformKeepsWaits, ServersKeepWaits

\* The order of the locks: LIFECYCLE, the registry, SERVER.  Who holds SERVER waits
\* for a new thread at most, which takes none, and for the registry only of a shell
\* that never keeps it over the factory; a link is held by who waits for nobody.
LEMMA NoCircle ==
  ASSUME QueryAnswers,
         NEW C \in SUBSET Callers, NEW S \in SUBSET Servers, NEW platformIn \in BOOLEAN,
         Circle(C, S, platformIn)
  PROVE  C = {} /\ S = {} /\ ~platformIn
<1>1. S = {}
  BY DEF Circle
<1>2. \A c \in C : call[c] \notin InServer
  BY <1>1 DEF Circle, CallersAhead, InServer
<1>3. ~platformIn
  BY <1>1, <1>2 DEF Circle
<1>4. \A c \in C : call[c] \notin InLifecycle
  BY <1>1, <1>2, <1>3 DEF Circle, CallersAhead, InLifecycle, InServer
<1>5. C = {}
  BY <1>1, <1>2, <1>3, <1>4 DEF Circle, CallersAhead
<1> QED BY <1>1, <1>3, <1>5

\* The registry is held at most by a shell that may keep it over the factory.
Kept == RegistryFree \/ FactoryLocks

LEMMA KeptAlways ==
  /\ Init => Kept
  /\ TypeOK /\ Kept /\ [Next]_vars => Kept'
<1>1. Init => Kept
  BY DEF Init, Kept, RegistryFree
<1>2. ASSUME TypeOK, Kept, [Next]_vars PROVE Kept'
  <2>0. platform \in [at : PlatformStates, view : Views \cup {None}, locked : BOOLEAN]
    BY <1>2 DEF TypeOK
  <2>1. CASE platform' = platform
    BY <1>2, <2>1 DEF Kept, RegistryFree
  <2>2. ASSUME NEW v \in Views, ViewCall(v) PROVE Kept'
    <3>1. CASE \E locked \in BOOLEAN : CallFactory(v, locked)
      BY <3>1 DEF CallFactory, Kept, RegistryFree
    <3>2. CASE PlatformIdle
      BY <3>2 DEF PlatformIdle, Kept, RegistryFree
    <3>3. CASE \E at \in PlatformStates : Platform(at, v)
      BY <1>2, <2>0, <3>3 DEF Platform, Kept, RegistryFree
    <3>4. \/ \E locked \in BOOLEAN : CallFactory(v, locked)
          \/ PlatformIdle \/ \E at \in PlatformStates : Platform(at, v)
      BY <2>2, PlatformNames DEF ViewCall, CallBack, FactoryStep, FactoryChecks, Negotiate, Announce,
         FactoryReturns, BackStep, Renegotiate, Regrant, DisposeClears, DisposeSends, Refused
    <3> QED BY <3>1, <3>2, <3>3, <3>4
  <2>3. ASSUME NEW c \in Callers,
               CallerStep(c) \/ \E what \in {"start", "stop", "ask"} : Call(c, what)
        PROVE  platform' = platform
    BY <2>3 DEF CallerStep, Call, LockLifecycle, StartStep, StartLocks, AlreadyRunning, Reap, Spawn,
       SpawnFails, Booted, BootFails, Register, StopStep, StopChecks, Unregister, Take, SendQuit, Join,
       AskStep, AskSends, Answered, TimesOut, viewVars
  <2>4. ASSUME NEW s \in Servers, ServerStep(s) PROVE platform' = platform
    BY <2>4 DEF ServerStep, ThreadStep, StartsUp, SubmitReturns, Drop, Exit, HandleCmd, LeaveLoop, Die,
       Submit, Answer, viewVars
  <2>5. CASE UNCHANGED vars
    BY <2>1, <2>5 DEF vars, viewVars
  <2> QED BY <1>2, <2>1, <2>2, <2>3, <2>4, <2>5, NextSplits
<1> QED BY <1>1, <1>2

\* Unless the shell takes its registry's mutex for a query and also keeps it over
\* a call of the factory, no number of callers, servers and views wait on each
\* other, and whoever waits for a thread waits for one that was made and, to join
\* it, told to end.
THEOREM NobodyEverStuck ==
  ASSUME ~(QueryLocks /\ FactoryLocks)
  PROVE  Spec => []NobodyStuck
<1>1. WaitInv /\ Kept => NobodyStuck
  <2> SUFFICES ASSUME WaitInv, Kept PROVE NobodyStuck
    OBVIOUS
  <2>0. QueryAnswers
    BY DEF Kept, QueryAnswers
  <2>1. \A C \in SUBSET Callers, S \in SUBSET Servers, platformIn \in BOOLEAN :
          Circle(C, S, platformIn) => C = {} /\ S = {} /\ ~platformIn
    BY <2>0, NoCircle
  <2>2. ~RegistryFree => platform.at \in {"check", "negotiate", "announce", "return"}
    BY DEF WaitInv, RegistryInFactory, InFactory
  <2>3. TargetsRan
    BY DEF WaitInv
  <2> QED BY <2>1, <2>2, <2>3 DEF NobodyStuck, TargetsRan, Ending
<1> QED BY <1>1, LifecycleTypeCorrect, WaitStarts, WaitsKept, KeptAlways, PTL DEF Spec
=============================================================================
