----------------------------- MODULE Lifecycle -------------------------------
(***************************************************************************)
(* The threads and their locks (thread.rs, view.rs, the FFI in lib.rs).    *)
(*                                                                         *)
(* Callers start and stop the server, and ask it.                          *)
(* Each start that gets as far makes a server: a compositor thread with    *)
(* its channel and its views.  The shell's platform thread makes, grants   *)
(* anew and disposes views.  A step is what runs between two points where  *)
(* another thread may come in: taking a lock, a send, a call out.          *)
(*                                                                         *)
(* The shell's side is how view.rs and thread.rs say it is: one platform   *)
(* thread; views of one id follow each other; the registry has a mutex it  *)
(* takes to register the factory.  Whether a capability query takes it too *)
(* and whether it is kept while the factory is called is the shell's, and  *)
(* a constant.  The shell's submit takes no lock of this module.           *)
(***************************************************************************)
EXTENDS Sequences

CONSTANTS
  Callers, \* threads that call the FFI
  Servers, \* the servers that can be made (a bound), one per start
  Views,   \* views, each made once
  Ids,     \* their ids, used again
  IdOf,    \* the id of each view
  None,    \* no server, view, caller
  QueryLocks,  \* the shell takes its registry's mutex for a capability query
  FactoryLocks \* the shell may keep it over a call of the factory

ASSUME IdAssumption == IdOf \in [Views -> Ids]
ASSUME ShellAssumption == QueryLocks \in BOOLEAN /\ FactoryLocks \in BOOLEAN
ASSUME NoneAssumption == None \notin Servers \cup Views \cup Callers

VARIABLES
  call,       \* where each caller is
  target,     \* the server its call is about: made, stopped or asked
  running,    \* SERVER: the server that is stored
  thread,     \* how far each server's thread is
  chan,       \* the commands in each server's channel, but for what callers ask
  views,      \* each server's State.views: the view under each id
  submitting, \* the view each server is in a call for, under its link's lock
  registered, \* the shell has the factory
  platform,   \* where the platform thread is, and whether it holds the registry
  status,     \* the shell's views: made or not yet, live, gone
  link,       \* ViewShared.link is Some
  told        \* the server told of the view's making and not of its end

callVars == <<call, target>>
serverVars == <<thread, chan, views, submitting>>
viewVars == <<platform, status, link, told>>
vars == <<callVars, running, registered, serverVars, viewVars>>

\* Mutant: SERVER is kept while stop unregisters.
InServerUnregistering == {"look", "query", "boot", "unregister"}

\* Where a caller holds LIFECYCLE, and SERVER from one step to the next.
InLifecycle == {"enter", "look", "query", "boot", "register",
                "check", "unregister", "take", "quit", "join"}
InServer == {"look", "query", "boot"}

CallStates == {"idle", "start", "stop", "ask", "wait", "answered"}
                \cup InLifecycle
ThreadStates == {"none", "starting", "failed", "up", "stopping", "dropping",
                 "exiting", "done"}
PlatformStates == {"idle", "check", "negotiate", "announce", "return",
                   "clear", "part", "renegotiate", "regrant"}

Cmd == [kind : {"created"}, of : Views] \cup [kind : {"disposed"}, of : Ids]
         \cup {[kind |-> "quit", of |-> None]}

TypeOK ==
  /\ call \in [Callers -> CallStates]
  /\ target \in [Callers -> Servers \cup {None}]
  /\ running \in Servers \cup {None}
  /\ thread \in [Servers -> ThreadStates]
  /\ chan \in [Servers -> Seq(Cmd)]
  /\ views \in [Servers -> [Ids -> Views \cup {None}]]
  /\ submitting \in [Servers -> Views \cup {None}]
  /\ registered \in BOOLEAN
  /\ platform \in [at : PlatformStates, view : Views \cup {None}, locked : BOOLEAN]
  /\ status \in [Views -> {"new", "live", "gone"}]
  /\ link \in [Views -> BOOLEAN]
  /\ told \in [Views -> Servers \cup {None}]

-----------------------------------------------------------------------------
(* Locks, and sending *)

\* Mutant: stop does not take LIFECYCLE.
FreeOfStarts == \A c \in Callers : call[c] \notin {"enter", "look", "query", "boot", "register"}

LifecycleFree == \A c \in Callers : call[c] \notin InLifecycle
ServerFree == \A c \in Callers : call[c] \notin InServer
RegistryFree == ~platform.locked
QueryAnswers == QueryLocks => RegistryFree

\* The compositor thread holds a view's link across a call into the shell, the
\* platform thread across its negotiation.
LinkFree(v) == /\ \A s \in Servers : submitting[s] # v
               /\ ~(platform.at = "regrant" /\ platform.view = v)

Finished(s) == thread[s] = "done"

\* The channel takes commands until the loop that reads it is dropped.
Sendable(s) == s # None /\ thread[s] \in {"up", "stopping", "dropping"}

\* send: nothing is sent, and an error returned, without a server.
Send(cmd) ==
  chan' = IF Sendable(running) THEN [chan EXCEPT ![running] = Append(@, cmd)] ELSE chan

IsRunning == running # None /\ ~Finished(running)

Go(c, at) == call' = [call EXCEPT ![c] = at]
Release(c) == Go(c, "idle") /\ target' = [target EXCEPT ![c] = None]

-----------------------------------------------------------------------------
(* Calls: ihs_wl_start, ihs_wl_stop, ihs_wl_view_client or activation_token *)

Call(c, what) ==
  /\ call[c] = "idle" /\ what \in {"start", "stop", "ask"}
  /\ Go(c, what)
  /\ UNCHANGED <<target, running, registered, serverVars, viewVars>>

LockLifecycle(c) ==
  /\ call[c] \in {"start", "stop"} /\ LifecycleFree
  /\ Go(c, IF call[c] = "start" THEN "enter" ELSE "check")
  /\ UNCHANGED <<target, running, registered, serverVars, viewVars>>

StartLocks(c) ==
  /\ call[c] = "enter" /\ ServerFree
  /\ Go(c, "look")
  /\ UNCHANGED <<target, running, registered, serverVars, viewVars>>

AlreadyRunning(c) ==
  /\ call[c] = "look" /\ IsRunning
  /\ Release(c)
  /\ UNCHANGED <<running, registered, serverVars, viewVars>>

\* A dead thread is joined and its Running dropped; then the shell is asked what
\* it can import, under both locks.
Reap(c) ==
  /\ call[c] = "look" /\ ~IsRunning
  /\ running' = None
  /\ Go(c, "query")
  /\ UNCHANGED <<target, registered, serverVars, viewVars>>

Spawn(c, s) ==
  /\ call[c] = "query" /\ QueryAnswers /\ thread[s] = "none"
  /\ thread' = [thread EXCEPT ![s] = "starting"]
  /\ Go(c, "boot") /\ target' = [target EXCEPT ![c] = s]
  /\ UNCHANGED <<running, registered, chan, views, submitting, viewVars>>

SpawnFails(c) ==
  /\ call[c] = "query" /\ QueryAnswers
  /\ Release(c)
  /\ UNCHANGED <<running, registered, serverVars, viewVars>>

\* The thread said it is ready, whatever became of it since.
Booted(c) ==
  /\ call[c] = "boot" /\ thread[target[c]] \notin {"starting", "failed"}
  /\ running' = target[c]
  /\ Go(c, "register")
  /\ UNCHANGED <<target, registered, serverVars, viewVars>>

\* The thread said it failed, and is joined.
BootFails(c) ==
  /\ call[c] = "boot" /\ thread[target[c]] = "failed"
  /\ thread' = [thread EXCEPT ![target[c]] = "done"]
  /\ Release(c)
  /\ UNCHANGED <<running, registered, chan, views, submitting, viewVars>>

\* The shell may refuse, or have no registry.
Register(c) ==
  /\ call[c] = "register" /\ RegistryFree
  /\ registered' \in {registered, TRUE}
  /\ Release(c)
  /\ UNCHANGED <<running, serverVars, viewVars>>

StopChecks(c) ==
  /\ call[c] = "check" /\ ServerFree
  /\ IF running = None THEN Release(c) ELSE Go(c, "unregister") /\ UNCHANGED target
  /\ UNCHANGED <<running, registered, serverVars, viewVars>>

Unregister(c) ==
  /\ call[c] = "unregister" /\ RegistryFree
  /\ registered' = FALSE
  /\ Go(c, "take")
  /\ UNCHANGED <<target, running, serverVars, viewVars>>

Take(c) ==
  /\ call[c] = "take" /\ ServerFree
  /\ running' = None
  /\ target' = [target EXCEPT ![c] = running]
  /\ Go(c, IF running = None THEN "idle" ELSE "quit")
  /\ UNCHANGED <<registered, serverVars, viewVars>>

SendQuit(c) ==
  /\ call[c] = "quit"
  /\ chan' = IF Sendable(target[c])
             THEN [chan EXCEPT ![target[c]] = Append(@, [kind |-> "quit", of |-> None])]
             ELSE chan
  /\ Go(c, "join")
  /\ UNCHANGED <<target, running, registered, thread, views, submitting, viewVars>>

\* Mutant: stop does not wait for the thread.
JoinNot(c) ==
  /\ call[c] = "join"
  /\ Release(c)
  /\ UNCHANGED <<running, registered, serverVars, viewVars>>

Join(c) ==
  /\ call[c] = "join" /\ Finished(target[c])
  /\ Release(c)
  /\ UNCHANGED <<running, registered, serverVars, viewVars>>

\* The command is in the channel of the target while the caller waits.  It is
\* kept apart from the others there: answers do not depend on their order here.
AskSends(c) ==
  /\ call[c] = "ask" /\ ServerFree
  /\ IF Sendable(running)
     THEN Go(c, "wait") /\ target' = [target EXCEPT ![c] = running]
     ELSE Release(c)
  /\ UNCHANGED <<running, registered, serverVars, viewVars>>

Answered(c) ==
  /\ call[c] = "answered"
  /\ Release(c)
  /\ UNCHANGED <<running, registered, serverVars, viewVars>>

\* After two seconds.  What it asked is then answered to nobody.
TimesOut(c) ==
  /\ call[c] = "wait"
  /\ Release(c)
  /\ UNCHANGED <<running, registered, serverVars, viewVars>>

-----------------------------------------------------------------------------
(* The platform thread: factory, on_renegotiate, on_dispose *)

Platform(at, v) == platform' = [platform EXCEPT !.at = at, !.view = v]
PlatformIdle == platform' = [at |-> "idle", view |-> None, locked |-> FALSE]

\* The shell disposed what had the id before (state.rs:360).
CallFactory(v, locked) ==
  /\ platform.at = "idle" /\ registered /\ status[v] = "new"
  /\ locked => FactoryLocks
  /\ \A w \in Views : IdOf[w] = IdOf[v] => status[w] # "live"
  /\ platform' = [at |-> "check", view |-> v, locked |-> locked]
  /\ UNCHANGED <<callVars, running, registered, serverVars, status, link, told>>

\* Whichever way the factory fails, the shell has no view of it.
Refused(v) == PlatformIdle /\ status' = [status EXCEPT ![v] = "gone"]

FactoryChecks(v) ==
  /\ platform.at = "check" /\ platform.view = v /\ ServerFree
  /\ IF IsRunning THEN Platform("negotiate", v) /\ UNCHANGED status ELSE Refused(v)
  /\ UNCHANGED <<callVars, running, registered, serverVars, link, told>>

Negotiate(v) ==
  /\ platform.at = "negotiate" /\ platform.view = v
  /\ \/ Platform("announce", v) /\ link' = [link EXCEPT ![v] = TRUE] /\ UNCHANGED status
     \/ Refused(v) /\ UNCHANGED link
  /\ UNCHANGED <<callVars, running, registered, serverVars, told>>

\* Not sent, the view and its link are dropped.
Announce(v) ==
  /\ platform.at = "announce" /\ platform.view = v /\ ServerFree
  /\ Send([kind |-> "created", of |-> v])
  /\ IF Sendable(running)
     THEN /\ Platform("return", v) /\ told' = [told EXCEPT ![v] = running]
          /\ UNCHANGED <<status, link>>
     ELSE /\ Refused(v) /\ link' = [link EXCEPT ![v] = FALSE]
          /\ UNCHANGED told
  /\ UNCHANGED <<callVars, running, registered, thread, views, submitting>>

FactoryReturns(v) ==
  /\ platform.at = "return" /\ platform.view = v
  /\ PlatformIdle
  /\ status' = [status EXCEPT ![v] = "live"]
  /\ UNCHANGED <<callVars, running, registered, serverVars, link, told>>

CallBack(v, at) ==
  /\ platform.at = "idle" /\ status[v] = "live" /\ at \in {"renegotiate", "clear"}
  /\ Platform(at, v)
  /\ UNCHANGED <<callVars, running, registered, serverVars, status, link, told>>

\* Mutant: the link is not locked for the negotiation.
RenegotiateUnlocked(v) ==
  /\ platform.at = "renegotiate" /\ platform.view = v
  /\ IF link[v] THEN Platform("regrant", v) ELSE PlatformIdle
  /\ UNCHANGED <<callVars, running, registered, serverVars, status, link, told>>

Renegotiate(v) ==
  /\ platform.at = "renegotiate" /\ platform.view = v /\ LinkFree(v)
  /\ IF link[v] THEN Platform("regrant", v) ELSE PlatformIdle
  /\ UNCHANGED <<callVars, running, registered, serverVars, status, link, told>>

Regrant(v) ==
  /\ platform.at = "regrant" /\ platform.view = v
  /\ PlatformIdle
  /\ UNCHANGED <<callVars, running, registered, serverVars, status, link, told>>

DisposeClears(v) ==
  /\ platform.at = "clear" /\ platform.view = v /\ LinkFree(v)
  /\ link' = [link EXCEPT ![v] = FALSE]
  /\ Platform("part", v)
  /\ UNCHANGED <<callVars, running, registered, serverVars, status, told>>

\* Mutant: the command is not sent.
DisposeSendsNothing(v) ==
  /\ platform.at = "part" /\ platform.view = v /\ ServerFree
  /\ told' = [told EXCEPT ![v] = None]
  /\ status' = [status EXCEPT ![v] = "gone"]
  /\ PlatformIdle
  /\ UNCHANGED <<callVars, running, registered, serverVars, link>>

DisposeSends(v) ==
  /\ platform.at = "part" /\ platform.view = v /\ ServerFree
  /\ Send([kind |-> "disposed", of |-> IdOf[v]])
  /\ told' = [told EXCEPT ![v] = None]
  /\ status' = [status EXCEPT ![v] = "gone"]
  /\ PlatformIdle
  /\ UNCHANGED <<callVars, running, registered, thread, views, submitting, link>>

-----------------------------------------------------------------------------
(* A server's compositor thread: compositor_main, run, handle_cmd *)

Looping(s) == thread[s] \in {"up", "stopping"} /\ submitting[s] = None

ThreadGoes(s, to) == thread' = [thread EXCEPT ![s] = to]

StartsUp(s) ==
  /\ thread[s] = "starting"
  /\ ThreadGoes(s, "up") \/ ThreadGoes(s, "failed")
  /\ UNCHANGED <<callVars, running, registered, chan, views, submitting, viewVars>>

\* Mutant: a disposed view's entry stays.
HandleCmdKeeping(s) ==
  /\ Looping(s) /\ chan[s] # <<>>
  /\ chan' = [chan EXCEPT ![s] = Tail(@)]
  /\ LET cmd == Head(chan[s]) IN
       \/ /\ cmd.kind = "created"
          /\ views' = [views EXCEPT ![s][IdOf[cmd.of]] = cmd.of]
          /\ UNCHANGED thread
       \/ cmd.kind = "disposed" /\ UNCHANGED <<views, thread>>
       \/ cmd.kind = "quit" /\ ThreadGoes(s, "stopping") /\ UNCHANGED views
  /\ UNCHANGED <<callVars, running, registered, submitting, viewVars>>

\* The command at the head of the channel is handled, all of it that is not in
\* module Binding.
HandleCmd(s) ==
  /\ Looping(s) /\ chan[s] # <<>>
  /\ chan' = [chan EXCEPT ![s] = Tail(@)]
  /\ LET cmd == Head(chan[s]) IN
       \/ /\ cmd.kind = "created"
          /\ views' = [views EXCEPT ![s][IdOf[cmd.of]] = cmd.of]
          /\ UNCHANGED thread
       \/ /\ cmd.kind = "disposed"
          /\ views' = [views EXCEPT ![s][cmd.of] = None]
          /\ UNCHANGED thread
       \/ /\ cmd.kind = "quit"
          /\ ThreadGoes(s, "stopping")
          /\ UNCHANGED views
  /\ UNCHANGED <<callVars, running, registered, submitting, viewVars>>

Answer(s, c) ==
  /\ Looping(s) /\ call[c] = "wait" /\ target[c] = s
  /\ Go(c, "answered")
  /\ UNCHANGED <<target, running, registered, serverVars, viewVars>>

\* submit_tree, clear_view and retire_key; with the link gone they do nothing.
Submit(s, v) ==
  /\ Looping(s) /\ views[s][IdOf[v]] = v
  /\ LinkFree(v) /\ link[v]
  /\ submitting' = [submitting EXCEPT ![s] = v]
  /\ UNCHANGED <<callVars, running, registered, thread, chan, views, viewVars>>

SubmitReturns(s) ==
  /\ submitting[s] # None
  /\ submitting' = [submitting EXCEPT ![s] = None]
  /\ UNCHANGED <<callVars, running, registered, thread, chan, views, viewVars>>

\* The loop ends some time after the signal to stop, with its round of events.
LeaveLoop(s) ==
  /\ thread[s] = "stopping" /\ submitting[s] = None
  /\ ThreadGoes(s, "dropping")
  /\ UNCHANGED <<callVars, running, registered, chan, views, submitting, viewVars>>

\* A panic, or the loop's failing; the lock of a link is let go.
Die(s) ==
  /\ thread[s] \in {"up", "stopping"}
  /\ ThreadGoes(s, "dropping")
  /\ submitting' = [submitting EXCEPT ![s] = None]
  /\ UNCHANGED <<callVars, running, registered, chan, views, viewVars>>

\* State and loop are dropped, and the commands left: who asked gets an error.
Drop(s) ==
  /\ thread[s] = "dropping"
  /\ ThreadGoes(s, "exiting")
  /\ chan' = [chan EXCEPT ![s] = <<>>]
  /\ views' = [views EXCEPT ![s] = [i \in Ids |-> None]]
  /\ call' = [c \in Callers |-> IF call[c] = "wait" /\ target[c] = s
                                THEN "answered" ELSE call[c]]
  /\ UNCHANGED <<target, running, registered, submitting, viewVars>>

Exit(s) ==
  /\ thread[s] = "exiting"
  /\ ThreadGoes(s, "done")
  /\ UNCHANGED <<callVars, running, registered, chan, views, submitting, viewVars>>

-----------------------------------------------------------------------------
Init ==
  /\ call = [c \in Callers |-> "idle"]
  /\ target = [c \in Callers |-> None]
  /\ running = None /\ registered = FALSE
  /\ thread = [s \in Servers |-> "none"]
  /\ chan = [s \in Servers |-> <<>>]
  /\ views = [s \in Servers |-> [i \in Ids |-> None]]
  /\ submitting = [s \in Servers |-> None]
  /\ platform = [at |-> "idle", view |-> None, locked |-> FALSE]
  /\ status = [v \in Views |-> "new"]
  /\ link = [v \in Views |-> FALSE]
  /\ told = [v \in Views |-> None]

StartStep(c) ==
  \/ StartLocks(c) \/ AlreadyRunning(c) \/ Reap(c) \/ SpawnFails(c)
  \/ \E s \in Servers : Spawn(c, s)
  \/ Booted(c) \/ BootFails(c) \/ Register(c)
StopStep(c) ==
  StopChecks(c) \/ Unregister(c) \/ Take(c) \/ SendQuit(c) \/ Join(c)
AskStep(c) == AskSends(c) \/ Answered(c) \/ TimesOut(c)
CallerStep(c) == LockLifecycle(c) \/ StartStep(c) \/ StopStep(c) \/ AskStep(c)

FactoryStep(v) == FactoryChecks(v) \/ Negotiate(v) \/ Announce(v) \/ FactoryReturns(v)
BackStep(v) == Renegotiate(v) \/ Regrant(v) \/ DisposeClears(v) \/ DisposeSends(v)
PlatformStep == \E v \in Views : FactoryStep(v) \/ BackStep(v)

ThreadStep(s) == StartsUp(s) \/ SubmitReturns(s) \/ Drop(s) \/ Exit(s)

Next ==
  \/ \E c \in Callers : \/ \E what \in {"start", "stop", "ask"} : Call(c, what)
                        \/ CallerStep(c)
  \/ \E v \in Views : \/ \E locked \in BOOLEAN : CallFactory(v, locked)
                      \/ \E at \in {"renegotiate", "clear"} : CallBack(v, at)
  \/ PlatformStep
  \/ \E s \in Servers : \/ ThreadStep(s) \/ HandleCmd(s) \/ LeaveLoop(s) \/ Die(s)
                        \/ \E v \in Views : Submit(s, v)
                        \/ \E c \in Callers : Answer(s, c)

\* Threads go on, and a lock that is let go again and again is got: the
\* compositor takes a link once per frame, callers SERVER for a send.  The loop
\* handles all its sources in a round, and ends with one.  Nobody has to call.
Fairness ==
  /\ \A c \in Callers : SF_vars(CallerStep(c))
  /\ SF_vars(PlatformStep)
  /\ \A s \in Servers : WF_vars(ThreadStep(s)) /\ SF_vars(HandleCmd(s)) /\ SF_vars(LeaveLoop(s))

Spec == Init /\ [][Next]_vars
FairSpec == Spec /\ Fairness

-----------------------------------------------------------------------------
(* Properties *)

\* The dispose rule (view.rs:6): no call into the shell for a view is under way
\* once its dispose callback has returned.
DisposeWaitsOut == \A s \in Servers : submitting[s] # None => status[submitting[s]] # "gone"

\* At most one compositor thread has not ended, whatever starts, stops and
\* crashes there are: they would share the socket's name, the cursor and the views.
OneThread ==
  \A s, t \in Servers :
    thread[s] \notin {"none", "done"} /\ thread[t] \notin {"none", "done"} => s = t

\* stop leaves nothing of the server when it returns, nor is another started
\* meanwhile (lib.rs:328).
StopLeavesNothing ==
  [][\A c \in Callers : call[c] = "join" /\ call'[c] = "idle" =>
       ~registered' /\ running' = None /\ \A s \in Servers : thread'[s] \in {"none", "done"}]_vars

\* A view is never made under an id the server still has (state.rs:360 says only
\* an ordering race would): what the shell disposed first is gone by then.
IdIsFree ==
  \A s \in Servers : chan[s] # <<>> /\ Head(chan[s]).kind = "created" =>
    views[s][IdOf[Head(chan[s]).of]] = None

\* Once its channel is empty, the running server has the views made for it and
\* not disposed, and no others.
KnowsItsViews ==
  \A s \in Servers : running = s /\ thread[s] = "up" /\ chan[s] = <<>> =>
    \A v \in Views : views[s][IdOf[v]] = v <=> told[v] = s

\* Whom a caller waits for: who holds the lock it is to take, and the thread it
\* waits for to be ready, to end or to answer.
CallersAhead(c) ==
  {d \in Callers : \/ call[c] \in {"start", "stop"} /\ call[d] \in InLifecycle
                   \/ call[c] \in {"enter", "check", "take", "ask"} /\ call[d] \in InServer}
ServersAhead(c) ==
  {s \in Servers : call[c] \in {"boot", "join", "wait"} /\ target[c] = s /\ ~Finished(s)}

\* The callers C, the threads of the servers S and, if it is in it, the platform
\* thread wait each for another of them.
Circle(C, S, platformIn) ==
  /\ \A c \in C :
       \/ CallersAhead(c) \cap C # {} \/ ServersAhead(c) \cap S # {}
       \/ platformIn /\ call[c] \in {"register", "unregister"} /\ ~RegistryFree
       \/ platformIn /\ call[c] = "query" /\ ~QueryAnswers
  /\ \A s \in S : /\ platformIn /\ platform.at = "regrant"
                  /\ views[s][IdOf[platform.view]] = platform.view
  /\ platformIn =>
       \/ platform.at \in {"check", "announce", "part"} /\ \E c \in C : call[c] \in InServer
       \/ platform.at \in {"renegotiate", "clear"} /\ \E s \in S : submitting[s] = platform.view

\* Nobody waits for ever (thread.rs:109): no threads wait for each
\* other in a circle, and what is waited for comes: a new thread was made, one
\* that is joined ends or was told to, and the registry is let go.
NobodyStuck ==
  /\ \A C \in SUBSET Callers, S \in SUBSET Servers, platformIn \in BOOLEAN :
       Circle(C, S, platformIn) => C = {} /\ S = {} /\ ~platformIn
  /\ ~RegistryFree => platform.at \in {"check", "negotiate", "announce", "return"}
  /\ \A c \in Callers : call[c] = "boot" => thread[target[c]] # "none"
  /\ \A c \in Callers : call[c] = "join" =>
       LET s == target[c] IN
         \/ thread[s] \in {"stopping", "dropping", "exiting", "done"}
         \/ thread[s] = "up" /\ \E i \in DOMAIN chan[s] : chan[s][i].kind = "quit"

\* Every call and callback returns: no two threads wait on each other's locks.
EveryCallReturns ==
  /\ \A c \in Callers : call[c] # "idle" ~> call[c] = "idle"
  /\ platform.at # "idle" ~> platform.at = "idle"

\* Calls with a view's handle keep the shell's contract (module Handle), by the
\* compositor thread of any server and by the platform thread (None).
Users == Servers \cup {None}
InUse == {use \in Users \X Views :
            IF use[1] = None THEN platform.at = "regrant" /\ platform.view = use[2]
            ELSE submitting[use[1]] = use[2]}
Contract == INSTANCE Handle WITH open <- {v \in Views : link[v]}, calls <- InUse
KeepsContract == Contract!Spec
==============================================================================
