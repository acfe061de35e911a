------------------------------- MODULE Binding -------------------------------
(***************************************************************************)
(* Which toplevel each platform view shows, and where the keyboard goes.   *)
(*                                                                         *)
(* The compositor thread owns all of this state (state.rs State): the      *)
(* views the shell created, the toplevels the clients created, the binding *)
(* between them, the tokens the module issued, and what Dart focused.  It  *)
(* runs one handler at a time to completion, so every handler -- a command *)
(* from the platform thread, or a client request -- is one action here,    *)
(* with all it calls: rebinding the waiting views (bind_waiting_views),    *)
(* telling Dart (events::post), and pointing the keyboard and the window   *)
(* states at the scene (refresh_keyboard_focus).                           *)
(***************************************************************************)
EXTENDS Integers

CONSTANTS
  ViewIds,    \* the platform-view ids the shell uses
  MaxTops,    \* bound: toplevels ever created
  Clients,    \* the connected clients
  ClientCtx,  \* [Clients -> the app id of the client's sandbox, or one of the next two]
  Unsandboxed,\* a client on the server's own socket
  NoName,     \* a client in a sandbox that gave no app id
  AppIds,     \* the app ids clients claim and views name
  Tokens,     \* the activation tokens there are to issue
  ParamSet,   \* the creation params of views: what each names, see ParamType
  MaxDepth,   \* dialogs.rs MAX_DEPTH: parents followed at most
  NoTop, NoView, NoApp, NoToken

TopIds == 1 .. MaxTops

\* What a view's creation params may name; No... where they name nothing.
ParamType == [app : AppIds \cup {NoApp}, token : Tokens \cup {NoToken},
              sandbox : AppIds \cup {NoApp}]

NoParams == [app |-> NoApp, token |-> NoToken, sandbox |-> NoApp]

ASSUME ViewIdsAssumption == ViewIds \subseteq Nat /\ NoView \notin ViewIds
ASSUME TopsAssumption == MaxTops \in Nat /\ NoTop \notin TopIds
ASSUME ParamsAssumption == ParamSet \subseteq ParamType
ASSUME NamesAssumption == /\ NoApp \notin AppIds
                          /\ NoToken \notin Tokens
                          /\ {Unsandboxed, NoName} \cap AppIds = {}
                          /\ NoApp \notin {Unsandboxed, NoName}
ASSUME ClientsAssumption ==
  /\ Clients # {}
  /\ ClientCtx \in [Clients -> AppIds \cup {Unsandboxed, NoName}]
ASSUME DepthAssumption == MaxDepth \in Nat

VARIABLES
  live,        \* the views in State.views
  params,      \* each view's creation params
  vtop,        \* ViewEntry.toplevel: the toplevel each view shows
  suspended,   \* ViewEntry.suspended: the view left the scene
  listening,   \* events.rs SINK is the port of an isolate that is there
  watched,     \* the views made since that isolate began to listen
  told,        \* those of them it was last told show a toplevel
  nextId,      \* Toplevels.next_id
  known,       \* the keys of Toplevels.by_id
  exists,      \* the xdg_toplevel objects clients hold
  idOf,        \* the ToplevelId in the data map of the toplevel's wl_surface
  client,      \* whose the toplevel is
  committed,   \* the toplevels whose client made their initial commit
  mapped,      \* ToplevelEntry.mapped
  appId,       \* the app id the client claims for it
  ttoken,      \* ToplevelEntry.token: what it was activated with
  tview,       \* ToplevelEntry.view: the view showing it
  parent,      \* the toplevel surface it is a dialog of
  tokens,      \* the state of each token: unused, issued or spent
  focused,     \* State.focused_view: where Dart's keyboard focus is
  keyboard,    \* the seat's keyboard focus, a toplevel surface
  activated,   \* the toplevels last configured as activated
  hidden       \* the toplevels last configured as suspended

viewVars == <<live, params, suspended, listening, watched>>
bindVars == <<vtop, tview, told>>
topVars == <<nextId, known, exists, idOf, client, committed, mapped, appId, parent>>
focusVars == <<keyboard, activated, hidden>>
vars == <<viewVars, bindVars, topVars, ttoken, tokens, focused, focusVars>>

TypeOK ==
  /\ live \subseteq ViewIds
  /\ params \in [ViewIds -> ParamType]
  /\ vtop \in [ViewIds -> TopIds \cup {NoTop}]
  /\ suspended \subseteq live
  /\ listening \in BOOLEAN
  /\ watched \subseteq live
  /\ told \subseteq watched
  /\ nextId \in 0 .. MaxTops
  /\ known \subseteq 1 .. nextId
  /\ exists \subseteq known
  /\ idOf \in [TopIds -> TopIds]
  /\ client \in [TopIds -> Clients]
  /\ committed \subseteq exists
  /\ mapped \subseteq known
  /\ appId \in [TopIds -> AppIds \cup {NoApp}]
  /\ ttoken \in [TopIds -> Tokens \cup {NoToken}]
  /\ tview \in [TopIds -> ViewIds \cup {NoView}]
  /\ parent \in [TopIds -> TopIds \cup {NoTop}]
  /\ tokens \in [Tokens -> {"unused", "issued", "spent"}]
  /\ focused \in ViewIds \cup {NoView}
  /\ keyboard \in TopIds \cup {NoTop}
  /\ activated \subseteq known
  /\ hidden \subseteq known

-----------------------------------------------------------------------------
(* Which toplevel a view may take *)

\* mutant: a view naming a token looks at nothing else
ClaimsByTokenAlone(v, t) ==
  LET p == params[v]
      context == ClientCtx[client[t]]
  IN /\ t \in known /\ t \in mapped
     /\ parent[t] = NoTop
     /\ IF p.token # NoToken \/ ttoken[t] # NoToken
        THEN p.token = ttoken[t]
        ELSE /\ p.sandbox # NoApp => context = p.sandbox
             /\ p.app # NoApp => /\ appId[t] = p.app
                                 /\ context \in {Unsandboxed, appId[t]}

\* mutant: the toplevel's own token is not looked at
ClaimsWhateverToken(v, t) ==
  LET p == params[v]
      context == ClientCtx[client[t]]
  IN /\ t \in known /\ t \in mapped
     /\ parent[t] = NoTop
     /\ p.sandbox # NoApp => context = p.sandbox
     /\ IF p.token # NoToken
        THEN p.token = ttoken[t]
        ELSE p.app # NoApp => /\ appId[t] = p.app
                              /\ context \in {Unsandboxed, appId[t]}

\* try_bind_view's test of one toplevel, but for it being shown already.
Claims(v, t) ==
  LET p == params[v]
      context == ClientCtx[client[t]]
  IN /\ t \in known /\ t \in mapped
     /\ parent[t] = NoTop
     /\ p.sandbox # NoApp => context = p.sandbox
     /\ IF p.token # NoToken \/ ttoken[t] # NoToken
        THEN p.token = ttoken[t]
        ELSE p.app # NoApp => /\ appId[t] = p.app
                              /\ context \in {Unsandboxed, appId[t]}

Oldest(t, S) == t \in S /\ \A u \in S : t <= u

\* mutant: a toplevel is taken whether or not a view shows it
TakesShown(S, tv, got) ==
  \A v \in S :
    LET free == {t \in TopIds : /\ Claims(v, t)'
                                /\ \A u \in S : u < v => got[u] # t}
    IN IF free = {} THEN got[v] = NoTop ELSE Oldest(got[v], free)

\* The toplevels each view of S takes when they are tried in the order of
\* their ids, the ones in tv's bindings being taken: the oldest it may have.
Takes(S, tv, got) ==
  \A v \in S :
    LET free == {t \in TopIds : /\ Claims(v, t)'
                                /\ tv[t] = NoView
                                /\ \A u \in S : u < v => got[u] # t}
    IN IF free = {} THEN got[v] = NoTop ELSE Oldest(got[v], free)

\* What the isolate that listens knows once Bound is posted for the views of S.
\* Without a sink nothing is posted, and at a closed port the event is dropped;
\* of a view an earlier isolate made, ViewEvents drops it.
NothingPosted(td, S) == td                              \* mutant: no event
Posted(td, S) == IF listening THEN td \cup (S \cap watched') ELSE td

\* Try to bind the views of S, the bindings and what Dart knows being vt, tv
\* and td.
TryBind(S, vt, tv, td) ==
  \E got \in [S -> TopIds \cup {NoTop}] :
    /\ Takes(S, tv, got)
    /\ vtop' = [v \in ViewIds |-> IF v \in S THEN got[v] ELSE vt[v]]
    /\ tview' = [t \in TopIds |-> IF \E v \in S : got[v] = t
                                  THEN CHOOSE v \in S : got[v] = t ELSE tv[t]]
    /\ told' = Posted(td, {v \in S : got[v] # NoTop})

\* mutant: only the first waiting view is tried
FirstWaiting(vt) ==
  {v \in live : vt[v] = NoTop /\ \A u \in live : vt[u] = NoTop => v <= u}

\* The views bind_waiting_views tries, given the bindings vt.
Waiting(vt) == {v \in live : vt[v] = NoTop}

\* unbind_view: both ends of v's binding go.
WithoutView(v) == [vtop EXCEPT ![v] = NoTop]
FreedByNone(v) == tview                   \* mutant: the toplevel keeps its view
FreedBy(v) == [t \in TopIds |-> IF t = vtop[v] THEN NoView ELSE tview[t]]

-----------------------------------------------------------------------------
(* A view's windows, and the keyboard *)

\* The surface a toplevel surface is a dialog of, or itself: window_root's step.
Above == [s \in TopIds |-> IF s \in known /\ parent[s] # NoTop THEN parent[s] ELSE s]

\* Where one is after MaxDepth steps of the function up from s.
Climb(up, s) ==
  LET at[n \in 0 .. MaxDepth] == IF n = 0 THEN s ELSE up[at[n - 1]] IN at[MaxDepth]

\* The toplevel surface s is shown with: up its dialogs' parents, as long as
\* they are known.
WindowRoot(s) == Climb(Above, s)

BoundViewOf(s) ==
  LET root == WindowRoot(s) IN IF root \in known THEN tview[root] ELSE NoView

\* The toplevels whose window is v's, but for those in between being there.
Belonging(v) ==
  {t \in TopIds : /\ t \in known /\ t \in mapped
                  /\ parent[t] # NoTop /\ WindowRoot(idOf[t]) = vtop[v]}

\* Windows each over top or over one found before it, in the order of their ids.
Stacked(W, top) == \A t \in W : parent[t] = top \/ (parent[t] < t /\ parent[t] \in W)

\* The dialogs view_windows puts over v's toplevel: each mapped one whose
\* parent is among the windows found before it.
Dialogs(v) == UNION {W \in SUBSET Belonging(v) : Stacked(W, vtop[v])}

\* The window of v on top: its newest dialog, or its toplevel.
FocusWindow(v) ==
  LET newest == {t \in Dialogs(v) : \A u \in Dialogs(v) : u <= t}
  IN IF vtop[v] = NoTop \/ newest = {} THEN vtop[v] ELSE CHOOSE t \in newest : TRUE

ViewActivated(v) == focused = v /\ v \in live /\ v \notin suspended

\* What refresh_keyboard_focus points the keyboard at.
FocusTarget ==
  IF \E v \in live : ViewActivated(v) THEN FocusWindow(focused) ELSE NoTop

\* mutant: every window of the active view is active
ActivatedWithView(t) == ViewActivated(BoundViewOf(idOf[t]))

\* The states sync_states gives toplevel t.
Activated(t) ==
  LET v == BoundViewOf(idOf[t])
  IN v # NoView /\ ViewActivated(v) /\ FocusWindow(v) = idOf[t]
HiddenByOwnView(t) == tview[t] \in suspended            \* mutant: not its parent's
Hidden(t) == BoundViewOf(idOf[t]) \in suspended

\* refresh_keyboard_focus: sync_states, then the keyboard.
Refresh ==
  /\ keyboard' = FocusTarget'
  /\ activated' = {t \in known' : Activated(t)'}
  /\ hidden' = {t \in known' : Hidden(t)'}

\* mutant: the keyboard is left where it was
RefreshSkipped(condition) == UNCHANGED focusVars

RefreshIf(condition) == IF condition THEN Refresh ELSE UNCHANGED focusVars

-----------------------------------------------------------------------------
(* Commands from the platform: State::handle_cmd *)

\* Cmd::ViewCreated: a create under a live id unbinds the incumbent.  Dart watches
\* the id before it has the view made.
ViewCreated(v, p) ==
  /\ params' = [params EXCEPT ![v] = p]
  /\ live' = live \cup {v}
  /\ suspended' = suspended \ {v}
  /\ watched' = IF listening THEN watched \cup {v} ELSE watched
  /\ UNCHANGED <<listening, topVars, ttoken, tokens, focused>>
  /\ TryBind({v}, WithoutView(v), FreedBy(v), told \ {v})
  /\ RefreshIf(v \in live \/ vtop' # vtop)

\* Cmd::ViewDisposed.  The widget is gone: no Closed is posted.
ViewDisposed(v) ==
  /\ live' = live \ {v}
  /\ params' = [params EXCEPT ![v] = NoParams]
  /\ suspended' = suspended \ {v}
  /\ vtop' = WithoutView(v)
  /\ tview' = FreedBy(v)
  /\ told' = told \ {v}
  /\ watched' = watched \ {v}
  /\ focused' = IF focused = v THEN NoView ELSE focused
  /\ UNCHANGED <<listening, topVars, ttoken, tokens>>
  /\ RefreshIf(v \in live)

\* Cmd::ViewSuspended.
ViewSuspended(v, on) ==
  /\ suspended' = IF v \in live /\ on THEN suspended \cup {v} ELSE suspended \ {v}
  /\ UNCHANGED <<live, params, listening, watched>>
  /\ UNCHANGED <<bindVars, topVars, ttoken, tokens, focused>>
  /\ Refresh

\* Cmd::Focus: only a change does anything.
FocusInput(v, on) ==
  /\ (focused = v) # on
  /\ focused' = IF on THEN v ELSE NoView
  /\ UNCHANGED <<viewVars, bindVars, topVars, ttoken, tokens>>
  /\ Refresh

\* Cmd::ViewResized, ViewState, ViewCapabilities and ViewRequestSize all
\* configure the view's toplevel, by the view's own idea of its states.
ConfigureView(v) ==
  /\ v \in live /\ vtop[v] # NoTop
  /\ LET t == vtop[v]
         With(S, on) == IF on THEN S \cup {t} ELSE S \ {t}
     IN /\ activated' = With(activated, ViewActivated(v) /\ FocusWindow(v) = t)
        /\ hidden' = With(hidden, v \in suspended)
  /\ UNCHANGED <<viewVars, bindVars, topVars, ttoken, tokens, focused, keyboard>>

\* Cmd::IssueToken: a token no one has.
IssueToken(k) ==
  /\ tokens[k] = "unused"
  /\ tokens' = [tokens EXCEPT ![k] = "issued"]
  /\ UNCHANGED <<viewVars, bindVars, topVars, ttoken, focused, focusVars>>

\* ihs_wl_set_event_port, of a new isolate: events of the views there are already
\* are not posted again.
SetEventPort ==
  /\ listening' = TRUE
  /\ watched' = {} /\ told' = {}
  /\ UNCHANGED <<live, params, suspended, vtop, tview>>
  /\ UNCHANGED <<topVars, ttoken, tokens, focused, focusVars>>

\* The isolate ends, by a hot restart, or takes its port back.
StopsListening ==
  /\ listening
  /\ listening' = FALSE
  /\ watched' = {} /\ told' = {}
  /\ UNCHANGED <<live, params, suspended, vtop, tview>>
  /\ UNCHANGED <<topVars, ttoken, tokens, focused, focusVars>>

-----------------------------------------------------------------------------
(* Requests of clients: handlers/xdg.rs, compositor.rs, activation.rs *)

\* The ids in the data maps of the wl_surfaces client c may give the role
\* again: their last xdg_toplevel is gone.
BareSurfaces(c) ==
  {idOf[t] : t \in {u \in 1 .. nextId : client[u] = c}} \ {idOf[t] : t \in exists}

\* new_toplevel, on a new surface or on one whose toplevel was destroyed:
\* insert leaves a ToplevelId the surface already has.
NewToplevel(c) ==
  /\ nextId < MaxTops
  /\ nextId' = nextId + 1
  /\ \E s \in {nextId'} \cup BareSurfaces(c) : idOf' = [idOf EXCEPT ![nextId'] = s]
  /\ known' = known \cup {nextId'}
  /\ exists' = exists \cup {nextId'}
  /\ client' = [client EXCEPT ![nextId'] = c]
  /\ UNCHANGED <<committed, mapped, appId, parent>>
  /\ UNCHANGED <<viewVars, bindVars, ttoken, tokens, focused, focusVars>>

\* xdg_toplevel.set_app_id: the server only reads it when it binds.
SetAppId(t, a) ==
  /\ t \in exists
  /\ appId' = [appId EXCEPT ![t] = a]
  /\ UNCHANGED <<nextId, known, exists, idOf, client, committed, mapped, parent>>
  /\ UNCHANGED <<viewVars, bindVars, ttoken, tokens, focused, focusVars>>

\* toplevel_commit: the first one maps the toplevel and offers it to the
\* waiting views.
ToplevelCommit(t) ==
  /\ t \in exists
  /\ committed' = committed \cup {t}
  /\ UNCHANGED <<nextId, known, exists, idOf, client, appId, parent>>
  /\ UNCHANGED <<viewVars, ttoken, tokens, focused>>
  /\ LET id == idOf[t]
     IN IF id \in known \ mapped
        THEN /\ mapped' = mapped \cup {id}
             /\ TryBind(Waiting(vtop), vtop, tview, told)
             /\ Refresh
        ELSE UNCHANGED <<mapped, bindVars, focusVars>>

\* toplevel_destroyed: its view shows nothing any more, and is told so.
ToplevelDestroyed(t) ==
  /\ t \in exists
  /\ exists' = exists \ {t}
  /\ committed' = committed \ {t}
  /\ appId' = [appId EXCEPT ![t] = NoApp]
  /\ parent' = [parent EXCEPT ![t] = NoTop]
  /\ UNCHANGED <<nextId, idOf, client>>
  /\ UNCHANGED <<viewVars, tokens, focused>>
  /\ LET id == idOf[t]
         shownBy == IF id \in known THEN tview[id] ELSE NoView
         dialogOf == IF parent[t] # NoTop THEN BoundViewOf(id) ELSE NoView
     IN /\ known' = known \ {id}
        /\ mapped' = mapped \ {id}
        /\ ttoken' = [ttoken EXCEPT ![id] = NoToken]
        /\ IF shownBy # NoView
           THEN /\ vtop' = WithoutView(shownBy)
                /\ tview' = FreedBy(shownBy)
                /\ told' = told \ {shownBy}
           ELSE UNCHANGED bindVars
        /\ IF shownBy # NoView \/ dialogOf # NoView THEN Refresh
           ELSE /\ activated' = activated \ {id}
                /\ hidden' = hidden \ {id}
                /\ UNCHANGED keyboard

\* Surfaces that have the parents of theirs among them.
Upward(S) == \A s \in S : parent[s] # NoTop => parent[s] \in S

\* Whether surface s is p, or on the way up from p.
IsAtOrAbove(s, p) == \A S \in SUBSET TopIds : p \in S /\ Upward(S) => s \in S

\* parent_changed.  smithay refuses a parent that would close a loop.
ParentChanged(t, p) ==
  /\ t \in exists
  /\ \/ p = NoTop
     \/ \E u \in exists : /\ p = idOf[u] /\ client[u] = client[t]
                          /\ ~IsAtOrAbove(idOf[t], p)
  /\ parent' = [parent EXCEPT ![t] = p]
  /\ UNCHANGED <<nextId, known, exists, idOf, client, committed, mapped, appId>>
  /\ UNCHANGED <<viewVars, bindVars, ttoken, tokens, focused>>
  /\ Refresh

\* The views naming token k.
Namers(k) == {v \in live : params[v].token = k}

TokenKept(k) == tokens                                   \* mutant: usable again
UsedUp(k) == [tokens EXCEPT ![k] = "spent"]

\* request_activation with an issued token, on a surface of t: it is used
\* up, and t is for the view naming it, if need be from the view showing it.
RequestActivation(k, t) ==
  /\ t \in exists
  /\ tokens[k] = "issued"
  /\ tokens' = UsedUp(k)
  /\ UNCHANGED <<viewVars, topVars, focused>>
  /\ LET id == idOf[t]
         shownBy == tview[id]
     IN IF id \notin known
        THEN UNCHANGED <<ttoken, bindVars, focusVars>>
        ELSE /\ ttoken' = [ttoken EXCEPT ![id] = k]
             /\ \/ /\ shownBy = NoView
                   /\ TryBind(Waiting(vtop), vtop, tview, told)
                   /\ RefreshIf(vtop' # vtop)
                \/ /\ shownBy # NoView
                   /\ shownBy \in Namers(k) \/ Namers(k) = {}
                   /\ UNCHANGED <<bindVars, focusVars>>
                \/ /\ shownBy # NoView
                   /\ shownBy \notin Namers(k) /\ Namers(k) # {}
                   /\ TryBind(Waiting(WithoutView(shownBy)), WithoutView(shownBy),
                              FreedBy(shownBy), told)
                   /\ Refresh

-----------------------------------------------------------------------------
Init ==
  /\ live = {} /\ suspended = {}
  /\ listening = FALSE /\ watched = {} /\ told = {}
  /\ params = [v \in ViewIds |-> NoParams]
  /\ vtop = [v \in ViewIds |-> NoTop]
  /\ nextId = 0
  /\ known = {} /\ exists = {} /\ committed = {} /\ mapped = {}
  /\ idOf = [t \in TopIds |-> t]
  /\ client = [t \in TopIds |-> CHOOSE c \in Clients : TRUE]
  /\ appId = [t \in TopIds |-> NoApp]
  /\ ttoken = [t \in TopIds |-> NoToken]
  /\ tview = [t \in TopIds |-> NoView]
  /\ parent = [t \in TopIds |-> NoTop]
  /\ tokens = [k \in Tokens |-> "unused"]
  /\ focused = NoView
  /\ keyboard = NoTop
  /\ activated = {} /\ hidden = {}

Platform(v) ==
  \/ \E p \in ParamSet : ViewCreated(v, p)
  \/ ViewDisposed(v)
  \/ \E on \in BOOLEAN : ViewSuspended(v, on) \/ FocusInput(v, on)
  \/ ConfigureView(v)

Requests(t) ==
  \/ \E a \in AppIds : SetAppId(t, a)
  \/ ToplevelCommit(t)
  \/ ToplevelDestroyed(t)
  \/ \E p \in TopIds \cup {NoTop} : ParentChanged(t, p)
  \/ \E k \in Tokens : RequestActivation(k, t)

Next ==
  \/ \E v \in ViewIds : Platform(v)
  \/ SetEventPort \/ StopsListening
  \/ \E k \in Tokens : IssueToken(k)
  \/ \E c \in Clients : NewToplevel(c)
  \/ \E t \in TopIds : Requests(t)

Spec == Init /\ [][Next]_vars

-----------------------------------------------------------------------------
(* What must hold *)

\* A wl_surface carries one xdg_toplevel at a time, and its data map the id of
\* the first one it carried.
SurfacesAgree ==
  /\ \A t, u \in exists : idOf[t] = idOf[u] => t = u
  /\ \A t \in 1 .. nextId : idOf[t] \in 1 .. nextId /\ idOf[idOf[t]] = idOf[t]

\* A view and its toplevel agree on each other, and both are there: no two
\* views show one toplevel, none shows a destroyed one (state.rs
\* try_bind_view, unbind_view, unbind_toplevel).
BindingAgrees ==
  /\ \A v \in ViewIds : vtop[v] # NoTop =>
       /\ v \in live
       /\ vtop[v] \in known \cap mapped
       /\ tview[vtop[v]] = v
  /\ \A t \in TopIds : tview[t] # NoView => vtop[tview[t]] = t

\* A view naming a sandbox shows only toplevels of clients in that sandbox,
\* however the binding came about and whatever the client claims since
\* (state.rs try_bind_view: "which the client cannot claim for itself").
SandboxHonoured ==
  \A v \in ViewIds : vtop[v] # NoTop /\ params[v].sandbox # NoApp =>
    ClientCtx[client[vtop[v]]] = params[v].sandbox

\* An issued token stands for one toplevel at most, as long as that lives:
\* a client cannot use one again (activation.rs: "One toplevel per token").
OneToplevelPerToken ==
  /\ \A t, u \in known : ttoken[t] = ttoken[u] /\ ttoken[t] # NoToken => t = u
  /\ \A t \in known : ttoken[t] # NoToken => tokens[ttoken[t]] = "spent"

\* The isolate that listens was told last of each of its views that shows a
\* toplevel that it does: Bound is posted with each binding, and Closed never comes
\* after it while the binding lasts, whatever was dropped between the isolates
\* (events.rs post; state.rs try_bind_view, unbind_toplevel; view.dart _bound).
BoundIsTold == \A v \in watched : vtop[v] # NoTop => v \in told

\* A toplevel goes from one view straight to another only for a token: the
\* one it was just activated with, which the view it goes to names
\* (activation.rs request_activation: "has the better claim").
Handover(t) == /\ tview[t] # NoView /\ tview'[t] # NoView
               /\ tview'[t] # tview[t]
ByToken(t) == /\ params'[tview'[t]].token = ttoken'[t]
              /\ ttoken'[t] # NoToken /\ ttoken'[t] # ttoken[t]
HandoverIsByToken == [][\A t \in TopIds : Handover(t) => ByToken(t)]_vars

\* A view that names no token never comes to show a toplevel activated with
\* one while another view names that token (state.rs try_bind_view, which
\* passes such toplevels over; README.md "Views binding by app_id pass over").
TokenToplevelsPassedOver ==
  [][\A v \in ViewIds, t \in TopIds :
       vtop'[v] = t /\ vtop[v] # t /\ ttoken'[t] # NoToken => params'[v].token = ttoken'[t]]_vars

\* When a toplevel maps, no view that would show it is left waiting while
\* nothing shows the toplevel (compositor.rs toplevel_commit, state.rs
\* bind_waiting_views).
MappedIsOffered ==
  [][\A t \in TopIds : t \in mapped' \ mapped =>
       \/ tview'[t] # NoView
       \/ \A v \in live' : vtop'[v] = NoTop => ~Claims(v, t)']_vars

\* The keyboard is where the scene says: on the topmost window of the view
\* Dart focused while that is in the scene, and nowhere otherwise, with every
\* binding, mapping, dialog, focus change and suspension (input.rs
\* refresh_keyboard_focus, called by each handler that changes one).
KeyboardFollowsScene == keyboard = FocusTarget

\* No window but the one with the keyboard is drawn as active (state.rs
\* sync_states, configure_view).
OnlyKeyboardWindowActive == activated \subseteq {keyboard}

\* The windows a view shows were configured as suspended exactly while it is
\* out of the scene, and a toplevel belonging to no such view was not (state.rs
\* sync_states: "it has to draw to map").  A toplevel that became a dialog
\* after a view bound it belongs to two views and is left out.  So are, while one
\* is shown out of the scene, those that MaxDepth leads to it and not past it: if
\* a dialog in between is destroyed nobody tells them (xdg.rs toplevel_destroyed).
SuspendedFollowsScene ==
  /\ \A v \in live : vtop[v] # NoTop =>
       \A t \in Dialogs(v) \cup {vtop[v]} :
         (tview[t] = NoView) # (parent[t] = NoTop) => (t \in hidden <=> v \in suspended)
  /\ \A t \in hidden :
       \/ {tview[t], BoundViewOf(idOf[t])} \cap suspended # {}
       \/ \E v \in suspended : vtop[v] # NoTop /\ parent[vtop[v]] # NoTop

-----------------------------------------------------------------------------
(* What the documentation says of the server, and a run shows it does not do *)

\* A toplevel is mapped at its initial commit (state.rs Toplevels).
MappedAtCommit == committed \subseteq mapped
=============================================================================
