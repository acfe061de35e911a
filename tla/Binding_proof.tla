---------------------------- MODULE Binding_proof ----------------------------
(***************************************************************************)
(* Theorems about Binding, for every set of views, clients, tokens and app *)
(* ids and every number of toplevels.                                      *)
(***************************************************************************)
EXTENDS Binding, TLAPS

\* The two ends of the bindings vt and tv agree.
Agree(vt, tv) ==
  /\ \A v \in ViewIds : vt[v] # NoTop => tv[vt[v]] = v
  /\ \A t \in TopIds : tv[t] # NoView => vt[tv[t]] = t

VTopType == [ViewIds -> TopIds \cup {NoTop}]
TViewType == [TopIds -> ViewIds \cup {NoView}]

\* What trying the views of S does, when none of them shows anything: the
\* bindings still agree, each new one is a claim, and the others are as before.
LEMMA TryBindBinds ==
  ASSUME NEW S \in SUBSET ViewIds, NEW vt \in VTopType, NEW tv \in TViewType, NEW td,
         Agree(vt, tv), \A v \in S : vt[v] = NoTop,
         TryBind(S, vt, tv, td)
  PROVE  /\ vtop' \in VTopType
         /\ tview' \in TViewType
         /\ Agree(vtop', tview')
         /\ \A v \in ViewIds \ S : vtop'[v] = vt[v]
         /\ \A t \in TopIds : tview'[t] = tv[t] \/ (tv[t] = NoView /\ tview'[t] \in S)
         /\ td \subseteq told' /\ told' \subseteq td \cup (S \cap watched')
<1>1. PICK got \in [S -> TopIds \cup {NoTop}] :
        /\ Takes(S, tv, got)
        /\ vtop' = [v \in ViewIds |-> IF v \in S THEN got[v] ELSE vt[v]]
        /\ tview' = [t \in TopIds |-> IF \E v \in S : got[v] = t
                                      THEN CHOOSE v \in S : got[v] = t ELSE tv[t]]
        /\ told' = Posted(td, {v \in S : got[v] # NoTop})
  BY DEF TryBind
<1>2. ASSUME NEW v \in S, got[v] # NoTop
      PROVE  /\ Claims(v, got[v])'
             /\ got[v] \in TopIds /\ tv[got[v]] = NoView
             /\ \A u \in S : u < v => got[u] # got[v]
  <2>. DEFINE free == {t \in TopIds : /\ Claims(v, t)'
                                      /\ tv[t] = NoView
                                      /\ \A u \in S : u < v => got[u] # t}
  <2>1. IF free = {} THEN got[v] = NoTop ELSE Oldest(got[v], free)
    BY <1>1 DEF Takes
  <2>2. got[v] \in free
    BY <2>1, <1>2 DEF Oldest
  <2>3. QED BY <2>2
<1>3. \A u, v \in S : got[u] = got[v] /\ got[v] # NoTop => u = v
  BY <1>2, ViewIdsAssumption
<1>4. vtop' \in VTopType
  BY <1>1 DEF VTopType
<1>5. \A t \in TopIds : (\E v \in S : got[v] = t) => tview'[t] \in S /\ got[tview'[t]] = t
  BY <1>1
<1>6. \A t \in TopIds : ~(\E v \in S : got[v] = t) => tview'[t] = tv[t]
  BY <1>1
<1>7. tview' \in TViewType
  BY <1>1, <1>5, <1>6 DEF TViewType
<1>8. \A v \in ViewIds : vtop'[v] # NoTop => tview'[vtop'[v]] = v
  <2>. SUFFICES ASSUME NEW v \in ViewIds, vtop'[v] # NoTop PROVE tview'[vtop'[v]] = v
    OBVIOUS
  <2>1. CASE v \in S
    BY <2>1, <1>1, <1>2, <1>3, <1>5
  <2>2. CASE v \notin S
    <3>1. vtop'[v] = vt[v] /\ vt[v] \in TopIds /\ tv[vt[v]] = v
      BY <2>2, <1>1 DEF Agree, VTopType
    <3>2. v # NoView
      BY ViewIdsAssumption
    <3>3. ~(\E u \in S : got[u] = vt[v])
      BY <3>1, <3>2, <1>2, TopsAssumption
    <3>4. QED BY <3>1, <3>3, <1>6
  <2>3. QED BY <2>1, <2>2
<1>9. \A t \in TopIds : tview'[t] # NoView => vtop'[tview'[t]] = t
  <2>. SUFFICES ASSUME NEW t \in TopIds, tview'[t] # NoView PROVE vtop'[tview'[t]] = t
    OBVIOUS
  <2>1. CASE \E v \in S : got[v] = t
    BY <2>1, <1>1, <1>5
  <2>2. CASE ~(\E v \in S : got[v] = t)
    <3>1. tview'[t] = tv[t] /\ tv[t] \in ViewIds /\ vt[tv[t]] = t
      BY <2>2, <1>6 DEF Agree, TViewType
    <3>2. tv[t] \notin S
      BY <3>1, TopsAssumption
    <3>3. QED BY <3>1, <3>2, <1>1
  <2>3. QED BY <2>1, <2>2
<1>10. \A t \in TopIds : tview'[t] = tv[t] \/ (tv[t] = NoView /\ tview'[t] \in S)
  BY <1>2, <1>5, <1>6, TopsAssumption
<1>11. td \subseteq told' /\ told' \subseteq td \cup (S \cap watched')
  BY <1>1 DEF Posted
<1>12. QED BY <1>1, <1>4, <1>7, <1>8, <1>9, <1>10, <1>11 DEF Agree

\* The parts of a claim the invariants and theorems below are about.
Fits(v, t) ==
  /\ t \in known /\ t \in mapped
  /\ params[v].sandbox # NoApp => ClientCtx[client[t]] = params[v].sandbox
  /\ ttoken[t] # NoToken => params[v].token = ttoken[t]

\* Each view that got a toplevel has a claim to it, and whoever listens was told.
LEMMA TryBindClaims ==
  ASSUME NEW S \in SUBSET ViewIds, NEW vt, NEW tv, NEW td, TryBind(S, vt, tv, td),
         NEW v \in S, vtop'[v] # NoTop
  PROVE  Fits(v, vtop[v])' /\ (listening /\ v \in watched' => v \in told')
<1>1. PICK got \in [S -> TopIds \cup {NoTop}] :
        /\ Takes(S, tv, got)
        /\ vtop' = [u \in ViewIds |-> IF u \in S THEN got[u] ELSE vt[u]]
        /\ told' = Posted(td, {u \in S : got[u] # NoTop})
  BY DEF TryBind
<1>2. vtop'[v] = got[v]
  BY <1>1
<1>. DEFINE free == {t \in TopIds : /\ Claims(v, t)'
                                    /\ tv[t] = NoView
                                    /\ \A u \in S : u < v => got[u] # t}
<1>3. IF free = {} THEN got[v] = NoTop ELSE Oldest(got[v], free)
  BY <1>1 DEF Takes
<1>4. got[v] \in free
  BY <1>2, <1>3 DEF Oldest
<1>5. Claims(v, got[v])'
  BY <1>4
<1>6. QED BY <1>1, <1>2, <1>5 DEF Claims, Fits, Posted

\* unbind_view leaves bindings that agree, without v's.
LEMMA UnbindUnbinds ==
  ASSUME NEW v \in ViewIds, vtop \in VTopType, tview \in TViewType, Agree(vtop, tview)
  PROVE  /\ WithoutView(v) \in VTopType
         /\ FreedBy(v) \in TViewType
         /\ Agree(WithoutView(v), FreedBy(v))
         /\ WithoutView(v)[v] = NoTop
         /\ \A u \in ViewIds \ {v} : WithoutView(v)[u] = vtop[u]
BY ViewIdsAssumption, TopsAssumption DEF WithoutView, FreedBy, Agree, VTopType, TViewType

\* The keyboard is put on a toplevel or nowhere, and only known toplevels get
\* a state.
LEMMA RefreshTypes ==
  ASSUME vtop' \in VTopType, live' \subseteq ViewIds, Refresh
  PROVE  /\ keyboard' \in TopIds \cup {NoTop}
         /\ activated' \subseteq known' /\ hidden' \subseteq known'
<1>1. ASSUME NEW v \in ViewIds PROVE FocusWindow(v)' \in TopIds \cup {NoTop}
  <2>1. Dialogs(v)' \subseteq TopIds
    BY DEF Dialogs, Belonging
  <2>2. QED BY <1>1, <2>1 DEF FocusWindow, VTopType
<1>2. FocusTarget' \in TopIds \cup {NoTop}
  BY <1>1 DEF FocusTarget, ViewActivated
<1>3. QED BY <1>2 DEF Refresh

-----------------------------------------------------------------------------
(* The inductive invariant *)

\* What holds of a view that shows a toplevel.
Shown(v) ==
  vtop[v] # NoTop =>
    /\ v \in live
    /\ v \in watched => v \in told
    /\ vtop[v] \in known /\ vtop[v] \in mapped
    /\ params[v].sandbox # NoApp => ClientCtx[client[vtop[v]]] = params[v].sandbox

\* Views are watched by an isolate that listens.
Watching == watched # {} => listening

\* Besides the types and the invariants checked, it is about surfaces: else
\* destroying a toplevel could take another one's entry.
Inv ==
  /\ TypeOK
  /\ SurfacesAgree
  /\ Agree(vtop, tview)
  /\ \A v \in ViewIds : Shown(v)
  /\ Watching

LEMMA InvImplies == Inv => BindingAgrees /\ BoundIsTold /\ SandboxHonoured
BY DEF Inv, TypeOK, Agree, Shown, BindingAgrees, BoundIsTold, SandboxHonoured

LEMMA InitInv == Init => Inv
<1>. SUFFICES ASSUME Init PROVE Inv
  OBVIOUS
<1>1. TypeOK
  <2>1. params \in [ViewIds -> ParamType]
    BY DEF Init, ParamType, NoParams
  <2>2. nextId \in 0 .. MaxTops /\ client \in [TopIds -> Clients]
    BY ClientsAssumption, TopsAssumption DEF Init
  <2>3. /\ live = {} /\ suspended = {} /\ listening \in BOOLEAN /\ watched = {} /\ told = {}
        /\ known = {} /\ exists = {} /\ committed = {} /\ mapped = {}
        /\ focused = NoView /\ keyboard = NoTop /\ activated = {} /\ hidden = {}
    BY DEF Init
  <2>4. /\ vtop \in [ViewIds -> TopIds \cup {NoTop}] /\ idOf \in [TopIds -> TopIds]
        /\ appId \in [TopIds -> AppIds \cup {NoApp}]
        /\ ttoken \in [TopIds -> Tokens \cup {NoToken}]
        /\ tview \in [TopIds -> ViewIds \cup {NoView}]
        /\ parent \in [TopIds -> TopIds \cup {NoTop}]
        /\ tokens \in [Tokens -> {"unused", "issued", "spent"}]
    BY DEF Init
  <2>5. QED BY <2>1, <2>2, <2>3, <2>4 DEF TypeOK
<1>2. SurfacesAgree
  BY DEF Init, SurfacesAgree
<1>3. Agree(vtop, tview) /\ (\A v \in ViewIds : Shown(v)) /\ Watching
  BY DEF Init, Agree, Shown, Watching
<1>4. QED BY <1>1, <1>2, <1>3 DEF Inv

LEMMA ViewCreatedInv ==
  ASSUME Inv, NEW v \in ViewIds, NEW p \in ParamSet, ViewCreated(v, p)
  PROVE  Inv'
<1>1. TypeOK /\ Agree(vtop, tview) /\ vtop \in VTopType /\ tview \in TViewType
  BY DEF Inv, TypeOK, VTopType, TViewType
<1>2. /\ WithoutView(v) \in VTopType /\ FreedBy(v) \in TViewType
      /\ Agree(WithoutView(v), FreedBy(v)) /\ WithoutView(v)[v] = NoTop
      /\ \A u \in ViewIds \ {v} : WithoutView(v)[u] = vtop[u]
  BY <1>1, UnbindUnbinds
<1>3. TryBind({v}, WithoutView(v), FreedBy(v), told \ {v})
  BY DEF ViewCreated
<1>4. /\ vtop' \in VTopType /\ tview' \in TViewType /\ Agree(vtop', tview')
      /\ vtop'[v] # NoTop => Fits(v, vtop[v])' /\ (listening /\ v \in watched' => v \in told')
      /\ \A u \in ViewIds \ {v} : vtop'[u] = vtop[u]
      /\ told \ {v} \subseteq told' /\ told' \subseteq (told \ {v}) \cup ({v} \cap watched')
  <2>1. {v} \in SUBSET ViewIds /\ \A u \in {v} : WithoutView(v)[u] = NoTop
    BY <1>2
  <2>2. /\ vtop' \in VTopType /\ tview' \in TViewType /\ Agree(vtop', tview')
        /\ \A u \in ViewIds \ {v} : vtop'[u] = WithoutView(v)[u]
        /\ told \ {v} \subseteq told' /\ told' \subseteq (told \ {v}) \cup ({v} \cap watched')
    BY <1>2, <1>3, <2>1, TryBindBinds
  <2>3. vtop'[v] # NoTop => Fits(v, vtop[v])' /\ (listening /\ v \in watched' => v \in told')
    BY <1>3, <2>1, TryBindClaims
  <2>4. QED BY <1>2, <2>2, <2>3
<1>5. TypeOK'
  <2>1. live' \subseteq ViewIds /\ params' \in [ViewIds -> ParamType]
    BY <1>1, ParamsAssumption DEF ViewCreated, TypeOK
  <2>2. /\ keyboard' \in TopIds \cup {NoTop}
        /\ activated' \subseteq known' /\ hidden' \subseteq known'
    BY <1>1, <1>4, <2>1, RefreshTypes DEF ViewCreated, RefreshIf, TypeOK, topVars, focusVars
  <2>3. QED BY <1>1, <1>4, <2>1, <2>2 DEF ViewCreated, TypeOK, topVars, VTopType, TViewType
<1>6. SurfacesAgree' /\ Watching'
  BY DEF Inv, SurfacesAgree, ViewCreated, topVars, Watching
<1>7. ASSUME NEW u \in ViewIds PROVE Shown(u)'
  <2>1. CASE u = v
    BY <2>1, <1>4, <1>6 DEF Shown, Fits, ViewCreated, Watching
  <2>2. CASE u # v
    <3>1. Shown(u) /\ vtop'[u] = vtop[u] /\ params'[u] = params[u]
      BY <2>2, <1>1, <1>4 DEF Inv, ViewCreated, TypeOK
    <3>2. QED BY <3>1, <2>2, <1>4 DEF Shown, ViewCreated, topVars
  <2>3. QED BY <2>1, <2>2
<1>8. QED BY <1>4, <1>5, <1>6, <1>7 DEF Inv

LEMMA ViewDisposedInv ==
  ASSUME Inv, NEW v \in ViewIds, ViewDisposed(v)
  PROVE  Inv'
<1>1. TypeOK /\ Agree(vtop, tview) /\ vtop \in VTopType /\ tview \in TViewType
  BY DEF Inv, TypeOK, VTopType, TViewType
<1>2. /\ vtop' \in VTopType /\ tview' \in TViewType
      /\ Agree(vtop', tview') /\ vtop'[v] = NoTop
      /\ \A u \in ViewIds \ {v} : vtop'[u] = vtop[u]
  BY <1>1, UnbindUnbinds DEF ViewDisposed
<1>3. TypeOK'
  <2>1. live' \subseteq ViewIds /\ params' \in [ViewIds -> ParamType]
    BY <1>1 DEF ViewDisposed, TypeOK, NoParams, ParamType
  <2>2. /\ keyboard' \in TopIds \cup {NoTop}
        /\ activated' \subseteq known' /\ hidden' \subseteq known'
    BY <1>1, <1>2, <2>1, RefreshTypes DEF ViewDisposed, RefreshIf, TypeOK, topVars, focusVars
  <2>3. QED BY <1>1, <1>2, <2>1, <2>2 DEF ViewDisposed, TypeOK, topVars, VTopType, TViewType
<1>4. SurfacesAgree' /\ Watching'
  BY DEF Inv, SurfacesAgree, ViewDisposed, topVars, Watching
<1>5. ASSUME NEW u \in ViewIds PROVE Shown(u)'
  BY <1>1, <1>2 DEF Inv, Shown, ViewDisposed, topVars, TypeOK
<1>6. QED BY <1>2, <1>3, <1>4, <1>5 DEF Inv

LEMMA ViewSuspendedInv ==
  ASSUME Inv, NEW v \in ViewIds, NEW on \in BOOLEAN, ViewSuspended(v, on)
  PROVE  Inv'
<1>1. /\ keyboard' \in TopIds \cup {NoTop}
      /\ activated' \subseteq known' /\ hidden' \subseteq known'
  BY RefreshTypes DEF Inv, TypeOK, ViewSuspended, bindVars, VTopType
<1>2. TypeOK'
  BY <1>1 DEF Inv, TypeOK, ViewSuspended, bindVars, topVars
<1>3. SurfacesAgree' /\ Agree(vtop', tview') /\ Watching'
  BY DEF Inv, SurfacesAgree, ViewSuspended, viewVars, bindVars, topVars, Watching
<1>4. ASSUME NEW u \in ViewIds PROVE Shown(u)'
  BY DEF Inv, Shown, ViewSuspended, bindVars, topVars
<1>5. QED BY <1>2, <1>3, <1>4 DEF Inv

LEMMA FocusInputInv ==
  ASSUME Inv, NEW v \in ViewIds, NEW on \in BOOLEAN, FocusInput(v, on)
  PROVE  Inv'
<1>1. /\ keyboard' \in TopIds \cup {NoTop}
      /\ activated' \subseteq known' /\ hidden' \subseteq known'
  BY RefreshTypes DEF Inv, TypeOK, FocusInput, bindVars, viewVars, VTopType
<1>2. TypeOK'
  BY <1>1 DEF Inv, TypeOK, FocusInput, bindVars, viewVars, topVars
<1>3. SurfacesAgree' /\ Agree(vtop', tview') /\ Watching'
  BY DEF Inv, SurfacesAgree, FocusInput, viewVars, bindVars, topVars, Watching
<1>4. ASSUME NEW u \in ViewIds PROVE Shown(u)'
  BY DEF Inv, Shown, FocusInput, bindVars, viewVars, topVars
<1>5. QED BY <1>2, <1>3, <1>4 DEF Inv

LEMMA ConfigureViewInv ==
  ASSUME Inv, NEW v \in ViewIds, ConfigureView(v)
  PROVE  Inv'
<1>1. vtop[v] \in known
  BY DEF Inv, Shown, ConfigureView
<1>2. activated' \subseteq known /\ hidden' \subseteq known
  BY <1>1 DEF Inv, TypeOK, ConfigureView
<1>3. TypeOK'
  BY <1>2 DEF Inv, TypeOK, ConfigureView, bindVars, viewVars, topVars
<1>4. SurfacesAgree' /\ Agree(vtop', tview') /\ Watching'
  BY DEF Inv, SurfacesAgree, ConfigureView, viewVars, bindVars, topVars, Watching
<1>5. ASSUME NEW u \in ViewIds PROVE Shown(u)'
  BY DEF Inv, Shown, ConfigureView, bindVars, viewVars, topVars
<1>6. QED BY <1>3, <1>4, <1>5 DEF Inv

LEMMA IssueTokenInv ==
  ASSUME Inv, NEW k \in Tokens, IssueToken(k)
  PROVE  Inv'
<1>1. TypeOK'
  BY DEF Inv, TypeOK, IssueToken, bindVars, viewVars, topVars, focusVars
<1>2. SurfacesAgree' /\ Agree(vtop', tview') /\ Watching'
  BY DEF Inv, SurfacesAgree, IssueToken, viewVars, bindVars, topVars, Watching
<1>3. ASSUME NEW u \in ViewIds PROVE Shown(u)'
  BY DEF Inv, Shown, IssueToken, bindVars, viewVars, topVars
<1>4. QED BY <1>1, <1>2, <1>3 DEF Inv

LEMMA SetAppIdInv ==
  ASSUME Inv, NEW t \in TopIds, NEW a \in AppIds, SetAppId(t, a)
  PROVE  Inv'
<1>1. TypeOK'
  BY DEF Inv, TypeOK, SetAppId, bindVars, viewVars, focusVars
<1>2. SurfacesAgree' /\ Agree(vtop', tview') /\ Watching'
  BY DEF Inv, SurfacesAgree, SetAppId, viewVars, bindVars, Watching
<1>3. ASSUME NEW u \in ViewIds PROVE Shown(u)'
  BY DEF Inv, Shown, SetAppId, bindVars, viewVars
<1>4. QED BY <1>1, <1>2, <1>3 DEF Inv

LEMMA ParentChangedInv ==
  ASSUME Inv, NEW t \in TopIds, NEW p \in TopIds \cup {NoTop}, ParentChanged(t, p)
  PROVE  Inv'
<1>1. /\ keyboard' \in TopIds \cup {NoTop}
      /\ activated' \subseteq known' /\ hidden' \subseteq known'
  BY RefreshTypes DEF Inv, TypeOK, ParentChanged, bindVars, viewVars, VTopType
<1>2. TypeOK'
  BY <1>1 DEF Inv, TypeOK, ParentChanged, bindVars, viewVars
<1>3. SurfacesAgree' /\ Agree(vtop', tview') /\ Watching'
  BY DEF Inv, SurfacesAgree, ParentChanged, viewVars, bindVars, Watching
<1>4. ASSUME NEW u \in ViewIds PROVE Shown(u)'
  BY DEF Inv, Shown, ParentChanged, bindVars, viewVars
<1>5. QED BY <1>2, <1>3, <1>4 DEF Inv

LEMMA NewToplevelInv ==
  ASSUME Inv, NEW c \in Clients, NewToplevel(c)
  PROVE  Inv'
<1>1. PICK s \in {nextId + 1} \cup BareSurfaces(c) : idOf' = [idOf EXCEPT ![nextId + 1] = s]
  BY DEF NewToplevel
<1>2. /\ nextId \in 0 .. MaxTops /\ nextId < MaxTops /\ nextId' = nextId + 1
      /\ nextId + 1 \in TopIds /\ nextId + 1 \notin known
  BY TopsAssumption DEF Inv, TypeOK, NewToplevel, TopIds
<1>3. /\ s \in 1 .. nextId' /\ s \notin {idOf[t] : t \in exists}
      /\ s # nextId' => s \in 1 .. nextId /\ idOf[s] = s
  BY <1>2, TopsAssumption DEF BareSurfaces, Inv, TypeOK, SurfacesAgree, TopIds
<1>4. TypeOK'
  <2>1. nextId' \in 0 .. MaxTops /\ s \in TopIds /\ 1 .. nextId \subseteq 1 .. nextId'
    BY <1>2, <1>3, TopsAssumption DEF TopIds
  <2>2. known' \subseteq 1 .. nextId' /\ exists' \subseteq known' /\ mapped' \subseteq known'
    BY <1>2, <2>1 DEF Inv, TypeOK, NewToplevel
  <2>3. idOf' \in [TopIds -> TopIds] /\ client' \in [TopIds -> Clients]
    BY <1>1, <2>1 DEF Inv, TypeOK, NewToplevel
  <2>4. committed' \subseteq exists' /\ activated' \subseteq known' /\ hidden' \subseteq known'
    BY DEF Inv, TypeOK, NewToplevel, focusVars
  <2>5. QED BY <2>1, <2>2, <2>3, <2>4
            DEF Inv, TypeOK, NewToplevel, bindVars, viewVars, focusVars
<1>5. SurfacesAgree'
  <2>1. \A t \in exists : t \in 1 .. nextId
    BY DEF Inv, TypeOK
  <2>2. \A t \in TopIds : idOf'[t] = IF t = nextId + 1 THEN s ELSE idOf[t]
    BY <1>1 DEF Inv, TypeOK
  <2>3. \A t, u \in exists' : idOf'[t] = idOf'[u] => t = u
    <3>0. exists \subseteq known /\ \A t \in exists : t \in TopIds
      <4>1. exists \subseteq 1 .. nextId
        BY <2>1
      <4>2. 1 .. nextId \subseteq TopIds
        BY <1>2, TopsAssumption DEF TopIds
      <4>3. QED BY <4>1, <4>2 DEF Inv, TypeOK
    <3>1. /\ exists' = exists \cup {nextId + 1} /\ nextId + 1 \notin exists
          /\ \A t, u \in exists : idOf[t] = idOf[u] => t = u
      BY <1>2, <3>0 DEF Inv, SurfacesAgree, NewToplevel
    <3>2. \A t \in exists : idOf'[t] = idOf[t] /\ idOf[t] # s
      BY <1>3, <2>2, <3>0, <3>1
    <3>3. idOf'[nextId + 1] = s
      BY <1>2, <2>2
    <3>4. QED BY <3>1, <3>2, <3>3
  <2>4. \A t \in 1 .. nextId' : idOf'[t] \in 1 .. nextId' /\ idOf'[idOf'[t]] = idOf'[t]
    <3>. TAKE t \in 1 .. nextId'
    <3>1. t \in TopIds /\ nextId \in Nat /\ 1 .. nextId \subseteq TopIds
      BY <1>2, TopsAssumption DEF TopIds
    <3>2. CASE t = nextId + 1
      BY <3>1, <3>2, <1>2, <1>3, <2>2
    <3>3. CASE t # nextId + 1
      <4>1. t \in 1 .. nextId
        BY <3>1, <3>3, <1>2
      <4>2. idOf[t] \in 1 .. nextId /\ idOf[idOf[t]] = idOf[t]
        BY <4>1 DEF Inv, SurfacesAgree
      <4>3. idOf[t] \in TopIds /\ idOf[t] # nextId + 1
        BY <4>2, <3>1
      <4>4. QED BY <4>2, <4>3, <3>1, <3>3, <2>2, <1>2
    <3>4. QED BY <3>2, <3>3
  <2>5. QED BY <2>3, <2>4 DEF SurfacesAgree
<1>6. Agree(vtop', tview') /\ Watching'
  BY DEF Inv, NewToplevel, viewVars, bindVars, Watching
<1>7. ASSUME NEW u \in ViewIds PROVE Shown(u)'
  BY <1>2 DEF Inv, Shown, TypeOK, NewToplevel, bindVars, viewVars
<1>8. QED BY <1>4, <1>5, <1>6, <1>7 DEF Inv

LEMMA ToplevelCommitInv ==
  ASSUME Inv, NEW t \in TopIds, ToplevelCommit(t)
  PROVE  Inv'
<1>1. TypeOK /\ Agree(vtop, tview) /\ vtop \in VTopType /\ tview \in TViewType
  BY DEF Inv, TypeOK, VTopType, TViewType
<1>2. SurfacesAgree' /\ Watching'
  BY DEF Inv, SurfacesAgree, ToplevelCommit, viewVars, Watching
<1>3. CASE idOf[t] \in known \ mapped
  <2>1. /\ mapped' = mapped \cup {idOf[t]} /\ Refresh
        /\ TryBind(Waiting(vtop), vtop, tview, told)
    BY <1>3 DEF ToplevelCommit
  <2>2. Waiting(vtop) \in SUBSET live /\ \A u \in Waiting(vtop) : vtop[u] = NoTop
    BY DEF Waiting
  <2>3. Waiting(vtop) \in SUBSET ViewIds
    BY <2>2, <1>1 DEF TypeOK
  <2>4. /\ vtop' \in VTopType /\ tview' \in TViewType /\ Agree(vtop', tview')
        /\ \A u \in ViewIds \ Waiting(vtop) : vtop'[u] = vtop[u]
        /\ told \subseteq told' /\ told' \subseteq told \cup (Waiting(vtop) \cap watched')
    BY <1>1, <2>1, <2>2, <2>3, TryBindBinds
  <2>5. TypeOK'
    <3>1. /\ keyboard' \in TopIds \cup {NoTop}
          /\ activated' \subseteq known' /\ hidden' \subseteq known'
      BY <1>1, <2>1, <2>4, RefreshTypes DEF ToplevelCommit, TypeOK, viewVars
    <3>2. told' \subseteq watched' /\ mapped' \subseteq known' /\ committed' \subseteq exists'
      BY <1>1, <1>3, <2>1, <2>2, <2>4 DEF ToplevelCommit, TypeOK, viewVars
    <3>3. QED BY <1>1, <2>4, <3>1, <3>2
              DEF ToplevelCommit, TypeOK, viewVars, VTopType, TViewType
  <2>6. ASSUME NEW u \in ViewIds PROVE Shown(u)'
    <3>1. CASE u \in Waiting(vtop)
      <4>1. vtop'[u] # NoTop => Fits(u, vtop[u])' /\ (listening /\ u \in watched' => u \in told')
        BY <3>1, <2>1, <2>3, TryBindClaims
      <4>2. QED BY <4>1, <3>1, <2>2 DEF Inv, Watching, Shown, Fits, ToplevelCommit, viewVars
    <3>2. CASE u \notin Waiting(vtop)
      BY <3>2, <2>1, <2>4 DEF Inv, Shown, ToplevelCommit, viewVars
    <3>3. QED BY <3>1, <3>2
  <2>7. QED BY <1>2, <2>4, <2>5, <2>6 DEF Inv
<1>4. CASE idOf[t] \notin known \ mapped
  <2>1. TypeOK'
    BY <1>1, <1>4 DEF ToplevelCommit, TypeOK, viewVars, bindVars, focusVars
  <2>2. Agree(vtop', tview')
    BY <1>1, <1>4 DEF ToplevelCommit, bindVars
  <2>3. ASSUME NEW u \in ViewIds PROVE Shown(u)'
    BY <1>4 DEF Inv, Shown, ToplevelCommit, viewVars, bindVars
  <2>4. QED BY <1>2, <2>1, <2>2, <2>3 DEF Inv
<1>5. QED BY <1>3, <1>4

LEMMA ToplevelDestroyedInv ==
  ASSUME Inv, NEW t \in TopIds, ToplevelDestroyed(t)
  PROVE  Inv'
<1>. DEFINE id == idOf[t]
            shownBy == IF id \in known THEN tview[id] ELSE NoView
<1>1. /\ TypeOK /\ SurfacesAgree /\ Agree(vtop, tview)
      /\ vtop \in VTopType /\ tview \in TViewType /\ id \in TopIds
  BY DEF Inv, TypeOK, VTopType, TViewType
<1>2. known' = known \ {id} /\ mapped' = mapped \ {id} /\ exists' = exists \ {t}
  BY DEF ToplevelDestroyed
<1>3. exists' \subseteq known'
  <2>1. t \in 1 .. nextId /\ exists \subseteq 1 .. nextId /\ exists \subseteq known
    BY <1>1 DEF TypeOK, ToplevelDestroyed
  <2>2. id \in exists => id = t
    BY <1>1, <2>1 DEF SurfacesAgree, ToplevelDestroyed
  <2>3. QED BY <1>2, <2>1, <2>2
<1>4. SurfacesAgree' /\ Watching'
  BY <1>1, <1>2 DEF Inv, SurfacesAgree, ToplevelDestroyed, viewVars, Watching
<1>5. /\ vtop' \in VTopType /\ tview' \in TViewType /\ Agree(vtop', tview')
      /\ \A u \in ViewIds : vtop'[u] # NoTop => vtop'[u] = vtop[u] /\ vtop[u] # id
      /\ \A u \in ViewIds : vtop'[u] # NoTop /\ u \in told => u \in told'
      /\ told' \subseteq told
  <2>1. CASE shownBy # NoView
    <3>1. /\ vtop' = WithoutView(shownBy) /\ tview' = FreedBy(shownBy)
          /\ told' = told \ {shownBy}
      BY <2>1 DEF ToplevelDestroyed
    <3>2. shownBy \in ViewIds /\ tview[id] = shownBy /\ vtop[shownBy] = id
      BY <2>1, <1>1 DEF Agree, TViewType
    <3>3. /\ vtop' \in VTopType /\ tview' \in TViewType /\ Agree(vtop', tview')
          /\ vtop'[shownBy] = NoTop
          /\ \A u \in ViewIds \ {shownBy} : vtop'[u] = vtop[u]
      BY <1>1, <3>1, <3>2, UnbindUnbinds
    <3>4. ASSUME NEW u \in ViewIds, vtop'[u] # NoTop
          PROVE  u # shownBy /\ vtop'[u] = vtop[u] /\ vtop[u] # id
      BY <1>1, <3>2, <3>3, <3>4 DEF Agree
    <3>5. QED BY <3>1, <3>3, <3>4
  <2>2. CASE shownBy = NoView
    <3>1. UNCHANGED <<vtop, tview, told>>
      BY <2>2 DEF ToplevelDestroyed, bindVars
    <3>2. ASSUME NEW u \in ViewIds, vtop[u] # NoTop PROVE vtop[u] # id
      BY <1>1, <2>2, <3>2, ViewIdsAssumption DEF Inv, Shown, Agree
    <3>3. QED BY <1>1, <3>1, <3>2
  <2>3. QED BY <2>1, <2>2
<1>6. TypeOK'
  <2>1. /\ keyboard' \in TopIds \cup {NoTop}
        /\ activated' \subseteq known' /\ hidden' \subseteq known'
    <3>1. \/ Refresh
          \/ UNCHANGED keyboard /\ activated' = activated \ {id} /\ hidden' = hidden \ {id}
      BY DEF ToplevelDestroyed
    <3>2. live' \subseteq ViewIds
      BY <1>1 DEF TypeOK, ToplevelDestroyed, viewVars
    <3>3. QED BY <1>1, <1>2, <1>5, <3>1, <3>2, RefreshTypes DEF TypeOK
  <2>2. /\ parent' \in [TopIds -> TopIds \cup {NoTop}]
        /\ appId' \in [TopIds -> AppIds \cup {NoApp}]
        /\ ttoken' \in [TopIds -> Tokens \cup {NoToken}]
    BY <1>1 DEF TypeOK, ToplevelDestroyed
  <2>3. /\ known' \subseteq 1 .. nextId' /\ mapped' \subseteq known'
        /\ committed' \subseteq exists'
    BY <1>1, <1>2 DEF TypeOK, ToplevelDestroyed
  <2>4. QED BY <1>1, <1>2, <1>3, <1>5, <2>1, <2>2, <2>3
            DEF TypeOK, ToplevelDestroyed, viewVars, VTopType, TViewType
<1>7. ASSUME NEW u \in ViewIds PROVE Shown(u)'
  BY <1>2, <1>5 DEF Inv, Shown, ToplevelDestroyed, viewVars
<1>8. QED BY <1>4, <1>5, <1>6, <1>7 DEF Inv

\* What offering the toplevels to the waiting views does in
\* request_activation, vt, tv and told being what is left of the bindings.
LEMMA OfferInv ==
  ASSUME TypeOK, NEW vt \in VTopType, NEW tv \in TViewType, Agree(vt, tv),
         viewVars' = viewVars, topVars' = topVars, focused' = focused, Watching,
         \A u \in ViewIds : vt[u] # NoTop => vt[u] = vtop[u] /\ Shown(u),
         TryBind(Waiting(vt), vt, tv, told)
  PROVE  /\ vtop' \in VTopType /\ tview' \in TViewType /\ Agree(vtop', tview')
         /\ told' \subseteq watched'
         /\ \A u \in ViewIds : Shown(u)'
         /\ \A u \in ViewIds : vtop'[u] # NoTop => vt[u] # NoTop \/ Fits(u, vtop[u])'
         /\ \A u \in ViewIds : vt[u] # NoTop => vtop'[u] = vt[u]
         /\ \A s \in TopIds : tview'[s] = tv[s] \/ tv[s] = NoView
<1>1. /\ Waiting(vt) \in SUBSET ViewIds /\ Waiting(vt) \subseteq live
      /\ \A u \in Waiting(vt) : vt[u] = NoTop
  BY DEF Waiting, TypeOK
<1>2. /\ vtop' \in VTopType /\ tview' \in TViewType /\ Agree(vtop', tview')
      /\ \A u \in ViewIds \ Waiting(vt) : vtop'[u] = vt[u]
      /\ \A s \in TopIds : tview'[s] = tv[s] \/ (tv[s] = NoView /\ tview'[s] \in Waiting(vt))
      /\ told \subseteq told' /\ told' \subseteq told \cup (Waiting(vt) \cap watched')
  BY <1>1, TryBindBinds
<1>3. told' \subseteq watched'
  BY <1>1, <1>2 DEF TypeOK, viewVars
<1>4. ASSUME NEW u \in ViewIds
      PROVE  Shown(u)' /\ (vtop'[u] # NoTop => vt[u] # NoTop \/ Fits(u, vtop[u])')
  <2>1. CASE u \in Waiting(vt)
    <3>1. vtop'[u] # NoTop => Fits(u, vtop[u])' /\ (listening /\ u \in watched' => u \in told')
      BY <2>1, <1>1, TryBindClaims
    <3>2. QED BY <3>1, <2>1, <1>1 DEF Shown, Fits, viewVars, Watching
  <2>2. CASE u \notin Waiting(vt)
    <3>1. vtop'[u] = vt[u]
      BY <2>2, <1>2
    <3>2. QED BY <3>1, <1>2 DEF Shown, viewVars, topVars
  <2>3. QED BY <2>1, <2>2
<1>5. ASSUME NEW u \in ViewIds, vt[u] # NoTop PROVE vtop'[u] = vt[u]
  BY <1>2, <1>5 DEF Waiting
<1>6. QED BY <1>2, <1>3, <1>4, <1>5

LEMMA RequestActivationInv ==
  ASSUME Inv, NEW k \in Tokens, NEW t \in TopIds, RequestActivation(k, t)
  PROVE  Inv'
<1>. DEFINE id == idOf[t]
            shownBy == tview[id]
<1>1. /\ TypeOK /\ SurfacesAgree /\ Agree(vtop, tview) /\ \A u \in ViewIds : Shown(u)
      /\ vtop \in VTopType /\ tview \in TViewType /\ id \in TopIds /\ Watching
  BY DEF Inv, TypeOK, VTopType, TViewType
<1>2. /\ viewVars' = viewVars /\ topVars' = topVars
      /\ focused' = focused /\ tokens' = UsedUp(k)
  BY DEF RequestActivation
<1>3. ttoken' \in [TopIds -> Tokens \cup {NoToken}]
  BY <1>1 DEF TypeOK, RequestActivation
<1>4. /\ vtop' \in VTopType /\ tview' \in TViewType /\ Agree(vtop', tview')
      /\ told' \subseteq watched' /\ \A u \in ViewIds : Shown(u)'
  <2>1. CASE UNCHANGED bindVars
    BY <2>1, <1>1, <1>2 DEF TypeOK, Shown, bindVars, viewVars, topVars
  <2>2. CASE TryBind(Waiting(vtop), vtop, tview, told)
    BY <2>2, <1>1, <1>2, OfferInv
  <2>3. CASE /\ shownBy # NoView
             /\ TryBind(Waiting(WithoutView(shownBy)), WithoutView(shownBy), FreedBy(shownBy), told)
    <3>1. shownBy \in ViewIds
      BY <2>3, <1>1 DEF TViewType
    <3>2. /\ WithoutView(shownBy) \in VTopType /\ FreedBy(shownBy) \in TViewType
          /\ Agree(WithoutView(shownBy), FreedBy(shownBy))
          /\ \A u \in ViewIds : WithoutView(shownBy)[u] # NoTop =>
               WithoutView(shownBy)[u] = vtop[u] /\ Shown(u)
      BY <1>1, <3>1, UnbindUnbinds
    <3>3. QED BY <2>3, <3>2, <1>1, <1>2, OfferInv
  <2>4. QED BY <2>1, <2>2, <2>3 DEF RequestActivation
<1>5. /\ keyboard' \in TopIds \cup {NoTop}
      /\ activated' \subseteq known' /\ hidden' \subseteq known'
  <2>1. Refresh \/ UNCHANGED focusVars
    BY DEF RequestActivation, RefreshIf
  <2>2. live' \subseteq ViewIds
    BY <1>1, <1>2 DEF TypeOK, viewVars
  <2>3. QED BY <2>1, <2>2, <1>1, <1>2, <1>4, RefreshTypes DEF TypeOK, topVars, focusVars
<1>6. TypeOK'
  BY <1>1, <1>2, <1>3, <1>4, <1>5 DEF TypeOK, viewVars, topVars, UsedUp, VTopType, TViewType
<1>7. SurfacesAgree' /\ Watching'
  BY <1>1, <1>2 DEF SurfacesAgree, viewVars, topVars, Watching
<1>8. QED BY <1>4, <1>6, <1>7 DEF Inv

\* Whoever comes to listen, or goes, knows of no view.
LEMMA ListenerInv ==
  ASSUME Inv, SetEventPort \/ StopsListening
  PROVE  Inv'
<1>1. /\ watched' = {} /\ told' = {} /\ listening' \in BOOLEAN
      /\ UNCHANGED <<live, params, suspended, vtop, tview, topVars, ttoken, tokens, focused, focusVars>>
  BY DEF SetEventPort, StopsListening
<1>2. TypeOK' /\ SurfacesAgree' /\ Agree(vtop', tview') /\ Watching'
  BY <1>1 DEF Inv, TypeOK, SurfacesAgree, Watching, topVars, focusVars
<1>3. ASSUME NEW u \in ViewIds PROVE Shown(u)'
  BY <1>1 DEF Inv, Shown, topVars
<1>4. QED BY <1>2, <1>3 DEF Inv

LEMMA NextInv == Inv /\ [Next]_vars => Inv'
<1>. SUFFICES ASSUME Inv, [Next]_vars PROVE Inv'
  OBVIOUS
<1>1. ASSUME NEW v \in ViewIds, Platform(v) PROVE Inv'
  BY <1>1, ViewCreatedInv, ViewDisposedInv, ViewSuspendedInv, FocusInputInv, ConfigureViewInv
     DEF Platform
<1>2. ASSUME NEW k \in Tokens, IssueToken(k) PROVE Inv'
  BY <1>2, IssueTokenInv
<1>3. ASSUME NEW c \in Clients, NewToplevel(c) PROVE Inv'
  BY <1>3, NewToplevelInv
<1>4. ASSUME NEW t \in TopIds, Requests(t) PROVE Inv'
  BY <1>4, SetAppIdInv, ToplevelCommitInv, ToplevelDestroyedInv, ParentChangedInv,
     RequestActivationInv DEF Requests
<1>5. ASSUME UNCHANGED vars PROVE Inv'
  BY <1>5 DEF Inv, TypeOK, SurfacesAgree, Agree, Shown, Watching, vars, viewVars, bindVars, topVars,
              focusVars
<1>6. QED BY <1>1, <1>2, <1>3, <1>4, <1>5, ListenerInv DEF Next

-----------------------------------------------------------------------------
(* The theorems *)

\* Every variable keeps its type, whatever the sets of views, clients, tokens
\* and app ids (state.rs State).
THEOREM TypeCorrect == Spec => []TypeOK
<1>1. Inv => TypeOK
  BY DEF Inv
<1>2. QED BY <1>1, InitInv, NextInv, PTL DEF Spec

\* Views and toplevels always agree on who shows what: no toplevel is shown
\* by two views and no view shows a destroyed one (state.rs try_bind_view,
\* unbind_view, unbind_toplevel).
THEOREM BindingsAlwaysAgree == Spec => []BindingAgrees
<1>1. QED BY InvImplies, InitInv, NextInv, PTL DEF Spec

\* No view naming a sandbox ever shows a client of another, or of none
\* (state.rs try_bind_view).
THEOREM SandboxAlwaysHonoured == Spec => []SandboxHonoured
<1>1. QED BY InvImplies, InitInv, NextInv, PTL DEF Spec

\* The isolate that listens knows of every binding of a view of its own, whoever
\* listened before it and whatever was dropped meanwhile (state.rs try_bind_view,
\* events::post).
THEOREM BindingsAlwaysTold == Spec => []BoundIsTold
<1>1. QED BY InvImplies, InitInv, NextInv, PTL DEF Spec

-----------------------------------------------------------------------------
(* Tokens *)

\* A toplevel that is not there yet, or no longer, carries no token: so a new
\* one starts without.
TokenInv ==
  /\ OneToplevelPerToken
  /\ \A t \in TopIds \ known : ttoken[t] = NoToken

LEMMA TokenInit == Init => TokenInv
BY DEF Init, TokenInv, OneToplevelPerToken

LEMMA TokenNext == Inv /\ TokenInv /\ [Next]_vars => TokenInv'
<1>. SUFFICES ASSUME Inv, TokenInv, [Next]_vars PROVE TokenInv'
  OBVIOUS
<1>1. TypeOK /\ \A t \in known : t \in TopIds
  <2>1. TypeOK
    BY DEF Inv
  <2>2. known \subseteq 1 .. nextId /\ nextId \in 0 .. MaxTops
    BY <2>1 DEF TypeOK
  <2>3. QED BY <2>1, <2>2, TopsAssumption DEF TopIds
<1>2. ASSUME UNCHANGED <<ttoken, tokens, known>> PROVE TokenInv'
  BY <1>2 DEF TokenInv, OneToplevelPerToken
<1>3. ASSUME NEW v \in ViewIds, Platform(v) PROVE TokenInv'
  BY <1>2, <1>3 DEF Platform, ViewCreated, ViewDisposed, ViewSuspended, FocusInput,
                    ConfigureView, topVars
<1>4. ASSUME NEW k \in Tokens, IssueToken(k) PROVE TokenInv'
  BY <1>1, <1>4 DEF TokenInv, OneToplevelPerToken, TypeOK, IssueToken, topVars
<1>5. ASSUME NEW c \in Clients, NewToplevel(c) PROVE TokenInv'
  <2>1. known' = known \cup {nextId + 1} /\ UNCHANGED <<ttoken, tokens>>
    BY <1>5 DEF NewToplevel
  <2>2. nextId + 1 \in TopIds \ known
    BY <1>1, <1>5, TopsAssumption DEF TypeOK, NewToplevel, TopIds
  <2>3. QED BY <2>1, <2>2 DEF TokenInv, OneToplevelPerToken
<1>6. ASSUME NEW t \in TopIds, ToplevelDestroyed(t) PROVE TokenInv'
  <2>1. /\ known' = known \ {idOf[t]} /\ ttoken' = [ttoken EXCEPT ![idOf[t]] = NoToken]
        /\ tokens' = tokens /\ idOf[t] \in TopIds
    BY <1>1, <1>6 DEF ToplevelDestroyed, TypeOK
  <2>2. QED BY <1>1, <2>1 DEF TokenInv, OneToplevelPerToken, TypeOK
<1>7. ASSUME NEW t \in TopIds, NEW k \in Tokens, RequestActivation(k, t) PROVE TokenInv'
  <2>1. /\ tokens[k] = "issued" /\ tokens' = [tokens EXCEPT ![k] = "spent"] /\ known' = known
        /\ \/ ttoken' = ttoken
           \/ idOf[t] \in known /\ ttoken' = [ttoken EXCEPT ![idOf[t]] = k]
    BY <1>7 DEF RequestActivation, UsedUp, topVars
  <2>2. \A u \in known : ttoken[u] # k
    BY <1>1, <2>1, NamesAssumption DEF TokenInv, OneToplevelPerToken
  <2>3. QED BY <1>1, <2>1, <2>2, NamesAssumption DEF TokenInv, OneToplevelPerToken, TypeOK
<1>8. ASSUME NEW t \in TopIds, Requests(t) PROVE TokenInv'
  BY <1>2, <1>6, <1>7, <1>8 DEF Requests, SetAppId, ToplevelCommit, ParentChanged
<1>9. QED BY <1>2, <1>3, <1>4, <1>5, <1>8 DEF Next, SetEventPort, StopsListening, vars, topVars

\* A token stands for at most one live toplevel, for any number of tokens and
\* toplevels (activation.rs: "One toplevel per token").
THEOREM OneToplevelPerTokenAlways == Spec => []OneToplevelPerToken
<1>1. TokenInv => OneToplevelPerToken
  BY DEF TokenInv
<1>2. QED BY <1>1, InitInv, NextInv, TokenInit, TokenNext, PTL DEF Spec

\* A toplevel moves between views in one step only to the one naming the
\* token it was activated with in that step (activation.rs request_activation).
THEOREM HandoverAlwaysByToken == Spec => HandoverIsByToken
<1>1. Inv /\ TokenInv /\ [Next]_vars =>
        [\A t \in TopIds : Handover(t) => ByToken(t)]_vars
  <2>. SUFFICES ASSUME Inv, TokenInv, Next, NEW s \in TopIds, Handover(s) PROVE ByToken(s)
    OBVIOUS
  <2>1. /\ TypeOK /\ Agree(vtop, tview) /\ \A u \in ViewIds : Shown(u)
        /\ vtop \in VTopType /\ tview \in TViewType
    BY DEF Inv, TypeOK, VTopType, TViewType
  <2>2. ASSUME NEW v \in ViewIds, NEW p \in ParamSet, ViewCreated(v, p) PROVE FALSE
    <3>. DEFINE vt == WithoutView(v)
                tv == FreedBy(v)
    <3>1. vt \in VTopType /\ tv \in TViewType /\ Agree(vt, tv) /\ vt[v] = NoTop
      BY <2>1, UnbindUnbinds
    <3>2. \A t \in TopIds : tview'[t] = tv[t] \/ (tv[t] = NoView /\ tview'[t] \in {v})
      <4>1. TryBind({v}, vt, tv, told \ {v})
        BY <2>2 DEF ViewCreated
      <4>2. {v} \in SUBSET ViewIds /\ \A u \in {v} : vt[u] = NoTop
        BY <3>1
      <4>. HIDE DEF vt, tv
      <4>3. QED BY <3>1, <4>1, <4>2, TryBindBinds
    <3>3. FreedBy(v)[s] = tview[s] \/ (FreedBy(v)[s] = NoView /\ tview[s] = v)
      BY <2>1, TopsAssumption DEF FreedBy, Agree
    <3>4. QED BY <3>2, <3>3 DEF Handover
  <2>3. ASSUME NEW v \in ViewIds, Platform(v) PROVE FALSE
    BY <2>2, <2>3 DEF Platform, ViewDisposed, ViewSuspended, FocusInput, ConfigureView,
                      FreedBy, bindVars, Handover
  <2>4. ASSUME NEW t \in TopIds, ToplevelDestroyed(t) PROVE FALSE
    BY <2>4 DEF ToplevelDestroyed, FreedBy, bindVars, Handover
  <2>5. ASSUME NEW t \in TopIds, ToplevelCommit(t) PROVE FALSE
    <3>1. Waiting(vtop) \in SUBSET ViewIds /\ \A u \in Waiting(vtop) : vtop[u] = NoTop
      BY <2>1 DEF Waiting, TypeOK
    <3>2. TryBind(Waiting(vtop), vtop, tview, told) \/ UNCHANGED bindVars
      BY <2>5 DEF ToplevelCommit
    <3>3. QED BY <2>1, <3>1, <3>2, TryBindBinds DEF bindVars, Handover
  <2>6. ASSUME NEW t \in TopIds, NEW k \in Tokens, RequestActivation(k, t) PROVE ByToken(s)
    <3>. DEFINE id == idOf[t]
                v == tview[id]
    <3>1. /\ viewVars' = viewVars /\ topVars' = topVars /\ focused' = focused
          /\ tokens[k] = "issued" /\ id \in TopIds /\ Watching
      BY <2>1, <2>6 DEF RequestActivation, TypeOK, Inv
    <3>2. CASE UNCHANGED bindVars \/ TryBind(Waiting(vtop), vtop, tview, told)
      BY <2>1, <3>1, <3>2, OfferInv DEF bindVars, Handover
    <3>3. CASE /\ id \in known /\ v # NoView /\ ttoken' = [ttoken EXCEPT ![id] = k]
               /\ TryBind(Waiting(WithoutView(v)), WithoutView(v), FreedBy(v), told)
      <4>1. v \in ViewIds /\ vtop[v] = id
        BY <2>1, <3>1, <3>3 DEF TViewType, Agree
      <4>2. /\ WithoutView(v) \in VTopType /\ FreedBy(v) \in TViewType
            /\ Agree(WithoutView(v), FreedBy(v))
            /\ \A u \in ViewIds : WithoutView(v)[u] # NoTop =>
                 WithoutView(v)[u] = vtop[u] /\ Shown(u) /\ u # v
        BY <2>1, <4>1, UnbindUnbinds
      <4>3. /\ vtop' \in VTopType /\ tview' \in TViewType /\ Agree(vtop', tview')
            /\ \A u \in ViewIds : vtop'[u] # NoTop =>
                 WithoutView(v)[u] # NoTop \/ Fits(u, vtop[u])'
            /\ \A u \in ViewIds : WithoutView(v)[u] # NoTop => vtop'[u] = WithoutView(v)[u]
            /\ tview'[s] = FreedBy(v)[s] \/ FreedBy(v)[s] = NoView
        BY <2>1, <3>1, <3>3, <4>2, OfferInv
      <4>4. s = id
        BY <4>1, <4>3 DEF FreedBy, Handover
      <4>5. ttoken'[id] = k /\ k # NoToken
        BY <2>1, <3>1, <3>3, NamesAssumption DEF TypeOK
      <4>6. ttoken[id] # k
        BY <3>1, <3>3, NamesAssumption DEF TokenInv, OneToplevelPerToken
      <4>7. tview'[s] \in ViewIds /\ vtop'[tview'[s]] = id /\ id # NoTop
        BY <4>3, <4>4, <3>1, TopsAssumption DEF TViewType, Agree, Handover
      <4>8. WithoutView(v)[tview'[s]] = NoTop
        BY <2>1, <4>1, <4>2, <4>3, <4>4, <4>7 DEF Agree, Handover
      <4>9. QED BY <4>3, <4>4, <4>5, <4>6, <4>7, <4>8 DEF Fits, ByToken
    <3>4. QED BY <2>6, <3>2, <3>3 DEF RequestActivation
  <2>7. ASSUME NEW t \in TopIds, Requests(t) PROVE ByToken(s)
    BY <2>4, <2>5, <2>6, <2>7 DEF Requests, SetAppId, ParentChanged, bindVars, Handover
  <2>8. QED BY <2>3, <2>7 DEF Next, SetEventPort, StopsListening, IssueToken, NewToplevel, bindVars, Handover
<1>2. QED BY <1>1, InitInv, NextInv, TokenInit, TokenNext, PTL DEF Spec, HandoverIsByToken

-----------------------------------------------------------------------------
(* Offering toplevels to views *)

\* What a view comes to show in a step it has a claim to.
LEMMA NewBindsFit ==
  ASSUME Inv, Next, NEW u \in ViewIds, vtop'[u] # NoTop, vtop'[u] # vtop[u]
  PROVE  Fits(u, vtop[u])'
<1>1. /\ TypeOK /\ Agree(vtop, tview) /\ \A v \in ViewIds : Shown(v)
      /\ vtop \in VTopType /\ tview \in TViewType
  BY DEF Inv, TypeOK, VTopType, TViewType
<1>2. ASSUME NEW S \in SUBSET ViewIds, NEW vt \in VTopType, NEW tv \in TViewType, NEW td,
             TryBind(S, vt, tv, td), Agree(vt, tv), \A v \in S : vt[v] = NoTop,
             vt[u] \in {vtop[u], NoTop}
      PROVE  Fits(u, vtop[u])'
  <2>1. vtop'[u] = vt[u] \/ u \in S
    BY <1>2, TryBindBinds, ZenonT(40)
  <2>2. u \in S
    BY <1>2, <2>1
  <2>3. QED BY <1>2, <2>2, TryBindClaims
<1>3. ASSUME NEW v \in ViewIds
      PROVE  /\ WithoutView(v) \in VTopType /\ FreedBy(v) \in TViewType
             /\ Agree(WithoutView(v), FreedBy(v)) /\ WithoutView(v)[v] = NoTop
             /\ WithoutView(v)[u] \in {vtop[u], NoTop}
  BY <1>1, UnbindUnbinds
<1>4. \A vt : Waiting(vt) \in SUBSET ViewIds /\ \A v \in Waiting(vt) : vt[v] = NoTop
  BY <1>1 DEF Waiting, TypeOK
<1>5. ASSUME NEW v \in ViewIds, NEW p \in ParamSet, ViewCreated(v, p)
      PROVE  Fits(u, vtop[u])'
  <2>1. TryBind({v}, WithoutView(v), FreedBy(v), told \ {v})
    BY <1>5 DEF ViewCreated
  <2>2. {v} \in SUBSET ViewIds /\ \A w \in {v} : WithoutView(v)[w] = NoTop
    BY <1>3
  <2>3. QED BY <1>2, <1>3, <2>1, <2>2
<1>6. ASSUME NEW v \in ViewIds, Platform(v) PROVE Fits(u, vtop[u])'
  BY <1>3, <1>5, <1>6 DEF Platform, ViewDisposed, ViewSuspended, FocusInput, ConfigureView, bindVars
<1>7. ASSUME NEW t \in TopIds, ToplevelDestroyed(t) PROVE FALSE
  <2>. DEFINE v == tview[idOf[t]]
  <2>1. vtop' = WithoutView(v) /\ v # NoView
    BY <1>7 DEF ToplevelDestroyed, bindVars
  <2>2. v \in ViewIds
    BY <1>1, <1>7, <2>1 DEF TypeOK
  <2>3. QED BY <1>3, <2>1, <2>2
<1>8. ASSUME NEW t \in TopIds, ToplevelCommit(t) PROVE Fits(u, vtop[u])'
  <2>1. TryBind(Waiting(vtop), vtop, tview, told)
    BY <1>8 DEF ToplevelCommit, bindVars
  <2>2. QED BY <1>1, <1>2, <1>4, <2>1
<1>9. ASSUME NEW t \in TopIds, NEW k \in Tokens, RequestActivation(k, t) PROVE Fits(u, vtop[u])'
  <2>. DEFINE v == tview[idOf[t]]
  <2>1. \/ TryBind(Waiting(vtop), vtop, tview, told)
        \/ v # NoView /\ TryBind(Waiting(WithoutView(v)), WithoutView(v), FreedBy(v), told)
    BY <1>9 DEF RequestActivation, bindVars
  <2>2. v # NoView => v \in ViewIds
    BY <1>1 DEF TypeOK
  <2>3. QED BY <1>1, <1>2, <1>3, <1>4, <2>1, <2>2
<1>10. ASSUME NEW t \in TopIds, Requests(t) PROVE Fits(u, vtop[u])'
  BY <1>7, <1>8, <1>9, <1>10 DEF Requests, SetAppId, ParentChanged, bindVars
<1>11. QED BY <1>6, <1>10 DEF Next, SetEventPort, StopsListening, IssueToken, NewToplevel, bindVars

\* No view that names no token, or another one, comes to show a toplevel that a
\* token stands for: app ids and waiting longest count for nothing then
\* (state.rs try_bind_view).
THEOREM TokenToplevelsAlwaysPassedOver == Spec => TokenToplevelsPassedOver
<1>. DEFINE Passed == \A v \in ViewIds, t \in TopIds :
              vtop'[v] = t /\ vtop[v] # t /\ ttoken'[t] # NoToken => params'[v].token = ttoken'[t]
<1>1. Inv /\ Next => Passed
  BY NewBindsFit, TopsAssumption DEF Fits
<1>2. Inv /\ [Next]_vars => [Passed]_vars
  BY <1>1
<1>3. QED BY <1>2, InitInv, NextInv, PTL DEF Spec, TokenToplevelsPassedOver

\* A view that is tried in vain leaves nothing free that it has a claim to.
LEMMA TryBindOffers ==
  ASSUME NEW S \in SUBSET ViewIds, NEW vt, NEW tv, NEW td, TryBind(S, vt, tv, td),
         NEW v \in S, vtop'[v] = NoTop, NEW t \in TopIds, Claims(v, t)', tv[t] = NoView
  PROVE  tview'[t] # NoView
<1>1. PICK got \in [S -> TopIds \cup {NoTop}] :
        /\ Takes(S, tv, got)
        /\ vtop' = [u \in ViewIds |-> IF u \in S THEN got[u] ELSE vt[u]]
        /\ tview' = [s \in TopIds |-> IF \E u \in S : got[u] = s
                                      THEN CHOOSE u \in S : got[u] = s ELSE tv[s]]
  BY DEF TryBind
<1>. DEFINE free == {s \in TopIds : /\ Claims(v, s)'
                                    /\ tv[s] = NoView
                                    /\ \A u \in S : u < v => got[u] # s}
<1>2. IF free = {} THEN got[v] = NoTop ELSE Oldest(got[v], free)
  BY <1>1 DEF Takes
<1>3. got[v] = NoTop
  BY <1>1
<1>4. free = {}
  BY <1>2, <1>3, TopsAssumption DEF Oldest
<1>5. PICK u \in S : got[u] = t
  BY <1>4
<1>6. tview'[t] \in S
  BY <1>1, <1>5
<1>7. QED BY <1>6, ViewIdsAssumption

\* A toplevel that maps is shown, or no waiting view has a claim to it, however
\* many wait and in whatever order they came (compositor.rs toplevel_commit).
THEOREM MappedAlwaysOffered == Spec => MappedIsOffered
<1>. DEFINE Offered == \A t \in TopIds : t \in mapped' \ mapped =>
              \/ tview'[t] # NoView
              \/ \A v \in live' : vtop'[v] = NoTop => ~Claims(v, t)'
<1>1. ASSUME Inv, Next PROVE Offered
  <2>. SUFFICES ASSUME NEW t \in TopIds, t \in mapped' \ mapped, tview'[t] = NoView,
                       NEW v \in live', vtop'[v] = NoTop, Claims(v, t)'
                PROVE  FALSE
    OBVIOUS
  <2>0. /\ TypeOK /\ Agree(vtop, tview) /\ vtop \in VTopType /\ tview \in TViewType
    BY <1>1 DEF Inv, TypeOK, VTopType, TViewType
  <2>1. PICK s \in TopIds : ToplevelCommit(s) /\ idOf[s] \in known \ mapped
    BY <1>1 DEF Next, SetEventPort, StopsListening, Platform, Requests, ViewCreated, ViewDisposed, ViewSuspended, FocusInput,
       ConfigureView, IssueToken, NewToplevel, SetAppId, ToplevelCommit, ToplevelDestroyed,
       ParentChanged, RequestActivation, topVars
  <2>2. /\ TryBind(Waiting(vtop), vtop, tview, told) /\ live' = live
    BY <2>1 DEF ToplevelCommit, viewVars
  <2>3. Waiting(vtop) \in SUBSET ViewIds /\ \A u \in Waiting(vtop) : vtop[u] = NoTop
    BY <2>0 DEF Waiting, TypeOK
  <2>4. /\ \A u \in ViewIds \ Waiting(vtop) : vtop'[u] = vtop[u]
        /\ tview'[t] = tview[t] \/ (tview[t] = NoView /\ tview'[t] \in Waiting(vtop))
    BY <2>0, <2>2, <2>3, TryBindBinds
  <2>5. v \in Waiting(vtop)
    BY <2>0, <2>2, <2>4 DEF Waiting, TypeOK
  <2>6. tview[t] = NoView
    BY <2>3, <2>4, ViewIdsAssumption
  <2>7. QED BY <2>2, <2>3, <2>5, <2>6, TryBindOffers
<1>2. Inv /\ [Next]_vars => [Offered]_vars
  BY <1>1
<1>3. QED BY <1>2, InitInv, NextInv, PTL DEF Spec, MappedIsOffered
=============================================================================
