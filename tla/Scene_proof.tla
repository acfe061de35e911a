----------------------------- MODULE Scene_proof -----------------------------
(***************************************************************************)
(* Theorems about Binding's keyboard and window states, for every set of   *)
(* views and clients, every number of toplevels and every MaxDepth.        *)
(***************************************************************************)
EXTENDS Binding_proof, WellFoundedInduction

-----------------------------------------------------------------------------
(* Climbing *)

LEMMA LeastExists ==
  ASSUME NEW S \in SUBSET Nat, S # {}
  PROVE  \E x \in S : \A y \in S : x <= y
<1>1. PICK x \in S : \A y \in S : ~(<<y, x>> \in OpToRel(<, Nat))
  BY NatLessThanWellFounded, WFMin
<1>2. \A y \in S : ~(y < x)
  BY <1>1 DEF OpToRel
<1>3. QED BY <1>2

\* The way from s, n steps of up.
Way(f, up, s, n) ==
  /\ f \in [0 .. n -> TopIds] /\ f[0] = s
  /\ \A m \in 1 .. n : f[m] = up[f[m - 1]]

LEMMA WayExists ==
  ASSUME NEW up \in [TopIds -> TopIds], NEW s \in TopIds
  PROVE  \E f : Way(f, up, s, MaxDepth)
<1>. DEFINE Bad == {n \in 0 .. MaxDepth : ~\E f : Way(f, up, s, n)}
<1>1. CASE Bad = {}
  <2>1. MaxDepth \in 0 .. MaxDepth
    BY DepthAssumption
  <2>2. QED BY <1>1, <2>1
<1>2. CASE Bad # {}
  <2>1. Bad \in SUBSET Nat
    OBVIOUS
  <2>2. PICK n \in Bad : \A y \in Bad : n <= y
    <3>. HIDE DEF Bad
    <3>1. QED BY <1>2, <2>1, LeastExists
  <2>3. n \in 0 .. MaxDepth /\ n \in Nat /\ ~\E f : Way(f, up, s, n)
    BY DepthAssumption
  <2>4. CASE n = 0
    <3>1. Way([m \in 0 .. 0 |-> s], up, s, 0)
      BY DEF Way
    <3>2. QED BY <2>3, <2>4, <3>1
  <2>5. CASE n # 0
    <3>1. n - 1 \in 0 .. MaxDepth /\ n - 1 \in Nat /\ ~(n <= n - 1)
      BY <2>3, <2>5, DepthAssumption
    <3>2. PICK f : Way(f, up, s, n - 1)
      BY <2>2, <3>1
    <3>. DEFINE g == [m \in 0 .. n |-> IF m = n THEN up[f[n - 1]] ELSE f[m]]
    <3>3. n - 1 \in 0 .. (n - 1) /\ f[n - 1] \in TopIds
      BY <3>1, <3>2 DEF Way
    <3>4. g \in [0 .. n -> TopIds] /\ g[0] = s
      BY <2>3, <2>5, <3>2, <3>3 DEF Way
    <3>5. ASSUME NEW m \in 1 .. n PROVE g[m] = up[g[m - 1]]
      <4>1. m - 1 \in 0 .. n /\ m - 1 # n /\ m \in 0 .. n
        BY <2>3
      <4>2. g[m - 1] = f[m - 1]
        BY <4>1
      <4>3. CASE m = n
        BY <4>1, <4>2, <4>3
      <4>4. CASE m # n
        <5>1. m \in 1 .. (n - 1)
          BY <2>3, <4>4
        <5>2. QED BY <3>2, <4>1, <4>2, <4>4, <5>1 DEF Way
      <4>5. QED BY <4>3, <4>4
    <3>6. Way(g, up, s, n)
      <4>. HIDE DEF g
      <4>1. QED BY <3>4, <3>5 DEF Way
    <3>7. QED BY <2>3, <3>6
  <2>6. QED BY <2>4, <2>5
<1>3. QED BY <1>1, <1>2

LEMMA ClimbIs ==
  ASSUME NEW up \in [TopIds -> TopIds], NEW s \in TopIds
  PROVE  \E f : Way(f, up, s, MaxDepth) /\ Climb(up, s) = f[MaxDepth]
<1>. DEFINE Rec(f) == f = [n \in 0 .. MaxDepth |-> IF n = 0 THEN s ELSE up[f[n - 1]]]
            at == CHOOSE f : Rec(f)
<1>1. PICK f : Way(f, up, s, MaxDepth)
  BY WayExists
<1>2. Rec(f)
  <2>1. \A n \in 0 .. MaxDepth : n = 0 \/ n \in 1 .. MaxDepth
    BY DepthAssumption
  <2>2. \A n \in 0 .. MaxDepth : f[n] = IF n = 0 THEN s ELSE up[f[n - 1]]
    BY <1>1, <2>1 DEF Way
  <2>3. f \in [0 .. MaxDepth -> TopIds]
    BY <1>1 DEF Way
  <2>4. QED BY <2>2, <2>3
<1>3. Rec(at)
  <2>. HIDE DEF Rec
  <2>1. QED BY <1>2
<1>4. Way(at, up, s, MaxDepth)
  <2>1. at = [n \in 0 .. MaxDepth |-> IF n = 0 THEN s ELSE up[at[n - 1]]]
    BY <1>3
  <2>. HIDE DEF at
  <2>2. /\ at[0] = s /\ DOMAIN at = 0 .. MaxDepth
        /\ at = [n \in 0 .. MaxDepth |-> at[n]]
        /\ \A m \in 1 .. MaxDepth : at[m] = up[at[m - 1]] /\ m - 1 \in 0 .. MaxDepth
    BY <2>1, DepthAssumption
  <2>. DEFINE Out == {n \in 0 .. MaxDepth : at[n] \notin TopIds}
  <2>3. Out = {}
    <3>1. SUFFICES ASSUME Out # {} PROVE FALSE
      OBVIOUS
    <3>2. Out \in SUBSET Nat
      BY DepthAssumption
    <3>3. PICK n \in Out : \A y \in Out : n <= y
      <4>. HIDE DEF Out
      <4>1. QED BY <3>1, <3>2, LeastExists
    <3>4. n \in 1 .. MaxDepth
      BY <2>2, <3>3, DepthAssumption
    <3>5. n - 1 \in 0 .. MaxDepth /\ ~(n <= n - 1)
      BY <3>4, DepthAssumption
    <3>6. at[n - 1] \in TopIds
      BY <3>3, <3>5
    <3>7. QED BY <2>2, <3>3, <3>4, <3>6
  <2>4. \A n \in 0 .. MaxDepth : at[n] \in TopIds
    BY <2>3
  <2>5. at \in [0 .. MaxDepth -> TopIds]
    BY <2>2, <2>4
  <2>6. QED BY <2>2, <2>5 DEF Way
<1>5. Climb(up, s) = at[MaxDepth]
  BY DEF Climb
<1>6. QED BY <1>4, <1>5

\* A way that comes into a set up does not lead out of stays there.
LEMMA WayStays ==
  ASSUME NEW up \in [TopIds -> TopIds], NEW s \in TopIds, NEW f, Way(f, up, s, MaxDepth),
         NEW S, \A x \in TopIds : x \in S => up[x] \in S,
         NEW j \in 0 .. MaxDepth, f[j] \in S
  PROVE  \A k \in j .. MaxDepth : f[k] \in S
<1>. DEFINE Out == {k \in j .. MaxDepth : f[k] \notin S}
<1>1. SUFFICES ASSUME Out # {} PROVE FALSE
  OBVIOUS
<1>2. Out \in SUBSET Nat
  BY DepthAssumption
<1>3. PICK k \in Out : \A y \in Out : k <= y
  <2>. HIDE DEF Out
  <2>1. QED BY <1>1, <1>2, LeastExists
<1>4. k # j /\ k \in 1 .. MaxDepth /\ k - 1 \in j .. MaxDepth /\ ~(k <= k - 1) /\ k - 1 \in 0 .. MaxDepth
  BY <1>3, DepthAssumption
<1>5. f[k - 1] \in S /\ f[k - 1] \in TopIds /\ f[k] = up[f[k - 1]]
  BY <1>3, <1>4 DEF Way
<1>6. QED BY <1>3, <1>5

\* Two ways from one place part only where the steps differ.
LEMMA SameWay ==
  ASSUME NEW up \in [TopIds -> TopIds], NEW other \in [TopIds -> TopIds], NEW s \in TopIds,
         NEW f, Way(f, up, s, MaxDepth), NEW g, Way(g, other, s, MaxDepth),
         \A n \in 0 .. MaxDepth : up[f[n]] = other[f[n]]
  PROVE  f[MaxDepth] = g[MaxDepth]
<1>. DEFINE Out == {k \in 0 .. MaxDepth : f[k] # g[k]}
<1>1. CASE Out = {}
  BY <1>1, DepthAssumption
<1>2. CASE Out # {}
  <2>1. Out \in SUBSET Nat
    BY DepthAssumption
  <2>2. PICK k \in Out : \A y \in Out : k <= y
    <3>. HIDE DEF Out
    <3>1. QED BY <1>2, <2>1, LeastExists
  <2>3. k \in 1 .. MaxDepth
    BY <2>2, DepthAssumption DEF Way
  <2>4. k - 1 \in 0 .. MaxDepth /\ ~(k <= k - 1)
    BY <2>3, DepthAssumption
  <2>5. f[k - 1] = g[k - 1]
    BY <2>2, <2>4
  <2>6. QED BY <2>2, <2>3, <2>4, <2>5 DEF Way
<1>3. QED BY <1>1, <1>2

\* Where one ends depends on the steps in any set one starts in and does not leave.
LEMMA ClimbSame ==
  ASSUME NEW up \in [TopIds -> TopIds], NEW other \in [TopIds -> TopIds], NEW s \in TopIds,
         NEW S, s \in S, \A x \in TopIds : x \in S => up[x] \in S /\ up[x] = other[x]
  PROVE  Climb(up, s) = Climb(other, s) /\ Climb(up, s) \in S /\ Climb(up, s) \in TopIds
<1>1. PICK f : Way(f, up, s, MaxDepth) /\ Climb(up, s) = f[MaxDepth]
  BY ClimbIs
<1>2. PICK g : Way(g, other, s, MaxDepth) /\ Climb(other, s) = g[MaxDepth]
  BY ClimbIs
<1>3. 0 \in 0 .. MaxDepth /\ f[0] \in S /\ MaxDepth \in 0 .. MaxDepth
  BY <1>1, DepthAssumption DEF Way
<1>4. \A k \in 0 .. MaxDepth : f[k] \in S
  BY <1>1, <1>3, WayStays
<1>5. \A k \in 0 .. MaxDepth : f[k] \in TopIds
  BY <1>1 DEF Way
<1>6. f[MaxDepth] = g[MaxDepth]
  BY <1>1, <1>2, <1>4, <1>5, SameWay
<1>7. QED BY <1>1, <1>2, <1>3, <1>4, <1>5, <1>6

-----------------------------------------------------------------------------
(* Families of windows *)

\* Some surfaces none of which is a dialog of one outside, p but not t among them.
Apart(t, p) == \E S \in SUBSET TopIds : p \in S /\ Upward(S) /\ t \notin S

\* Only a toplevel that is there has a parent, which is the surface of one that
\* is or was, and not below it; a mapped one is known by its own surface's id,
\* and one known by its surface's id is there; a surface that carried one before
\* the last has no entry.
Families ==
  /\ \A t \in TopIds : parent[t] # NoTop =>
       /\ t \in exists /\ parent[t] \in 1 .. nextId /\ idOf[parent[t]] = parent[t]
       /\ Apart(t, parent[t])
  /\ \A t \in mapped : idOf[t] = t
  /\ \A t \in known : idOf[t] = t => t \in exists
  /\ \A t \in 1 .. nextId : idOf[t] # t => idOf[t] \notin known

LEMMA FamiliesInit == Init => Families
<1>. SUFFICES ASSUME Init PROVE Families
  OBVIOUS
<1>1. 1 .. nextId = {}
  BY DEF Init
<1>2. QED BY <1>1 DEF Init, Families

LEMMA KnownAreTops == Inv => known \subseteq TopIds /\ 1 .. nextId \subseteq TopIds /\ known \subseteq 1 .. nextId
<1>. SUFFICES ASSUME Inv PROVE known \subseteq TopIds /\ 1 .. nextId \subseteq TopIds /\ known \subseteq 1 .. nextId
  OBVIOUS
<1>1. known \subseteq 1 .. nextId /\ nextId \in 0 .. MaxTops
  BY DEF Inv, TypeOK
<1>2. QED BY <1>1, TopsAssumption DEF TopIds

\* Making p, which nothing of t's is above, the parent of t leaves all apart
\* from their parents.
LEMMA ParentKeepsApart ==
  ASSUME Inv, Families, NEW t \in TopIds, NEW p \in TopIds, Apart(t, p),
         parent' = [parent EXCEPT ![t] = p], NEW x \in TopIds, parent'[x] # NoTop
  PROVE  Apart(x, parent[x])'
<1>. PICK S0 \in SUBSET TopIds : p \in S0 /\ Upward(S0) /\ t \notin S0
  BY DEF Apart
<1>0. \A y \in TopIds : parent'[y] = IF y = t THEN p ELSE parent[y]
  BY DEF Inv, TypeOK
<1>1. Upward(S0)'
  BY <1>0 DEF Upward
<1>2. CASE x = t
  BY <1>0, <1>1, <1>2 DEF Apart
<1>3. CASE x # t
  <2>1. parent'[x] = parent[x] /\ parent[x] # NoTop
    BY <1>0, <1>3
  <2>2. PICK S \in SUBSET TopIds : parent[x] \in S /\ Upward(S) /\ x \notin S
    BY <2>1 DEF Families, Apart
  <2>3. CASE t \notin S
    <3>1. Upward(S)'
      BY <1>0, <2>2, <2>3 DEF Upward
    <3>2. QED BY <2>1, <2>2, <3>1 DEF Apart
  <2>4. CASE x \in S0
    <3>1. Upward(S \cap S0)' /\ parent[x] \in S \cap S0 /\ x \notin S \cap S0
      BY <1>0, <2>1, <2>2, <2>4 DEF Upward
    <3>2. QED BY <2>1, <3>1 DEF Apart
  <2>5. CASE x \notin S0
    <3>1. Upward(S \cup S0)' /\ parent[x] \in S \cup S0 /\ x \notin S \cup S0
      BY <1>0, <2>1, <2>2, <2>5 DEF Upward
    <3>2. QED BY <2>1, <3>1 DEF Apart
  <2>6. QED BY <2>3, <2>4, <2>5
<1>4. QED BY <1>2, <1>3

\* Taking away parents leaves all apart from theirs.
LEMMA FewerParentsApart ==
  ASSUME NEW x \in TopIds, NEW p, Apart(x, p),
         \A y \in TopIds : parent'[y] = parent[y] \/ parent'[y] = NoTop
  PROVE  Apart(x, p)'
BY DEF Apart, Upward

LEMMA ParentChangedFamilies ==
  ASSUME Inv, Families, NEW t \in TopIds, NEW p \in TopIds \cup {NoTop}, ParentChanged(t, p)
  PROVE  Families'
<1>1. /\ parent' = [parent EXCEPT ![t] = p] /\ t \in exists
      /\ UNCHANGED <<nextId, known, exists, idOf, mapped>>
  BY DEF ParentChanged
<1>0. \A y \in TopIds : parent'[y] = IF y = t THEN p ELSE parent[y]
  BY <1>1 DEF Inv, TypeOK
<1>2. ASSUME NEW x \in TopIds, parent'[x] # NoTop
      PROVE  /\ x \in exists /\ parent'[x] \in 1 .. nextId /\ idOf[parent'[x]] = parent'[x]
             /\ Apart(x, parent[x])'
  <2>1. CASE p = NoTop
    <3>1. parent'[x] = parent[x] /\ parent[x] # NoTop
      BY <1>0, <1>2, <2>1
    <3>2. QED BY <1>0, <2>1, <3>1, FewerParentsApart DEF Families
  <2>2. CASE p # NoTop
    <3>1. PICK u \in exists : p = idOf[u] /\ ~IsAtOrAbove(idOf[t], p)
      BY <2>2 DEF ParentChanged
    <3>2. idOf[p] = p /\ p \in 1 .. nextId
      BY <3>1 DEF Inv, TypeOK, SurfacesAgree
    <3>3. Apart(t, p)
      <4>1. CASE idOf[t] = t
        BY <3>1, <4>1 DEF IsAtOrAbove, Apart
      <4>2. CASE idOf[t] # t
        <5>1. \A s \in TopIds : parent[s] # NoTop => parent[s] # t /\ parent[s] \in TopIds
          BY <4>2 DEF Families, Inv, TypeOK
        <5>2. p # t /\ p \in TopIds
          BY <2>2, <3>2, <4>2
        <5>3. Upward(TopIds \ {t}) /\ p \in TopIds \ {t} /\ t \notin TopIds \ {t}
          BY <5>1, <5>2 DEF Upward
        <5>4. QED BY <5>3 DEF Apart
      <4>3. QED BY <4>1, <4>2
    <3>4. Apart(x, parent[x])'
      BY <1>1, <1>2, <2>2, <3>3, ParentKeepsApart
    <3>5. QED BY <1>0, <1>1, <1>2, <3>2, <3>4 DEF Families
  <2>3. QED BY <2>1, <2>2
<1>3. QED BY <1>1, <1>2 DEF Families

LEMMA NewToplevelFamilies ==
  ASSUME Inv, Families, NEW c \in Clients, NewToplevel(c)
  PROVE  Families'
<1>. DEFINE n == nextId + 1
<1>1. PICK s \in {n} \cup BareSurfaces(c) : idOf' = [idOf EXCEPT ![n] = s]
  BY DEF NewToplevel
<1>2. /\ nextId' = n /\ known' = known \cup {n} /\ exists' = exists \cup {n}
      /\ parent' = parent /\ mapped' = mapped
      /\ n \in TopIds /\ n \notin 1 .. nextId /\ \A x \in 1 .. nextId' : x = n \/ x \in 1 .. nextId
  BY TopsAssumption DEF Inv, TypeOK, NewToplevel, TopIds
<1>3. known \subseteq TopIds /\ 1 .. nextId \subseteq TopIds /\ known \subseteq 1 .. nextId
  BY KnownAreTops
<1>4. \A x \in TopIds : idOf'[x] = IF x = n THEN s ELSE idOf[x]
  BY <1>1 DEF Inv, TypeOK
<1>5. /\ \A x \in 1 .. nextId : idOf'[x] = idOf[x] /\ idOf[x] # n
      /\ mapped \subseteq known /\ exists \subseteq known
  <2>1. mapped \subseteq known /\ exists \subseteq known
    BY DEF Inv, TypeOK
  <2>2. \A x \in 1 .. nextId : idOf[x] \in 1 .. nextId
    BY DEF Inv, SurfacesAgree
  <2>3. QED BY <1>2, <1>3, <1>4, <2>1, <2>2
<1>6. ASSUME NEW x \in TopIds, parent[x] # NoTop
      PROVE  /\ x \in exists' /\ parent[x] \in 1 .. nextId' /\ idOf'[parent[x]] = parent[x]
             /\ Apart(x, parent[x])'
  <2>1. /\ x \in exists /\ parent[x] \in 1 .. nextId /\ idOf[parent[x]] = parent[x]
        /\ Apart(x, parent[x])
    BY <1>6 DEF Families
  <2>2. nextId \in Nat
    BY TopsAssumption DEF Inv, TypeOK
  <2>3. Apart(x, parent[x])'
    BY <1>2, <2>1, FewerParentsApart
  <2>4. QED BY <1>2, <1>5, <2>1, <2>2, <2>3
<1>7. ASSUME NEW x \in known', idOf'[x] = x PROVE x \in exists'
  <2>1. CASE x = n
    BY <1>2, <2>1
  <2>2. CASE x # n
    BY <1>2, <1>3, <1>5, <1>7, <2>2 DEF Families
  <2>3. QED BY <2>1, <2>2
<1>8. ASSUME NEW x \in 1 .. nextId', idOf'[x] # x PROVE idOf'[x] \notin known'
  <2>1. CASE x = n
    <3>1. s # n /\ s \in BareSurfaces(c) /\ idOf'[x] = s
      BY <1>1, <1>2, <1>4, <1>8, <2>1
    <3>2. /\ s \notin {idOf[u] : u \in exists} /\ idOf[s] = s
      BY <1>3, <3>1 DEF BareSurfaces, Inv, SurfacesAgree
    <3>3. s \notin known
      BY <3>2 DEF Families
    <3>4. QED BY <1>2, <3>1, <3>3
  <2>2. CASE x # n
    BY <1>2, <1>5, <1>8, <2>2 DEF Families
  <2>3. QED BY <2>1, <2>2
<1>9. \A x \in mapped' : idOf'[x] = x
  BY <1>2, <1>3, <1>5 DEF Families
<1>10. \A x \in TopIds : parent'[x] # NoTop =>
         /\ x \in exists' /\ parent'[x] \in 1 .. nextId' /\ idOf'[parent'[x]] = parent'[x]
         /\ Apart(x, parent[x])'
  BY <1>2, <1>6
<1>11. QED BY <1>7, <1>8, <1>9, <1>10 DEF Families

LEMMA ToplevelDestroyedFamilies ==
  ASSUME Inv, Families, NEW t \in TopIds, ToplevelDestroyed(t)
  PROVE  Families'
<1>1. /\ exists' = exists \ {t} /\ known' = known \ {idOf[t]} /\ mapped' = mapped \ {idOf[t]}
      /\ parent' = [parent EXCEPT ![t] = NoTop] /\ UNCHANGED <<nextId, idOf>>
  BY DEF ToplevelDestroyed
<1>2. \A y \in TopIds : parent'[y] = IF y = t THEN NoTop ELSE parent[y]
  BY <1>1 DEF Inv, TypeOK
<1>3. ASSUME NEW x \in TopIds, parent'[x] # NoTop
      PROVE  /\ x \in exists' /\ parent'[x] \in 1 .. nextId' /\ idOf'[parent'[x]] = parent'[x]
             /\ Apart(x, parent[x])'
  <2>1. /\ parent'[x] = parent[x] /\ x # t
        /\ x \in exists /\ parent[x] \in 1 .. nextId /\ idOf[parent[x]] = parent[x]
        /\ Apart(x, parent[x])
    BY <1>2, <1>3 DEF Families
  <2>2. Apart(x, parent[x])'
    BY <1>2, <2>1, FewerParentsApart
  <2>3. QED BY <1>1, <2>1, <2>2
<1>4. \A x \in known' : idOf'[x] = x => x \in exists'
  BY <1>1 DEF Families
<1>5. /\ \A x \in mapped' : idOf'[x] = x
      /\ \A x \in 1 .. nextId' : idOf'[x] # x => idOf'[x] \notin known'
  BY <1>1 DEF Families
<1>6. QED BY <1>3, <1>4, <1>5 DEF Families

LEMMA FamiliesNext == Inv /\ Families /\ [Next]_vars => Families'
<1>. SUFFICES ASSUME Inv, Families, [Next]_vars PROVE Families'
  OBVIOUS
<1>1. ASSUME UNCHANGED <<nextId, known, exists, idOf, parent>>,
             \A x \in mapped' : idOf[x] = x
      PROVE  Families'
  BY <1>1 DEF Families, Apart, Upward
<1>2. ASSUME UNCHANGED topVars PROVE Families'
  BY <1>1, <1>2 DEF topVars, Families
<1>3. ASSUME NEW v \in ViewIds, Platform(v) PROVE Families'
  BY <1>2, <1>3 DEF Platform, ViewCreated, ViewDisposed, ViewSuspended, FocusInput, ConfigureView
<1>4. ASSUME NEW t \in TopIds, ToplevelCommit(t) PROVE Families'
  <2>1. \A x \in mapped' : x \in mapped \/ x = idOf[t]
    BY <1>4 DEF ToplevelCommit
  <2>2. idOf[idOf[t]] = idOf[t]
    BY <1>4 DEF ToplevelCommit, Inv, TypeOK, SurfacesAgree
  <2>3. QED BY <1>1, <1>4, <2>1, <2>2 DEF ToplevelCommit, Families
<1>5. ASSUME NEW t \in TopIds, Requests(t) PROVE Families'
  <2>1. ASSUME NEW a \in AppIds, SetAppId(t, a) PROVE Families'
    BY <1>1, <2>1 DEF SetAppId, Families
  <2>2. ASSUME NEW k \in Tokens, RequestActivation(k, t) PROVE Families'
    BY <1>2, <2>2 DEF RequestActivation
  <2>3. QED BY <1>4, <1>5, <2>1, <2>2, ParentChangedFamilies, ToplevelDestroyedFamilies DEF Requests
<1>6. CASE SetEventPort \/ StopsListening
  BY <1>2, <1>6 DEF SetEventPort, StopsListening
<1>7. QED BY <1>2, <1>3, <1>5, <1>6, NewToplevelFamilies DEF Next, IssueToken, vars

-----------------------------------------------------------------------------
(* The scene *)

Scene == KeyboardFollowsScene /\ OnlyKeyboardWindowActive /\ SuspendedFollowsScene

\* What refresh_keyboard_focus leaves.
Refreshed ==
  /\ keyboard = FocusTarget
  /\ activated = {t \in known : Activated(t)}
  /\ hidden = {t \in known : Hidden(t)}

\* Above is one step to the parent, whose entry is there if it is.
StepsUp ==
  /\ Above \in [TopIds -> TopIds]
  /\ \A s \in TopIds : Above[s] = IF parent[s] # NoTop THEN parent[s] ELSE s

LEMMA AboveIs == Inv /\ Families => StepsUp
<1>. SUFFICES ASSUME Inv, Families PROVE StepsUp
  OBVIOUS
<1>1. \A s \in TopIds : parent[s] # NoTop => parent[s] \in TopIds /\ s \in known
  BY DEF Inv, TypeOK, Families
<1>2. QED BY <1>1 DEF Above, StepsUp

LEMMA AboveThenIs == Inv' /\ Families' => StepsUp'
BY AboveIs, PTL

\* The toplevel a view shows, and its dialogs, carry their surfaces' ids; a
\* toplevel that is no dialog is its own root.
LEMMA WindowsAre ==
  Inv /\ Families =>
    /\ \A v \in ViewIds : vtop[v] # NoTop =>
         /\ vtop[v] \in TopIds /\ vtop[v] \in known /\ vtop[v] \in mapped
         /\ idOf[vtop[v]] = vtop[v] /\ tview[vtop[v]] = v
    /\ \A v : \A t \in Dialogs(v) :
         /\ t \in TopIds /\ t \in known /\ t \in mapped /\ idOf[t] = t
         /\ parent[t] # NoTop /\ WindowRoot(t) = vtop[v]
    /\ \A t \in TopIds : parent[t] = NoTop => WindowRoot(t) = t
<1>. SUFFICES ASSUME Inv, Families
     PROVE /\ \A v \in ViewIds : vtop[v] # NoTop =>
                /\ vtop[v] \in TopIds /\ vtop[v] \in known /\ vtop[v] \in mapped
                /\ idOf[vtop[v]] = vtop[v] /\ tview[vtop[v]] = v
           /\ \A v : \A t \in Dialogs(v) :
                /\ t \in TopIds /\ t \in known /\ t \in mapped /\ idOf[t] = t
                /\ parent[t] # NoTop /\ WindowRoot(t) = vtop[v]
           /\ \A t \in TopIds : parent[t] = NoTop => WindowRoot(t) = t
  OBVIOUS
<1>1. ASSUME NEW v \in ViewIds, vtop[v] # NoTop
      PROVE  /\ vtop[v] \in TopIds /\ vtop[v] \in known /\ vtop[v] \in mapped
             /\ idOf[vtop[v]] = vtop[v] /\ tview[vtop[v]] = v
  <2>1. vtop[v] \in TopIds
    BY <1>1 DEF Inv, TypeOK
  <2>2. vtop[v] \in known /\ vtop[v] \in mapped /\ tview[vtop[v]] = v
    BY <1>1 DEF Inv, Shown, Agree
  <2>3. QED BY <2>1, <2>2 DEF Families
<1>2. ASSUME NEW v, NEW t \in Dialogs(v)
      PROVE  /\ t \in TopIds /\ t \in known /\ t \in mapped /\ idOf[t] = t
             /\ parent[t] # NoTop /\ WindowRoot(t) = vtop[v]
  <2>1. t \in Belonging(v)
    BY <1>2 DEF Dialogs
  <2>2. QED BY <2>1 DEF Belonging, Families
<1>3. ASSUME NEW t \in TopIds, parent[t] = NoTop PROVE WindowRoot(t) = t
  <2>1. Above[t] = t /\ Above \in [TopIds -> TopIds]
    BY <1>3, AboveIs DEF StepsUp
  <2>2. Climb(Above, t) \in {t}
    BY <2>1, ClimbSame
  <2>3. QED BY <2>2 DEF WindowRoot
<1>4. QED BY <1>1, <1>2, <1>3

\* Refreshing puts the scene right.
LEMMA RefreshedScene == Inv /\ Families /\ Refreshed => Scene
<1>. SUFFICES ASSUME Inv, Families, Refreshed PROVE Scene
  OBVIOUS
<1>1. ASSUME NEW t \in activated PROVE t = keyboard
  <2>. DEFINE v == BoundViewOf(idOf[t])
  <2>1. t \in known /\ ViewActivated(v) /\ FocusWindow(v) = idOf[t]
    BY <1>1 DEF Refreshed, Activated
  <2>2. focused = v /\ v \in live /\ v \in ViewIds
    BY <2>1 DEF ViewActivated, Inv, TypeOK
  <2>3. keyboard = idOf[t]
    BY <2>1, <2>2 DEF Refreshed, FocusTarget
  <2>4. idOf[t] \in known
    <3>1. idOf[t] # NoTop
      BY <2>1, KnownAreTops, TopsAssumption DEF Inv, TypeOK
    <3>. HIDE DEF v
    <3>2. FocusWindow(v) = vtop[v] \/ FocusWindow(v) \in Dialogs(v)
      BY DEF FocusWindow
    <3>3. CASE FocusWindow(v) = vtop[v]
      BY <2>1, <2>2, <3>1, <3>3, WindowsAre
    <3>4. CASE FocusWindow(v) \in Dialogs(v)
      BY <2>1, <3>4, WindowsAre
    <3>5. QED BY <3>2, <3>3, <3>4
  <2>5. idOf[t] = t
    BY <2>1, <2>4, KnownAreTops DEF Families
  <2>6. QED BY <2>3, <2>5
<1>2. ASSUME NEW v \in live, vtop[v] # NoTop, NEW t \in Dialogs(v) \cup {vtop[v]},
             (tview[t] = NoView) # (parent[t] = NoTop)
      PROVE  t \in hidden <=> v \in suspended
  <2>1. v \in ViewIds /\ v # NoView
    BY ViewIdsAssumption DEF Inv, TypeOK
  <2>2. /\ vtop[v] \in known /\ tview[vtop[v]] = v
        /\ t \in known /\ t \in TopIds /\ idOf[t] = t
    BY <1>2, <2>1, WindowsAre
  <2>3. WindowRoot(t) = vtop[v]
    <3>1. CASE t \in Dialogs(v)
      BY <3>1, WindowsAre
    <3>2. CASE t = vtop[v]
      BY <1>2, <2>1, <2>2, <3>2, WindowsAre
    <3>3. QED BY <3>1, <3>2
  <2>4. BoundViewOf(idOf[t]) = v
    BY <2>2, <2>3 DEF BoundViewOf
  <2>5. QED BY <2>2, <2>4 DEF Refreshed, Hidden
<1>3. ASSUME NEW t \in hidden PROVE {tview[t], BoundViewOf(idOf[t])} \cap suspended # {}
  BY <1>3 DEF Refreshed, Hidden
<1>4. QED BY <1>1, <1>2, <1>3 DEF Scene, Refreshed, KeyboardFollowsScene, OnlyKeyboardWindowActive,
                                 SuspendedFollowsScene

LEMMA RefreshRefreshes == Refresh => Refreshed'
BY DEF Refresh, Refreshed

LEMMA RefreshScene == Inv' /\ Families' /\ Refresh => Scene'
BY RefreshedScene, RefreshRefreshes, PTL

\* The same windows have the same one on top.
LEMMA SameFocusWindow ==
  ASSUME NEW v, vtop'[v] = vtop[v], Dialogs(v)' = Dialogs(v)
  PROVE  FocusWindow(v)' = FocusWindow(v)
<1>. DEFINE newest == {t \in Dialogs(v) : \A u \in Dialogs(v) : u <= t}
<1>1. newest' = newest
  OBVIOUS
<1>2. FocusWindow(v) = IF vtop[v] = NoTop \/ newest = {} THEN vtop[v] ELSE CHOOSE t \in newest : TRUE
  BY DEF FocusWindow
<1>3. FocusWindow(v)' = IF vtop'[v] = NoTop \/ newest' = {} THEN vtop'[v] ELSE CHOOSE t \in newest' : TRUE
  BY DEF FocusWindow
<1>. HIDE DEF newest
<1>4. QED BY <1>1, <1>2, <1>3

\* What the scene is made of stays when none of this changes.
LEMMA SameWindows ==
  ASSUME UNCHANGED <<vtop, tview, known, mapped, parent, idOf>>
  PROVE  /\ \A v : Dialogs(v)' = Dialogs(v) /\ FocusWindow(v)' = FocusWindow(v)
         /\ \A s : BoundViewOf(s)' = BoundViewOf(s)
<1>1. Above' = Above
  BY DEF Above
<1>2. \A s : WindowRoot(s)' = WindowRoot(s)
  BY <1>1 DEF WindowRoot, Climb
<1>3. ASSUME NEW v PROVE Dialogs(v)' = Dialogs(v)
  <2>1. Belonging(v)' = Belonging(v)
    BY <1>2 DEF Belonging
  <2>2. QED BY <2>1 DEF Dialogs, Stacked
<1>4. ASSUME NEW v PROVE FocusWindow(v)' = FocusWindow(v)
  BY <1>3, SameFocusWindow
<1>5. \A s : BoundViewOf(s)' = BoundViewOf(s)
  BY <1>2 DEF BoundViewOf
<1>6. QED BY <1>3, <1>4, <1>5

\* Views that show nothing may come, when where the keyboard belongs stays.
LEMMA SameScene ==
  ASSUME Scene, UNCHANGED <<vtop, tview, known, mapped, parent, idOf, suspended, focusVars>>,
         FocusTarget' = FocusTarget, \A v \in live' : v \in live \/ vtop[v] = NoTop
  PROVE  Scene'
<1>1. KeyboardFollowsScene' /\ OnlyKeyboardWindowActive'
  BY DEF Scene, KeyboardFollowsScene, OnlyKeyboardWindowActive, focusVars
<1>2. SuspendedFollowsScene'
  <2>1. /\ \A v : Dialogs(v)' = Dialogs(v)
        /\ \A s : BoundViewOf(s)' = BoundViewOf(s)
    BY SameWindows
  <2>2. SuspendedFollowsScene
    BY DEF Scene
  <2>3. QED BY <2>1, <2>2 DEF SuspendedFollowsScene, focusVars
<1>3. QED BY <1>1, <1>2 DEF Scene

-----------------------------------------------------------------------------
(* What each action leaves of the scene *)

\* A view that is not live shows nothing and is not out of the scene.
LEMMA NotLive ==
  ASSUME Inv, NEW v \in ViewIds, v \notin live
  PROVE  vtop[v] = NoTop /\ v \notin suspended /\ WithoutView(v) = vtop /\ FreedBy(v) = tview
<1>1. vtop[v] = NoTop /\ v \notin suspended
  BY DEF Inv, Shown, TypeOK
<1>2. vtop \in VTopType /\ tview \in TViewType
  BY DEF Inv, TypeOK, VTopType, TViewType
<1>3. WithoutView(v) = vtop
  BY <1>1, <1>2 DEF WithoutView, VTopType
<1>4. FreedBy(v) = tview
  BY <1>1, <1>2, TopsAssumption DEF FreedBy, TViewType
<1>5. QED BY <1>1, <1>3, <1>4

\* With every view showing what it did, every toplevel is shown by the view it was.
LEMMA SameBindings == Inv /\ Inv' /\ vtop' = vtop => tview' = tview
<1>. SUFFICES ASSUME Inv, Inv', vtop' = vtop PROVE tview' = tview
  OBVIOUS
<1>1. tview \in TViewType /\ tview' \in TViewType /\ Agree(vtop, tview) /\ Agree(vtop', tview')
  BY DEF Inv, TypeOK, TViewType
<1>2. ASSUME NEW t \in TopIds PROVE tview'[t] = tview[t]
  BY <1>1, TopsAssumption DEF Agree, TViewType
<1>3. QED BY <1>1, <1>2 DEF TViewType

LEMMA ViewCreatedScene ==
  ASSUME Inv, Families, Scene, Inv', Families',
         NEW v \in ViewIds, NEW p \in ParamSet, ViewCreated(v, p)
  PROVE  Scene'
<1>1. CASE v \in live \/ vtop' # vtop
  BY <1>1, RefreshScene DEF ViewCreated, RefreshIf
<1>2. CASE ~(v \in live \/ vtop' # vtop)
  <2>1. /\ live' = live \cup {v} /\ suspended' = suspended \ {v} /\ vtop' = vtop
        /\ UNCHANGED <<topVars, focused, focusVars>>
    BY <1>2 DEF ViewCreated, RefreshIf
  <2>2. vtop[v] = NoTop /\ suspended' = suspended /\ tview' = tview
    BY <1>2, <2>1, NotLive, SameBindings
  <2>3. FocusTarget' = FocusTarget
    <3>1. UNCHANGED <<vtop, tview, known, mapped, parent, idOf>>
      BY <2>1, <2>2 DEF topVars
    <3>2. \A u : FocusWindow(u)' = FocusWindow(u)
      BY <3>1, SameWindows
    <3>3. \A u : u # v => ViewActivated(u)' = ViewActivated(u)
      BY <2>1, <2>2 DEF ViewActivated
    <3>4. FocusWindow(v)' = NoTop
      BY <2>1, <2>2 DEF FocusWindow
    <3>5. CASE focused = v
      <4>1. FocusTarget = NoTop
        BY <1>2, <3>5 DEF FocusTarget, ViewActivated
      <4>2. FocusTarget' = NoTop
        BY <2>1, <3>4, <3>5 DEF FocusTarget, ViewActivated
      <4>3. QED BY <4>1, <4>2
    <3>6. CASE focused # v
      BY <2>1, <2>2, <3>2, <3>6 DEF FocusTarget, ViewActivated
    <3>7. QED BY <3>5, <3>6
  <2>4. QED BY <2>1, <2>2, <2>3, SameScene DEF topVars
<1>3. QED BY <1>1, <1>2

LEMMA ViewDisposedScene ==
  ASSUME Inv, Families, Scene, Inv', Families', NEW v \in ViewIds, ViewDisposed(v)
  PROVE  Scene'
<1>1. CASE v \in live
  BY <1>1, RefreshScene DEF ViewDisposed, RefreshIf
<1>2. CASE v \notin live
  <2>1. /\ live' = live /\ suspended' = suspended /\ vtop' = vtop /\ tview' = tview
        /\ focused' = IF focused = v THEN NoView ELSE focused
        /\ UNCHANGED <<topVars, focusVars>>
    <3>1. /\ live' = live \ {v} /\ suspended' = suspended \ {v}
          /\ vtop' = WithoutView(v) /\ tview' = FreedBy(v)
          /\ focused' = IF focused = v THEN NoView ELSE focused
          /\ UNCHANGED <<topVars, focusVars>>
      BY <1>2 DEF ViewDisposed, RefreshIf
    <3>2. QED BY <1>2, <3>1, NotLive
  <2>2. FocusTarget' = FocusTarget
    <3>1. UNCHANGED <<vtop, tview, known, mapped, parent, idOf>>
      BY <2>1 DEF topVars
    <3>2. \A u : FocusWindow(u)' = FocusWindow(u)
      BY <3>1, SameWindows
    <3>3. NoView \notin live
      BY ViewIdsAssumption DEF Inv, TypeOK
    <3>4. CASE focused = v
      BY <1>2, <2>1, <3>3, <3>4 DEF FocusTarget, ViewActivated
    <3>5. CASE focused # v
      BY <2>1, <3>2, <3>5 DEF FocusTarget, ViewActivated
    <3>6. QED BY <3>4, <3>5
  <2>3. QED BY <2>1, <2>2, SameScene DEF topVars
<1>3. QED BY <1>1, <1>2

\* Nothing the scene is made of changes.
LEMMA UntouchedScene ==
  ASSUME Scene, UNCHANGED <<live, vtop, tview, known, mapped, parent, idOf, suspended, focused, focusVars>>
  PROVE  Scene'
<1>1. \A u : FocusWindow(u)' = FocusWindow(u)
  BY SameWindows
<1>2. FocusTarget' = FocusTarget
  BY <1>1 DEF FocusTarget, ViewActivated
<1>3. QED BY <1>2, SameScene

LEMMA RequestActivationScene ==
  ASSUME Inv, Families, Scene, Inv', Families',
         NEW k \in Tokens, NEW t \in TopIds, RequestActivation(k, t)
  PROVE  Scene'
<1>1. UNCHANGED <<viewVars, topVars, focused>>
  BY DEF RequestActivation
<1>2. \/ Refresh
      \/ UNCHANGED <<bindVars, focusVars>>
      \/ vtop' = vtop /\ UNCHANGED focusVars
  BY DEF RequestActivation, RefreshIf
<1>3. CASE Refresh
  BY <1>3, RefreshScene
<1>4. CASE vtop' = vtop /\ UNCHANGED focusVars
  <2>1. tview' = tview
    BY <1>4, SameBindings
  <2>2. QED BY <1>1, <1>4, <2>1, UntouchedScene DEF viewVars, topVars
<1>5. QED BY <1>2, <1>3, <1>4 DEF bindVars

\* A view's own configuring tells its toplevel what the scene says, unless it is
\* the dialog of another, which is why SuspendedFollowsScene leaves such out.
LEMMA ConfigureViewScene ==
  ASSUME Inv, Families, Scene, NEW v \in ViewIds, ConfigureView(v)
  PROVE  Scene'
<1>. DEFINE t == vtop[v]
<1>1. /\ v \in live /\ t # NoTop
      /\ activated' = IF ViewActivated(v) /\ FocusWindow(v) = t THEN activated \cup {t} ELSE activated \ {t}
      /\ hidden' = IF v \in suspended THEN hidden \cup {t} ELSE hidden \ {t}
      /\ UNCHANGED <<viewVars, bindVars, topVars, ttoken, tokens, focused, keyboard>>
  BY DEF ConfigureView
<1>2. /\ \A u : Dialogs(u)' = Dialogs(u) /\ FocusWindow(u)' = FocusWindow(u)
      /\ \A s : BoundViewOf(s)' = BoundViewOf(s)
  BY <1>1, SameWindows DEF bindVars, topVars
<1>3. FocusTarget' = FocusTarget
  BY <1>1, <1>2 DEF FocusTarget, ViewActivated, viewVars
<1>4. KeyboardFollowsScene'
  BY <1>1, <1>3 DEF Scene, KeyboardFollowsScene
<1>5. OnlyKeyboardWindowActive'
  <2>1. ViewActivated(v) /\ FocusWindow(v) = t => keyboard = t
    BY DEF Scene, KeyboardFollowsScene, FocusTarget, ViewActivated
  <2>2. QED BY <1>1, <2>1 DEF Scene, OnlyKeyboardWindowActive
<1>6. t \in TopIds /\ tview[t] = v /\ v # NoView
  BY <1>1, WindowsAre, ViewIdsAssumption
<1>7. ASSUME NEW u \in live, vtop[u] # NoTop, NEW x \in Dialogs(u) \cup {vtop[u]},
             (tview[x] = NoView) # (parent[x] = NoTop)
      PROVE  x \in hidden' <=> u \in suspended
  <2>1. CASE x = t
    <3>1. parent[x] = NoTop
      BY <1>6, <1>7, <2>1
    <3>2. x = vtop[u] /\ u \in ViewIds
      BY <1>7, <3>1, WindowsAre DEF Inv, TypeOK
    <3>3. u = v
      BY <1>6, <1>7, <2>1, <3>2, WindowsAre
    <3>4. QED BY <1>1, <2>1, <3>3
  <2>2. CASE x # t
    BY <1>1, <1>7, <2>2 DEF Scene, SuspendedFollowsScene
  <2>3. QED BY <2>1, <2>2
<1>8. ASSUME NEW x \in hidden'
      PROVE  \/ {tview[x], BoundViewOf(idOf[x])} \cap suspended # {}
             \/ \E u \in suspended : vtop[u] # NoTop /\ parent[vtop[u]] # NoTop
  <2>1. CASE x = t
    BY <1>1, <1>6, <2>1
  <2>2. CASE x # t
    BY <1>1, <2>2 DEF Scene, SuspendedFollowsScene
  <2>3. QED BY <2>1, <2>2
<1>9. SuspendedFollowsScene'
  BY <1>1, <1>2, <1>7, <1>8 DEF SuspendedFollowsScene, viewVars, bindVars, topVars
<1>10. QED BY <1>4, <1>5, <1>9 DEF Scene

LEMMA NewToplevelScene ==
  ASSUME Inv, Families, Scene, Inv', Families', NEW c \in Clients, NewToplevel(c)
  PROVE  Scene'
<1>. DEFINE n == nextId + 1
<1>1. /\ known' = known \cup {n}
      /\ UNCHANGED <<mapped, parent, live, suspended, vtop, tview, focused, focusVars>>
      /\ n \notin known /\ known \subseteq TopIds /\ mapped \subseteq known
      /\ \A x \in TopIds : x # n => idOf'[x] = idOf[x]
  <2>1. n \notin known
    BY KnownAreTops, TopsAssumption DEF Inv, TypeOK
  <2>2. \A x \in TopIds : x # n => idOf'[x] = idOf[x]
    BY DEF NewToplevel, Inv, TypeOK
  <2>3. QED BY <2>1, <2>2, KnownAreTops DEF NewToplevel, viewVars, bindVars, Inv, TypeOK
<1>2. Above' = Above
  <2>1. parent[n] = NoTop \/ n \notin TopIds
    BY <1>1 DEF Families, Inv, TypeOK
  <2>2. \A s \in TopIds : s \in known' /\ parent[s] # NoTop <=> s \in known /\ parent[s] # NoTop
    BY <1>1, <2>1
  <2>3. QED BY <1>1, <2>2 DEF Above
<1>3. \A s : WindowRoot(s)' = WindowRoot(s)
  BY <1>2 DEF WindowRoot, Climb
<1>4. ASSUME NEW v PROVE Dialogs(v)' = Dialogs(v)
  <2>1. ASSUME NEW x \in mapped PROVE x \in TopIds /\ x # n /\ x \in known /\ x \in known' /\ idOf'[x] = idOf[x]
    BY <1>1
  <2>2. Belonging(v)' = Belonging(v)
    BY <1>1, <1>3, <2>1 DEF Belonging
  <2>3. QED BY <1>1, <2>2 DEF Dialogs, Stacked
<1>5. \A v : FocusWindow(v)' = FocusWindow(v)
  BY <1>1, <1>4, SameFocusWindow
<1>6. FocusTarget' = FocusTarget
  BY <1>1, <1>5 DEF FocusTarget, ViewActivated
<1>7. ASSUME NEW x \in hidden PROVE BoundViewOf(idOf[x])' = BoundViewOf(idOf[x])
  <2>1. x \in TopIds /\ idOf'[x] = idOf[x] /\ idOf[x] \in TopIds
    BY <1>1 DEF Inv, TypeOK
  <2>2. n \in TopIds => tview[n] = NoView
    <3>1. ASSUME n \in TopIds, tview[n] # NoView PROVE FALSE
      <4>1. tview[n] \in ViewIds /\ vtop[tview[n]] = n
        BY <3>1 DEF Inv, TypeOK, Agree
      <4>2. n \in known
        BY <3>1, <4>1, TopsAssumption DEF Inv, Shown
      <4>3. QED BY <1>1, <4>2
    <3>2. QED BY <3>1
  <2>3. WindowRoot(idOf[x]) \in TopIds
    <3>1. Above \in [TopIds -> TopIds]
      BY AboveIs DEF StepsUp
    <3>2. QED BY <2>1, <3>1, ClimbSame DEF WindowRoot
  <2>4. QED BY <1>1, <1>3, <2>1, <2>2, <2>3 DEF BoundViewOf
<1>8. KeyboardFollowsScene' /\ OnlyKeyboardWindowActive'
  BY <1>1, <1>6 DEF Scene, KeyboardFollowsScene, OnlyKeyboardWindowActive, focusVars
<1>9. SuspendedFollowsScene'
  BY <1>1, <1>4, <1>7 DEF Scene, SuspendedFollowsScene, focusVars
<1>10. QED BY <1>8, <1>9 DEF Scene

\* One toplevel going, of which no view was told: no window of a view goes, and
\* each is still the view's.
LEMMA DestroyedDialogs ==
  ASSUME Inv, Families, Inv', Families', NEW t \in TopIds, ToplevelDestroyed(t), vtop' = vtop,
         tview[t] = NoView \/ idOf[t] # t,
         parent[t] # NoTop => BoundViewOf(idOf[t]) = NoView,
         NEW v \in ViewIds, vtop[v] # NoTop
  PROVE  /\ Dialogs(v)' = Dialogs(v) /\ t # vtop[v] /\ idOf[t] # vtop[v]
         /\ t \notin Dialogs(v) /\ idOf[t] \notin Dialogs(v)
<1>. DEFINE r == vtop[v]
            id == idOf[t]
<1>1. /\ r \in TopIds /\ r \in known /\ r \in mapped /\ idOf[r] = r /\ tview[r] = v /\ v # NoView
      /\ r \in known' /\ r \in mapped' /\ tview'[r] = v
  BY WindowsAre, ViewIdsAssumption DEF Inv, Agree, Shown
<1>2. /\ known' = known \ {id} /\ mapped' = mapped \ {id} /\ idOf' = idOf
      /\ \A y \in TopIds : parent'[y] = IF y = t THEN NoTop ELSE parent[y]
      /\ id \in TopIds
  BY DEF ToplevelDestroyed, Inv, TypeOK
<1>3. t # r /\ id # r
  BY <1>1, <1>2
<1>4. /\ Above \in [TopIds -> TopIds] /\ (Above \in [TopIds -> TopIds])'
      /\ \A s \in TopIds : Above[s] = IF parent[s] # NoTop THEN parent[s] ELSE s
      /\ \A s \in TopIds : Above'[s] = IF parent'[s] # NoTop THEN parent'[s] ELSE s
      /\ \A s \in TopIds : s # t => Above'[s] = Above[s]
      /\ Above'[t] = t
  BY <1>2, AboveIs, AboveThenIs DEF StepsUp
<1>5. t \notin Belonging(v) /\ id \notin Belonging(v)
  <2>1. id = t => t \notin Belonging(v)
    BY <1>1 DEF Belonging, BoundViewOf
  <2>2. id # t => id \notin known
    <3>1. t \in 1 .. nextId
      BY KnownAreTops DEF Inv, TypeOK, ToplevelDestroyed
    <3>2. QED BY <3>1 DEF Families
  <2>3. id # t => t \notin mapped
    BY DEF Families
  <2>4. QED BY <2>1, <2>2, <2>3 DEF Belonging
<1>6. ASSUME NEW D \in SUBSET Belonging(v), Stacked(D, r)
      PROVE  D \in SUBSET Belonging(v)' /\ Stacked(D, r)'
  <2>1. \A x \in D : x \in TopIds /\ x # t /\ x # id /\ parent'[x] = parent[x] /\ Above[x] = parent[x]
    BY <1>2, <1>4, <1>5, <1>6 DEF Belonging
  <2>2. Stacked(D, r)'
    BY <1>6, <2>1 DEF Stacked
  <2>3. ASSUME NEW x \in D PROVE WindowRoot(idOf[x])' = r
    <3>1. x \in TopIds /\ WindowRoot(x) = r /\ idOf[x] = x
      BY <1>6, <2>1, <2>3 DEF Belonging, Families
    <3>2. PICK f : Way(f, Above, x, MaxDepth) /\ Climb(Above, x) = f[MaxDepth]
      BY <1>4, <3>1, ClimbIs
    <3>3. PICK g : Way(g, Above', x, MaxDepth) /\ Climb(Above', x) = g[MaxDepth]
      BY <1>4, <3>1, ClimbIs
    <3>. DEFINE S1 == {y \in TopIds : y \in D \/ IsAtOrAbove(y, r)}
    <3>4. \A y \in TopIds : y \in S1 => Above[y] \in S1
      <4>1. ASSUME NEW y \in TopIds, y \in D PROVE Above[y] \in S1
        <5>1. IsAtOrAbove(r, r)
          BY DEF IsAtOrAbove
        <5>2. Above[y] = r \/ Above[y] \in D
          BY <1>6, <2>1, <4>1 DEF Stacked
        <5>3. QED BY <1>1, <1>4, <5>1, <5>2
      <4>2. ASSUME NEW y \in TopIds, IsAtOrAbove(y, r) PROVE Above[y] \in S1
        <5>1. IsAtOrAbove(Above[y], r)
          BY <1>4, <4>2 DEF IsAtOrAbove, Upward
        <5>2. QED BY <1>4, <4>2, <5>1
      <4>3. QED BY <4>1, <4>2
    <3>5. \A k \in 0 .. MaxDepth : f[k] \in S1 /\ f[k] \in TopIds
      <4>1. 0 \in 0 .. MaxDepth /\ f[0] \in S1
        BY <2>3, <3>1, <3>2, DepthAssumption DEF Way
      <4>2. f \in [0 .. MaxDepth -> TopIds]
        BY <3>2 DEF Way
      <4>. HIDE DEF S1
      <4>3. QED BY <1>4, <3>1, <3>2, <3>4, <4>1, <4>2, WayStays
    <3>6. ASSUME NEW j \in 0 .. MaxDepth, f[j] = t, parent[t] # NoTop PROVE FALSE
      <4>1. IsAtOrAbove(t, r)
        BY <2>1, <3>5, <3>6
      <4>2. PICK S \in SUBSET TopIds : parent[t] \in S /\ Upward(S) /\ t \notin S
        BY <3>6 DEF Families, Apart
      <4>3. f[MaxDepth] = r
        BY <3>1, <3>2 DEF WindowRoot
      <4>4. j # MaxDepth /\ j + 1 \in 1 .. MaxDepth /\ j + 1 \in 0 .. MaxDepth
            /\ MaxDepth \in (j + 1) .. MaxDepth /\ (j + 1) - 1 = j
        BY <1>3, <3>6, <4>3, DepthAssumption
      <4>5. f[j + 1] \in S
        BY <1>4, <3>2, <3>6, <4>2, <4>4 DEF Way
      <4>6. \A y \in TopIds : y \in S => Above[y] \in S
        BY <1>4, <4>2 DEF Upward
      <4>7. f[MaxDepth] \in S
        BY <1>4, <3>1, <3>2, <4>4, <4>5, <4>6, WayStays
      <4>8. QED BY <4>1, <4>2, <4>3, <4>7 DEF IsAtOrAbove
    <3>7. \A k \in 0 .. MaxDepth : Above[f[k]] = Above'[f[k]]
      BY <1>4, <3>5, <3>6
    <3>8. f[MaxDepth] = g[MaxDepth]
      BY <1>4, <3>1, <3>2, <3>3, <3>7, SameWay
    <3>9. QED BY <1>2, <3>1, <3>2, <3>3, <3>8 DEF WindowRoot
  <2>4. D \in SUBSET Belonging(v)'
    BY <1>2, <1>6, <2>1, <2>3 DEF Belonging
  <2>5. QED BY <2>2, <2>4
<1>7. ASSUME NEW D \in SUBSET Belonging(v)', Stacked(D, r)'
      PROVE  D \in SUBSET Belonging(v) /\ Stacked(D, r)
  <2>1. \A x \in D : /\ x \in TopIds /\ x # t /\ parent'[x] = parent[x] /\ parent[x] # NoTop
                     /\ x \in known /\ x \in mapped /\ WindowRoot(idOf[x])' = r
    BY <1>2, <1>7 DEF Belonging
  <2>2. Stacked(D, r)
    BY <1>7, <2>1 DEF Stacked
  <2>3. ASSUME NEW x \in D PROVE WindowRoot(idOf[x]) = r
    <3>1. x \in TopIds /\ idOf[x] = x /\ Climb(Above', x) = r
      BY <1>2, <2>1, <2>3 DEF Families, WindowRoot
    <3>2. PICK f : Way(f, Above, x, MaxDepth) /\ Climb(Above, x) = f[MaxDepth]
      BY <1>4, <3>1, ClimbIs
    <3>3. PICK g : Way(g, Above', x, MaxDepth) /\ Climb(Above', x) = g[MaxDepth]
      BY <1>4, <3>1, ClimbIs
    <3>4. ASSUME NEW j \in 0 .. MaxDepth, g[j] = t PROVE FALSE
      <4>1. \A y \in TopIds : y \in {t} => Above'[y] \in {t}
        BY <1>4
      <4>2. MaxDepth \in j .. MaxDepth /\ g[j] \in {t}
        BY <3>4, DepthAssumption
      <4>3. g[MaxDepth] \in {t}
        BY <1>4, <3>1, <3>3, <4>1, <4>2, WayStays
      <4>4. QED BY <1>3, <3>1, <3>3, <4>3
    <3>5. \A k \in 0 .. MaxDepth : Above'[g[k]] = Above[g[k]]
      <4>1. \A k \in 0 .. MaxDepth : g[k] \in TopIds
        BY <3>3 DEF Way
      <4>2. QED BY <1>4, <3>4, <4>1
    <3>6. g[MaxDepth] = f[MaxDepth]
      BY <1>4, <3>1, <3>2, <3>3, <3>5, SameWay
    <3>7. QED BY <3>1, <3>2, <3>3, <3>6 DEF WindowRoot
  <2>4. D \in SUBSET Belonging(v)
    BY <2>1, <2>3 DEF Belonging
  <2>5. QED BY <2>2, <2>4
<1>8. Dialogs(v)' = Dialogs(v)
  BY <1>6, <1>7 DEF Dialogs
<1>9. Dialogs(v) \subseteq Belonging(v)
  BY DEF Dialogs
<1>10. QED BY <1>3, <1>5, <1>8, <1>9

\* Whoever MaxDepth led to a view's toplevel that is nobody's dialog is still led
\* there: the way up to it did not pass the one destroyed.
LEMMA DestroyedRoot ==
  ASSUME Inv, Families, Inv', Families', NEW t \in TopIds, ToplevelDestroyed(t), tview' = tview,
         parent[t] # NoTop => BoundViewOf(idOf[t]) = NoView,
         NEW r \in TopIds, r # t, idOf[t] # r, r \in known, parent[r] = NoTop, tview[r] # NoView,
         NEW s \in TopIds, idOf[s] = s, WindowRoot(s) = r
  PROVE  BoundViewOf(s)' = BoundViewOf(s)
<1>1. /\ r \in known' /\ \A y \in TopIds : parent'[y] = IF y = t THEN NoTop ELSE parent[y]
  BY DEF ToplevelDestroyed, Inv, TypeOK
<1>2. /\ Above \in [TopIds -> TopIds] /\ (Above \in [TopIds -> TopIds])'
      /\ \A y \in TopIds : Above[y] = IF parent[y] # NoTop THEN parent[y] ELSE y
      /\ \A y \in TopIds : y # t \/ parent[t] = NoTop => Above'[y] = Above[y]
  BY <1>1, AboveIs, AboveThenIs DEF StepsUp
<1>3. PICK f : Way(f, Above, s, MaxDepth) /\ Climb(Above, s) = f[MaxDepth]
  BY <1>2, ClimbIs
<1>4. PICK g : Way(g, Above', s, MaxDepth) /\ Climb(Above', s) = g[MaxDepth]
  BY <1>2, ClimbIs
<1>5. \A k \in 0 .. MaxDepth : f[k] \in TopIds /\ idOf[f[k]] = f[k]
  <2>. DEFINE S == {y \in TopIds : idOf[y] = y}
  <2>1. \A y \in TopIds : y \in S => Above[y] \in S
    BY <1>2 DEF Families
  <2>2. 0 \in 0 .. MaxDepth /\ f[0] \in S
    BY <1>3, DepthAssumption DEF Way
  <2>3. \A k \in 0 .. MaxDepth : f[k] \in S
    <3>. HIDE DEF S
    <3>1. QED BY <1>2, <1>3, <2>1, <2>2, WayStays
  <2>4. QED BY <2>3
<1>6. ASSUME NEW j \in 0 .. MaxDepth, f[j] = t, parent[t] # NoTop PROVE FALSE
  <2>1. PICK h : Way(h, Above, t, MaxDepth) /\ Climb(Above, t) = h[MaxDepth]
    BY <1>2, ClimbIs
  <2>. DEFINE Off == {k \in 0 .. (MaxDepth - j) : h[k] # f[j + k]}
  <2>2. Off = {}
    <3>1. SUFFICES ASSUME Off # {} PROVE FALSE
      OBVIOUS
    <3>2. Off \in SUBSET Nat
      OBVIOUS
    <3>3. PICK k \in Off : \A y \in Off : k <= y
      <4>. HIDE DEF Off
      <4>1. QED BY <3>1, <3>2, LeastExists
    <3>4. k # 0
      BY <1>6, <2>1, <3>3, DepthAssumption DEF Way
    <3>5. /\ k - 1 \in 0 .. (MaxDepth - j) /\ ~(k <= k - 1) /\ k \in 1 .. MaxDepth
          /\ j + k \in 1 .. MaxDepth /\ (j + k) - 1 = j + (k - 1)
      BY <3>3, <3>4, DepthAssumption
    <3>6. h[k - 1] = f[j + (k - 1)]
      BY <3>3, <3>5
    <3>7. QED BY <1>3, <2>1, <3>3, <3>5, <3>6 DEF Way
  <2>3. MaxDepth - j \in 0 .. MaxDepth /\ h[MaxDepth - j] = f[MaxDepth] /\ f[MaxDepth] = r
    <3>1. MaxDepth - j \in 0 .. (MaxDepth - j) /\ MaxDepth - j \in 0 .. MaxDepth /\ j + (MaxDepth - j) = MaxDepth
      BY DepthAssumption
    <3>2. QED BY <1>3, <2>2, <3>1 DEF WindowRoot
  <2>4. \A y \in TopIds : y \in {r} => Above[y] \in {r}
    BY <1>2
  <2>5. MaxDepth \in (MaxDepth - j) .. MaxDepth /\ h[MaxDepth - j] \in {r}
    BY <2>3, DepthAssumption
  <2>6. h[MaxDepth] \in {r}
    BY <1>2, <2>1, <2>3, <2>4, <2>5, WayStays
  <2>7. BoundViewOf(idOf[t]) = tview[r]
    BY <1>5, <1>6, <2>1, <2>6 DEF BoundViewOf, WindowRoot
  <2>8. QED BY <1>6, <2>7
<1>7. \A k \in 0 .. MaxDepth : Above[f[k]] = Above'[f[k]]
  BY <1>2, <1>5, <1>6
<1>8. f[MaxDepth] = g[MaxDepth]
  BY <1>2, <1>3, <1>4, <1>7, SameWay
<1>9. WindowRoot(s)' = r
  BY <1>3, <1>4, <1>8 DEF WindowRoot
<1>10. QED BY <1>1, <1>9 DEF BoundViewOf

LEMMA ToplevelDestroyedScene ==
  ASSUME Inv, Families, Scene, Inv', Families', NEW t \in TopIds, ToplevelDestroyed(t)
  PROVE  Scene'
<1>. DEFINE id == idOf[t]
            shownBy == IF id \in known THEN tview[id] ELSE NoView
            dialogOf == IF parent[t] # NoTop THEN BoundViewOf(id) ELSE NoView
<1>1. CASE shownBy # NoView \/ dialogOf # NoView
  BY <1>1, RefreshScene DEF ToplevelDestroyed
<1>2. CASE ~(shownBy # NoView \/ dialogOf # NoView)
  <2>1. /\ UNCHANGED <<vtop, tview, keyboard, live, suspended, focused, idOf>>
        /\ activated' = activated \ {id} /\ hidden' = hidden \ {id}
        /\ \A y \in TopIds : parent'[y] = IF y = t THEN NoTop ELSE parent[y]
    BY <1>2 DEF ToplevelDestroyed, bindVars, viewVars, Inv, TypeOK
  <2>2. tview[t] = NoView \/ id # t
    BY <1>2, KnownAreTops DEF ToplevelDestroyed, Inv, TypeOK
  <2>3. parent[t] # NoTop => BoundViewOf(id) = NoView
    BY <1>2
  <2>4. ASSUME NEW v \in ViewIds, vtop[v] # NoTop
        PROVE  /\ Dialogs(v)' = Dialogs(v) /\ t # vtop[v] /\ id # vtop[v]
               /\ t \notin Dialogs(v) /\ id \notin Dialogs(v)
    BY <2>1, <2>2, <2>3, <2>4, DestroyedDialogs
  <2>5. FocusTarget' = FocusTarget
    <3>1. ASSUME NEW v \in ViewIds PROVE FocusWindow(v)' = FocusWindow(v)
      <4>1. CASE vtop[v] = NoTop
        BY <2>1, <4>1 DEF FocusWindow
      <4>2. CASE vtop[v] # NoTop
        BY <2>1, <2>4, <4>2, SameFocusWindow
      <4>3. QED BY <4>1, <4>2
    <3>2. live \subseteq ViewIds
      BY DEF Inv, TypeOK
    <3>3. QED BY <2>1, <3>1, <3>2 DEF FocusTarget, ViewActivated
  <2>6. KeyboardFollowsScene' /\ OnlyKeyboardWindowActive'
    BY <2>1, <2>5 DEF Scene, KeyboardFollowsScene, OnlyKeyboardWindowActive
  <2>7. ASSUME NEW v \in live, vtop[v] # NoTop, NEW x \in Dialogs(v)' \cup {vtop[v]},
               (tview[x] = NoView) # (parent'[x] = NoTop)
        PROVE  x \in hidden' <=> v \in suspended
    <3>1. v \in ViewIds
      BY DEF Inv, TypeOK
    <3>2. x \in Dialogs(v) \cup {vtop[v]} /\ x # t /\ x # id
      BY <2>4, <2>7, <3>1
    <3>3. x \in TopIds
      BY <2>7, <3>1, <3>2, WindowsAre
    <3>4. QED BY <2>1, <2>7, <3>2, <3>3 DEF Scene, SuspendedFollowsScene
  <2>8. ASSUME NEW x \in hidden'
        PROVE  \/ {tview[x], BoundViewOf(idOf[x])'} \cap suspended # {}
               \/ \E w \in suspended : vtop[w] # NoTop /\ parent'[vtop[w]] # NoTop
    <3>1. suspended \subseteq live /\ live \subseteq ViewIds /\ NoView \notin ViewIds
      BY ViewIdsAssumption DEF Inv, TypeOK
    <3>2. ASSUME NEW w \in suspended, vtop[w] # NoTop, parent[vtop[w]] # NoTop
          PROVE  parent'[vtop[w]] # NoTop
      BY <2>1, <2>4, <3>1, <3>2, WindowsAre
    <3>3. CASE tview[x] \in suspended \/ \E w \in suspended : vtop[w] # NoTop /\ parent[vtop[w]] # NoTop
      BY <3>2, <3>3
    <3>4. CASE BoundViewOf(idOf[x]) \in suspended
      <4>. DEFINE w == BoundViewOf(idOf[x])
                  r == WindowRoot(idOf[x])
      <4>1. w \in ViewIds /\ w # NoView /\ r \in known /\ r \in TopIds /\ tview[r] = w
        BY <3>1, <3>4, KnownAreTops DEF BoundViewOf
      <4>2. vtop[w] = r /\ r # NoTop
        BY <4>1, TopsAssumption DEF Inv, Agree
      <4>3. CASE parent[r] # NoTop
        BY <3>2, <3>4, <4>2, <4>3
      <4>4. CASE parent[r] = NoTop
        <5>1. r # t /\ id # r
          BY <2>4, <4>1, <4>2
        <5>2. x \in known /\ x \in TopIds /\ idOf[x] \in TopIds /\ idOf[idOf[x]] = idOf[x]
          BY <2>1, KnownAreTops DEF Inv, TypeOK, SurfacesAgree
        <5>3. BoundViewOf(idOf[x])' = BoundViewOf(idOf[x])
          <6>. DEFINE s == idOf[x]
          <6>1. BoundViewOf(s)' = BoundViewOf(s)
            BY <2>1, <2>3, <4>1, <4>4, <5>1, <5>2, DestroyedRoot
          <6>2. QED BY <2>1, <6>1
        <5>4. QED BY <3>4, <5>3
      <4>5. QED BY <4>3, <4>4
    <3>5. QED BY <2>1, <2>8, <3>3, <3>4 DEF Scene, SuspendedFollowsScene
  <2>9. SuspendedFollowsScene'
    BY <2>1, <2>7, <2>8 DEF SuspendedFollowsScene
  <2>10. QED BY <2>6, <2>9 DEF Scene
<1>3. QED BY <1>1, <1>2

LEMMA SceneInit == Init => Scene
<1>. SUFFICES ASSUME Init PROVE Scene
  OBVIOUS
<1>1. FocusTarget = NoTop
  BY DEF Init, FocusTarget
<1>2. QED BY <1>1 DEF Init, Scene, KeyboardFollowsScene, OnlyKeyboardWindowActive, SuspendedFollowsScene

LEMMA SceneNext == Inv /\ Families /\ Scene /\ Inv' /\ Families' /\ [Next]_vars => Scene'
<1>. SUFFICES ASSUME Inv, Families, Scene, Inv', Families', [Next]_vars PROVE Scene'
  OBVIOUS
<1>1. ASSUME NEW v \in ViewIds, Platform(v) PROVE Scene'
  <2>1. ASSUME NEW on \in BOOLEAN, ViewSuspended(v, on) \/ FocusInput(v, on) PROVE Scene'
    BY <2>1, RefreshScene DEF ViewSuspended, FocusInput
  <2>2. QED BY <1>1, <2>1, ViewCreatedScene, ViewDisposedScene, ConfigureViewScene DEF Platform
<1>2. ASSUME NEW k \in Tokens, IssueToken(k) PROVE Scene'
  BY <1>2, UntouchedScene DEF IssueToken, viewVars, bindVars, topVars
<1>3. ASSUME NEW t \in TopIds, Requests(t) PROVE Scene'
  <2>1. ASSUME NEW a \in AppIds, SetAppId(t, a) PROVE Scene'
    BY <2>1, UntouchedScene DEF SetAppId, viewVars, bindVars
  <2>2. ASSUME ToplevelCommit(t) PROVE Scene'
    <3>1. \/ Refresh
          \/ UNCHANGED <<viewVars, bindVars, known, mapped, parent, idOf, focused, focusVars>>
      BY <2>2 DEF ToplevelCommit
    <3>2. QED BY <3>1, RefreshScene, UntouchedScene DEF viewVars, bindVars
  <2>3. ASSUME NEW p \in TopIds \cup {NoTop}, ParentChanged(t, p) PROVE Scene'
    BY <2>3, RefreshScene DEF ParentChanged
  <2>4. QED BY <1>3, <2>1, <2>2, <2>3, ToplevelDestroyedScene, RequestActivationScene DEF Requests
<1>4. ASSUME UNCHANGED vars PROVE Scene'
  BY <1>4, UntouchedScene DEF vars, viewVars, bindVars, topVars
<1>5. ASSUME SetEventPort \/ StopsListening PROVE Scene'
  BY <1>5, UntouchedScene DEF SetEventPort, StopsListening, topVars
<1>6. QED BY <1>1, <1>2, <1>3, <1>4, <1>5, NewToplevelScene DEF Next

-----------------------------------------------------------------------------
(* The theorems *)

\* The keyboard is always where the scene says, on the top window of the view
\* Dart focused, whatever comes and goes and however deep its dialogs are
\* (input.rs refresh_keyboard_focus, and the handlers that do not call it).
THEOREM KeyboardAlwaysFollowsScene == Spec => []KeyboardFollowsScene
<1>1. Scene => KeyboardFollowsScene
  BY DEF Scene
<1>2. QED BY <1>1, InitInv, NextInv, FamiliesInit, FamiliesNext, SceneInit, SceneNext, PTL DEF Spec

\* No window but the one with the keyboard is ever left drawn as active
\* (state.rs sync_states, configure_view).
THEOREM OnlyKeyboardWindowEverActive == Spec => []OnlyKeyboardWindowActive
<1>1. Scene => OnlyKeyboardWindowActive
  BY DEF Scene
<1>2. QED BY <1>1, InitInv, NextInv, FamiliesInit, FamiliesNext, SceneInit, SceneNext, PTL DEF Spec

\* A view's windows are suspended exactly while it is out of the scene, and
\* none is that belongs to no such view, but for those SuspendedFollowsScene
\* leaves out (state.rs sync_states; xdg.rs toplevel_destroyed).
THEOREM SuspendedAlwaysFollowsScene == Spec => []SuspendedFollowsScene
<1>1. Scene => SuspendedFollowsScene
  BY DEF Scene
<1>2. QED BY <1>1, InitInv, NextInv, FamiliesInit, FamiliesNext, SceneInit, SceneNext, PTL DEF Spec

-----------------------------------------------------------------------------
(* What follows for the windows of a view *)

\* Who has the keyboard is there, mapped, and a window of the view Dart focused,
\* which is in the scene.
KeyboardOnWindow ==
  keyboard # NoTop => /\ keyboard \in mapped /\ keyboard \in exists
                      /\ ViewActivated(focused)
                      /\ keyboard \in Dialogs(focused) \cup {vtop[focused]}

\* The keyboard is never left on a toplevel that was destroyed, or that no view
\* in the scene shows (input.rs refresh_keyboard_focus; xdg.rs
\* toplevel_destroyed, which refreshes it for the windows of views only).
THEOREM KeyboardAlwaysOnWindow == Spec => []KeyboardOnWindow
<1>1. Inv /\ Families /\ Scene => KeyboardOnWindow
  <2>. SUFFICES ASSUME Inv, Families, Scene, keyboard # NoTop
                PROVE  /\ keyboard \in mapped /\ keyboard \in exists
                       /\ ViewActivated(focused)
                       /\ keyboard \in Dialogs(focused) \cup {vtop[focused]}
    BY DEF KeyboardOnWindow
  <2>1. ViewActivated(focused) /\ keyboard = FocusWindow(focused)
    BY DEF Scene, KeyboardFollowsScene, FocusTarget, ViewActivated
  <2>2. focused \in ViewIds
    BY <2>1 DEF ViewActivated, Inv, TypeOK
  <2>3. keyboard \in Dialogs(focused) \cup {vtop[focused]}
    BY <2>1 DEF FocusWindow
  <2>4. keyboard \in known /\ keyboard \in mapped /\ idOf[keyboard] = keyboard
    BY <2>2, <2>3, WindowsAre
  <2>5. QED BY <2>1, <2>3, <2>4 DEF Families
<1>2. QED BY <1>1, InitInv, NextInv, FamiliesInit, FamiliesNext, SceneInit, SceneNext, PTL DEF Spec

\* A surface carries toplevels of one client, and so are a dialog and its parent.
Kin ==
  /\ \A t \in 1 .. nextId : client[idOf[t]] = client[t]
  /\ \A t \in TopIds : parent[t] # NoTop => client[parent[t]] = client[t]

LEMMA KinInit == Init => Kin
BY DEF Init, Kin

LEMMA KinNext == Inv /\ Families /\ Kin /\ [Next]_vars => Kin'
<1>. SUFFICES ASSUME Inv, Families, Kin, [Next]_vars PROVE Kin'
  OBVIOUS
<1>1. ASSUME UNCHANGED <<nextId, idOf, client>>, \A t \in TopIds : parent'[t] = parent[t] \/ parent'[t] = NoTop
      PROVE  Kin'
  BY <1>1 DEF Kin
<1>2. ASSUME UNCHANGED topVars PROVE Kin'
  BY <1>1, <1>2 DEF topVars
<1>3. ASSUME NEW v \in ViewIds, Platform(v) PROVE Kin'
  BY <1>2, <1>3 DEF Platform, ViewCreated, ViewDisposed, ViewSuspended, FocusInput, ConfigureView
<1>4. ASSUME NEW c \in Clients, NewToplevel(c) PROVE Kin'
  <2>. DEFINE n == nextId + 1
  <2>1. PICK s \in {n} \cup BareSurfaces(c) : idOf' = [idOf EXCEPT ![n] = s]
    BY <1>4 DEF NewToplevel
  <2>2. /\ nextId' = n /\ client' = [client EXCEPT ![n] = c] /\ parent' = parent
        /\ n \in TopIds /\ n \notin 1 .. nextId /\ \A x \in 1 .. nextId' : x = n \/ x \in 1 .. nextId
        /\ 1 .. nextId \subseteq TopIds
    <3>1. /\ nextId \in 0 .. MaxTops /\ nextId < MaxTops
          /\ nextId' = n /\ client' = [client EXCEPT ![n] = c] /\ parent' = parent
      BY <1>4 DEF Inv, TypeOK, NewToplevel
    <3>2. n \in 1 .. MaxTops /\ n \notin 1 .. nextId /\ 1 .. nextId \subseteq 1 .. MaxTops
      BY <3>1, TopsAssumption
    <3>3. \A x \in 1 .. n : x = n \/ x \in 1 .. nextId
      BY <3>1, TopsAssumption
    <3>4. QED BY <3>1, <3>2, <3>3 DEF TopIds
  <2>3. \A x \in TopIds : /\ client'[x] = IF x = n THEN c ELSE client[x]
                          /\ idOf'[x] = IF x = n THEN s ELSE idOf[x]
    BY <2>1, <2>2 DEF Inv, TypeOK
  <2>4. \A x \in 1 .. nextId : idOf[x] \in 1 .. nextId
    BY DEF Inv, SurfacesAgree
  <2>5. s # n => s \in 1 .. nextId /\ client[s] = c
    BY <2>4 DEF BareSurfaces, Kin
  <2>6. \A x \in 1 .. nextId' : client'[idOf'[x]] = client'[x]
    BY <2>2, <2>3, <2>4, <2>5 DEF Kin
  <2>7. ASSUME NEW x \in TopIds, parent[x] # NoTop PROVE client'[parent[x]] = client'[x]
    <3>1. x \in 1 .. nextId /\ parent[x] \in 1 .. nextId
      BY <2>7, KnownAreTops DEF Families, Inv, TypeOK
    <3>2. QED BY <2>2, <2>3, <2>7, <3>1 DEF Kin
  <2>8. QED BY <2>2, <2>6, <2>7 DEF Kin
<1>5. ASSUME NEW t \in TopIds, NEW p \in TopIds \cup {NoTop}, ParentChanged(t, p) PROVE Kin'
  <2>1. /\ UNCHANGED <<nextId, idOf, client>> /\ t \in exists
        /\ \A y \in TopIds : parent'[y] = IF y = t THEN p ELSE parent[y]
    BY <1>5 DEF ParentChanged, Inv, TypeOK
  <2>2. p # NoTop => client[p] = client[t]
    <3>1. ASSUME NEW u \in exists, p = idOf[u], client[u] = client[t] PROVE client[p] = client[t]
      BY <3>1, KnownAreTops DEF Kin, Inv, TypeOK
    <3>2. QED BY <1>5, <3>1 DEF ParentChanged
  <2>3. QED BY <2>1, <2>2 DEF Kin
<1>6. ASSUME NEW t \in TopIds, Requests(t) PROVE Kin'
  <2>1. ASSUME NEW a \in AppIds, SetAppId(t, a) PROVE Kin'
    BY <1>1, <2>1 DEF SetAppId
  <2>2. ASSUME ToplevelCommit(t) PROVE Kin'
    BY <1>1, <2>2 DEF ToplevelCommit
  <2>3. ASSUME ToplevelDestroyed(t) PROVE Kin'
    BY <1>1, <2>3 DEF ToplevelDestroyed, Inv, TypeOK
  <2>4. ASSUME NEW k \in Tokens, RequestActivation(k, t) PROVE Kin'
    BY <1>2, <2>4 DEF RequestActivation
  <2>5. QED BY <1>5, <1>6, <2>1, <2>2, <2>3, <2>4 DEF Requests
<1>7. CASE SetEventPort \/ StopsListening
  BY <1>2, <1>7 DEF SetEventPort, StopsListening
<1>8. QED BY <1>2, <1>3, <1>4, <1>6, <1>7 DEF Next, IssueToken, vars

\* A view's dialogs are its toplevel's client's.
LEMMA DialogsOfOneClient ==
  ASSUME Inv, Families, Kin, NEW v \in ViewIds, vtop[v] # NoTop, NEW t \in Dialogs(v)
  PROVE  client[t] = client[vtop[v]]
<1>1. PICK W \in SUBSET Belonging(v) : t \in W /\ Stacked(W, vtop[v])
  BY DEF Dialogs
<1>. DEFINE Others == {x \in W : client[x] # client[vtop[v]]}
<1>2. CASE Others = {}
  BY <1>1, <1>2
<1>3. CASE Others # {}
  <2>1. Others \in SUBSET Nat
    <3>1. \A y \in Belonging(v) : y \in Nat
      BY TopsAssumption DEF Belonging, TopIds
    <3>2. \A y \in W : y \in Nat
      BY <1>1, <3>1
    <3>3. QED BY <3>2
  <2>2. PICK x \in Others : \A y \in Others : x <= y
    <3>. HIDE DEF Others
    <3>1. QED BY <1>3, <2>1, LeastExists
  <2>3. x \in TopIds /\ parent[x] # NoTop /\ x \in Nat
    BY <2>1 DEF Belonging
  <2>4. client[parent[x]] = client[x] /\ client[parent[x]] # client[vtop[v]]
    BY <2>2, <2>3 DEF Kin
  <2>5. parent[x] \in W /\ parent[x] < x
    BY <1>1, <2>2, <2>4 DEF Stacked
  <2>6. parent[x] \in Others
    BY <2>4, <2>5
  <2>7. parent[x] \in Nat /\ x <= parent[x]
    BY <2>1, <2>2, <2>6
  <2>8. QED BY <2>3, <2>5, <2>7
<1>4. QED BY <1>2, <1>3

\* Every window of a view naming a sandbox is of a client in it.
WindowsHonourSandbox ==
  \A v \in ViewIds : vtop[v] # NoTop /\ params[v].sandbox # NoApp =>
    \A t \in Dialogs(v) \cup {vtop[v]} : ClientCtx[client[t]] = params[v].sandbox

\* A dialog comes into a view without being asked what sandbox it is from
\* (dialogs.rs view_windows); it is of the client the view was asked for, as
\* parents are (state.rs try_bind_view; xdg.rs parent_changed).
THEOREM WindowsAlwaysHonourSandbox == Spec => []WindowsHonourSandbox
<1>1. Inv /\ Families /\ Kin => WindowsHonourSandbox
  <2>. SUFFICES ASSUME Inv, Families, Kin, NEW v \in ViewIds, vtop[v] # NoTop, params[v].sandbox # NoApp,
                       NEW t \in Dialogs(v) \cup {vtop[v]}
                PROVE  ClientCtx[client[t]] = params[v].sandbox
    BY DEF WindowsHonourSandbox
  <2>1. client[t] = client[vtop[v]]
    BY DialogsOfOneClient
  <2>2. QED BY <2>1 DEF Inv, Shown
<1>2. QED BY <1>1, InitInv, NextInv, FamiliesInit, FamiliesNext, KinInit, KinNext, PTL DEF Spec
=============================================================================
