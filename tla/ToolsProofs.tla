------------------------------ MODULE ToolsProofs ------------------------------
(* Proofs about the tools and the worlds they change, for every set of        *)
(* processes, pages, targets, paths and actions.                              *)
EXTENDS SurfaceSessions, ApiTools, GitTools, FileTools, FiniteSetTheorems, WellFoundedInduction, TLAPS

------------------------------------------------------------------------------
(* The browser and the desktop.                                               *)

AnyPage == Pages \cup {NoPage}

BrowserSession ==
    [shown : AnyPage, routed : BOOLEAN, live : AnyPage, filled : SUBSET Nat, liveFilled : SUBSET Nat]
DesktopSession ==
    [app : AnyPage, title : AnyPage, windows : SUBSET AnyPage, filled : SUBSET Nat]
Act ==
    [tool : {"none", "click", "type", "select", "click_element", "set_field", "type_text"},
     target : Targets \cup {Unset}, element : Nat, reported : Nat, secret : BOOLEAN, allowed : BOOLEAN]

(* The fixture finds the target: the driver is no part of it.                 *)
FixtureHas(s, t) == Resolve(s.shown, s.filled, t, TRUE) # 0

Bare(t) == t.role = Unset /\ t.name = Unset /\ t.id = Unset /\ t.ref = 0

SurfaceShape ==
    /\ browser \in [SurfaceProcesses -> BrowserSession]
    /\ desktop \in [SurfaceProcesses -> DesktopSession]
    /\ acted \in [SurfaceProcesses -> Act]

(* A fixture page that is shown to Playwright was routed to the fixture; what *)
(* was clicked in the fixture can still be found there; and something secret  *)
(* was only filled with consent.                                              *)
SurfaceInv ==
    /\ SurfaceShape
    /\ \A w \in SurfaceProcesses :
         /\ driver = "playwright" /\ browser[w].shown # NoPage => browser[w].routed
         /\ driver = Unset => browser[w] = NoBrowser
         /\ acted[w].tool = "click" =>
              /\ driver \in {"fixture", "playwright"}
              /\ driver = "fixture" => FixtureHas(browser[w], acted[w].target)
              /\ Bare(acted[w].target) => acted[w].target.point # Unset
    /\ SecretsNeedConsent

LEMMA LeastOfSome ==
    ASSUME NEW S \in SUBSET Nat, S # {}
    PROVE  FirstOf(S) \in S /\ \A j \in S : FirstOf(S) <= j
<1> DEFINE R == OpToRel(<, Nat)
<1>1. IsWellFoundedOn(R, Nat)
  BY NatLessThanWellFounded
<1> HIDE DEF R
<1>2. PICK x \in S : \A y \in S : <<y, x>> \notin R
  BY <1>1, WFMin
<1>3. \A y \in S : ~(y < x) /\ y \in Nat /\ x \in Nat
  BY <1>2 DEF R, OpToRel
<1>4. \A y \in S : x <= y
  BY <1>3
<1> QED BY <1>4 DEF FirstOf

LEMMA PageIndices ==
    ASSUME NEW p \in AnyPage
    PROVE  /\ Indices(p) \in SUBSET (Nat \ {0})
           /\ \A i \in Indices(p) : p \in Pages /\ ElementsOf[p][i] \in Elements
BY SurfaceAssumption DEF Indices, AnyPage

(* 0 is found when there is nothing to find, and nothing else is.             *)
LEMMA FirstIs ==
    ASSUME NEW p \in AnyPage, NEW S \in SUBSET Indices(p)
    PROVE  /\ FirstOf(S) \in Indices(p) \cup {0}
           /\ FirstOf(S) # 0 <=> S # {}
           /\ FirstOf(S) # 0 => FirstOf(S) \in S
<1>1. S \in SUBSET (Nat \ {0})
  BY PageIndices
<1>2. CASE S = {}
  BY <1>2 DEF FirstOf
<1>3. CASE S # {}
  <2>1. FirstOf(S) \in S
    BY <1>1, <1>3, LeastOfSome
  <2> QED BY <1>1, <1>3, <2>1
<1> QED BY <1>2, <1>3

RoleSet(p, filled, t, inBrowser) ==
    {i \in Indices(p) : /\ Says(ElementsOf[p][i], Names(ElementsOf[p][i], i, filled), t)
                        /\ inBrowser /\ t.id # Unset => ElementsOf[p][i].id = t.id}

LEMMA ByRoleIs ==
    ASSUME NEW p \in AnyPage, NEW filled, NEW t, NEW inBrowser \in BOOLEAN
    PROVE  LET r == ByRole(p, filled, t, inBrowser)
           IN  /\ r \in Indices(p) \cup {0}
               /\ r # 0 => /\ t.role # Unset \/ t.name # Unset
                           /\ r \in RoleSet(p, filled, t, inBrowser)
               /\ r = 0 /\ (t.role # Unset \/ t.name # Unset) => RoleSet(p, filled, t, inBrowser) = {}
<1> DEFINE S == RoleSet(p, filled, t, inBrowser)
<1>1. S \in SUBSET Indices(p)
  BY DEF RoleSet
<1>2. ByRole(p, filled, t, inBrowser) = IF t.role = Unset /\ t.name = Unset THEN 0 ELSE FirstOf(S)
  BY DEF ByRole, RoleSet
<1>3. /\ FirstOf(S) \in Indices(p) \cup {0}
      /\ FirstOf(S) # 0 <=> S # {}
      /\ FirstOf(S) # 0 => FirstOf(S) \in S
  BY <1>1, FirstIs
<1> HIDE DEF S
<1>4. /\ ByRole(p, filled, t, inBrowser) \in Indices(p) \cup {0}
      /\ ByRole(p, filled, t, inBrowser) # 0 => /\ t.role # Unset \/ t.name # Unset
                                             /\ ByRole(p, filled, t, inBrowser) \in S
      /\ ByRole(p, filled, t, inBrowser) = 0 /\ (t.role # Unset \/ t.name # Unset) => S = {}
  BY <1>2, <1>3
<1> QED BY <1>4 DEF S

LEMMA ByIdIs ==
    ASSUME NEW p \in AnyPage, NEW t
    PROVE  /\ ById(p, t) \in Indices(p) \cup {0}
           /\ ById(p, t) # 0 => t.id # Unset /\ ElementsOf[p][ById(p, t)].id = t.id
           /\ ById(p, t) = 0 /\ t.id # Unset => \A i \in Indices(p) : ElementsOf[p][i].id # t.id
<1> DEFINE S == {i \in Indices(p) : ElementsOf[p][i].id = t.id}
<1>1. S \in SUBSET Indices(p)
  OBVIOUS
<1>2. ById(p, t) = IF t.id = Unset THEN 0 ELSE FirstOf(S)
  BY DEF ById
<1>3. /\ FirstOf(S) \in Indices(p) \cup {0}
      /\ FirstOf(S) # 0 => FirstOf(S) \in S
      /\ FirstOf(S) = 0 => S = {}
  BY <1>1, FirstIs
<1> QED BY <1>2, <1>3

LEMMA ByPointIs ==
    ASSUME NEW p \in AnyPage, NEW t, NEW inBrowser \in BOOLEAN
    PROVE  /\ ByPoint(p, t, inBrowser) \in Indices(p) \cup {0}
           /\ ByPoint(p, t, inBrowser) # 0 =>
                t.point # Unset /\ Under(ElementsOf[p][ByPoint(p, t, inBrowser)], t, inBrowser)
<1> DEFINE S == {i \in Indices(p) : Under(ElementsOf[p][i], t, inBrowser)}
<1>1. S \in SUBSET Indices(p)
  OBVIOUS
<1>2. ByPoint(p, t, inBrowser) = IF t.point = Unset THEN 0 ELSE FirstOf(S)
  BY DEF ByPoint
<1>3. FirstOf(S) \in Indices(p) \cup {0} /\ (FirstOf(S) # 0 => FirstOf(S) \in S)
  BY <1>1, FirstIs
<1> QED BY <1>2, <1>3

LEMMA ResolveIs ==
    ASSUME NEW p \in AnyPage, NEW filled, NEW t, NEW inBrowser \in BOOLEAN
    PROVE  LET i == Resolve(p, filled, t, inBrowser)
           IN  /\ i \in Indices(p) \cup {0}
               /\ i # 0 /\ Bare(t) => t.point # Unset
<1>1. /\ ByRole(p, filled, t, inBrowser) \in Indices(p) \cup {0}
      /\ ByRole(p, filled, t, inBrowser) # 0 => t.role # Unset \/ t.name # Unset
  BY ByRoleIs
<1>2. ById(p, t) \in Indices(p) \cup {0} /\ (ById(p, t) # 0 => t.id # Unset)
  BY ByIdIs
<1>3. /\ ByPoint(p, t, inBrowser) \in Indices(p) \cup {0}
      /\ ByPoint(p, t, inBrowser) # 0 => t.point # Unset
  BY ByPointIs
<1> QED BY <1>1, <1>2, <1>3 DEF Resolve, Bare

LEMMA LiveResolveIs ==
    ASSUME NEW p \in AnyPage, NEW filled, NEW t
    PROVE  /\ LiveResolve(p, filled, t) \in Indices(p) \cup {0}
           /\ LiveSelects(p, filled, t) \in Indices(p) \cup {0}
           /\ LiveResolve(p, filled, t) # 0 => ~Bare(t)
<1>1. ById(p, t) \in Indices(p) \cup {0} /\ (ById(p, t) # 0 => t.id # Unset)
  BY ByIdIs
<1>2. ByRole(p, filled, [t EXCEPT !.id = Unset], FALSE) \in Indices(p) \cup {0}
  BY ByRoleIs
<1> QED BY <1>1, <1>2 DEF LiveResolve, LiveSelects, Bare

(* What an element found by a target without a reference answers to.          *)
LEMMA TiersAreKept ==
    ASSUME NEW p \in AnyPage, NEW filled, NEW t, t.ref = 0, NEW inBrowser \in BOOLEAN,
           Resolve(p, filled, t, inBrowser) # 0
    PROVE  LET i == Resolve(p, filled, t, inBrowser)
               fits == {j \in Indices(p) :
                           /\ Says(ElementsOf[p][j], Names(ElementsOf[p][j], j, filled), t)
                           /\ inBrowser => t.id \in {Unset, ElementsOf[p][j].id}}
               called == t.role # Unset \/ t.name # Unset
               identified == {j \in Indices(p) : t.id # Unset /\ ElementsOf[p][j].id = t.id}
           IN  \/ called /\ i \in fits
               \/ (called => fits = {}) /\ i \in identified
               \/ /\ called => fits = {}
                  /\ identified = {}
                  /\ t.point # Unset /\ Under(ElementsOf[p][i], t, inBrowser)
<1> DEFINE i == Resolve(p, filled, t, inBrowser)
           fits == RoleSet(p, filled, t, inBrowser)
<1>1. fits = {j \in Indices(p) :
                 /\ Says(ElementsOf[p][j], Names(ElementsOf[p][j], j, filled), t)
                 /\ inBrowser => t.id \in {Unset, ElementsOf[p][j].id}}
  BY DEF RoleSet
<1>2. /\ ByRole(p, filled, t, inBrowser) # 0 =>
            /\ t.role # Unset \/ t.name # Unset
            /\ ByRole(p, filled, t, inBrowser) \in fits
      /\ ByRole(p, filled, t, inBrowser) = 0 /\ (t.role # Unset \/ t.name # Unset) => fits = {}
  BY ByRoleIs
<1> HIDE DEF fits
<1>3. CASE ByRole(p, filled, t, inBrowser) # 0
  <2>1. i = ByRole(p, filled, t, inBrowser)
    BY <1>3 DEF Resolve
  <2> QED BY <1>1, <1>2, <1>3, <2>1
<1>4. CASE ByRole(p, filled, t, inBrowser) = 0 /\ ById(p, t) # 0
  <2>1. i = ById(p, t)
    BY <1>4 DEF Resolve
  <2>2. i \in Indices(p) /\ t.id # Unset /\ ElementsOf[p][i].id = t.id
    BY <1>4, <2>1, ByIdIs
  <2> QED BY <1>1, <1>2, <1>4, <2>2
<1>5. CASE ByRole(p, filled, t, inBrowser) = 0 /\ ById(p, t) = 0
  <2>1. i = ByPoint(p, t, inBrowser)
    BY <1>5 DEF Resolve
  <2>2. t.point # Unset /\ Under(ElementsOf[p][i], t, inBrowser)
    BY <2>1, ByPointIs
  <2>3. t.id # Unset => \A j \in Indices(p) : ElementsOf[p][j].id # t.id
    BY <1>5, ByIdIs
  <2>4. {j \in Indices(p) : t.id # Unset /\ ElementsOf[p][j].id = t.id} = {}
    BY <2>3
  <2> QED BY <1>1, <1>2, <1>5, <2>2, <2>4
<1> QED BY <1>3, <1>4, <1>5

LEMMA SurfaceShows == SurfaceInv => ActsOnWhatIsSeen
<1> SUFFICES ASSUME SurfaceInv PROVE ActsOnWhatIsSeen
  OBVIOUS
<1>0. \A w \in SurfaceProcesses : browser[w] \in BrowserSession /\ acted[w] \in Act
  BY DEF SurfaceInv, SurfaceShape
<1>1. ReadShowsWhatIsActedOn
  BY DEF SurfaceInv, ReadShowsWhatIsActedOn, ActsOn, OnLive
<1>2. AccessibilityFirst
  BY <1>0, TiersAreKept DEF AccessibilityFirst, BrowserSession
<1>3. ClickVerdicts
  <2> SUFFICES ASSUME NEW w \in SurfaceProcesses, acted[w].tool = "click", acted[w].target.point = Unset
               PROVE  ClickVerdict(w) = IF driver = "fixture" THEN "PASS" ELSE "FAIL"
    BY DEF ClickVerdicts
  <2>1. ~Bare(acted[w].target)
    BY DEF SurfaceInv
  <2>2. driver = "fixture" => Found(browser[w], acted[w].target) # 0
    BY DEF SurfaceInv, FixtureHas, Found, OnLive
  <2> QED BY <2>1, <2>2 DEF ClickVerdict, Bare
<1> QED BY <1>1, <1>2, <1>3 DEF SurfaceInv, ActsOnWhatIsSeen

LEMMA NoSession ==
    /\ NoBrowser \in BrowserSession /\ NoBrowser.shown = NoPage /\ NoDesktop \in DesktopSession
    /\ NoAct \in Act /\ NoAct.tool = "none" /\ ~NoAct.secret
BY DEF NoBrowser, BrowserSession, NoDesktop, DesktopSession, NoAct, Act, AnyPage

(* Steps that leave what was clicked, and where, alone: only the action of    *)
(* one process is forgotten or replaced by one that is no click.              *)
NewAct(w, act) ==
    /\ act \in Act /\ acted' = [acted EXCEPT ![w] = act]
    /\ act.tool # "click" /\ (act.secret /\ act.tool # "select" => act.allowed /\ act.tool # "set_field")

(* One process' browser session is now b.                                     *)
NewBrowser(w, b) ==
    /\ b \in BrowserSession /\ browser' = [browser EXCEPT ![w] = b]
    /\ driver = "playwright" /\ b.shown # NoPage => b.routed

LEMMA BrowserMoves ==
    ASSUME SurfaceInv, NEW w \in SurfaceProcesses, NEW act, NEW b, NewAct(w, act), NewBrowser(w, b),
           driver # Unset, driver' = driver, desktop' \in [SurfaceProcesses -> DesktopSession]
    PROVE  SurfaceInv'
<1>0. SurfaceShape
  BY DEF SurfaceInv
<1>1. /\ \A v \in SurfaceProcesses : browser'[v] = IF v = w THEN b ELSE browser[v]
      /\ \A v \in SurfaceProcesses : acted'[v] = IF v = w THEN act ELSE acted[v]
  BY <1>0 DEF SurfaceShape, NewAct, NewBrowser
<1>2. SurfaceShape'
  BY <1>0 DEF SurfaceShape, NewAct, NewBrowser
<1>3. SecretsNeedConsent'
  BY <1>1 DEF SurfaceInv, SecretsNeedConsent, NewAct
<1>4. \A v \in SurfaceProcesses :
         /\ driver' = "playwright" /\ browser'[v].shown # NoPage => browser'[v].routed
         /\ driver' = Unset => browser'[v] = NoBrowser
         /\ acted'[v].tool = "click" =>
              /\ driver' \in {"fixture", "playwright"}
              /\ driver' = "fixture" => FixtureHas(browser'[v], acted'[v].target)
              /\ Bare(acted'[v].target) => acted'[v].target.point # Unset
  <2> TAKE v \in SurfaceProcesses
  <2>1. CASE v = w
    BY <1>1, <2>1 DEF NewAct, NewBrowser
  <2>2. CASE v # w
    <3>1. browser'[v] = browser[v] /\ acted'[v] = acted[v]
      BY <1>1, <2>2
    <3> QED BY <3>1 DEF SurfaceInv
  <2> QED BY <2>1, <2>2
<1> QED BY <1>2, <1>3, <1>4 DEF SurfaceInv

(* A page, an element filled, a restart: what becomes of a browser session.   *)
Opened(s, p, r) == [s EXCEPT !.shown = p, !.filled = {}, !.routed = r]
OpenedLive(s, p) == [s EXCEPT !.live = p, !.liveFilled = {}]

LEMMA OpenedFields ==
    ASSUME NEW s \in BrowserSession, NEW p \in Pages, NEW r \in BOOLEAN
    PROVE  Opened(s, p, r) \in BrowserSession /\ Opened(s, p, r).routed = r
BY DEF BrowserSession, AnyPage, Opened

LEMMA BrowserFields ==
    ASSUME NEW s \in BrowserSession
    PROVE  /\ \A p \in Pages :
                /\ OpenedLive(s, p) \in BrowserSession
                /\ OpenedLive(s, p).shown = s.shown /\ OpenedLive(s, p).routed = s.routed
           /\ [s EXCEPT !.routed = TRUE] \in BrowserSession
           /\ [s EXCEPT !.routed = TRUE].routed
           /\ [s EXCEPT !.routed = TRUE].shown = s.shown
           /\ [s EXCEPT !.routed = TRUE].filled = s.filled
           /\ \A i \in Nat :
                /\ Fill(s, i) \in BrowserSession
                /\ Fill(s, i).shown = s.shown /\ Fill(s, i).routed = s.routed
BY DEF BrowserSession, AnyPage, Fill, Opened, OpenedLive

Deed(tool, t, i, r, secret, allowed) ==
    [tool |-> tool, target |-> t, element |-> i, reported |-> r, secret |-> secret, allowed |-> allowed]

LEMMA DeedIs ==
    ASSUME NEW tool \in {"click", "type", "select", "click_element", "set_field", "type_text"},
           NEW t \in Targets, NEW i \in Nat, NEW r \in Nat,
           NEW secret \in BOOLEAN, NEW allowed \in BOOLEAN
    PROVE  LET act == Deed(tool, t, i, r, secret, allowed)
           IN  /\ act \in Act /\ act.tool = tool /\ act.target = t
               /\ act.secret = secret /\ act.allowed = allowed
BY DEF Deed, Act

LEMMA ClickIs ==
    ASSUME NEW tool \in {"click", "click_element"}, NEW t \in Targets, NEW i \in Nat
    PROVE  /\ Deed(tool, t, i, i, FALSE, FALSE) \in Act
           /\ Deed(tool, t, i, i, FALSE, FALSE).tool = tool
           /\ Deed(tool, t, i, i, FALSE, FALSE).target = t
           /\ Deed(tool, t, i, i, FALSE, FALSE).secret = FALSE
BY DEF Deed, Act

LEMMA FoundIs ==
    ASSUME NEW s \in BrowserSession, NEW t
    PROVE  /\ Found(s, t) \in Indices(ActsOn(s)) \cup {0}
           /\ Found(s, t) # 0 /\ Bare(t) => t.point # Unset
           /\ OnLive(s) => LiveSelects(s.live, s.liveFilled, t) \in Indices(ActsOn(s)) \cup {0}
<1>1. s.live \in AnyPage /\ s.shown \in AnyPage
  BY DEF BrowserSession
<1> QED BY <1>1, ResolveIs, LiveResolveIs DEF Found, ActsOn

(* The element that is acted on: it exists, and its secrecy is a fact of it.  *)
LEMMA ElementFound ==
    ASSUME NEW p \in AnyPage, NEW i \in Indices(p) \cup {0}, i # 0
    PROVE  i \in Nat /\ ElementsOf[p][i].secret \in BOOLEAN
<1>1. i \in Nat /\ ElementsOf[p][i] \in Elements
  BY PageIndices
<1> QED BY <1>1 DEF Elements

LEMMA IndicesCount == ASSUME NEW p \in AnyPage, NEW i \in Indices(p) \cup {0} PROVE i \in Nat
BY PageIndices

LEMMA SurfaceInvNext ==
    ASSUME SurfaceInv, [SurfaceNext]_surfaceVars PROVE SurfaceInv'
<1>0. SurfaceShape /\ SecretsNeedConsent
  BY DEF SurfaceInv
<1>s. ASSUME NEW w \in SurfaceProcesses
      PROVE  /\ browser[w] \in BrowserSession /\ desktop[w] \in DesktopSession /\ acted[w] \in Act
             /\ ActsOn(browser[w]) \in AnyPage /\ desktop[w].app \in AnyPage
  BY <1>0 DEF SurfaceShape, BrowserSession, DesktopSession, ActsOn
<1>1. ASSUME NEW b \in {"fixture", "playwright", "desktop"}, StartDriver(b) PROVE SurfaceInv'
  <2>1. driver = Unset /\ driver' = b /\ b # Unset /\ UNCHANGED <<browser, desktop, acted>>
    BY <1>1 DEF StartDriver, Unset
  <2>2. \A w \in SurfaceProcesses : acted[w].tool # "click" /\ browser[w].shown = NoPage
    BY <2>1, NoSession DEF SurfaceInv, Unset
  <2> QED BY <1>0, <2>1, <2>2 DEF SurfaceInv, SurfaceShape, SecretsNeedConsent
<1>2. ASSUME NEW w \in SurfaceProcesses, NEW p \in Pages, NEW scheme \in {"fixture", "https"},
             OpenPage(w, p, scheme)
      PROVE  SurfaceInv'
  <2> DEFINE b == IF driver = "fixture" \/ scheme = "fixture"
                  THEN Opened(browser[w], p, scheme = "fixture") ELSE OpenedLive(browser[w], p)
  <2>1. driver # Unset /\ UNCHANGED <<driver, desktop>> /\ NewAct(w, NoAct)
    BY <1>2, NoSession DEF OpenPage, Browsing, NewAct, Unset
  <2>2. browser' = [browser EXCEPT ![w] = b]
    BY <1>0, <1>2 DEF OpenPage, SurfaceShape, Opened, OpenedLive
  <2>3. b \in BrowserSession /\ (driver = "playwright" /\ b.shown # NoPage => b.routed)
    <3>1. PICK r \in BOOLEAN : r = (scheme = "fixture")
      OBVIOUS
    <3>2. b = IF driver = "fixture" \/ r THEN Opened(browser[w], p, r) ELSE OpenedLive(browser[w], p)
      BY <3>1
    <3> HIDE DEF b
    <3>3. browser[w] \in BrowserSession
      BY <1>s
    <3>4. Opened(browser[w], p, r) \in BrowserSession /\ Opened(browser[w], p, r).routed = r
      BY <3>3, OpenedFields
    <3>5. /\ OpenedLive(browser[w], p) \in BrowserSession
          /\ OpenedLive(browser[w], p).shown = browser[w].shown
          /\ OpenedLive(browser[w], p).routed = browser[w].routed
      BY <3>3, BrowserFields
    <3>6. driver = "playwright" /\ browser[w].shown # NoPage => browser[w].routed
      BY DEF SurfaceInv
    <3> QED BY <3>2, <3>4, <3>5, <3>6
  <2> HIDE DEF b
  <2>4. NewBrowser(w, b)
    BY <2>2, <2>3 DEF NewBrowser
  <2> QED BY <1>0, <2>1, <2>4, BrowserMoves DEF SurfaceShape
<1>3. ASSUME NEW w \in SurfaceProcesses, OpenMissing(w) PROVE SurfaceInv'
  <2> DEFINE b == [browser[w] EXCEPT !.routed = TRUE]
  <2>1. driver # Unset /\ UNCHANGED <<driver, desktop, acted>> /\ browser' = [browser EXCEPT ![w] = b]
    BY <1>3 DEF OpenMissing, Browsing, Unset
  <2>2. b \in BrowserSession /\ b.routed /\ b.shown = browser[w].shown /\ b.filled = browser[w].filled
    BY <1>s, BrowserFields
  <2> HIDE DEF b
  <2>3. SurfaceShape' /\ \A v \in SurfaceProcesses : browser'[v] = IF v = w THEN b ELSE browser[v]
    BY <1>0, <2>1, <2>2 DEF SurfaceShape
  <2>4. \A v \in SurfaceProcesses :
           FixtureHas(browser'[v], acted[v].target) = FixtureHas(browser[v], acted[v].target)
    BY <2>2, <2>3 DEF FixtureHas
  <2>5. SecretsNeedConsent'
    BY <1>0, <2>1 DEF SecretsNeedConsent
  <2> QED BY <2>1, <2>2, <2>3, <2>4, <2>5 DEF SurfaceInv
<1>4. ASSUME NEW w \in SurfaceProcesses, NEW t \in Targets, BrowserClick(w, t) PROVE SurfaceInv'
  <2> DEFINE i == Found(browser[w], t)
             act == Deed("click", t, i, i, FALSE, FALSE)
  <2>1. /\ i # 0 /\ driver \in {"fixture", "playwright"} /\ UNCHANGED <<driver, browser, desktop>>
        /\ acted' = [acted EXCEPT ![w] = act]
    BY <1>4 DEF BrowserClick, Browsing, Acts, Deed
  <2>2. i \in Nat /\ (Bare(t) => t.point # Unset)
    BY <1>s, <2>1, FoundIs, ElementFound
  <2>3. act \in Act /\ act.tool = "click" /\ act.target = t /\ ~act.secret
    <3> HIDE DEF i
    <3> QED BY <2>2, ClickIs
  <2> HIDE DEF act
  <2>5. SurfaceShape' /\ \A v \in SurfaceProcesses : acted'[v] = IF v = w THEN act ELSE acted[v]
    BY <1>0, <2>1, <2>3 DEF SurfaceShape
  <2>6. SecretsNeedConsent'
    BY <1>0, <2>3, <2>5 DEF SecretsNeedConsent
  <2>8. \A v \in SurfaceProcesses :
           /\ driver' = "playwright" /\ browser'[v].shown # NoPage => browser'[v].routed
           /\ driver' = Unset => browser'[v] = NoBrowser
           /\ acted'[v].tool = "click" =>
                /\ driver' \in {"fixture", "playwright"}
                /\ driver' = "fixture" => FixtureHas(browser'[v], acted'[v].target)
                /\ Bare(acted'[v].target) => acted'[v].target.point # Unset
    <3> TAKE v \in SurfaceProcesses
    <3>1. CASE v = w
      <4>1. acted'[v].target = t /\ browser'[v] = browser[v]
        BY <2>1, <2>3, <2>5, <3>1
      <4>2. driver = "fixture" => FixtureHas(browser[v], t)
        BY <2>1, <3>1 DEF FixtureHas, Found, OnLive
      <4> HIDE DEF i
      <4> QED BY <2>1, <2>2, <4>1, <4>2 DEF SurfaceInv
    <3>2. CASE v # w
      <4>1. acted'[v] = acted[v] /\ browser'[v] = browser[v]
        BY <2>1, <2>5, <3>2
      <4> HIDE DEF i
      <4> QED BY <2>1, <4>1 DEF SurfaceInv
    <3> QED BY <3>1, <3>2
  <2> QED BY <2>5, <2>6, <2>8 DEF SurfaceInv
(* Something is filled: the browser's session and the last action change.     *)
<1>f. ASSUME NEW w \in SurfaceProcesses, NEW t \in Targets, NEW i \in Indices(ActsOn(browser[w])) \cup {0},
             i # 0, NEW r \in Nat, NEW tool \in {"type", "select"}, NEW allowed \in BOOLEAN,
             tool = "type" => (ElementsOf[ActsOn(browser[w])][i].secret => allowed),
             Browsing, UNCHANGED desktop, browser' = [browser EXCEPT ![w] = Fill(browser[w], i)],
             Acts(w, tool, t, i, r, ElementsOf[ActsOn(browser[w])][i].secret, allowed)
      PROVE  SurfaceInv'
  <2> DEFINE secret == ElementsOf[ActsOn(browser[w])][i].secret
             act == Deed(tool, t, i, r, secret, allowed)
             b == Fill(browser[w], i)
  <2>1. i \in Nat /\ secret \in BOOLEAN
    BY <1>s, <1>f, ElementFound
  <2>2. acted' = [acted EXCEPT ![w] = act]
    BY <1>f DEF Acts, Deed
  <2>a. tool = "type" => (secret => allowed)
    BY <1>f
  <2> HIDE DEF secret
  <2>3. act \in Act /\ act.tool = tool /\ act.secret = secret /\ act.allowed = allowed
    BY <1>f, <2>1, DeedIs
  <2>4. b \in BrowserSession /\ b.shown = browser[w].shown /\ b.routed = browser[w].routed
    BY <1>s, <2>1, BrowserFields
  <2>5. browser' = [browser EXCEPT ![w] = b]
    BY <1>f
  <2> HIDE DEF act, b
  <2>6. NewAct(w, act)
    BY <2>2, <2>3, <2>a DEF NewAct
  <2>7. NewBrowser(w, b)
    BY <2>4, <2>5 DEF NewBrowser, SurfaceInv
  <2>8. driver # Unset /\ driver' = driver /\ desktop' \in [SurfaceProcesses -> DesktopSession]
    BY <1>0, <1>f DEF Browsing, SurfaceShape, Unset
  <2> QED BY <2>6, <2>7, <2>8, BrowserMoves
<1>5. ASSUME NEW w \in SurfaceProcesses, NEW t \in Targets, NEW allowed \in BOOLEAN,
             BrowserType(w, t, allowed)
      PROVE  SurfaceInv'
  <2> DEFINE i == Found(browser[w], t)
             r == IF OnLive(browser[w]) THEN Found(Fill(browser[w], i), t) ELSE i
  <2>1. i \in Indices(ActsOn(browser[w])) \cup {0} /\ i # 0
    BY <1>5, <1>s, FoundIs DEF BrowserType
  <2>2. i \in Nat
    BY <1>s, <2>1, IndicesCount
  <2>3. Fill(browser[w], i) \in BrowserSession
    BY <1>s, <2>2, BrowserFields
  <2>4. Found(Fill(browser[w], i), t) \in Nat
    <3>1. ActsOn(Fill(browser[w], i)) \in AnyPage
      BY <2>3 DEF ActsOn, BrowserSession
    <3> HIDE DEF i
    <3> QED BY <2>3, <3>1, FoundIs, IndicesCount
  <2>5. /\ Browsing /\ UNCHANGED desktop /\ browser' = [browser EXCEPT ![w] = Fill(browser[w], i)]
        /\ ElementsOf[ActsOn(browser[w])][i].secret => allowed
        /\ Acts(w, "type", t, i, r, ElementsOf[ActsOn(browser[w])][i].secret, allowed)
    BY <1>5 DEF BrowserType
  <2>6. r \in Nat
    BY <2>2, <2>4
  <2> HIDE DEF i, r
  <2> QED BY <1>f, <2>1, <2>5, <2>6
<1>6. ASSUME NEW w \in SurfaceProcesses, NEW t \in Targets, BrowserSelect(w, t) PROVE SurfaceInv'
  <2> DEFINE i == IF OnLive(browser[w]) THEN LiveSelects(browser[w].live, browser[w].liveFilled, t)
                  ELSE Found(browser[w], t)
             r == IF OnLive(browser[w]) THEN Found(Fill(browser[w], i), t) ELSE i
  <2>1. i \in Indices(ActsOn(browser[w])) \cup {0} /\ i # 0
    BY <1>6, <1>s, FoundIs DEF BrowserSelect
  <2>2. i \in Nat
    BY <1>s, <2>1, IndicesCount
  <2>3. Fill(browser[w], i) \in BrowserSession
    BY <1>s, <2>2, BrowserFields
  <2>4. Found(Fill(browser[w], i), t) \in Nat
    <3>1. ActsOn(Fill(browser[w], i)) \in AnyPage
      BY <2>3 DEF ActsOn, BrowserSession
    <3> HIDE DEF i
    <3> QED BY <2>3, <3>1, FoundIs, IndicesCount
  <2>5. /\ Browsing /\ UNCHANGED desktop /\ browser' = [browser EXCEPT ![w] = Fill(browser[w], i)]
        /\ Acts(w, "select", t, i, r, ElementsOf[ActsOn(browser[w])][i].secret, FALSE)
    BY <1>6 DEF BrowserSelect
  <2>6. r \in Nat
    BY <2>2, <2>4
  <2> HIDE DEF i, r
  <2> QED BY <1>f, <2>1, <2>5, <2>6
(* On the desktop nothing is clicked in a browser.                            *)
<1>d. ASSUME NEW w \in SurfaceProcesses, NEW act, NEW d \in DesktopSession, NewAct(w, act), Operating,
             UNCHANGED browser, desktop' = [desktop EXCEPT ![w] = d]
      PROVE  SurfaceInv'
  <2>1. driver' = driver /\ driver # Unset /\ desktop' \in [SurfaceProcesses -> DesktopSession]
    BY <1>0, <1>d DEF Operating, SurfaceShape, Unset
  <2>2. NewBrowser(w, browser[w])
    BY <1>0, <1>s, <1>d DEF NewBrowser, SurfaceShape, SurfaceInv
  <2> QED BY <1>d, <2>1, <2>2, BrowserMoves
<1>7. ASSUME NEW w \in SurfaceProcesses, NEW p \in Pages, OpenApp(w, p) PROVE SurfaceInv'
  <2> DEFINE d == [app |-> p, title |-> p, windows |-> desktop[w].windows \cup {p}, filled |-> {}]
  <2>1. Operating /\ UNCHANGED browser /\ desktop' = [desktop EXCEPT ![w] = d]
    BY <1>0, <1>7 DEF OpenApp, SurfaceShape
  <2>2. d \in DesktopSession
    BY <1>s DEF DesktopSession, AnyPage
  <2>3. NewAct(w, NoAct)
    BY <1>7, NoSession DEF OpenApp, NewAct
  <2> HIDE DEF d
  <2> QED BY <1>d, <2>1, <2>2, <2>3
<1>8. ASSUME NEW w \in SurfaceProcesses, NEW p \in Pages, Focus(w, p) PROVE SurfaceInv'
  <2>1. Operating /\ UNCHANGED <<browser, acted>> /\ desktop' = [desktop EXCEPT ![w].title = p]
    BY <1>8 DEF Focus
  <2> DEFINE d == [desktop[w] EXCEPT !.title = p]
  <2>2. desktop' = [desktop EXCEPT ![w] = d]
    BY <1>0, <2>1 DEF SurfaceShape
  <2>3. d \in DesktopSession
    BY <1>s DEF DesktopSession, AnyPage
  <2> HIDE DEF d
  <2>4. SurfaceShape' /\ UNCHANGED <<driver, browser, acted>>
    BY <1>0, <2>1, <2>2, <2>3 DEF SurfaceShape, Operating
  <2> QED BY <1>0, <2>4 DEF SurfaceInv, SecretsNeedConsent
<1>9. ASSUME NEW w \in SurfaceProcesses, NEW t \in Targets, DesktopClick(w, t) PROVE SurfaceInv'
  <2> DEFINE i == OnDesktop(w, t)
             act == Deed("click_element", t, i, i, FALSE, FALSE)
  <2>1. Operating /\ UNCHANGED <<browser, desktop>> /\ acted' = [acted EXCEPT ![w] = act]
    BY <1>9 DEF DesktopClick, Acts, Deed
  <2>2. i \in Nat
    BY <1>s, ResolveIs, IndicesCount DEF OnDesktop
  <2> HIDE DEF i
  <2>3. act \in Act /\ act.tool = "click_element" /\ act.secret = FALSE
    BY <2>2, ClickIs
  <2> HIDE DEF act
  <2>4. NewAct(w, act)
    BY <2>1, <2>3 DEF NewAct
  <2>5. desktop' = [desktop EXCEPT ![w] = desktop[w]] /\ desktop[w] \in DesktopSession
    BY <1>0, <1>s, <2>1 DEF SurfaceShape
  <2> QED BY <1>d, <2>1, <2>4, <2>5
<1>10. ASSUME NEW w \in SurfaceProcesses, NEW t \in Targets, NEW tool \in {"set_field", "type_text"},
              NEW allowed \in BOOLEAN, DesktopFill(w, tool, t, allowed)
       PROVE  SurfaceInv'
  <2> DEFINE i == OnDesktop(w, t)
             secret == ElementsOf[desktop[w].app][i].secret
             act == Deed(tool, t, i, i, secret, allowed)
             d == [desktop[w] EXCEPT !.filled = @ \cup {i}]
  <2>1. /\ Operating /\ UNCHANGED browser /\ i # 0 /\ (secret => tool = "type_text" /\ allowed)
        /\ acted' = [acted EXCEPT ![w] = act]
        /\ desktop' = [desktop EXCEPT ![w].filled = @ \cup {i}]
    BY <1>10 DEF DesktopFill, Acts, Deed
  <2>2. i \in Indices(desktop[w].app) \cup {0}
    BY <1>s, ResolveIs DEF OnDesktop
  <2>3. i \in Nat /\ secret \in BOOLEAN
    BY <1>s, <2>1, <2>2, ElementFound
  <2> HIDE DEF i, secret
  <2>4. act \in Act /\ act.tool = tool /\ act.secret = secret /\ act.allowed = allowed
    BY <2>3, DeedIs
  <2> HIDE DEF act
  <2>5. NewAct(w, act)
    BY <2>1, <2>4 DEF NewAct
  <2>6. desktop' = [desktop EXCEPT ![w] = d]
    BY <1>0, <2>1 DEF SurfaceShape
  <2>7. d \in DesktopSession
    BY <1>s, <2>3 DEF DesktopSession
  <2> HIDE DEF d
  <2> QED BY <1>d, <2>1, <2>5, <2>6, <2>7
<1>11. ASSUME NEW w \in SurfaceProcesses, SurfaceRestart(w) PROVE SurfaceInv'
  <2>1. /\ driver # Unset /\ driver' = driver /\ NewAct(w, NoAct)
        /\ browser' = [browser EXCEPT ![w] = NoBrowser] /\ desktop' = [desktop EXCEPT ![w] = NoDesktop]
    BY <1>11, NoSession DEF SurfaceRestart, NewAct
  <2>2. NewBrowser(w, NoBrowser)
    BY <2>1, NoSession DEF NewBrowser
  <2>3. desktop' \in [SurfaceProcesses -> DesktopSession]
    BY <1>0, <2>1, NoSession DEF SurfaceShape
  <2> QED BY <2>1, <2>2, <2>3, BrowserMoves
<1>12. CASE UNCHANGED surfaceVars
  BY <1>12 DEF surfaceVars, SurfaceInv, SurfaceShape, SecretsNeedConsent
<1> QED BY <1>1, <1>2, <1>3, <1>4, <1>5, <1>6, <1>7, <1>8, <1>9, <1>10, <1>11, <1>12 DEF SurfaceNext

(* Whatever pages there are and whatever targets ask for, what a page shows   *)
(* is what is acted on, an element found answers to the tier that found it,   *)
(* no password is filled without leave, and a click is confirmed by a look.   *)
THEOREM SurfacesActOnWhatIsSeen == SurfaceSpec => []ActsOnWhatIsSeen
<1>1. SurfaceInit => SurfaceInv
  BY NoSession DEF SurfaceInit, SurfaceInv, SurfaceShape, SecretsNeedConsent, Unset
<1>2. SurfaceInv /\ [SurfaceNext]_surfaceVars => SurfaceInv'
  BY SurfaceInvNext
<1>3. SurfaceInv => ActsOnWhatIsSeen
  BY SurfaceShows
<1> QED BY <1>1, <1>2, <1>3, PTL DEF SurfaceSpec
------------------------------------------------------------------------------
(* Mail, calendar and issues.                                                 *)

Greatest(S) == CHOOSE t \in S : \A u \in S : u <= t

LEMMA GreatestIs ==
    ASSUME NEW S \in SUBSET Nat, S # {}, NEW n \in Nat, \A i \in S : i <= n
    PROVE  Greatest(S) \in S /\ \A u \in S : u <= Greatest(S)
<1> DEFINE T == {x \in 0..n : n - x \in S}
<1>1. T \in SUBSET Nat /\ T # {}
  <2>1. PICK s \in S : TRUE
    OBVIOUS
  <2>2. n - s \in 0..n /\ n - (n - s) = s
    BY <2>1
  <2> QED BY <2>1, <2>2
<1>2. FirstOf(T) \in T /\ \A j \in T : FirstOf(T) <= j
  BY <1>1, LeastOfSome
<1> DEFINE m == n - FirstOf(T)
<1>3. m \in S
  BY <1>2
<1>4. \A u \in S : u <= m
  <2> TAKE u \in S
  <2>1. n - u \in T
    BY DEF T
  <2> HIDE DEF T
  <2>2. FirstOf(T) <= n - u /\ FirstOf(T) \in 0..n /\ u \in Nat
    BY <1>2, <2>1 DEF T
  <2> QED BY <2>2
<1> HIDE DEF m
<1> QED BY <1>3, <1>4 DEF Greatest

(* The walk of find_free, for every calendar, every span and every count.     *)
Calendar == SUBSET [id : ApiActions \X Nat, start : 0..Hours, end : 0..Hours]

LEMMA NextEventIs ==
    ASSUME NEW busy \in Calendar, NEW c \in Nat
    PROVE  \/ NextEvent(busy, c) = {} /\ \A e \in busy : e.end <= c
           \/ \E e \in busy : /\ NextEvent(busy, c) = {e} /\ e.end > c
                              /\ \A f \in busy : f.end > c => e.start <= f.start
<1> DEFINE ahead == {e \in busy : e.end > c}
           starts == {e.start : e \in ahead}
<1>0. \A e \in busy : e.start \in Nat /\ e.end \in Nat
  BY ApiAssumption DEF Calendar
<1>1. CASE ahead = {}
  BY <1>0, <1>1 DEF NextEvent
<1>2. CASE ahead # {}
  <2>1. starts \in SUBSET Nat /\ starts # {}
    BY <1>0, <1>2
  <2>2. FirstOf(starts) \in starts /\ \A j \in starts : FirstOf(starts) <= j
    BY <2>1, LeastOfSome
  <2>3. PICK e \in ahead : e.start = FirstOf(starts)
    BY <2>2
  <2>4. \A f \in ahead : e.start <= f.start
    BY <2>2, <2>3
  <2> DEFINE first == CHOOSE g \in ahead : \A f \in ahead : g.start <= f.start
  <2>5. first \in ahead /\ \A f \in ahead : first.start <= f.start
    BY <2>3, <2>4
  <2>6. NextEvent(busy, c) = {first}
    BY <1>2 DEF NextEvent
  <2> HIDE DEF first
  <2> QED BY <2>5, <2>6
<1> QED BY <1>1, <1>2

(* The function find_free's loop computes exists: a turn asks only for later  *)
(* cursors, so a table that is right from c + 1 on can be made right from c.  *)
Table(count) == [0..Hours -> [0..count -> SUBSET (0..Hours)]]
RightFrom(f, busy, span, count, k) ==
    \A c \in k..Hours, n \in 0..count : f[c][n] = SlotsFrom(f, busy, span, c, n)

LEMMA TurnLooksLater ==
    ASSUME NEW busy \in Calendar, NEW span \in Nat \ {0}, NEW count \in Nat,
           NEW f \in Table(count), NEW g \in Table(count), NEW c \in 0..Hours, NEW n \in 0..count,
           \A d \in (c + 1)..Hours : f[d] = g[d]
    PROVE  /\ SlotsFrom(f, busy, span, c, n) = SlotsFrom(g, busy, span, c, n)
           /\ SlotsFrom(f, busy, span, c, n) \in SUBSET (0..Hours)
<1> DEFINE blocking == {e \in NextEvent(busy, c) : c + span > e.start}
<1>0. Hours \in Nat /\ Closes \in 0..Hours /\ c \in Nat
  BY ApiAssumption
<1>1. CASE c + span > Closes \/ n = 0
  BY <1>1 DEF SlotsFrom
<1>2. CASE ~(c + span > Closes \/ n = 0) /\ blocking = {}
  <2>1. c + span \in (c + 1)..Hours /\ n - 1 \in 0..count /\ c + span \in 0..Hours
    BY <1>0, <1>2
  <2>2. /\ SlotsFrom(f, busy, span, c, n) = {c} \cup f[c + span][n - 1]
        /\ SlotsFrom(g, busy, span, c, n) = {c} \cup g[c + span][n - 1]
    BY <1>2 DEF SlotsFrom
  <2>3. f[c + span][n - 1] \in SUBSET (0..Hours)
    BY <2>1 DEF Table
  <2> QED BY <2>1, <2>2, <2>3
<1>3. CASE ~(c + span > Closes \/ n = 0) /\ blocking # {}
  <2> DEFINE e == CHOOSE x \in blocking : TRUE
  <2>1. e \in blocking
    BY <1>3
  <2>2. e \in busy /\ e.end > c /\ e.end \in 0..Hours
    BY <1>0, <2>1, NextEventIs DEF Calendar
  <2>3. /\ SlotsFrom(f, busy, span, c, n) = f[e.end][n]
        /\ SlotsFrom(g, busy, span, c, n) = g[e.end][n]
    BY <1>3 DEF SlotsFrom
  <2> HIDE DEF e
  <2>4. e.end \in (c + 1)..Hours
    BY <1>0, <2>2
  <2>5. f[e.end][n] \in SUBSET (0..Hours)
    BY <2>2 DEF Table
  <2> QED BY <2>3, <2>4, <2>5
<1> QED BY <1>1, <1>2, <1>3

LEMMA TableExtends ==
    ASSUME NEW busy \in Calendar, NEW span \in Nat \ {0}, NEW count \in Nat,
           NEW k \in 0..Hours, NEW f \in Table(count), RightFrom(f, busy, span, count, k + 1)
    PROVE  \E g \in Table(count) : RightFrom(g, busy, span, count, k)
<1> DEFINE row == [n \in 0..count |-> SlotsFrom(f, busy, span, k, n)]
           g == [f EXCEPT ![k] = row]
<1>0. Hours \in Nat
  BY ApiAssumption
<1>1. row \in [0..count -> SUBSET (0..Hours)]
  BY TurnLooksLater
<1>2. \A n \in 0..count : row[n] = SlotsFrom(f, busy, span, k, n)
  OBVIOUS
<1> HIDE DEF row
<1>3. g \in Table(count) /\ g[k] = row /\ \A d \in 0..Hours : d # k => g[d] = f[d]
  BY <1>1 DEF Table
<1> HIDE DEF g
<1>4. RightFrom(g, busy, span, count, k)
  <2> SUFFICES ASSUME NEW c \in k..Hours, NEW n \in 0..count
               PROVE  g[c][n] = SlotsFrom(g, busy, span, c, n)
    BY DEF RightFrom
  <2>1. c \in 0..Hours /\ \A d \in (c + 1)..Hours : f[d] = g[d]
    BY <1>0, <1>3
  <2>2. SlotsFrom(f, busy, span, c, n) = SlotsFrom(g, busy, span, c, n)
    BY <1>3, <2>1, TurnLooksLater
  <2>3. CASE c = k
    BY <1>2, <1>3, <2>2, <2>3
  <2>4. CASE c # k
    <3>1. c \in (k + 1)..Hours
      BY <1>0, <2>4
    <3> QED BY <1>3, <2>1, <2>2, <2>4, <3>1 DEF RightFrom
  <2> QED BY <2>3, <2>4
<1> QED BY <1>3, <1>4

LEMMA TableExists ==
    ASSUME NEW busy \in Calendar, NEW span \in Nat \ {0}, NEW count \in Nat
    PROVE  \E f \in Table(count) : RightFrom(f, busy, span, count, 0)
<1> DEFINE Reached == {k \in 0..(Hours + 1) : \E f \in Table(count) : RightFrom(f, busy, span, count, k)}
<1>0. Hours \in Nat
  BY ApiAssumption
<1>1. Hours + 1 \in Reached
  <2> DEFINE f == [c \in 0..Hours |-> [n \in 0..count |-> {}]]
  <2>1. f \in Table(count)
    BY DEF Table
  <2> HIDE DEF f
  <2>2. RightFrom(f, busy, span, count, Hours + 1)
    BY <1>0 DEF RightFrom
  <2> QED BY <1>0, <2>1, <2>2
<1>2. Reached \in SUBSET Nat /\ Reached # {}
  BY <1>0, <1>1
<1>3. FirstOf(Reached) \in Reached /\ \A j \in Reached : FirstOf(Reached) <= j
  BY <1>2, LeastOfSome
<1> DEFINE m == FirstOf(Reached)
<1>4. PICK f \in Table(count) : RightFrom(f, busy, span, count, m)
  BY <1>3
<1>5. m \in 0..(Hours + 1) /\ \A j \in Reached : m <= j
  BY <1>3
<1> HIDE DEF m
<1>6. CASE m = 0
  BY <1>4, <1>6
<1>7. CASE m # 0
  <2> DEFINE k == m - 1
  <2>1. k \in 0..Hours /\ k + 1 = m /\ k < m
    BY <1>0, <1>5, <1>7
  <2> HIDE DEF k
  <2>2. \E g \in Table(count) : RightFrom(g, busy, span, count, k)
    BY <1>4, <2>1, TableExtends
  <2>3. k \in Reached
    BY <1>0, <2>1, <2>2
  <2> HIDE DEF Reached
  <2> QED BY <1>5, <2>1, <2>3
<1> QED BY <1>6, <1>7

LEMMA WalkExists ==
    ASSUME NEW busy \in Calendar, NEW span \in Nat \ {0}, NEW count \in Nat
    PROVE  \E f : RightFrom(f, busy, span, count, 0) /\ FindFree(busy, span, count) = f[Opens][count]
<1> DEFINE Eq(f) == f = [c \in 0..Hours |-> [n \in 0..count |-> SlotsFrom(f, busy, span, c, n)]]
           walk == CHOOSE f : Eq(f)
<1>1. FindFree(busy, span, count) = walk[Opens][count]
  BY DEF FindFree
<1>2. PICK g \in Table(count) : RightFrom(g, busy, span, count, 0)
  BY TableExists
<1>3. Eq(g)
  <2> DEFINE r == [c \in 0..Hours |-> [n \in 0..count |-> SlotsFrom(g, busy, span, c, n)]]
  <2>1. \A c \in 0..Hours : g[c] = r[c]
    <3> TAKE c \in 0..Hours
    <3>1. \A n \in 0..count : g[c][n] = SlotsFrom(g, busy, span, c, n)
      BY <1>2 DEF RightFrom
    <3>2. g[c] = [n \in 0..count |-> g[c][n]]
      BY DEF Table
    <3> QED BY <3>1, <3>2
  <2>2. g = [c \in 0..Hours |-> g[c]]
    BY DEF Table
  <2> QED BY <2>1, <2>2
<1>4. Eq(walk)
  <2> HIDE DEF Eq
  <2> QED BY <1>3
<1> HIDE DEF walk
<1>5. RightFrom(walk, busy, span, count, 0)
  <2>1. \A c \in 0..Hours : walk[c] = [n \in 0..count |-> SlotsFrom(walk, busy, span, c, n)]
    BY <1>4
  <2> QED BY <2>1 DEF RightFrom
<1> QED BY <1>1, <1>5

(* What a walk from c with n slots left finds: the earliest that fit, each    *)
(* after the one before it, and fewer than n only when no other fits.         *)
Free(busy, span, from) == {t \in from..Hours : Fits(busy, t, span)}
AfterFrom(c, S, span) == IF S = {} THEN c ELSE span + Greatest(S)
EarlierThan(W, s) == {t \in W : t < s}

EarliestFrom(busy, span, c, n, W) ==
    /\ W \in SUBSET (c..Hours) /\ IsFiniteSet(W) /\ Cardinality(W) <= n
    /\ \A s \in W : /\ s \in Free(busy, span, AfterFrom(c, EarlierThan(W, s), span))
                    /\ \A t \in Free(busy, span, AfterFrom(c, EarlierThan(W, s), span)) : s <= t
    /\ Cardinality(W) < n => Free(busy, span, AfterFrom(c, W, span)) = {}

(* Nothing that blocks the cursor lets a slot begin before it ends.           *)
LEMMA BlockedUntil ==
    ASSUME NEW busy \in Calendar, NEW span \in Nat \ {0}, NEW c \in 0..Hours, NEW e \in busy,
           e.end > c, c + span > e.start
    PROVE  Free(busy, span, c) = Free(busy, span, e.end)
<1>1. e.end \in 0..Hours /\ e.start \in 0..Hours /\ Hours \in Nat
  BY ApiAssumption DEF Calendar
<1>2. \A t \in c..Hours : Fits(busy, t, span) => t >= e.end
  <2> SUFFICES ASSUME NEW t \in c..Hours, Fits(busy, t, span), ~(t >= e.end) PROVE FALSE
    OBVIOUS
  <2>1. e.end <= t \/ e.start >= t + span
    BY DEF Fits
  <2> QED BY <1>1, <2>1
<1> QED BY <1>1, <1>2 DEF Free

LEMMA LaterStart ==
    ASSUME NEW busy \in Calendar, NEW span \in Nat \ {0}, NEW c \in 0..Hours, NEW e \in busy,
           e.end > c, c + span > e.start, NEW n \in Nat, NEW W, EarliestFrom(busy, span, e.end, n, W)
    PROVE  EarliestFrom(busy, span, c, n, W)
<1>1. e.end \in 0..Hours /\ Hours \in Nat
  BY ApiAssumption DEF Calendar
<1>2. \A S : Free(busy, span, AfterFrom(c, S, span)) = Free(busy, span, AfterFrom(e.end, S, span))
  BY BlockedUntil DEF AfterFrom
<1>3. W \in SUBSET (c..Hours)
  BY <1>1 DEF EarliestFrom
<1> QED BY <1>2, <1>3 DEF EarliestFrom

(* A slot at c, and then what a walk from its end finds.                      *)
LEMMA SlotTaken ==
    ASSUME NEW busy \in Calendar, NEW span \in Nat \ {0}, NEW c \in 0..Hours,
           Fits(busy, c, span), NEW n \in Nat \ {0}, NEW V, EarliestFrom(busy, span, c + span, n - 1, V)
    PROVE  EarliestFrom(busy, span, c, n, {c} \cup V)
<1> DEFINE W == {c} \cup V
<1>0. Hours \in Nat /\ Closes \in 0..Hours /\ c + span \in Nat /\ c < c + span
  BY ApiAssumption
<1>1. V \in SUBSET ((c + span)..Hours) /\ c \notin V
  BY <1>0 DEF EarliestFrom
<1>2. W \in SUBSET (c..Hours) /\ \A s \in V : c < s
  BY <1>0, <1>1
<1>3. IsFiniteSet(W) /\ Cardinality(W) = Cardinality(V) + 1 /\ Cardinality(V) \in Nat
  <2>1. IsFiniteSet(V)
    BY DEF EarliestFrom
  <2>2. W = V \cup {c}
    OBVIOUS
  <2>3. IsFiniteSet(V \cup {c}) /\ Cardinality(V \cup {c}) = Cardinality(V) + 1
    BY <1>1, <2>1, FS_AddElement
  <2>4. Cardinality(V) \in Nat
    BY <2>1, FS_CardinalityType
  <2> HIDE DEF W
  <2> QED BY <2>1, <2>2, <2>3, <2>4
<1>4. ASSUME NEW S \in SUBSET V
      PROVE  AfterFrom(c, {c} \cup S, span) = AfterFrom(c + span, S, span)
  <2>1. {c} \cup S \in SUBSET Nat /\ \A i \in {c} \cup S : i <= Hours
    BY <1>0, <1>1, <1>2
  <2>2. Greatest({c} \cup S) \in {c} \cup S /\ \A u \in {c} \cup S : u <= Greatest({c} \cup S)
    BY <1>0, <2>1, GreatestIs
  <2>3. CASE S = {}
    BY <1>0, <2>2, <2>3 DEF AfterFrom
  <2>4. CASE S # {}
    <3>1. Greatest(S) \in S /\ \A u \in S : u <= Greatest(S)
      BY <1>0, <2>1, <2>4, GreatestIs
    <3>2. Greatest({c} \cup S) = Greatest(S)
      <4>1. PICK s \in S : TRUE
        BY <2>4
      <4>2. Greatest({c} \cup S) # c
        BY <1>0, <1>2, <2>1, <2>2, <4>1
      <4>3. Greatest({c} \cup S) \in Nat /\ Greatest(S) \in Nat
        BY <2>1, <2>2, <3>1
      <4>4. Greatest({c} \cup S) <= Greatest(S)
        BY <2>2, <3>1, <4>2
      <4>5. Greatest(S) <= Greatest({c} \cup S)
        BY <2>2, <3>1
      <4> QED BY <4>3, <4>4, <4>5
    <3> QED BY <2>4, <3>2 DEF AfterFrom
  <2> QED BY <2>3, <2>4
<1>5. Free(busy, span, c) # {} /\ c \in Free(busy, span, c) /\ \A t \in Free(busy, span, c) : c <= t
  BY <1>0 DEF Free
<1>6. ASSUME NEW s \in W
      PROVE  /\ s \in Free(busy, span, AfterFrom(c, EarlierThan(W, s), span))
             /\ \A t \in Free(busy, span, AfterFrom(c, EarlierThan(W, s), span)) : s <= t
  <2>1. CASE s = c
    <3>1. EarlierThan(W, s) = {}
      BY <1>0, <1>2, <2>1 DEF EarlierThan
    <3>2. AfterFrom(c, EarlierThan(W, s), span) = c
      BY <3>1 DEF AfterFrom
    <3> QED BY <1>5, <2>1, <3>2
  <2>2. CASE s # c
    <3>1. s \in V
      BY <1>6, <2>2
    <3>2. EarlierThan(W, s) = {c} \cup EarlierThan(V, s) /\ EarlierThan(V, s) \in SUBSET V
      BY <1>2, <3>1 DEF EarlierThan
    <3>3. AfterFrom(c, EarlierThan(W, s), span) = AfterFrom(c + span, EarlierThan(V, s), span)
      BY <1>4, <3>2
    <3> QED BY <3>1, <3>3 DEF EarliestFrom
  <2> QED BY <2>1, <2>2
<1>7. Cardinality(W) <= n
  BY <1>3 DEF EarliestFrom
<1>8. ASSUME Cardinality(W) < n PROVE Free(busy, span, AfterFrom(c, W, span)) = {}
  <2>1. Cardinality(V) < n - 1
    BY <1>3, <1>8
  <2>2. AfterFrom(c, W, span) = AfterFrom(c + span, V, span)
    BY <1>4
  <2> QED BY <2>1, <2>2 DEF EarliestFrom
<1> HIDE DEF W
<1>9. EarliestFrom(busy, span, c, n, W)
  BY <1>2, <1>3, <1>6, <1>7, <1>8 DEF EarliestFrom
<1> QED BY <1>9 DEF W

LEMMA WalkFinds ==
    ASSUME NEW busy \in Calendar, NEW span \in Nat \ {0}, NEW count \in Nat,
           NEW f, RightFrom(f, busy, span, count, 0)
    PROVE  \A c \in 0..Hours, n \in 0..count : EarliestFrom(busy, span, c, n, f[c][n])
<1> DEFINE Wrong == {k \in 0..Hours : \E n \in 0..count :
                        ~EarliestFrom(busy, span, Hours - k, n, f[Hours - k][n])}
<1>0. Hours \in Nat /\ Closes \in 0..Hours
  BY ApiAssumption
<1>1. SUFFICES Wrong = {}
  <2> SUFFICES ASSUME NEW c \in 0..Hours, NEW n \in 0..count
               PROVE  EarliestFrom(busy, span, c, n, f[c][n])
    OBVIOUS
  <2>1. Hours - c \in 0..Hours /\ Hours - (Hours - c) = c
    BY <1>0
  <2> QED BY <1>1, <2>1
<1>2. SUFFICES ASSUME Wrong # {} PROVE FALSE
  OBVIOUS
<1>3. FirstOf(Wrong) \in Wrong /\ \A j \in Wrong : FirstOf(Wrong) <= j
  <2>1. Wrong \in SUBSET Nat
    BY <1>0
  <2> HIDE DEF Wrong
  <2> QED BY <1>2, <2>1, LeastOfSome
<1> DEFINE m == FirstOf(Wrong)
           c == Hours - m
<1>4. PICK n \in 0..count : ~EarliestFrom(busy, span, c, n, f[c][n])
  BY <1>3
<1>5. c \in 0..Hours /\ m \in 0..Hours /\ c + m = Hours /\ \A j \in Wrong : m <= j
  BY <1>0, <1>3
<1> HIDE DEF m, c
<1>6. ASSUME NEW d \in (c + 1)..Hours, NEW l \in 0..count PROVE EarliestFrom(busy, span, d, l, f[d][l])
  <2>1. Hours - d \in 0..Hours /\ Hours - (Hours - d) = d /\ Hours - d < m
    BY <1>0, <1>5
  <2>2. Hours - d \notin Wrong
    <3> HIDE DEF Wrong
    <3> QED BY <1>0, <1>5, <2>1
  <2> QED BY <2>1, <2>2
<1> HIDE DEF Wrong
<1> DEFINE blocking == {e \in NextEvent(busy, c) : c + span > e.start}
           W == f[c][n]
<1>7. W = SlotsFrom(f, busy, span, c, n)
  BY <1>5 DEF RightFrom
<1>8. CASE c + span > Closes \/ n = 0
  <2>1. W = {}
    BY <1>7, <1>8 DEF SlotsFrom
  <2>2. n # 0 => Free(busy, span, c) = {}
    BY <1>0, <1>5, <1>8 DEF Free, Fits
  <2>3. Cardinality(W) = 0 /\ IsFiniteSet(W)
    BY <2>1, FS_EmptySet
  <2>4. EarliestFrom(busy, span, c, n, W)
    BY <2>1, <2>2, <2>3 DEF EarliestFrom, AfterFrom
  <2> QED BY <1>4, <2>4
<1>9. CASE ~(c + span > Closes \/ n = 0) /\ blocking = {}
  <2>1. W = {c} \cup f[c + span][n - 1]
    BY <1>7, <1>9 DEF SlotsFrom
  <2>2. EarliestFrom(busy, span, c + span, n - 1, f[c + span][n - 1])
    BY <1>0, <1>5, <1>6, <1>9
  <2>3. Fits(busy, c, span)
    <3>1. \A e \in busy : e.start \in Nat /\ e.end \in Nat
      BY ApiAssumption DEF Calendar
    <3>2. c \in Nat
      BY <1>0, <1>5
    <3>3. \A e \in busy : e.end > c => c + span <= e.start
      <4>1. CASE NextEvent(busy, c) = {} /\ \A e \in busy : e.end <= c
        BY <3>1, <3>2, <4>1
      <4>2. ASSUME NEW e \in busy, NextEvent(busy, c) = {e}, e.end > c,
                   \A x \in busy : x.end > c => e.start <= x.start
            PROVE  \A x \in busy : x.end > c => c + span <= x.start
        <5>1. ~(c + span > e.start)
          BY <1>9, <4>2
        <5> QED BY <3>1, <3>2, <4>2, <5>1
      <4> QED BY <3>2, <4>1, <4>2, NextEventIs
    <3> QED BY <1>0, <1>5, <1>9, <3>1, <3>2, <3>3 DEF Fits
  <2>4. EarliestFrom(busy, span, c, n, W)
    BY <1>5, <1>9, <2>1, <2>2, <2>3, SlotTaken
  <2> QED BY <1>4, <2>4
<1>10. CASE ~(c + span > Closes \/ n = 0) /\ blocking # {}
  <2> DEFINE e == CHOOSE x \in blocking : TRUE
  <2>1. e \in blocking
    BY <1>10
  <2>2. W = f[e.end][n]
    BY <1>7, <1>10 DEF SlotsFrom
  <2> HIDE DEF e
  <2>3. e \in busy /\ e.end > c /\ e.end \in 0..Hours /\ c + span > e.start
    BY <1>0, <1>5, <2>1, NextEventIs DEF Calendar
  <2>4. EarliestFrom(busy, span, e.end, n, W)
    BY <1>0, <1>5, <1>6, <2>2, <2>3
  <2>5. EarliestFrom(busy, span, c, n, W)
    BY <1>5, <2>3, <2>4, LaterStart
  <2> QED BY <1>4, <2>5
<1> QED BY <1>8, <1>9, <1>10

LEMMA SlotsFound ==
    ASSUME NEW busy \in Calendar, NEW span \in Nat \ {0}, NEW count \in Nat
    PROVE  EarliestFrom(busy, span, Opens, count, FindFree(busy, span, count))
<1>1. Opens \in 0..Hours /\ count \in 0..count
  BY ApiAssumption
<1>2. PICK f : RightFrom(f, busy, span, count, 0) /\ FindFree(busy, span, count) = f[Opens][count]
  BY WalkExists
<1> QED BY <1>1, <1>2, WalkFinds

(* What a run of an action makes is named for it, and no run is named again.  *)
RunNames == ApiActions \X (Nat \ {0})
Issue == [number : Nat, by : (ApiActions \cup {"seed"}) \X Nat, comments : SUBSET RunNames]

ApiShape ==
    /\ drafts \in [ApiProcesses -> SUBSET RunNames]
    /\ sent \in [ApiProcesses -> SUBSET [id : RunNames, by : RunNames]]
    /\ events \in [ApiProcesses -> Calendar]
    /\ issues \in [ApiProcesses -> SUBSET Issue]
    /\ apiCall \in [ApiActions -> ApiCalls \cup {[tool |-> "none"]}]
    /\ apiStage \in [ApiActions -> ApiProcesses \cup {"new", "done", "failed"}]
    /\ apiRuns \in [ApiActions -> Nat]

(* Drafts and messages come from runs that were made.                         *)
Made(d) == d[2] <= apiRuns[d[1]]
ApiInv ==
    /\ ApiShape /\ DraftsSentOnce /\ IssuesNumbered
    /\ \A w \in ApiProcesses :
         /\ \A d \in drafts[w] : Made(d)
         /\ \A m \in sent[w] : Made(m.id)
         /\ issues[w] # {} /\ \E n \in Nat : \A i \in issues[w] : i.number <= n

LEMMA ApiShows == ApiInv => ApiEffectsHold
<1> SUFFICES ASSUME ApiInv PROVE SlotsAreEarliest
  BY DEF ApiInv, ApiEffectsHold
<1>1. ASSUME NEW w \in ApiProcesses, NEW span \in 1..2, NEW count \in 1..2
      PROVE  EarliestFrom(events[w], span, Opens, count, FindFree(events[w], span, count))
  BY SlotsFound DEF ApiInv, ApiShape
<1>2. ASSUME NEW w \in ApiProcesses, NEW span \in 1..2, NEW count \in 1..2
      PROVE  LET slots == FindFree(events[w], span, count)
             IN  /\ \A s \in slots :
                      /\ s \in Free(events[w], span, AfterFrom(Opens, EarlierThan(slots, s), span))
                      /\ \A t \in Free(events[w], span, AfterFrom(Opens, EarlierThan(slots, s), span)) :
                           s <= t
                 /\ Cardinality(slots) <= count
                 /\ Cardinality(slots) < count => Free(events[w], span, AfterFrom(Opens, slots, span)) = {}
  BY <1>1 DEF EarliestFrom
<1> QED BY <1>2 DEF SlotsAreEarliest, Free, AfterFrom, EarlierThan, Greatest

LEMMA RunIsNew ==
    ASSUME ApiInv, NEW a \in ApiActions, NEW c \in ApiCalls, Runs(a, c)
    PROVE  /\ RunOf(a) \in RunNames /\ RunOf(a)[1] = a /\ RunOf(a)[2] = apiRuns[a] + 1
           /\ apiRuns' \in [ApiActions -> Nat]
           /\ apiCall' \in [ApiActions -> ApiCalls \cup {[tool |-> "none"]}]
           /\ apiRuns'[a] = apiRuns[a] + 1
           /\ \A b \in ApiActions : apiRuns[b] <= apiRuns'[b]
           /\ \A w \in ApiProcesses : /\ RunOf(a) \notin drafts[w]
                                      /\ \A m \in sent[w] : m.id # RunOf(a)
<1>1. apiRuns \in [ApiActions -> Nat] /\ apiCall \in [ApiActions -> ApiCalls \cup {[tool |-> "none"]}]
  BY DEF ApiInv, ApiShape
<1>2. RunOf(a) \in RunNames /\ RunOf(a)[1] = a /\ RunOf(a)[2] = apiRuns[a] + 1
  BY <1>1 DEF RunOf, RunNames
<1>3. ~Made(RunOf(a))
  BY <1>1, <1>2 DEF Made
<1>4. \A w \in ApiProcesses : RunOf(a) \notin drafts[w] /\ \A m \in sent[w] : m.id # RunOf(a)
  BY <1>3 DEF ApiInv
<1> QED BY <1>1, <1>2, <1>4 DEF Runs

(* What was made stays made.                                                  *)
LEMMA MadeStays ==
    ASSUME ApiInv, NEW a \in ApiActions, NEW c \in ApiCalls, Runs(a, c)
    PROVE  /\ \A d \in RunNames : d[2] <= apiRuns[d[1]] => d[2] <= apiRuns'[d[1]]
           /\ RunOf(a)[2] <= apiRuns'[RunOf(a)[1]]
<1>1. apiRuns \in [ApiActions -> Nat] /\ apiRuns' \in [ApiActions -> Nat]
  BY RunIsNew DEF ApiInv, ApiShape
<1>2. \A d \in RunNames : d[1] \in ApiActions /\ d[2] \in Nat
  BY DEF RunNames
<1> QED BY <1>1, <1>2, RunIsNew

(* The service of one process changes: its drafts, messages and issues.       *)
MailIs(w, D, M) ==
    /\ D \in SUBSET RunNames /\ M \in SUBSET [id : RunNames, by : RunNames]
    /\ drafts' = [drafts EXCEPT ![w] = D] /\ sent' = [sent EXCEPT ![w] = M]
    /\ \A m, n \in M : m.id = n.id => m = n
    /\ D \cap {m.id : m \in M} = {}

MadeBy(D, M, runs) == /\ \A d \in D : d[2] <= runs[d[1]]
                      /\ \A m \in M : m.id[2] <= runs[m.id[1]]

IssuesAre(w, I) ==
    /\ I \in SUBSET Issue /\ issues' = [issues EXCEPT ![w] = I] /\ I # {}
    /\ \A i, j \in I : i.number = j.number => i = j
    /\ \E n \in Nat : \A i \in I : i.number <= n

LEMMA ServiceMoves ==
    ASSUME ApiInv, NEW w \in ApiProcesses, NEW D, NEW M, NEW I, MailIs(w, D, M), IssuesAre(w, I),
           MadeBy(D, M, apiRuns'),
           apiRuns' \in [ApiActions -> Nat],
           \A d \in RunNames : d[2] <= apiRuns[d[1]] => d[2] <= apiRuns'[d[1]],
           apiCall' \in [ApiActions -> ApiCalls \cup {[tool |-> "none"]}],
           apiStage' \in [ApiActions -> ApiProcesses \cup {"new", "done", "failed"}],
           events' \in [ApiProcesses -> Calendar]
    PROVE  ApiInv'
<1>0. ApiShape
  BY DEF ApiInv
<1>1. /\ \A v \in ApiProcesses : drafts'[v] = IF v = w THEN D ELSE drafts[v]
      /\ \A v \in ApiProcesses : sent'[v] = IF v = w THEN M ELSE sent[v]
      /\ \A v \in ApiProcesses : issues'[v] = IF v = w THEN I ELSE issues[v]
  BY <1>0 DEF ApiShape, MailIs, IssuesAre
<1>2. ApiShape'
  BY <1>0 DEF ApiShape, MailIs, IssuesAre
<1>3. DraftsSentOnce'
  BY <1>1 DEF ApiInv, DraftsSentOnce, MailIs
<1>4. IssuesNumbered'
  BY <1>1 DEF ApiInv, IssuesNumbered, IssuesAre
<1>5. \A v \in ApiProcesses :
        /\ \A d \in drafts'[v] : d[2] <= apiRuns'[d[1]]
        /\ \A m \in sent'[v] : m.id[2] <= apiRuns'[m.id[1]]
        /\ issues'[v] # {} /\ \E n \in Nat : \A i \in issues'[v] : i.number <= n
  <2> TAKE v \in ApiProcesses
  <2>1. CASE v = w
    BY <1>1, <2>1 DEF MadeBy, IssuesAre
  <2>2. CASE v # w
    <3>1. /\ \A d \in drafts[v] : d \in RunNames /\ d[2] <= apiRuns[d[1]]
          /\ \A m \in sent[v] : m.id \in RunNames /\ m.id[2] <= apiRuns[m.id[1]]
          /\ issues[v] # {} /\ \E n \in Nat : \A i \in issues[v] : i.number <= n
      BY <1>0 DEF ApiInv, ApiShape, Made
    <3> QED BY <1>1, <2>2, <3>1
  <2> QED BY <2>1, <2>2
<1> QED BY <1>2, <1>3, <1>4, <1>5 DEF ApiInv, Made

LEMMA MailOf ==
    ASSUME ApiInv, NEW w \in ApiProcesses
    PROVE  /\ drafts[w] \in SUBSET RunNames /\ sent[w] \in SUBSET [id : RunNames, by : RunNames]
           /\ \A m, n \in sent[w] : m.id = n.id => m = n
           /\ drafts[w] \cap {m.id : m \in sent[w]} = {}
           /\ UNCHANGED <<drafts, sent>> => MailIs(w, drafts[w], sent[w])
BY DEF ApiInv, ApiShape, DraftsSentOnce, MailIs

LEMMA IssuesOf ==
    ASSUME ApiInv, NEW w \in ApiProcesses
    PROVE  /\ issues[w] \in SUBSET Issue /\ issues[w] # {}
           /\ \A i, j \in issues[w] : i.number = j.number => i = j
           /\ \E n \in Nat : \A i \in issues[w] : i.number <= n
           /\ UNCHANGED issues => IssuesAre(w, issues[w])
BY DEF ApiInv, ApiShape, IssuesNumbered, IssuesAre

LEMMA NextNumberIs ==
    ASSUME ApiInv, NEW w \in ApiProcesses
    PROVE  NextNumber(w) \in Nat /\ \A i \in issues[w] : i.number < NextNumber(w)
<1> DEFINE S == {i.number : i \in issues[w]}
           g == CHOOSE n \in S : \A i \in issues[w] : i.number <= n
<1>1. S \in SUBSET Nat /\ S # {}
  BY IssuesOf DEF Issue
<1>2. PICK n \in Nat : \A i \in issues[w] : i.number <= n
  BY IssuesOf
<1>3. Greatest(S) \in S /\ \A u \in S : u <= Greatest(S)
  <2>1. \A i \in S : i <= n
    BY <1>2
  <2> HIDE DEF S
  <2> QED BY <1>1, <2>1, GreatestIs
<1>4. \E m \in S : \A i \in issues[w] : i.number <= m
  BY <1>3
<1>5. g \in S /\ \A i \in issues[w] : i.number <= g
  BY <1>4
<1>6. NextNumber(w) = 1 + g
  BY DEF NextNumber
<1>7. g \in Nat /\ \A i \in issues[w] : i.number \in Nat
  BY <1>1, <1>5
<1> HIDE DEF g
<1> QED BY <1>5, <1>6, <1>7

LEMMA PerformKeeps ==
    ASSUME ApiInv, NEW a \in ApiActions, NEW w \in ApiProcesses, NEW c \in ApiCalls, Perform(a, w, c)
    PROVE  ApiInv'
<1>0. ApiShape
  BY DEF ApiInv
<1>1. Runs(a, c)
  BY DEF Perform
<1>2. /\ RunOf(a) \in RunNames /\ RunOf(a) \notin drafts[w] /\ \A m \in sent[w] : m.id # RunOf(a)
      /\ apiRuns' \in [ApiActions -> Nat]
      /\ apiCall' \in [ApiActions -> ApiCalls \cup {[tool |-> "none"]}]
      /\ \A d \in RunNames : d[2] <= apiRuns[d[1]] => d[2] <= apiRuns'[d[1]]
      /\ RunOf(a)[2] <= apiRuns'[RunOf(a)[1]]
  BY <1>1, RunIsNew, MadeStays
<1>3. MadeBy(drafts[w], sent[w], apiRuns')
  <2>1. /\ \A d \in drafts[w] : d \in RunNames /\ d[2] <= apiRuns[d[1]]
        /\ \A m \in sent[w] : m.id \in RunNames /\ m.id[2] <= apiRuns[m.id[1]]
    BY <1>0 DEF ApiInv, ApiShape, Made
  <2> QED BY <1>2, <2>1 DEF MadeBy
<1>s. MadeAt(a, w) \/ Refused(a) => apiStage' \in [ApiActions -> ApiProcesses \cup {"new", "done", "failed"}]
  BY <1>0 DEF ApiShape, MadeAt, Refused
<1>e. UNCHANGED events => events' \in [ApiProcesses -> Calendar]
  BY <1>0 DEF ApiShape
<1>4. CASE Draft(a, w, c)
  <2> DEFINE D == drafts[w] \cup {RunOf(a)}
  <2>1. drafts' = [drafts EXCEPT ![w] = D] /\ UNCHANGED <<sent, events, issues>> /\ MadeAt(a, w)
    BY <1>4 DEF Draft
  <2>2. MailIs(w, D, sent[w])
    BY <1>0, <1>2, <2>1, MailOf DEF MailIs, ApiShape
  <2>3. MadeBy(D, sent[w], apiRuns')
    BY <1>2, <1>3 DEF MadeBy
  <2> HIDE DEF D
  <2> QED BY <1>2, <1>s, <1>e, <2>1, <2>2, <2>3, IssuesOf, ServiceMoves
<1>5. CASE SendNew(a, w, c)
  <2> DEFINE new == [id |-> RunOf(a), by |-> RunOf(a)]
             M == sent[w] \cup {new}
  <2>1. sent' = [sent EXCEPT ![w] = M] /\ UNCHANGED <<drafts, events, issues>> /\ MadeAt(a, w)
    BY <1>5 DEF SendNew
  <2>2. new \in [id : RunNames, by : RunNames] /\ new.id = RunOf(a)
    BY <1>2
  <2> HIDE DEF new
  <2>3. MailIs(w, drafts[w], M)
    BY <1>0, <1>2, <2>1, <2>2, MailOf DEF MailIs, ApiShape
  <2>4. MadeBy(drafts[w], M, apiRuns')
    BY <1>2, <1>3, <2>2 DEF MadeBy
  <2> HIDE DEF M
  <2> QED BY <1>2, <1>s, <1>e, <2>1, <2>3, <2>4, IssuesOf, ServiceMoves
<1>6. CASE SendDraft(a, w, c)
  <2>1. CASE Named(c) \in drafts[w]
    <3> DEFINE new == [id |-> Named(c), by |-> RunOf(a)]
               M == sent[w] \cup {new}
               D == drafts[w] \ {Named(c)}
    <3>1. /\ sent' = [sent EXCEPT ![w] = M] /\ drafts' = [drafts EXCEPT ![w] = D]
          /\ UNCHANGED <<events, issues>> /\ MadeAt(a, w)
      BY <1>6, <2>1 DEF SendDraft
    <3>2. Named(c) \in RunNames /\ \A m \in sent[w] : m.id # Named(c)
      BY <2>1, MailOf
    <3>3. new \in [id : RunNames, by : RunNames] /\ new.id = Named(c)
      BY <1>2, <3>2
    <3> HIDE DEF new
    <3>4. MailIs(w, D, M)
      BY <1>0, <3>1, <3>2, <3>3, MailOf DEF MailIs, ApiShape
    <3>5. MadeBy(D, M, apiRuns')
      BY <1>3, <2>1, <3>3 DEF MadeBy
    <3> HIDE DEF M, D
    <3> QED BY <1>2, <1>s, <1>e, <3>1, <3>4, <3>5, IssuesOf, ServiceMoves
  <2>2. CASE ~(Named(c) \in drafts[w])
    <3>1. UNCHANGED <<drafts, sent, events, issues>> /\ Refused(a)
      BY <1>6, <2>2 DEF SendDraft
    <3> QED BY <1>2, <1>3, <1>s, <1>e, <3>1, MailOf, IssuesOf, ServiceMoves
  <2> QED BY <2>1, <2>2
<1>7. CASE CreateEvent(a, w, c)
  <2> DEFINE e == [id |-> RunOf(a), start |-> c.at.start, end |-> c.at.end]
  <2>1. /\ c.tool = "create_event" /\ MadeAt(a, w) /\ UNCHANGED <<drafts, sent, issues>>
        /\ events' = [events EXCEPT ![w] = events[w] \cup {e}]
    BY <1>7 DEF CreateEvent
  <2>2. c.at \in Intervals
    BY <2>1 DEF ApiCalls
  <2>3. e \in [id : ApiActions \X Nat, start : 0..Hours, end : 0..Hours]
    BY <1>2, <2>2 DEF Intervals, RunNames
  <2> HIDE DEF e
  <2>4. events' \in [ApiProcesses -> Calendar]
    BY <1>0, <2>1, <2>3 DEF ApiShape, Calendar
  <2> QED BY <1>2, <1>3, <1>s, <2>1, <2>4, MailOf, IssuesOf, ServiceMoves
<1>8. CASE DeleteEvent(a, w, c)
  <2>1. /\ UNCHANGED <<drafts, sent, issues>> /\ (MadeAt(a, w) \/ Refused(a))
        /\ events' \in [ApiProcesses -> Calendar]
    BY <1>0, <1>8 DEF DeleteEvent, ApiShape, Calendar
  <2> QED BY <1>2, <1>3, <1>s, <2>1, MailOf, IssuesOf, ServiceMoves
<1>9. CASE CreateIssue(a, w, c)
  <2> DEFINE new == [number |-> NextNumber(w), by |-> RunOf(a), comments |-> {}]
             I == issues[w] \cup {new}
  <2>1. /\ MadeAt(a, w) /\ issues' = [issues EXCEPT ![w] = I] /\ UNCHANGED <<drafts, sent, events>>
    BY <1>9 DEF CreateIssue
  <2>2. new \in Issue /\ new.number = NextNumber(w)
    BY <1>2, NextNumberIs DEF Issue, RunNames
  <2> HIDE DEF new
  <2>3. I \in SUBSET Issue /\ I # {} /\ \A i, j \in I : i.number = j.number => i = j
    <3>1. \A i \in issues[w] : i.number \in Nat /\ i.number # NextNumber(w)
      BY IssuesOf, NextNumberIs DEF Issue
    <3> QED BY <2>2, <3>1, IssuesOf
  <2>4. \E n \in Nat : \A i \in I : i.number <= n
    <3>1. \A i \in I : i.number <= NextNumber(w)
      BY <2>2, IssuesOf, NextNumberIs DEF Issue
    <3> QED BY <3>1, NextNumberIs
  <2>5. IssuesAre(w, I)
    BY <2>1, <2>3, <2>4 DEF IssuesAre
  <2> HIDE DEF I
  <2> QED BY <1>2, <1>3, <1>s, <1>e, <2>1, <2>5, MailOf, ServiceMoves
<1>10. CASE Comment(a, w, c)
  <2> DEFINE found == {i \in issues[w] : i.number = c.number}
             more(i) == [i EXCEPT !.comments = @ \cup {RunOf(a)}]
             I == (issues[w] \ found) \cup {more(i) : i \in found}
  <2>1. CASE found = {}
    <3>1. UNCHANGED <<drafts, sent, events, issues>> /\ Refused(a)
      BY <1>10, <2>1 DEF Comment
    <3> QED BY <1>2, <1>3, <1>s, <1>e, <3>1, MailOf, IssuesOf, ServiceMoves
  <2>2. CASE found # {}
    <3>1. /\ MadeAt(a, w) /\ issues' = [issues EXCEPT ![w] = I] /\ UNCHANGED <<drafts, sent, events>>
      BY <1>10, <2>2 DEF Comment
    <3>2. \A i \in issues[w] : more(i) \in Issue /\ more(i).number = i.number
      BY <1>2, IssuesOf DEF Issue
    <3> HIDE DEF more
    <3>3. I \in SUBSET Issue /\ I # {} /\ \A i, j \in I : i.number = j.number => i = j
      BY <2>2, <3>2, IssuesOf
    <3>4. \E n \in Nat : \A i \in I : i.number <= n
      <4>1. PICK n \in Nat : \A i \in issues[w] : i.number <= n
        BY IssuesOf
      <4>2. \A i \in I : i.number <= n
        BY <3>2, <4>1
      <4> QED BY <4>2
    <3> HIDE DEF I, found
    <3>5. IssuesAre(w, I)
      BY <3>1, <3>3, <3>4 DEF IssuesAre
    <3> QED BY <1>2, <1>3, <1>s, <1>e, <3>1, <3>5, MailOf, ServiceMoves
  <2> QED BY <2>1, <2>2
<1> QED BY <1>4, <1>5, <1>6, <1>7, <1>8, <1>9, <1>10 DEF Perform

LEMMA ApiInvNext == ASSUME ApiInv, [ApiNext]_apiVars PROVE ApiInv'
<1>0. ApiShape
  BY DEF ApiInv
<1>1. ASSUME NEW a \in ApiActions, NEW c \in ApiCalls, NEW w \in ApiProcesses, Perform(a, w, c)
      PROVE  ApiInv'
  BY <1>1, PerformKeeps
(* Nothing but the records of the runs changes.                               *)
<1>2. ASSUME UNCHANGED <<drafts, sent, events, issues>>,
             apiRuns' \in [ApiActions -> Nat],
             \A d \in RunNames : d[2] <= apiRuns[d[1]] => d[2] <= apiRuns'[d[1]],
             apiCall' \in [ApiActions -> ApiCalls \cup {[tool |-> "none"]}],
             apiStage' \in [ApiActions -> ApiProcesses \cup {"new", "done", "failed"}]
      PROVE  ApiInv'
  <2>1. ApiShape' /\ DraftsSentOnce' /\ IssuesNumbered'
    BY <1>0, <1>2 DEF ApiShape, ApiInv, DraftsSentOnce, IssuesNumbered
  <2>2. \A w \in ApiProcesses : /\ \A d \in drafts[w] : d[2] <= apiRuns'[d[1]]
                                /\ \A m \in sent[w] : m.id[2] <= apiRuns'[m.id[1]]
    <3>1. \A w \in ApiProcesses : /\ \A d \in drafts[w] : d \in RunNames /\ d[2] <= apiRuns[d[1]]
                                  /\ \A m \in sent[w] : m.id \in RunNames /\ m.id[2] <= apiRuns[m.id[1]]
      BY <1>0 DEF ApiInv, ApiShape, Made
    <3> QED BY <1>2, <3>1
  <2> QED BY <1>2, <2>1, <2>2 DEF ApiInv, Made
<1>3. ASSUME NEW a \in ApiActions, NEW c \in ApiCalls, Denied(a, c) PROVE ApiInv'
  <2>1. Runs(a, c) /\ UNCHANGED <<drafts, sent, events, issues>>
    BY <1>3 DEF Denied
  <2>2. apiStage' \in [ApiActions -> ApiProcesses \cup {"new", "done", "failed"}]
    BY <1>0, <1>3 DEF Denied, Refused, ApiShape
  <2> QED BY <1>2, <2>1, <2>2, RunIsNew, MadeStays
<1>4. ASSUME NEW a \in ApiActions, ApiRecorded(a) \/ ApiLapse(a) PROVE ApiInv'
  <2>1. UNCHANGED <<drafts, sent, events, issues, apiCall, apiRuns>>
    BY <1>4 DEF ApiRecorded, ApiLapse
  <2>2. apiStage' \in [ApiActions -> ApiProcesses \cup {"new", "done", "failed"}]
    BY <1>0, <1>4 DEF ApiRecorded, ApiLapse, ApiShape
  <2>3. apiCall \in [ApiActions -> ApiCalls \cup {[tool |-> "none"]}] /\ apiRuns \in [ApiActions -> Nat]
    BY <1>0 DEF ApiShape
  <2> QED BY <1>2, <2>1, <2>2, <2>3
<1>5. ASSUME NEW w \in ApiProcesses, ProcessRestarts(w) PROVE ApiInv'
  <2>1. SeededIssue \in Issue /\ SeededIssue.number = 1
    BY DEF SeededIssue, Issue
  <2>2. MailIs(w, {}, {}) /\ MadeBy({}, {}, apiRuns')
    BY <1>5 DEF ProcessRestarts, MailIs, MadeBy
  <2>3. IssuesAre(w, {SeededIssue})
    BY <1>5, <2>1 DEF ProcessRestarts, IssuesAre
  <2>4. events' \in [ApiProcesses -> Calendar]
    BY <1>0, <1>5 DEF ProcessRestarts, ApiShape, Calendar
  <2>5. UNCHANGED <<apiCall, apiRuns>>
    BY <1>5 DEF ProcessRestarts
  <2>6. apiStage' \in [ApiActions -> ApiProcesses \cup {"new", "done", "failed"}]
    BY <1>0, <1>5 DEF ProcessRestarts, ApiShape
  <2>7. apiCall \in [ApiActions -> ApiCalls \cup {[tool |-> "none"]}] /\ apiRuns \in [ApiActions -> Nat]
    BY <1>0 DEF ApiShape
  <2> QED BY <2>2, <2>3, <2>4, <2>5, <2>6, <2>7, ServiceMoves
<1>6. CASE UNCHANGED apiVars
  <2>1. /\ apiCall \in [ApiActions -> ApiCalls \cup {[tool |-> "none"]}] /\ apiRuns \in [ApiActions -> Nat]
        /\ apiStage \in [ApiActions -> ApiProcesses \cup {"new", "done", "failed"}]
    BY <1>0 DEF ApiShape
  <2> QED BY <1>2, <1>6, <2>1 DEF apiVars
<1> QED BY <1>1, <1>3, <1>4, <1>5, <1>6 DEF ApiNext

(* Whatever actions run, are repeated or lose their process, each service     *)
(* sends a draft once and numbers its issues, and for every calendar the      *)
(* slots that find_free returns are the earliest that fit.                    *)
THEOREM ServicesKeepTheirBooks == ApiSpec => []ApiEffectsHold
<1>1. ApiInit => ApiInv
  <2> SUFFICES ASSUME ApiInit PROVE ApiInv
    OBVIOUS
  <2>1. SeededIssue \in Issue /\ SeededIssue.number = 1
    BY DEF SeededIssue, Issue
  <2>2. ApiShape
    BY <2>1 DEF ApiInit, ApiShape, Calendar
  <2>3. DraftsSentOnce /\ IssuesNumbered
    BY DEF ApiInit, DraftsSentOnce, IssuesNumbered
  <2>4. \A w \in ApiProcesses :
          drafts[w] = {} /\ sent[w] = {} /\ issues[w] = {SeededIssue}
    BY DEF ApiInit
  <2> QED BY <2>1, <2>2, <2>3, <2>4 DEF ApiInv
<1>2. ApiInv /\ [ApiNext]_apiVars => ApiInv'
  BY ApiInvNext
<1>3. ApiInv => ApiEffectsHold
  BY ApiShows
<1> QED BY <1>1, <1>2, <1>3, PTL DEF ApiSpec

------------------------------------------------------------------------------
(* Commits. What a commit reaches is found by following parents, and every    *)
(* parent was made before its child.                                          *)
Forest(cs, N) == \A k \in 1..N : cs[k].parent \in 0..(k - 1)
Turn(g, cs, k) == IF k = 0 THEN {} ELSE {k} \cup g[cs[k].parent]
Follows(g, cs, n) == \A k \in 0..n : g[k] = Turn(g, cs, k)
SameParents(cs, ds, n) == \A k \in 1..n : cs[k].parent = ds[k].parent

LEMMA FollowsExtends ==
    ASSUME NEW N \in Nat, NEW cs, Forest(cs, N), NEW m \in 0..(N - 1),
           NEW g \in [0..N -> SUBSET Nat], Follows(g, cs, m)
    PROVE  \E h \in [0..N -> SUBSET Nat] : Follows(h, cs, m + 1)
<1> DEFINE new == Turn(g, cs, m + 1)
           h == [g EXCEPT ![m + 1] = new]
<1>1. m + 1 \in 1..N /\ cs[m + 1].parent \in 0..m
  BY DEF Forest
<1>2. new \in SUBSET Nat
  BY <1>1 DEF Turn
<1> HIDE DEF new
<1>3. /\ h \in [0..N -> SUBSET Nat] /\ h[m + 1] = new
      /\ \A k \in 0..m : h[k] = g[k]
  BY <1>1, <1>2
<1> HIDE DEF h
<1>4. ASSUME NEW k \in 0..(m + 1) PROVE h[k] = Turn(h, cs, k)
  <2>1. CASE k = 0
    <3>1. 0 \in 0..m
      OBVIOUS
    <3> QED BY <1>3, <2>1, <3>1 DEF Follows, Turn
  <2>2. CASE k \in 1..m
    <3>1. cs[k].parent \in 0..m
      BY <1>1, <2>2 DEF Forest
    <3>2. k \in 0..m /\ k # 0
      BY <2>2
    <3> QED BY <1>3, <3>1, <3>2 DEF Follows, Turn
  <2>3. CASE k = m + 1
    BY <1>1, <1>3, <2>3 DEF new, Turn
  <2> QED BY <2>1, <2>2, <2>3
<1> QED BY <1>3, <1>4 DEF Follows

LEMMA FollowsExists ==
    ASSUME NEW N \in Nat, NEW cs, Forest(cs, N)
    PROVE  \E g \in [0..N -> SUBSET Nat] : Follows(g, cs, N)
<1> DEFINE Left == {j \in 0..N : \E g \in [0..N -> SUBSET Nat] : Follows(g, cs, N - j)}
           j == FirstOf(Left)
<1>1. N \in Left
  <2> DEFINE g == [k \in 0..N |-> {}]
  <2>1. g \in [0..N -> SUBSET Nat] /\ g[0] = {}
    OBVIOUS
  <2> HIDE DEF g
  <2>2. Follows(g, cs, 0)
    BY <2>1 DEF Follows, Turn
  <2> QED BY <2>1, <2>2
<1>2. j \in Left /\ \A i \in Left : j <= i
  <2>1. Left \in SUBSET Nat
    OBVIOUS
  <2> HIDE DEF Left
  <2> QED BY <1>1, <2>1, LeastOfSome
<1> HIDE DEF j
<1>3. PICK g \in [0..N -> SUBSET Nat] : Follows(g, cs, N - j)
  BY <1>2
<1>4. CASE j = 0
  BY <1>3, <1>4
<1>5. CASE j # 0
  <2>1. j \in 0..N /\ j - 1 \in 0..N /\ N - j \in 0..(N - 1) /\ N - j + 1 = N - (j - 1)
    BY <1>2, <1>5
  <2>2. \E h \in [0..N -> SUBSET Nat] : Follows(h, cs, N - (j - 1))
    BY <1>3, <2>1, FollowsExtends
  <2>3. j - 1 \in Left
    BY <2>1, <2>2
  <2> HIDE DEF Left
  <2> QED BY <1>2, <2>1, <2>3
<1> QED BY <1>4, <1>5

LEMMA FollowsAgree ==
    ASSUME NEW n \in Nat, NEW cs, NEW ds, Forest(cs, n), SameParents(cs, ds, n),
           NEW g, NEW h, Follows(g, cs, n), Follows(h, ds, n)
    PROVE  \A k \in 0..n : g[k] = h[k]
<1> DEFINE Differ == {k \in 0..n : g[k] # h[k]}
           k == FirstOf(Differ)
<1>1. SUFFICES ASSUME Differ # {} PROVE FALSE
  OBVIOUS
<1>2. k \in Differ /\ \A i \in Differ : k <= i
  <2>1. Differ \in SUBSET Nat
    OBVIOUS
  <2> HIDE DEF Differ
  <2> QED BY <1>1, <2>1, LeastOfSome
<1> HIDE DEF k
<1>3. k # 0
  BY <1>2 DEF Follows, Turn
<1>4. k \in 1..n /\ cs[k].parent \in 0..(k - 1) /\ ds[k].parent = cs[k].parent
  BY <1>2, <1>3 DEF Forest, SameParents
<1>5. g[cs[k].parent] = h[cs[k].parent]
  BY <1>2, <1>4
<1>6. g[k] = Turn(g, cs, k) /\ h[k] = Turn(h, ds, k)
  BY <1>4 DEF Follows
<1>7. Turn(g, cs, k) = Turn(h, ds, k)
  BY <1>4, <1>5 DEF Turn
<1> QED BY <1>2, <1>6, <1>7

(* What Reach computes is what any table that follows the parents holds.      *)
LEMMA ReachOf ==
    ASSUME NEW N \in Nat, NEW cs, Forest(cs, N), NEW g, Follows(g, cs, N), NEW n \in 0..N
    PROVE  Reach(cs, n) = g[n]
<1> DEFINE Eq(f) == f = [k \in 0..n |-> IF k = 0 THEN {} ELSE {k} \cup f[cs[k].parent]]
           f == CHOOSE f : Eq(f)
<1>1. Reach(cs, n) = f[n]
  BY DEF Reach
<1>2. Forest(cs, n) /\ Follows(g, cs, n)
  BY DEF Forest, Follows
<1>3. Eq([k \in 0..n |-> g[k]])
  <2> DEFINE h == [k \in 0..n |-> g[k]]
             r == [k \in 0..n |-> IF k = 0 THEN {} ELSE {k} \cup h[cs[k].parent]]
  <2>1. \A k \in 0..n : h[k] = r[k]
    <3> TAKE k \in 0..n
    <3>1. CASE k = 0
      BY <1>2, <3>1 DEF Follows, Turn
    <3>2. CASE k # 0
      <4>1. cs[k].parent \in 0..n /\ k \in 1..n
        BY <1>2, <3>2 DEF Forest
      <4>2. h[cs[k].parent] = g[cs[k].parent]
        BY <4>1
      <4> QED BY <1>2, <3>2, <4>2 DEF Follows, Turn
    <3> QED BY <3>1, <3>2
  <2> QED BY <2>1
<1>4. Eq(f)
  <2> HIDE DEF Eq
  <2> QED BY <1>3
<1> HIDE DEF f
<1>5. Follows(f, cs, n)
  BY <1>4 DEF Follows, Turn
<1>6. SameParents(cs, cs, n) /\ n \in Nat
  BY DEF SameParents
<1>7. f[n] = g[n]
  BY <1>2, <1>5, <1>6, FollowsAgree
<1> QED BY <1>1, <1>7

LEMMA ReachIs ==
    ASSUME NEW N \in Nat, NEW cs, Forest(cs, N)
    PROVE  /\ Reach(cs, 0) = {}
           /\ \A n \in 1..N : Reach(cs, n) = {n} \cup Reach(cs, cs[n].parent)
           /\ \A n \in 0..N : Reach(cs, n) \in SUBSET (1..n)
<1>1. PICK g \in [0..N -> SUBSET Nat] : Follows(g, cs, N)
  BY FollowsExists
<1>2. \A n \in 0..N : Reach(cs, n) = g[n]
  BY <1>1, ReachOf
<1>3. Reach(cs, 0) = {}
  BY <1>1, <1>2 DEF Follows, Turn
<1>4. ASSUME NEW n \in 1..N PROVE Reach(cs, n) = {n} \cup Reach(cs, cs[n].parent)
  <2>1. cs[n].parent \in 0..N /\ n \in 0..N /\ n # 0
    BY DEF Forest
  <2> QED BY <1>1, <1>2, <2>1 DEF Follows, Turn
<1>5. \A n \in 0..N : Reach(cs, n) \in SUBSET (1..n)
  <2> DEFINE Beyond == {n \in 0..N : Reach(cs, n) \notin SUBSET (1..n)}
             n == FirstOf(Beyond)
  <2>1. SUFFICES ASSUME Beyond # {} PROVE FALSE
    OBVIOUS
  <2>2. n \in Beyond /\ \A i \in Beyond : n <= i
    <3>1. Beyond \in SUBSET Nat
      OBVIOUS
    <3> HIDE DEF Beyond
    <3> QED BY <2>1, <3>1, LeastOfSome
  <2> HIDE DEF n
  <2>3. n # 0
    BY <1>3, <2>2
  <2>4. n \in 1..N /\ cs[n].parent \in 0..(n - 1)
    BY <2>2, <2>3 DEF Forest
  <2>5. Reach(cs, cs[n].parent) \in SUBSET (1..cs[n].parent)
    BY <2>2, <2>4
  <2>6. Reach(cs, n) \in SUBSET (1..n)
    BY <1>4, <2>4, <2>5
  <2> QED BY <2>2, <2>6
<1> QED BY <1>3, <1>4, <1>5

ReachRules(cs, N) ==
    /\ \A n \in 1..N : Reach(cs, n) = {n} \cup Reach(cs, cs[n].parent)
    /\ \A n \in 0..N : Reach(cs, n) \in SUBSET (1..n)

LEMMA ReachKeeps ==
    ASSUME NEW N \in Nat, NEW cs, Forest(cs, N)
    PROVE  ReachRules(cs, N)
BY ReachIs DEF ReachRules

LEMMA ReachStays ==
    ASSUME NEW N \in Nat, NEW cs, NEW ds, Forest(cs, N), SameParents(cs, ds, N)
    PROVE  Forest(ds, N) /\ \A n \in 0..N : Reach(cs, n) = Reach(ds, n)
<1>1. Forest(ds, N)
  BY DEF Forest, SameParents
<1>2. PICK g \in [0..N -> SUBSET Nat] : Follows(g, cs, N)
  BY FollowsExists
<1>3. PICK h \in [0..N -> SUBSET Nat] : Follows(h, ds, N)
  BY <1>1, FollowsExists
<1>4. \A n \in 0..N : g[n] = h[n]
  BY <1>2, <1>3, FollowsAgree
<1> QED BY <1>1, <1>2, <1>3, <1>4, ReachOf

(* What an action knows of its own commit while nobody else moves the head,   *)
(* and what lies between its looks at the head while no undo moves it back.   *)
CommitRow == [parent : Nat, by : Committers, holds : SUBSET Committers]
GitStages == {"new", "read", "staged", "committed", "done", "undoing", "undone", "failed"}

GitShape ==
    /\ \E N \in Nat : /\ commits \in [1..N -> CommitRow] /\ Forest(commits, N)
                      /\ head \in 0..N /\ parentRead \in [Committers -> 0..N]
                      /\ gitOutput \in [Committers -> [sha : 0..N, parent : 0..N]]
                      /\ window \in [Committers -> [from : 0..N, to : 0..N, looked : 0..N]]
    /\ index \in SUBSET Committers /\ gitStage \in [Committers -> GitStages]
    /\ overlapped \in SUBSET Committers /\ rewound \in SUBSET Committers

Produced(a, n, p) ==
    n \in Commits /\ commits[n].parent = p /\ commits[n].by = a /\ a \in commits[n].holds

OwnCommit(a) ==
    /\ gitStage[a] = "staged" => a \in index
    /\ a \notin overlapped =>
         /\ gitStage[a] \in {"read", "staged"} => head = parentRead[a]
         /\ gitStage[a] = "committed" => Produced(a, head, parentRead[a])
         /\ gitStage[a] \in {"done", "undoing", "undone"} =>
              Produced(a, gitOutput[a].sha, gitOutput[a].parent)
         /\ gitStage[a] = "undoing" => head = gitOutput[a].sha

InWindow(a) ==
    a \notin rewound =>
      /\ gitStage[a] \in {"read", "staged", "committed"} =>
           \A n \in Ancestry(head) \ Ancestry(parentRead[a]) : window[a].from < n
      /\ gitStage[a] \in {"done", "undoing", "undone"} =>
           \A n \in Ancestry(gitOutput[a].sha) \ Ancestry(gitOutput[a].parent) :
             window[a].from < n /\ n <= window[a].to
      /\ gitStage[a] = "undoing" =>
           \A n \in Ancestry(head) \ Ancestry(gitOutput[a].sha) : window[a].looked < n

GitInv == GitShape /\ \A a \in Committers : OwnCommit(a) /\ InWindow(a)

(* The shape for N commits: what GitShape says there is one N for.            *)
ShapeFor(N) ==
    /\ commits \in [1..N -> CommitRow] /\ Forest(commits, N)
    /\ head \in 0..N /\ parentRead \in [Committers -> 0..N]
    /\ gitOutput \in [Committers -> [sha : 0..N, parent : 0..N]]
    /\ window \in [Committers -> [from : 0..N, to : 0..N, looked : 0..N]]
    /\ index \in SUBSET Committers /\ gitStage \in [Committers -> GitStages]
    /\ overlapped \in SUBSET Committers /\ rewound \in SUBSET Committers

LEMMA ShapeIs == GitShape <=> \E N \in Nat : ShapeFor(N)
BY DEF GitShape, ShapeFor

LEMMA CountIs ==
    ASSUME NEW N \in Nat, ShapeFor(N)
    PROVE  Commits = 1..N /\ Cardinality(Commits) = N
<1>1. Commits = 1..N
  BY DEF ShapeFor, Commits
<1>2. Cardinality(1..N) = N
  BY FS_Interval
<1> QED BY <1>1, <1>2

(* An action that another one's step does not touch.                          *)
LEMMA GitFrame ==
    ASSUME NEW b \in Committers, OwnCommit(b), InWindow(b), UNCHANGED <<commits, head>>,
           index \subseteq index', gitStage'[b] = gitStage[b], parentRead'[b] = parentRead[b],
           gitOutput'[b] = gitOutput[b], window'[b] = window[b],
           b \in overlapped' <=> b \in overlapped, b \in rewound' <=> b \in rewound
    PROVE  OwnCommit(b)' /\ InWindow(b)'
<1>1. OwnCommit(b)'
  BY DEF OwnCommit, Produced, Commits
<1>2. InWindow(b)'
  BY DEF InWindow, Ancestry
<1> QED BY <1>1, <1>2

LEMMA GitInvNext == ASSUME GitInv, [GitNext]_gitVars PROVE GitInv'
<1>s. PICK N \in Nat : ShapeFor(N)
  BY ShapeIs DEF GitInv
<1>c. Commits = 1..N /\ Cardinality(Commits) = N
  BY <1>s, CountIs
<1>i. \A b \in Committers : OwnCommit(b) /\ InWindow(b)
  BY DEF GitInv
<1>n. N \in 0..N
  OBVIOUS
(* The shape of what a step changes.                                          *)
<1>w. ASSUME NEW a \in Committers, NEW k \in 0..N,
             \/ window' = [window EXCEPT ![a].from = k] \/ window' = [window EXCEPT ![a].to = k]
             \/ window' = [window EXCEPT ![a].looked = k]
      PROVE  /\ window' \in [Committers -> [from : 0..N, to : 0..N, looked : 0..N]]
             /\ \A b \in Committers \ {a} : window'[b] = window[b]
  <2>1. window \in [Committers -> [from : 0..N, to : 0..N, looked : 0..N]]
    BY <1>s DEF ShapeFor
  <2>2. CASE window' = [window EXCEPT ![a].from = k]
    <3> DEFINE r == [window[a] EXCEPT !.from = k]
    <3>1. window' = [window EXCEPT ![a] = r]
      BY <2>1, <2>2
    <3>2. r \in [from : 0..N, to : 0..N, looked : 0..N]
      BY <2>1
    <3> HIDE DEF r
    <3> QED BY <2>1, <3>1, <3>2
  <2>3. CASE window' = [window EXCEPT ![a].to = k]
    <3> DEFINE r == [window[a] EXCEPT !.to = k]
    <3>1. window' = [window EXCEPT ![a] = r]
      BY <2>1, <2>3
    <3>2. r \in [from : 0..N, to : 0..N, looked : 0..N]
      BY <2>1
    <3> HIDE DEF r
    <3> QED BY <2>1, <3>1, <3>2
  <2>4. CASE window' = [window EXCEPT ![a].looked = k]
    <3> DEFINE r == [window[a] EXCEPT !.looked = k]
    <3>1. window' = [window EXCEPT ![a] = r]
      BY <2>1, <2>4
    <3>2. r \in [from : 0..N, to : 0..N, looked : 0..N]
      BY <2>1
    <3> HIDE DEF r
    <3> QED BY <2>1, <3>1, <3>2
  <2> QED BY <1>w, <2>2, <2>3, <2>4
<1>g. ASSUME NEW a \in Committers, NEW st \in GitStages, GitTo(a, st)
      PROVE  /\ gitStage' \in [Committers -> GitStages] /\ gitStage'[a] = st
             /\ \A b \in Committers \ {a} : gitStage'[b] = gitStage[b]
  BY <1>s, <1>g DEF ShapeFor, GitTo
<1>l. {"new", "read", "staged", "committed", "done", "undoing", "undone", "failed"} \subseteq GitStages
  BY DEF GitStages
<1>q. ASSUME NEW M \in Nat, ShapeFor(M)', \A b \in Committers : OwnCommit(b)' /\ InWindow(b)'
      PROVE  GitInv'
  BY <1>q DEF GitInv, GitShape, ShapeFor
<1>1. ASSUME NEW a \in Committers, ReadParent(a) PROVE GitInv'
  <2>1. /\ GitTo(a, "read") /\ parentRead' = [parentRead EXCEPT ![a] = head]
        /\ window' = [window EXCEPT ![a].from = N]
        /\ UNCHANGED <<commits, head, index, gitOutput>>
        /\ overlapped' = overlapped \ {a} /\ rewound' = rewound \ {a}
    BY <1>1, <1>c DEF ReadParent
  <2>w. /\ window' \in [Committers -> [from : 0..N, to : 0..N, looked : 0..N]]
        /\ \A b \in Committers \ {a} : window'[b] = window[b]
    BY <1>w, <1>n, <2>1
  <2>g. /\ gitStage' \in [Committers -> GitStages] /\ gitStage'[a] = "read"
        /\ \A b \in Committers \ {a} : gitStage'[b] = gitStage[b]
    BY <1>g, <1>l, <2>1
  <2>2. ShapeFor(N)'
    BY <1>s, <2>1, <2>w, <2>g DEF ShapeFor
  <2>3. ASSUME NEW b \in Committers PROVE OwnCommit(b)' /\ InWindow(b)'
    <3>1. CASE b = a
      <4>1. gitStage'[a] = "read" /\ parentRead'[a] = head /\ head' = head
        BY <1>s, <2>1, <2>g DEF ShapeFor
      <4> QED BY <3>1, <4>1 DEF OwnCommit, InWindow
    <3>2. CASE b # a
      <4>1. /\ gitStage'[b] = gitStage[b] /\ parentRead'[b] = parentRead[b]
            /\ gitOutput'[b] = gitOutput[b] /\ window'[b] = window[b]
        BY <1>s, <2>1, <2>w, <2>g, <3>2 DEF ShapeFor
      <4> QED BY <1>i, <2>1, <3>2, <4>1, GitFrame
    <3> QED BY <3>1, <3>2
  <2> QED BY <1>q, <2>2, <2>3
<1>2. ASSUME NEW a \in Committers, StagePaths(a) PROVE GitInv'
  <2>1. /\ gitStage[a] = "read" /\ GitTo(a, "staged") /\ index' = index \cup {a}
        /\ UNCHANGED <<commits, head, parentRead, gitOutput, window, overlapped, rewound>>
    BY <1>2 DEF StagePaths
  <2>g. /\ gitStage' \in [Committers -> GitStages] /\ gitStage'[a] = "staged"
        /\ \A b \in Committers \ {a} : gitStage'[b] = gitStage[b]
    BY <1>g, <1>l, <2>1
  <2>2. ShapeFor(N)'
    BY <1>s, <2>1, <2>g DEF ShapeFor
  <2>3. ASSUME NEW b \in Committers PROVE OwnCommit(b)' /\ InWindow(b)'
    <3>1. CASE b = a
      <4>1. OwnCommit(a)'
        BY <1>i, <2>1, <2>g DEF OwnCommit
      <4>2. InWindow(a)'
        BY <1>i, <2>1, <2>g DEF InWindow, Ancestry
      <4> QED BY <3>1, <4>1, <4>2
    <3>2. CASE b # a
      BY <1>i, <2>1, <2>g, <3>2, GitFrame
    <3> QED BY <3>1, <3>2
  <2> QED BY <1>q, <2>2, <2>3
<1>3. ASSUME NEW a \in Committers, ReadSha(a) PROVE GitInv'
  <2> DEFINE o == [sha |-> head, parent |-> parentRead[a]]
  <2>1. /\ gitStage[a] = "committed" /\ GitTo(a, "done") /\ gitOutput' = [gitOutput EXCEPT ![a] = o]
        /\ window' = [window EXCEPT ![a].to = N]
        /\ UNCHANGED <<commits, head, index, parentRead, overlapped, rewound>>
    BY <1>3, <1>c DEF ReadSha
  <2>o. o \in [sha : 0..N, parent : 0..N] /\ o.sha = head /\ o.parent = parentRead[a]
    BY <1>s DEF ShapeFor
  <2> HIDE DEF o
  <2>w. /\ window' \in [Committers -> [from : 0..N, to : 0..N, looked : 0..N]]
        /\ \A b \in Committers \ {a} : window'[b] = window[b]
    BY <1>w, <1>n, <2>1
  <2>v. window'[a].to = N /\ window'[a].from = window[a].from
    BY <1>s, <2>1 DEF ShapeFor
  <2>g. /\ gitStage' \in [Committers -> GitStages] /\ gitStage'[a] = "done"
        /\ \A b \in Committers \ {a} : gitStage'[b] = gitStage[b]
    BY <1>g, <1>l, <2>1
  <2>p. gitOutput'[a] = o /\ \A b \in Committers \ {a} : gitOutput'[b] = gitOutput[b]
    BY <1>s, <2>1 DEF ShapeFor
  <2>2. ShapeFor(N)'
    BY <1>s, <2>1, <2>o, <2>w, <2>g DEF ShapeFor
  <2>3. ASSUME NEW b \in Committers PROVE OwnCommit(b)' /\ InWindow(b)'
    <3>1. CASE b = a
      <4>1. OwnCommit(a)'
        BY <1>i, <2>1, <2>g, <2>o, <2>p DEF OwnCommit, Produced, Commits
      <4>2. Ancestry(head) \in SUBSET (1..N)
        <5>1. Forest(commits, N) /\ head \in 0..N
          BY <1>s DEF ShapeFor
        <5>2. Reach(commits, head) \in SUBSET (1..head)
          BY <5>1, ReachIs
        <5> QED BY <5>1, <5>2 DEF Ancestry
      <4>3. InWindow(a)'
        BY <1>i, <2>1, <2>g, <2>o, <2>p, <2>v, <4>2 DEF InWindow, Ancestry
      <4> QED BY <3>1, <4>1, <4>3
    <3>2. CASE b # a
      BY <1>i, <2>1, <2>g, <2>p, <2>w, <3>2, GitFrame
    <3> QED BY <3>1, <3>2
  <2> QED BY <1>q, <2>2, <2>3
(* An action fails, or is killed.                                             *)
<1>4. ASSUME NEW a \in Committers, NEW st \in {"new", "done", "failed"}, GitTo(a, st),
             st = "done" => gitStage[a] = "undoing",
             UNCHANGED <<commits, head, index, parentRead, gitOutput, window, overlapped, rewound>>
      PROVE  GitInv'
  <2>g. /\ gitStage' \in [Committers -> GitStages] /\ gitStage'[a] = st
        /\ \A b \in Committers \ {a} : gitStage'[b] = gitStage[b]
    BY <1>g, <1>l, <1>4
  <2>2. ShapeFor(N)'
    BY <1>s, <1>4, <2>g DEF ShapeFor
  <2>3. ASSUME NEW b \in Committers PROVE OwnCommit(b)' /\ InWindow(b)'
    <3>1. CASE b = a
      <4>1. OwnCommit(a)'
        BY <1>i, <1>4, <2>g DEF OwnCommit, Produced, Commits
      <4>2. InWindow(a)'
        BY <1>i, <1>4, <2>g DEF InWindow, Ancestry
      <4> QED BY <3>1, <4>1, <4>2
    <3>2. CASE b # a
      BY <1>i, <1>4, <2>g, <3>2, GitFrame
    <3> QED BY <3>1, <3>2
  <2> QED BY <1>q, <2>2, <2>3
<1>5. ASSUME NEW a \in Committers, GitFails(a) \/ CommitterKilled(a) PROVE GitInv'
  <2>1. PICK st \in {"new", "done", "failed"} : GitTo(a, st) /\ (st = "done" => gitStage[a] = "undoing")
    BY <1>5 DEF GitFails, CommitterKilled
  <2>2. UNCHANGED <<commits, head, index, parentRead, gitOutput, window, overlapped, rewound>>
    BY <1>5 DEF GitFails, CommitterKilled
  <2> QED BY <1>4, <2>1, <2>2
<1>6. ASSUME NEW a \in Committers, UndoLooks(a) PROVE GitInv'
  <2> DEFINE st == IF head = gitOutput[a].sha THEN "undoing" ELSE "undone"
  <2>1. /\ gitStage[a] \in {"done", "undone"} /\ GitTo(a, st)
        /\ window' = [window EXCEPT ![a].looked = N]
        /\ UNCHANGED <<commits, head, index, parentRead, gitOutput, overlapped, rewound>>
    BY <1>6, <1>c DEF UndoLooks
  <2>o. st \in {"undoing", "undone"} /\ (st = "undoing" => head = gitOutput[a].sha)
    OBVIOUS
  <2> HIDE DEF st
  <2>w. /\ window' \in [Committers -> [from : 0..N, to : 0..N, looked : 0..N]]
        /\ \A b \in Committers \ {a} : window'[b] = window[b]
    BY <1>w, <1>n, <2>1
  <2>v. window'[a].to = window[a].to /\ window'[a].from = window[a].from
    BY <1>s, <2>1 DEF ShapeFor
  <2>g. /\ gitStage' \in [Committers -> GitStages] /\ gitStage'[a] = st
        /\ \A b \in Committers \ {a} : gitStage'[b] = gitStage[b]
    BY <1>g, <1>l, <2>1, <2>o
  <2>2. ShapeFor(N)'
    BY <1>s, <2>1, <2>w, <2>g DEF ShapeFor
  <2>3. ASSUME NEW b \in Committers PROVE OwnCommit(b)' /\ InWindow(b)'
    <3>1. CASE b = a
      <4>1. OwnCommit(a)'
        BY <1>i, <2>1, <2>g, <2>o DEF OwnCommit, Produced, Commits
      <4>2. InWindow(a)'
        BY <1>i, <2>1, <2>g, <2>o, <2>v DEF InWindow, Ancestry
      <4> QED BY <3>1, <4>1, <4>2
    <3>2. CASE b # a
      BY <1>i, <2>1, <2>g, <2>w, <3>2, GitFrame
    <3> QED BY <3>1, <3>2
  <2> QED BY <1>q, <2>2, <2>3
<1>7. ASSUME NEW a \in Committers, UndoResets(a) PROVE GitInv'
  <2>1. /\ gitStage[a] = "undoing" /\ GitTo(a, "undone") /\ head' = gitOutput[a].parent
        /\ UNCHANGED <<commits, index, parentRead, gitOutput, window>>
    BY <1>7 DEF UndoResets, MovesHead
  <2>m. /\ overlapped' = IF head' = head THEN overlapped ELSE overlapped \cup (Running \ {a})
        /\ rewound' = IF head' = head THEN rewound ELSE rewound \cup (Running \ {a})
    BY <1>7 DEF UndoResets, MovesHead
  <2>g. /\ gitStage' \in [Committers -> GitStages] /\ gitStage'[a] = "undone"
        /\ \A b \in Committers \ {a} : gitStage'[b] = gitStage[b]
    BY <1>g, <1>l, <2>1
  <2>2. ShapeFor(N)'
    <3>1. overlapped' \in SUBSET Committers /\ rewound' \in SUBSET Committers /\ head' \in 0..N
      BY <1>s, <2>1, <2>m DEF ShapeFor, Running
    <3> QED BY <1>s, <2>1, <2>g, <3>1 DEF ShapeFor
  <2>3. ASSUME NEW b \in Committers PROVE OwnCommit(b)' /\ InWindow(b)'
    <3>1. CASE b = a
      <4>0. overlapped \subseteq overlapped' /\ rewound \subseteq rewound'
        BY <2>m
      <4>1. OwnCommit(a)'
        BY <1>i, <2>1, <2>g, <4>0 DEF OwnCommit, Produced, Commits
      <4>2. InWindow(a)'
        BY <1>i, <2>1, <2>g, <4>0 DEF InWindow, Ancestry
      <4> QED BY <3>1, <4>1, <4>2
    <3>2. CASE b # a /\ head' = head
      BY <1>i, <2>1, <2>g, <2>m, <3>2, GitFrame
    <3>3. CASE b # a /\ head' # head
      <4>1. /\ gitStage'[b] = gitStage[b] /\ overlapped \subseteq overlapped' /\ rewound \subseteq rewound'
            /\ b \in Running => b \in overlapped' /\ b \in rewound'
        BY <2>g, <2>m, <3>3
      <4>2. OwnCommit(b)'
        BY <1>i, <2>1, <4>1 DEF OwnCommit, Produced, Commits, Running
      <4>3. InWindow(b)'
        BY <1>i, <2>1, <4>1 DEF InWindow, Ancestry, Running
      <4> QED BY <4>2, <4>3
    <3> QED BY <3>1, <3>2, <3>3
  <2> QED BY <1>q, <2>2, <2>3
<1>8. ASSUME NEW a \in Committers, CommitIndex(a) PROVE GitInv'
  <2> DEFINE M == N + 1
             row == [parent |-> head, by |-> a, holds |-> index]
  <2>1. /\ gitStage[a] = "staged" /\ GitTo(a, "committed") /\ head' = M
        /\ commits' = [k \in 1..M |-> IF k = M THEN row ELSE commits[k]]
        /\ overlapped' = IF M = head THEN overlapped ELSE overlapped \cup (Running \ {a})
        /\ UNCHANGED <<index, parentRead, gitOutput, window, rewound>>
    BY <1>8, <1>c DEF CommitIndex, MovesHead
  <2>r. row \in CommitRow /\ row.parent = head /\ row.by = a /\ row.holds = index
    BY <1>s DEF ShapeFor, CommitRow
  <2> HIDE DEF row
  <2>m. M \in Nat /\ M \in 1..M /\ M # head /\ M \notin 0..N /\ \A k \in 1..N : k \in 1..M /\ k # M
    BY <1>s DEF ShapeFor
  <2>c. /\ commits' \in [1..M -> CommitRow] /\ commits'[M] = row
        /\ \A k \in 1..N : commits'[k] = commits[k]
    <3>1. \A k \in 1..M : k # M => k \in 1..N
      OBVIOUS
    <3> QED BY <1>s, <2>1, <2>r, <2>m, <3>1 DEF ShapeFor
  <2>g. /\ gitStage' \in [Committers -> GitStages] /\ gitStage'[a] = "committed"
        /\ \A b \in Committers \ {a} : gitStage'[b] = gitStage[b]
    BY <1>g, <1>l, <2>1
  <2>f. Forest(commits', M)
    <3>1. \A k \in 1..N : commits[k].parent \in 0..(k - 1)
      BY <1>s DEF ShapeFor, Forest
    <3>2. head \in 0..(M - 1)
      BY <1>s DEF ShapeFor
    <3>3. \A k \in 1..M : commits'[k].parent \in 0..(k - 1)
      <4> TAKE k \in 1..M
      <4>1. CASE k = M
        BY <2>c, <2>r, <3>2, <4>1
      <4>2. CASE k # M
        <5>1. k \in 1..N
          BY <4>2
        <5> QED BY <2>c, <3>1, <5>1
      <4> QED BY <4>1, <4>2
    <3> QED BY <3>3 DEF Forest
  <2>2. ShapeFor(M)'
    <3>1. \A k \in 0..N : k \in 0..M
      OBVIOUS
    <3>2. head' \in 0..M /\ parentRead' \in [Committers -> 0..M]
      BY <1>s, <2>1, <3>1 DEF ShapeFor
    <3>3. gitOutput' \in [Committers -> [sha : 0..M, parent : 0..M]]
      BY <1>s, <2>1, <3>1 DEF ShapeFor
    <3>4. window' \in [Committers -> [from : 0..M, to : 0..M, looked : 0..M]]
      BY <1>s, <2>1, <3>1 DEF ShapeFor
    <3>5. overlapped' \in SUBSET Committers
      BY <1>s, <2>1 DEF ShapeFor, Running
    <3> HIDE DEF M
    <3> QED BY <1>s, <2>1, <2>c, <2>f, <2>g, <3>2, <3>3, <3>4, <3>5 DEF ShapeFor
  <2>a. /\ \A k \in 0..N : Reach(commits', k) = Reach(commits, k)
        /\ Reach(commits', M) = {M} \cup Reach(commits, head)
    <3>1. Forest(commits, N) /\ SameParents(commits, commits', N)
      BY <1>s, <2>c DEF ShapeFor, SameParents
    <3>2. \A k \in 0..N : Reach(commits, k) = Reach(commits', k)
      BY <3>1, ReachStays
    <3>3. Reach(commits', M) = {M} \cup Reach(commits', commits'[M].parent)
      BY <2>f, <2>m, ReachIs
    <3>4. commits'[M].parent = head /\ head \in 0..N
      BY <1>s, <2>c, <2>r DEF ShapeFor
    <3> QED BY <3>2, <3>3, <3>4
  <2>d. Commits' = 1..M /\ \A k \in Commits : k \in Commits' /\ commits'[k] = commits[k]
    <3>1. Commits' = 1..M
      BY <2>c DEF Commits
    <3> QED BY <1>c, <2>c, <2>m, <3>1
  <2> HIDE DEF M
  <2>3. ASSUME NEW b \in Committers PROVE OwnCommit(b)'
    <3>1. CASE b = a
      <4>1. a \in index /\ (a \notin overlapped => head = parentRead[a])
        BY <1>i, <2>1 DEF OwnCommit
      <4>2. a \notin overlapped' => Produced(a, head, parentRead[a])'
        BY <2>1, <2>c, <2>r, <2>d, <2>m, <4>1 DEF Produced
      <4> QED BY <2>1, <2>g, <3>1, <4>2 DEF OwnCommit
    <3>2. CASE b # a
      <4>1. /\ gitStage'[b] = gitStage[b] /\ overlapped \subseteq overlapped'
            /\ b \in Running => b \in overlapped'
        BY <2>1, <2>g, <2>m, <3>2
      <4>2. Produced(b, gitOutput[b].sha, gitOutput[b].parent)
              => Produced(b, gitOutput[b].sha, gitOutput[b].parent)'
        BY <2>1, <2>d DEF Produced
      <4>3. OwnCommit(b)
        BY <1>i
      <4> QED BY <2>1, <4>1, <4>2, <4>3 DEF OwnCommit, Running
    <3> QED BY <3>1, <3>2
  <2>4. ASSUME NEW b \in Committers PROVE InWindow(b)'
    <3>0. /\ parentRead[b] \in 0..N /\ gitOutput[b].sha \in 0..N /\ gitOutput[b].parent \in 0..N
          /\ window[b].from < M /\ window[b].looked < M
      BY <1>s DEF ShapeFor, M
    <3>1. /\ Reach(commits', parentRead[b]) = Reach(commits, parentRead[b])
          /\ Reach(commits', gitOutput[b].sha) = Reach(commits, gitOutput[b].sha)
          /\ Reach(commits', gitOutput[b].parent) = Reach(commits, gitOutput[b].parent)
      BY <2>a, <3>0
    <3>2. gitStage'[b] = gitStage[b] \/ (gitStage[b] = "staged" /\ gitStage'[b] = "committed")
      BY <2>1, <2>g
    <3>3. InWindow(b)
      BY <1>i
    <3> QED BY <2>1, <2>a, <3>0, <3>1, <3>2, <3>3 DEF InWindow, Ancestry
  <2> QED BY <1>q, <2>2, <2>3, <2>4, <2>m
<1>9. ASSUME Push \/ UNCHANGED gitVars PROVE GitInv'
  <2>1. UNCHANGED <<commits, head, index, gitStage, parentRead, gitOutput, window, overlapped, rewound>>
    BY <1>9 DEF Push, gitVars
  <2>2. ShapeFor(N)'
    BY <1>s, <2>1 DEF ShapeFor
  <2>3. ASSUME NEW b \in Committers PROVE OwnCommit(b)' /\ InWindow(b)'
    BY <1>i, <2>1, GitFrame
  <2> QED BY <1>q, <2>2, <2>3
<1> QED BY <1>1, <1>2, <1>3, <1>5, <1>6, <1>7, <1>8, <1>9 DEF GitNext

(* What an undo drops, in a state that satisfies the invariant.               *)
LEMMA UndoDrops ==
    ASSUME GitInv, NEW a \in Committers, UndoResets(a)
    PROVE  /\ a \notin rewound =>
                \A n \in Dropped : \/ window[a].from < n /\ n <= window[a].to
                                   \/ window[a].looked < n
           /\ a \notin overlapped => /\ Dropped = {gitOutput[a].sha} /\ commits[gitOutput[a].sha].by = a
                                      /\ Ancestry(head') \subseteq Ancestry(head)
<1>s. PICK N \in Nat : ShapeFor(N)
  BY ShapeIs DEF GitInv
<1>c. Commits = 1..N /\ Forest(commits, N)
  BY <1>s, CountIs DEF ShapeFor
<1>1. gitStage[a] = "undoing" /\ head' = gitOutput[a].parent
  BY DEF UndoResets, MovesHead
<1>2. OwnCommit(a) /\ InWindow(a)
  BY DEF GitInv
<1>3. a \notin rewound =>
         \A n \in Dropped : \/ window[a].from < n /\ n <= window[a].to
                            \/ window[a].looked < n
  BY <1>1, <1>2 DEF InWindow, Dropped
<1>4. ASSUME a \notin overlapped
      PROVE  /\ Dropped = {gitOutput[a].sha} /\ commits[gitOutput[a].sha].by = a
             /\ Ancestry(head') \subseteq Ancestry(head)
  <2> DEFINE sha == gitOutput[a].sha
             p == gitOutput[a].parent
  <2>1. head = sha /\ sha \in 1..N /\ commits[sha].parent = p /\ commits[sha].by = a
    BY <1>1, <1>2, <1>4, <1>c DEF OwnCommit, Produced
  <2>0. /\ \A n \in 1..N : Reach(commits, n) = {n} \cup Reach(commits, commits[n].parent)
        /\ \A n \in 0..N : Reach(commits, n) \in SUBSET (1..n)
    <3>1. ReachRules(commits, N)
      BY <1>c, ReachKeeps
    <3> QED BY <3>1 DEF ReachRules
  <2>2. Reach(commits, sha) = {sha} \cup Reach(commits, p)
    <3> HIDE DEF sha, p
    <3> QED BY <2>0, <2>1
  <2>3. p \in 0..N /\ p < sha
    BY <1>c, <2>1 DEF Forest
  <2>4. Reach(commits, p) \in SUBSET (1..p)
    BY <2>0, <2>3
  <2>5. sha \notin Reach(commits, p)
    BY <2>1, <2>3, <2>4
  <2> QED BY <1>1, <2>1, <2>2, <2>5 DEF Dropped, Ancestry
<1> QED BY <1>3, <1>4

(* However many actions commit and undo in one repository, their commands     *)
(* interleaved and cut short at any point: a commit holds the change it was   *)
(* asked to commit, and its undo drops nothing but what the window allows.    *)
THEOREM UndoLeavesOthersAlone == GitSpec => CommitsAreUndoneAlone
<1> DEFINE Right ==
             \A a \in Committers : Undoing(a) =>
               /\ a \notin rewound =>
                     \A n \in Dropped : \/ window[a].from < n /\ n <= window[a].to
                                        \/ window[a].looked < n
               /\ a \notin overlapped =>
                     /\ Dropped = {gitOutput[a].sha} /\ commits[gitOutput[a].sha].by = a
                     /\ Ancestry(head') \subseteq Ancestry(head)
<1>1. GitInit => GitInv
  <2> SUFFICES ASSUME GitInit PROVE GitInv
    OBVIOUS
  <2>1. ShapeFor(0)
    <3>1. commits \in [1..0 -> CommitRow] /\ Forest(commits, 0)
      BY DEF GitInit, Forest
    <3> QED BY <3>1 DEF GitInit, ShapeFor, GitStages
  <2>2. GitShape
    BY <2>1, ShapeIs
  <2>3. \A a \in Committers : gitStage[a] = "new"
    BY DEF GitInit
  <2> QED BY <2>2, <2>3 DEF GitInv, OwnCommit, InWindow
<1>2. GitInv /\ [GitNext]_gitVars => GitInv'
  BY GitInvNext
<1>3. GitInv => CommitHoldsItsPaths
  BY DEF GitInv, OwnCommit, Produced, CommitHoldsItsPaths
<1>4. GitInv /\ [GitNext]_gitVars => [Right]_gitVars
  <2> SUFFICES ASSUME GitInv, GitNext, NEW a \in Committers, Undoing(a)
               PROVE  UndoResets(a)
    BY UndoDrops
  <2>1. gitStage \in [Committers -> GitStages]
    BY DEF GitInv, GitShape
  <2>2. gitStage[a] = "undoing" /\ gitStage'[a] = "undone"
    BY DEF Undoing
  <2>3. ASSUME NEW b \in Committers, NEW st, GitTo(b, st), st # "undone" PROVE FALSE
    BY <2>1, <2>2, <2>3 DEF GitTo
  <2>4. ASSUME NEW b \in Committers, UndoLooks(b) PROVE FALSE
    BY <2>1, <2>2, <2>4 DEF UndoLooks, GitTo
  <2>5. ASSUME NEW b \in Committers, UndoResets(b) PROVE b = a
    BY <2>1, <2>2, <2>5 DEF UndoResets, GitTo
  <2>6. ASSUME NEW b \in Committers, GitFails(b) \/ CommitterKilled(b) PROVE FALSE
    BY <2>3, <2>6 DEF GitFails, CommitterKilled
  <2>7. ~Push
    BY <2>2 DEF Push
  <2> QED BY <2>3, <2>4, <2>5, <2>6, <2>7 DEF GitNext, ReadParent, StagePaths, CommitIndex, ReadSha
<1>5. GitSpec => []CommitHoldsItsPaths /\ [][Right]_gitVars
  BY <1>1, <1>2, <1>3, <1>4, PTL DEF GitSpec
<1>6. [Right]_gitVars =>
        /\ [\A a \in Committers : Undoing(a) /\ a \notin rewound =>
               \A n \in Dropped : \/ window[a].from < n /\ n <= window[a].to
                                  \/ window[a].looked < n]_gitVars
        /\ [\A a \in Committers : Undoing(a) /\ a \notin overlapped =>
               /\ Dropped = {gitOutput[a].sha} /\ commits[gitOutput[a].sha].by = a
               /\ Ancestry(head') \subseteq Ancestry(head)]_gitVars
  OBVIOUS
<1> QED BY <1>5, <1>6, PTL DEF CommitsAreUndoneAlone, UndoDropsOnlyItsWindow, UndoDropsOwnCommit

------------------------------------------------------------------------------
(* The file tools.                                                          *)

(* What an undo needs of a stored output: the backup is what was at the      *)
(* destination, if anything was, and that was no directory.                  *)
SavedIsBefore(a) ==
    LET old == before[a][call[a].dest] IN
    /\ result[a].kept <=> old # Absent
    /\ result[a].kept => backup[a] = old
    /\ ~IsTree(old)

WriteSound(a) ==
    a \notin repeated =>
        CASE stage[a] = "new" -> PutBack(a)
          [] stage[a] \in {"saved", "undone"} -> PutBack(a) /\ SavedIsBefore(a)
          [] OTHER -> tree[call[a].dest] = a /\ SavedIsBefore(a)

Moved(a) ==
    /\ tree[call[a].src] = Absent
    /\ tree[call[a].dest] = before[a][call[a].src]

MoveSound(a) ==
    a \notin repeated \/ before[a][call[a].dest] = Absent =>
        IF before[a][call[a].src] # Absent
        THEN CASE stage[a] = "new" -> IF a \in repeated THEN Moved(a) ELSE PutBack(a)
               [] stage[a] \in {"saved", "undone"} -> PutBack(a) /\ SavedIsBefore(a) /\ (stage[a] = "saved" => a \notin repeated)
               [] OTHER -> Moved(a) /\ SavedIsBefore(a)
        ELSE CASE stage[a] = "new" -> PutBack(a)
               [] stage[a] \in {"applied", "done"} ->
                    ~result[a].kept /\ before[a][call[a].dest] # Absent
               [] stage[a] = "undone" -> ~result[a].kept /\ (Exists(call[a].src) \/ ~Exists(call[a].dest))
               [] OTHER -> FALSE

CopySound(a) ==
    a \notin repeated =>
        /\ stage[a] # "new" => before[a][call[a].src] # Absent
        /\ CASE stage[a] = "new" -> PutBack(a)
             [] stage[a] \in {"saved", "undone"} -> PutBack(a) /\ SavedIsBefore(a)
             [] OTHER -> /\ tree[call[a].src] = before[a][call[a].src]
                         /\ tree[call[a].dest] = before[a][call[a].src]
                         /\ SavedIsBefore(a)

DeleteSound(a) ==
    LET p == call[a].src IN
    /\ stage[a] # "new" \/ a \in repeated => before[a][p] # Absent
    /\ CASE stage[a] = "new" /\ a \notin repeated -> PutBack(a) /\ trash[a] \in {Absent, EmptySlot} /\ (trash[a] # Absent => before[a][p] # Absent)
         [] stage[a] = "new" /\ a \in repeated -> tree[p] = Absent /\ trash[a] = before[a][p]
         [] stage[a] = "saved" -> PutBack(a) /\ trash[a] = EmptySlot /\ a \notin repeated
         [] stage[a] = "undone" -> PutBack(a)
         [] OTHER -> /\ tree[p] = Absent /\ trash[a] = before[a][p]
                     /\ result[a].trashed = trash[a]

ActionSound(a) ==
    /\ OnePath(call[a])
    /\ stage[a] = "new" /\ reruns = 0 => call[a] = NoCall
    /\ call[a] = NoCall => /\ stage[a] = "new" /\ a \notin repeated
                           /\ backup[a] = Absent /\ trash[a] = Absent
    /\ trash[a] # Absent => call[a].tool = "delete"
    /\ call[a] # NoCall /\ stage[a] # "failed" /\ a \notin disturbed =>
         /\ call[a].tool = "write" => WriteSound(a)
         /\ call[a].tool = "move" => MoveSound(a)
         /\ call[a].tool = "copy" => CopySound(a)
         /\ call[a].tool = "delete" => DeleteSound(a)

FilesInv ==
    /\ FilesTypeOK
    /\ reruns = 0 => repeated = {}
    /\ \A a \in FileActions : ActionSound(a)
    /\ OriginalsAreKept

-----------------------------------------------------------------------------
LEMMA FileConstants ==
    /\ \A v \in Paths \cup FileActions : v # Absent /\ v # EmptySlot
    /\ \A p \in Paths : p \notin FileActions
    /\ \A a \in FileActions : ~IsTree(a)
    /\ ~IsTree(Absent)
    /\ NoCall \notin FileCalls
BY FileAssumption DEF IsTree, NoCall, FileCalls

(* The parameters of a call.                                                *)
LEMMA CallIs ==
    ASSUME NEW c \in FileCalls
    PROVE  /\ c.tool \in {"write", "delete", "move", "copy"}
           /\ c.src \in Paths /\ c.dest \in Paths
           /\ c.tool \in {"move", "copy"} => c.src # c.dest
           /\ c # NoCall
BY DEF FileCalls, NoCall

LEMMA CallsMade ==
    ASSUME FilesTypeOK, \A a \in FileActions : ActionSound(a), NEW a \in FileActions,
           stage[a] # "new" \/ call[a].tool # "none"
    PROVE  /\ call[a] \in FileCalls /\ call[a] # NoCall
           /\ call[a].tool \in {"write", "delete", "move", "copy"}
           /\ call[a].src \in Paths /\ call[a].dest \in Paths
           /\ call[a].tool \in {"move", "copy"} => call[a].src # call[a].dest
           /\ call[a].tool \in {"write", "delete"} => call[a].src = call[a].dest
<1>1. call[a] # NoCall /\ call[a] \in FileCalls
  BY DEF ActionSound, FilesTypeOK, NoCall
<1>2. call[a].tool \in {"write", "delete"} => call[a].src = call[a].dest
  BY DEF ActionSound, OnePath
<1> QED BY <1>1, <1>2, CallIs

-----------------------------------------------------------------------------
LEMMA FilesTypeInit == FilesInit => FilesTypeOK
<1> SUFFICES ASSUME FilesInit PROVE FilesTypeOK
  OBVIOUS
<1>1. tree \in [Paths -> FileContents]
  BY DEF FilesInit, FileContents
<1>2. NoResult \in [kept: BOOLEAN, trashed: FileContents]
  BY DEF NoResult, FileContents
<1>3. before \in [FileActions -> [Paths -> FileContents]]
  BY <1>1 DEF FilesInit
<1>4. /\ backup \in [FileActions -> FileContents] /\ trash \in [FileActions -> FileContents]
      /\ stage \in [FileActions -> FileStages]
  BY DEF FilesInit, FileContents, FileStages
<1>5. /\ call \in [FileActions -> FileCalls \cup {NoCall}]
      /\ result \in [FileActions -> [kept: BOOLEAN, trashed: FileContents]]
  BY <1>2 DEF FilesInit
<1>6. 0 \in 0..MaxReruns
  BY FileAssumption
<1>7. disturbed \subseteq FileActions /\ blind \in BOOLEAN /\ repeated \subseteq FileActions /\ reruns \in 0..MaxReruns
  BY <1>6 DEF FilesInit
<1> QED BY <1>1, <1>3, <1>4, <1>5, <1>7 DEF FilesTypeOK

LEMMA TouchesTypes ==
    ASSUME FilesTypeOK, NEW a \in FileActions, NEW new \in [Paths -> FileContents], Touches(a, new)
    PROVE  tree' \in [Paths -> FileContents] /\ disturbed' \subseteq FileActions /\ blind' \in BOOLEAN
BY DEF FilesTypeOK, Touches

LEMMA LandsTypes ==
    ASSUME FilesTypeOK, NEW p \in Paths, NEW v \in FileContents
    PROVE  Lands(p, v) \in [Paths -> FileContents]
BY DEF FilesTypeOK, Lands

LEMMA PrepareTypes ==
    ASSUME FilesTypeOK, NEW a \in FileActions, NEW c \in FileCalls, PrepareFile(a, c)
    PROVE  FilesTypeOK'
<1>0. Absent \in FileContents /\ EmptySlot \in FileContents /\ c.src \in Paths /\ c.dest \in Paths
  BY CallIs DEF FileContents
<1>1. /\ call' \in [FileActions -> FileCalls \cup {NoCall}]
      /\ before' \in [FileActions -> [Paths -> FileContents]]
      /\ repeated' = repeated /\ reruns' = reruns
  <2>1. PrepareWrite(a, c) \/ PrepareMove(a, c) \/ PrepareCopy(a, c) \/ PrepareDelete(a, c)
    BY DEF PrepareFile
  <2>2. /\ PrepareWrite(a, c) => Starts(a, c)
        /\ PrepareCopy(a, c) => Starts(a, c)
    BY DEF PrepareWrite, PrepareCopy
  <2>3. PrepareMove(a, c) => Starts(a, c)
    BY DEF PrepareMove
  <2>4. PrepareDelete(a, c) => Starts(a, c)
    BY DEF PrepareDelete
  <2>5. Starts(a, c)
    BY <2>1, <2>2, <2>3, <2>4
  <2> QED BY <2>5 DEF Starts, FilesTypeOK
<1>2. /\ tree' = tree /\ disturbed' = disturbed /\ blind' = blind
      /\ stage' \in [FileActions -> FileStages]
      /\ backup' \in [FileActions -> FileContents] /\ trash' \in [FileActions -> FileContents]
      /\ result' \in [FileActions -> [kept: BOOLEAN, trashed: FileContents]]
  <2>1. ASSUME Fails(a) PROVE <1>2!:
    BY <2>1 DEF Fails, Same, To, FilesTypeOK, FileStages
  <2>2. ASSUME NEW p \in Paths, Backed(a, p) PROVE <1>2!:
    BY <1>0, <2>2 DEF Backed, Same, To, Answers, FilesTypeOK, FileStages, Exists
  <2>3. ASSUME To(a, "applied"), Same, Answers(a, FALSE, Absent), UNCHANGED <<backup, trash>> PROVE <1>2!:
    BY <1>0, <2>3 DEF Same, To, Answers, FilesTypeOK, FileStages
  <2>4. ASSUME To(a, "applied"), Same, Answers(a, FALSE, trash[a]), UNCHANGED <<backup, trash>> PROVE <1>2!:
    BY <1>0, <2>4 DEF Same, To, Answers, FilesTypeOK, FileStages
  <2>5. ASSUME To(a, "saved"), Same, UNCHANGED <<backup, result>>,
               trash' = [trash EXCEPT ![a] = IF @ = Absent THEN EmptySlot ELSE @] PROVE <1>2!:
    BY <1>0, <2>5 DEF Same, To, Answers, FilesTypeOK, FileStages
  <2>6. CASE PrepareWrite(a, c)
    BY <1>0, <2>1, <2>2, <2>6 DEF PrepareWrite
  <2>7. CASE PrepareMove(a, c)
    BY <1>0, <2>1, <2>2, <2>3, <2>7 DEF PrepareMove
  <2>8. CASE PrepareCopy(a, c)
    BY <1>0, <2>1, <2>2, <2>8 DEF PrepareCopy
  <2>9. CASE PrepareDelete(a, c)
    BY <1>0, <2>1, <2>4, <2>5, <2>9 DEF PrepareDelete
  <2> QED BY <2>6, <2>7, <2>8, <2>9 DEF PrepareFile
<1> QED BY <1>1, <1>2 DEF FilesTypeOK

LEMMA ApplyTypes ==
    ASSUME FilesInv, NEW a \in FileActions, ApplyFile(a)
    PROVE  FilesTypeOK'
<1>0. /\ Absent \in FileContents /\ a \in FileContents /\ stage[a] = "saved"
      /\ call[a].src \in Paths /\ call[a].dest \in Paths /\ FilesTypeOK
  <2>1. stage[a] = "saved" /\ FilesTypeOK
    BY DEF FilesInv, ApplyFile, ApplyWrite, ApplyMove, ApplyCopy, ApplyDelete, Changing
  <2> QED BY <2>1, CallsMade DEF FilesInv, FileContents
<1>1. UNCHANGED <<backup, call, before, repeated, reruns>>
  BY DEF ApplyFile, ApplyWrite, ApplyMove, ApplyCopy, ApplyDelete, Changing
<1>2. tree[call[a].src] \in FileContents
  BY <1>0 DEF FilesTypeOK
<1>3. /\ tree' \in [Paths -> FileContents] /\ disturbed' \subseteq FileActions /\ blind' \in BOOLEAN
      /\ stage' \in [FileActions -> FileStages]
      /\ trash' \in [FileActions -> FileContents]
      /\ result' \in [FileActions -> [kept: BOOLEAN, trashed: FileContents]]
  <2>1. ASSUME Breaks(a) PROVE <1>3!:
    BY <1>0, <2>1 DEF Breaks, Same, To, FilesTypeOK, FileStages
  <2>2. ASSUME NEW new \in [Paths -> FileContents], Changes(a, new) PROVE <1>3!:
    <3>1. Touches(a, new) /\ To(a, "applied") /\ UNCHANGED <<trash, result>>
      BY <2>2 DEF Changes
    <3> QED BY <3>1, <1>0, TouchesTypes DEF To, FilesTypeOK, FileStages
  <2>3. CASE ApplyWrite(a)
    <3>1. [tree EXCEPT ![call[a].dest] = a] \in [Paths -> FileContents]
      BY <1>0 DEF FilesTypeOK
    <3> QED BY <3>1, <2>1, <2>2, <2>3 DEF ApplyWrite
  <2>4. CASE ApplyMove(a)
    <3>1. Lands(call[a].dest, tree[call[a].src]) \in [Paths -> FileContents]
      BY <1>0, <1>2, LandsTypes
    <3>2. [Lands(call[a].dest, tree[call[a].src]) EXCEPT ![call[a].src] = Absent] \in [Paths -> FileContents]
      BY <3>1, <1>0
    <3> QED BY <3>2, <2>1, <2>2, <2>4 DEF ApplyMove
  <2>5. CASE ApplyCopy(a)
    <3>1. Lands(call[a].dest, tree[call[a].src]) \in [Paths -> FileContents]
      BY <1>0, <1>2, LandsTypes
    <3>2. [tree EXCEPT ![call[a].dest] = tree[call[a].src]] \in [Paths -> FileContents]
      BY <1>0, <1>2 DEF FilesTypeOK
    <3>3. \/ Breaks(a) \/ Changes(a, Lands(call[a].dest, tree[call[a].src]))
          \/ Changes(a, [tree EXCEPT ![call[a].dest] = tree[call[a].src]])
      BY <2>5 DEF ApplyCopy
    <3> QED BY <3>1, <3>2, <3>3, <2>1, <2>2
  <2>6. CASE ApplyDelete(a)
    <3>1. CASE ~Exists(call[a].src)
      BY <3>1, <2>1, <2>6 DEF ApplyDelete
    <3>2. CASE Exists(call[a].src)
      <4>1. [tree EXCEPT ![call[a].src] = Absent] \in [Paths -> FileContents]
        BY <1>0 DEF FilesTypeOK
      <4>2. /\ To(a, "applied") /\ Touches(a, [tree EXCEPT ![call[a].src] = Absent])
            /\ trash' = [trash EXCEPT ![a] = tree[call[a].src]]
            /\ Answers(a, FALSE, tree[call[a].src])
        BY <3>2, <2>6 DEF ApplyDelete
      <4> QED BY <4>1, <4>2, <1>0, <1>2, TouchesTypes DEF To, Answers, FilesTypeOK, FileStages
    <3> QED BY <3>1, <3>2
  <2> QED BY <2>3, <2>4, <2>5, <2>6 DEF ApplyFile
<1> QED BY <1>0, <1>1, <1>3 DEF FilesTypeOK

LEMMA UndoTypes ==
    ASSUME FilesInv, NEW a \in FileActions, FileUndo(a)
    PROVE  FilesTypeOK'
<1>0. /\ Absent \in FileContents /\ EmptySlot \in FileContents
      /\ call[a].src \in Paths /\ call[a].dest \in Paths /\ FilesTypeOK
  <2>1. stage[a] # "new" /\ FilesTypeOK
    BY DEF FilesInv, FileUndo
  <2> QED BY <2>1, CallsMade DEF FilesInv, FileContents
<1>1. UNCHANGED <<backup, call, result, before, repeated, reruns>>
  BY DEF FileUndo
<1>2. /\ tree[call[a].src] \in FileContents /\ tree[call[a].dest] \in FileContents
      /\ backup[a] \in FileContents /\ trash[a] \in FileContents
  BY <1>0 DEF FilesTypeOK
<1>3. /\ tree' \in [Paths -> FileContents] /\ disturbed' \subseteq FileActions /\ blind' \in BOOLEAN
      /\ stage' \in [FileActions -> FileStages]
      /\ trash' \in [FileActions -> FileContents]
  <2>2. ASSUME NEW new \in [Paths -> FileContents], Undone(a, new) PROVE <1>3!:
    <3>1. Touches(a, new) /\ To(a, "undone") /\ UNCHANGED trash
      BY <2>2 DEF Undone
    <3> QED BY <3>1, <1>0, TouchesTypes DEF To, FilesTypeOK, FileStages
  <2>3. CASE UndoWrite(a)
    <3>1. Lands(call[a].dest, backup[a]) \in [Paths -> FileContents]
      BY <1>0, <1>2, LandsTypes
    <3>2. [tree EXCEPT ![call[a].dest] = Absent] \in [Paths -> FileContents]
      BY <1>0 DEF FilesTypeOK
    <3> QED BY <3>1, <3>2, <2>2, <2>3 DEF UndoWrite
  <2>4. CASE UndoMove(a)
    <3> DEFINE back == IF Exists(call[a].dest) /\ ~Exists(call[a].src)
                THEN [tree EXCEPT ![call[a].src] = tree[call[a].dest], ![call[a].dest] = Absent] ELSE tree
    <3>1. back \in [Paths -> FileContents]
      BY <1>0, <1>2 DEF FilesTypeOK
    <3>2. Undone(a, IF result[a].kept THEN [back EXCEPT ![call[a].dest] = backup[a]] ELSE back)
      BY <2>4 DEF UndoMove
    <3> HIDE DEF back
    <3>3. (IF result[a].kept THEN [back EXCEPT ![call[a].dest] = backup[a]] ELSE back) \in [Paths -> FileContents]
      BY <3>1, <1>0, <1>2
    <3> QED BY <3>2, <3>3, <2>2
  <2>5. CASE UndoCopy(a)
    <3>1. [tree EXCEPT ![call[a].dest] = IF result[a].kept THEN backup[a] ELSE Absent] \in [Paths -> FileContents]
      BY <1>0, <1>2 DEF FilesTypeOK
    <3> QED BY <3>1, <2>2, <2>5 DEF UndoCopy
  <2>6. CASE UndoDelete(a)
    <3>1. CASE ~(trash[a] = result[a].trashed /\ ~Exists(call[a].src))
      BY <3>1, <1>0, <2>6 DEF UndoDelete, Same, To, FilesTypeOK, FileStages
    <3>2. CASE trash[a] = result[a].trashed /\ ~Exists(call[a].src)
      <4>1. [tree EXCEPT ![call[a].src] = trash[a]] \in [Paths -> FileContents]
        BY <1>0, <1>2 DEF FilesTypeOK
      <4>2. /\ To(a, "undone") /\ Touches(a, [tree EXCEPT ![call[a].src] = trash[a]])
            /\ trash' = [trash EXCEPT ![a] = IF @ = EmptySlot THEN Absent ELSE EmptySlot]
        BY <3>2, <2>6 DEF UndoDelete
      <4> QED BY <4>1, <4>2, <1>0, <1>2, TouchesTypes DEF To, FilesTypeOK, FileStages
    <3> QED BY <3>1, <3>2
  <2> QED BY <2>3, <2>4, <2>5, <2>6 DEF FileUndo
<1> QED BY <1>0, <1>1, <1>3 DEF FilesTypeOK

LEMMA FilesTypeNext ==
    ASSUME FilesInv, [FilesNext]_fileVars
    PROVE  FilesTypeOK'
<1>1. ASSUME NEW a \in FileActions, FileWorkerDies(a) \/ FileRecorded(a)
      PROVE  FilesTypeOK'
  <2>1. reruns' \in 0..MaxReruns
    BY <1>1, FileAssumption DEF FilesInv, FilesTypeOK, FileWorkerDies, FileRecorded
  <2>2. repeated' \subseteq FileActions /\ stage' \in [FileActions -> FileStages]
    BY <1>1 DEF FilesInv, FilesTypeOK, FileWorkerDies, FileRecorded, To, FileStages
  <2>3. UNCHANGED <<tree, backup, trash, call, result, before, disturbed, blind>>
    BY <1>1 DEF FileWorkerDies, FileRecorded
  <2> QED BY <2>1, <2>2, <2>3 DEF FilesInv, FilesTypeOK
<1>2. CASE UNCHANGED fileVars
  BY <1>2 DEF FilesInv, FilesTypeOK, fileVars
<1> QED BY <1>1, <1>2, PrepareTypes, ApplyTypes, UndoTypes DEF FilesNext, FilesInv

-----------------------------------------------------------------------------
(* What a step of one action leaves of another.                             *)
LeftAlone(b) ==
    /\ backup'[b] = backup[b] /\ trash'[b] = trash[b] /\ call'[b] = call[b]
    /\ stage'[b] = stage[b] /\ result'[b] = result[b] /\ before'[b] = before[b]
    /\ b \in repeated' <=> b \in repeated
    /\ b \in disturbed => b \in disturbed'
    /\ reruns' = 0 => reruns = 0
    /\ call[b] # NoCall /\ stage[b] # "failed" /\ b \notin disturbed' =>
          tree'[call[b].src] = tree[call[b].src] /\ tree'[call[b].dest] = tree[call[b].dest]

LEMMA OthersStaySound ==
    ASSUME NEW b \in FileActions, ActionSound(b), LeftAlone(b)
    PROVE  ActionSound(b)'
<1>1. call[b] # NoCall /\ stage[b] # "failed" /\ b \notin disturbed' =>
        /\ PutBack(b)' <=> PutBack(b)
        /\ SavedIsBefore(b)' <=> SavedIsBefore(b)
        /\ Moved(b)' <=> Moved(b)
        /\ Exists(call[b].src)' <=> Exists(call[b].src)
        /\ Exists(call[b].dest)' <=> Exists(call[b].dest)
  BY DEF LeftAlone, PutBack, SavedIsBefore, Moved, Exists, IsTree
<1>2. ASSUME call[b] # NoCall, stage[b] # "failed", b \notin disturbed'
      PROVE  /\ WriteSound(b)' <=> WriteSound(b)
             /\ MoveSound(b)' <=> MoveSound(b)
             /\ CopySound(b)' <=> CopySound(b)
             /\ DeleteSound(b)' <=> DeleteSound(b)
  <2>1. WriteSound(b)' <=> WriteSound(b)
    BY <1>1, <1>2 DEF LeftAlone, WriteSound
  <2>2. MoveSound(b)' <=> MoveSound(b)
    BY <1>1, <1>2 DEF LeftAlone, MoveSound
  <2>3. CopySound(b)' <=> CopySound(b)
    BY <1>1, <1>2 DEF LeftAlone, CopySound
  <2>4. DeleteSound(b)' <=> DeleteSound(b)
    BY <1>1, <1>2 DEF LeftAlone, DeleteSound
  <2> QED BY <2>1, <2>2, <2>3, <2>4
<1> QED BY <1>2 DEF ActionSound, LeftAlone, OnePath

(* A change touches the paths of nobody it does not disturb.                *)
LEMMA TouchedAreDisturbed ==
    ASSUME NEW a \in FileActions, NEW new, Touches(a, new), NEW b \in FileActions, b # a
    PROVE  /\ b \in disturbed => b \in disturbed'
           /\ call[b] # NoCall /\ stage[b] # "failed" /\ b \notin disturbed' =>
                tree'[call[b].src] = tree[call[b].src] /\ tree'[call[b].dest] = tree[call[b].dest]
BY DEF Touches

(* What an action finds when it is prepared, for the first time or again.   *)
LEMMA StartedView ==
    ASSUME FilesInv, NEW a \in FileActions, NEW c \in FileCalls, Starts(a, c), Same, a \notin disturbed
    PROVE  /\ call'[a] = c
           /\ a \notin repeated => PutBack(a)'
           /\ a \in repeated =>
                /\ c.tool = "move" /\ before'[a][c.dest] = Absent =>
                     IF before'[a][c.src] # Absent THEN Moved(a)' ELSE PutBack(a)'
                /\ c.tool = "delete" =>
                     before'[a][c.src] # Absent /\ tree'[c.src] = Absent /\ trash[a] = before'[a][c.src]
           /\ c.tool = "delete" /\ a \notin repeated =>
                /\ trash[a] \in {Absent, EmptySlot}
                /\ trash[a] # Absent => before'[a][c.src] # Absent
<1>0. /\ call' = [call EXCEPT ![a] = c] /\ call'[a] = c /\ c # NoCall /\ stage[a] = "new"
      /\ tree' = tree /\ repeated' = repeated
      /\ c.src \in Paths /\ c.dest \in Paths
  BY CallIs DEF FilesInv, FilesTypeOK, Starts, Same
<1>1. CASE call[a] = NoCall
  <2>1. before'[a] = tree
    BY <1>1 DEF FilesInv, FilesTypeOK, Starts
  <2>2. a \notin repeated /\ trash[a] = Absent
    BY <1>1 DEF FilesInv, ActionSound
  <2>3. PutBack(a)'
    BY <1>0, <2>1 DEF PutBack
  <2> QED BY <1>0, <2>2, <2>3
<1>2. CASE call[a] # NoCall
  <2>1. call[a] = c /\ before' = before
    BY <1>2 DEF Starts
  <2>2. /\ c.tool = "write" => WriteSound(a)
        /\ c.tool = "move" => MoveSound(a)
        /\ c.tool = "copy" => CopySound(a)
        /\ c.tool = "delete" => DeleteSound(a)
    BY <1>0, <1>2, <2>1 DEF FilesInv, ActionSound
  <2>3. (PutBack(a)' <=> PutBack(a)) /\ (Moved(a)' <=> Moved(a))
    BY <1>0, <2>1 DEF PutBack, Moved
  <2>4. c.tool \in {"write", "delete", "move", "copy"}
    BY CallIs
  <2>5. a \notin repeated => PutBack(a)
    BY <1>0, <2>2, <2>4 DEF WriteSound, MoveSound, CopySound, DeleteSound
  <2>6. a \in repeated /\ c.tool = "move" /\ before'[a][c.dest] = Absent =>
            IF before'[a][c.src] # Absent THEN Moved(a) ELSE PutBack(a)
    BY <1>0, <2>1, <2>2 DEF MoveSound
  <2>7. c.tool = "delete" =>
          /\ a \in repeated => before[a][c.src] # Absent /\ tree[c.src] = Absent /\ trash[a] = before[a][c.src]
          /\ a \notin repeated => /\ trash[a] \in {Absent, EmptySlot}
                                  /\ trash[a] # Absent => before[a][c.src] # Absent
    BY <1>0, <2>1, <2>2 DEF DeleteSound
  <2> QED BY <1>0, <2>1, <2>3, <2>5, <2>6, <2>7
<1> QED BY <1>1, <1>2

LEMMA BackupsSave ==
    ASSUME FilesTypeOK, NEW a \in FileActions, NEW c \in FileCalls, Backed(a, c.dest),
           call'[a] = c
    PROVE  /\ stage'[a] = "saved" /\ trash' = trash
           /\ PutBack(a)' /\ ~IsTree(tree[c.dest]) => SavedIsBefore(a)'
<1>1. /\ c.dest \in Paths /\ tree' = tree /\ stage'[a] = "saved" /\ trash' = trash
      /\ result'[a].kept = Exists(c.dest)
      /\ Exists(c.dest) => backup'[a] = tree[c.dest]
  BY CallIs DEF FilesTypeOK, Backed, Same, To, Answers
<1>2. PutBack(a)' => before'[a][c.dest] = tree[c.dest]
  BY <1>1 DEF PutBack
<1>3. PutBack(a)' /\ ~IsTree(tree[c.dest]) => SavedIsBefore(a)'
  BY <1>1, <1>2 DEF SavedIsBefore, IsTree, Exists
<1> QED BY <1>1, <1>3

LEMMA FailedIsSound ==
    ASSUME FilesInv, NEW a \in FileActions, stage'[a] = "failed", OnePath(call[a])',
           call'[a] # NoCall, trash'[a] # Absent => call'[a].tool = "delete"
    PROVE  ActionSound(a)'
BY DEF ActionSound

(* The four preparations leave their action sound.                          *)
LEMMA PrepareSound ==
    ASSUME FilesInv, NEW a \in FileActions, NEW c \in FileCalls, PrepareFile(a, c)
    PROVE  ActionSound(a)'
<1>0. /\ FilesTypeOK /\ Starts(a, c) /\ Same /\ call'[a] = c /\ c # NoCall /\ OnePath(call[a])'
      /\ c.src \in Paths /\ c.dest \in Paths /\ disturbed' = disturbed
      /\ repeated' = repeated /\ tree' = tree
  <2>1. Starts(a, c) /\ Same
    BY DEF PrepareFile, PrepareWrite, PrepareMove, PrepareCopy, PrepareDelete, Backed, Fails
  <2> QED BY <2>1, CallIs DEF FilesInv, FilesTypeOK, Starts, Same
<1>1. trash[a] # Absent => c.tool = "delete"
  <2>1. call[a] \in {NoCall, c} /\ ActionSound(a)
    BY <1>0 DEF Starts, FilesInv
  <2> QED BY <2>1 DEF ActionSound, NoCall
<1>2. a \notin disturbed =>
           /\ a \notin repeated => PutBack(a)'
           /\ a \in repeated =>
                /\ c.tool = "move" /\ before'[a][c.dest] = Absent =>
                     IF before'[a][c.src] # Absent THEN Moved(a)' ELSE PutBack(a)'
                /\ c.tool = "delete" =>
                     before'[a][c.src] # Absent /\ tree'[c.src] = Absent /\ trash[a] = before'[a][c.src]
           /\ c.tool = "delete" /\ a \notin repeated =>
                /\ trash[a] \in {Absent, EmptySlot}
                /\ trash[a] # Absent => before'[a][c.src] # Absent
  BY <1>0, StartedView
<1>3. Fails(a) => ActionSound(a)'
  <2> SUFFICES ASSUME Fails(a) PROVE ActionSound(a)'
    OBVIOUS
  <2>1. stage'[a] = "failed" /\ trash' = trash
    BY <1>0 DEF Fails, To, FilesTypeOK
  <2> QED BY <2>1, <1>0, <1>1, FailedIsSound
<1>4. ASSUME stage'[a] \in {"saved", "applied"}, trash'[a] # Absent => c.tool = "delete",
             a \notin disturbed =>
                /\ c.tool = "write" => WriteSound(a)'
                /\ c.tool = "move" => MoveSound(a)'
                /\ c.tool = "copy" => CopySound(a)'
                /\ c.tool = "delete" => DeleteSound(a)'
      PROVE  ActionSound(a)'
  BY <1>0, <1>4 DEF ActionSound
<1>5. CASE PrepareWrite(a, c)
  <2>1. CASE Backed(a, c.dest) /\ ~IsTree(tree[c.dest])
    <3>1. c.tool = "write" /\ stage'[a] = "saved" /\ trash' = trash
      BY <1>0, <1>5, <2>1, BackupsSave DEF PrepareWrite
    <3>2. a \notin disturbed => WriteSound(a)'
      BY <1>0, <1>2, <2>1, <3>1, BackupsSave DEF WriteSound
    <3> QED BY <1>1, <1>4, <3>1, <3>2
  <2> QED BY <1>3, <1>5, <2>1 DEF PrepareWrite
<1>6. CASE PrepareCopy(a, c)
  <2>1. CASE Backed(a, c.dest) /\ ~IsTree(tree[c.dest]) /\ Exists(c.src)
    <3>1. c.tool = "copy" /\ stage'[a] = "saved" /\ trash' = trash
      BY <1>0, <1>6, <2>1, BackupsSave DEF PrepareCopy
    <3>2. PutBack(a)' => before'[a][c.src] # Absent
      BY <1>0, <2>1 DEF PutBack, Exists
    <3>3. a \notin disturbed => CopySound(a)'
      BY <1>0, <1>2, <2>1, <3>1, <3>2, BackupsSave DEF CopySound
    <3> QED BY <1>1, <1>4, <3>1, <3>3
  <2> QED BY <1>3, <1>6, <2>1 DEF PrepareCopy
<1>7. CASE PrepareMove(a, c)
  <2>0. c.tool = "move"
    BY <1>7 DEF PrepareMove
  <2>1. CASE ~Exists(c.src) /\ Exists(c.dest)
    <3>1. To(a, "applied") /\ Answers(a, FALSE, Absent) /\ UNCHANGED <<backup, trash>>
      BY <1>7, <2>1 DEF PrepareMove
    <3>2. stage'[a] = "applied" /\ ~result'[a].kept /\ trash' = trash
      BY <1>0, <3>1 DEF To, Answers, FilesTypeOK
    <3>3. a \notin disturbed => MoveSound(a)'
      <4> SUFFICES ASSUME a \notin disturbed, a \notin repeated \/ before'[a][c.dest] = Absent
                   PROVE  IF before'[a][c.src] # Absent THEN Moved(a)' /\ SavedIsBefore(a)'
                          ELSE before'[a][c.dest] # Absent
        BY <1>0, <3>2 DEF MoveSound
      <4>1. CASE a \notin repeated
        <5>1. before'[a][c.src] = Absent /\ before'[a][c.dest] # Absent
          BY <1>0, <1>2, <2>1, <4>1 DEF PutBack, Exists
        <5> QED BY <5>1
      <4>2. CASE a \in repeated
        <5>1. before'[a][c.dest] = Absent
          BY <4>2
        <5>2. before'[a][c.src] # Absent /\ Moved(a)'
          <6>1. IF before'[a][c.src] # Absent THEN Moved(a)' ELSE PutBack(a)'
            BY <1>2, <2>0, <4>2, <5>1
          <6> QED BY <6>1, <1>0, <2>1, <5>1 DEF PutBack, Exists
        <5>3. SavedIsBefore(a)'
          BY <1>0, <3>2, <5>1, FileConstants DEF SavedIsBefore, IsTree
        <5> QED BY <5>2, <5>3
      <4> QED BY <4>1, <4>2
    <3> QED BY <1>1, <1>4, <2>0, <3>2, <3>3
  <2>2. CASE Exists(c.src) /\ ~IsTree(tree[c.dest])
    <3>1. Backed(a, c.dest)
      BY <1>7, <2>2 DEF PrepareMove
    <3>2. stage'[a] = "saved" /\ trash' = trash
      BY <1>0, <3>1, BackupsSave
    <3>3. a \notin disturbed => MoveSound(a)'
      <4> SUFFICES ASSUME a \notin disturbed, a \notin repeated \/ before'[a][c.dest] = Absent
                   PROVE  /\ before'[a][c.src] # Absent
                          /\ PutBack(a)' /\ SavedIsBefore(a)' /\ a \notin repeated
        BY <1>0, <3>2 DEF MoveSound
      <4>1. CASE a \notin repeated
        <5>1. PutBack(a)'
          BY <1>2, <4>1
        <5>2. before'[a][c.src] # Absent
          BY <1>0, <2>2, <5>1 DEF PutBack, Exists
        <5> QED BY <1>0, <2>2, <3>1, <4>1, <5>1, <5>2, BackupsSave
      <4>2. CASE a \in repeated
        <5>1. IF before'[a][c.src] # Absent THEN Moved(a)' ELSE PutBack(a)'
          BY <1>2, <2>0, <4>2
        <5>2. FALSE
          BY <1>0, <2>2, <5>1 DEF Moved, PutBack, Exists
        <5> QED BY <5>2
      <4> QED BY <4>1, <4>2
    <3> QED BY <1>1, <1>4, <2>0, <3>2, <3>3
  <2>3. CASE (~Exists(c.src) /\ ~Exists(c.dest)) \/ (Exists(c.src) /\ IsTree(tree[c.dest]))
    BY <1>3, <1>7, <2>3 DEF PrepareMove
  <2> QED BY <2>1, <2>2, <2>3
<1>8. CASE PrepareDelete(a, c)
  <2>0. c.tool = "delete" /\ c.src = c.dest
    BY <1>0, <1>8 DEF PrepareDelete, Starts, OnePath
  <2>1. CASE ~Exists(c.src) /\ trash[a] # Absent
    <3>1. To(a, "applied") /\ Answers(a, FALSE, trash[a]) /\ trash' = trash
      BY <1>8, <2>1 DEF PrepareDelete
    <3>2. stage'[a] = "applied" /\ result'[a].trashed = trash[a]
      BY <1>0, <3>1 DEF To, Answers, FilesTypeOK
    <3>3. a \notin disturbed => DeleteSound(a)'
      <4> SUFFICES ASSUME a \notin disturbed
                   PROVE  before'[a][c.src] # Absent /\ tree'[c.src] = Absent /\ trash[a] = before'[a][c.src]
        BY <1>0, <3>1, <3>2 DEF DeleteSound
      <4>1. a \in repeated
        <5> SUFFICES ASSUME a \notin repeated PROVE FALSE
          OBVIOUS
        <5> QED BY <1>0, <1>2, <2>0, <2>1 DEF PutBack, Exists
      <4> QED BY <1>2, <2>0, <4>1
    <3> QED BY <1>4, <2>0, <3>2, <3>3
  <2>2. CASE ~Exists(c.src) /\ trash[a] = Absent
    BY <1>3, <1>8, <2>2 DEF PrepareDelete
  <2>3. CASE Exists(c.src)
    <3>1. /\ To(a, "saved") /\ UNCHANGED <<backup, result>>
          /\ trash' = [trash EXCEPT ![a] = IF @ = Absent THEN EmptySlot ELSE @]
      BY <1>8, <2>3 DEF PrepareDelete
    <3>2. stage'[a] = "saved" /\ trash'[a] = IF trash[a] = Absent THEN EmptySlot ELSE trash[a]
      BY <1>0, <3>1 DEF To, FilesTypeOK
    <3>3. a \notin disturbed => DeleteSound(a)'
      <4> SUFFICES ASSUME a \notin disturbed
                   PROVE  /\ before'[a][c.src] # Absent
                          /\ PutBack(a)' /\ trash'[a] = EmptySlot /\ a \notin repeated
        BY <1>0, <3>2 DEF DeleteSound
      <4>1. a \notin repeated
        BY <1>0, <1>2, <2>0, <2>3 DEF Exists
      <4>2. PutBack(a)' /\ trash[a] \in {Absent, EmptySlot}
        BY <1>2, <2>0, <4>1
      <4>3. before'[a][c.src] # Absent
        BY <1>0, <2>3, <4>2 DEF PutBack, Exists
      <4> QED BY <3>2, <4>1, <4>2, <4>3
    <3> QED BY <1>4, <2>0, <3>2, <3>3
  <2> QED BY <2>1, <2>2, <2>3
<1> QED BY <1>5, <1>6, <1>7, <1>8 DEF PrepareFile

LEMMA SavedView ==
    ASSUME FilesInv, NEW a \in FileActions, stage[a] # "new"
    PROVE  /\ FilesTypeOK /\ ActionSound(a) /\ call[a] # NoCall
           /\ call[a].tool \in {"write", "delete", "move", "copy"}
           /\ call[a].src \in Paths /\ call[a].dest \in Paths
           /\ call[a].tool \in {"move", "copy"} => call[a].src # call[a].dest
           /\ call[a].tool \in {"write", "delete"} => call[a].src = call[a].dest
           /\ stage[a] # "failed" /\ a \notin disturbed =>
                /\ call[a].tool = "write" => WriteSound(a)
                /\ call[a].tool = "move" => MoveSound(a)
                /\ call[a].tool = "copy" => CopySound(a)
                /\ call[a].tool = "delete" => DeleteSound(a)
<1>1. FilesTypeOK /\ ActionSound(a) /\ \A b \in FileActions : ActionSound(b)
  BY DEF FilesInv
<1>2. /\ call[a] \in FileCalls /\ call[a] # NoCall
      /\ call[a].tool \in {"write", "delete", "move", "copy"}
      /\ call[a].src \in Paths /\ call[a].dest \in Paths
      /\ call[a].tool \in {"move", "copy"} => call[a].src # call[a].dest
      /\ call[a].tool \in {"write", "delete"} => call[a].src = call[a].dest
  BY <1>1, CallsMade
<1> QED BY <1>1, <1>2 DEF ActionSound

(* Making the change, the worker's action stays sound.                      *)
LEMMA ApplySound ==
    ASSUME FilesInv, NEW a \in FileActions, ApplyFile(a)
    PROVE  ActionSound(a)'
<1>0. /\ stage[a] = "saved"
      /\ UNCHANGED <<backup, call, before, repeated, reruns>>
  BY DEF ApplyFile, ApplyWrite, ApplyMove, ApplyCopy, ApplyDelete, Changing
<1>1. /\ FilesTypeOK /\ ActionSound(a) /\ call[a] # NoCall
      /\ call[a].src \in Paths /\ call[a].dest \in Paths
      /\ call[a].tool \in {"move", "copy"} => call[a].src # call[a].dest
      /\ call[a].tool \in {"write", "delete"} => call[a].src = call[a].dest
      /\ a \notin disturbed =>
                /\ call[a].tool = "write" => WriteSound(a)
                /\ call[a].tool = "move" => MoveSound(a)
                /\ call[a].tool = "copy" => CopySound(a)
                /\ call[a].tool = "delete" => DeleteSound(a)
  BY <1>0, SavedView
<1>2. tree \in [Paths -> FileContents] /\ OnePath(call[a])' /\ call'[a] # NoCall
  BY <1>0, <1>1 DEF FilesTypeOK, ActionSound, OnePath
<1>3. trash[a] # Absent => call[a].tool = "delete"
  BY <1>1 DEF ActionSound
<1>4. Breaks(a) => ActionSound(a)'
  <2> SUFFICES ASSUME Breaks(a) PROVE ActionSound(a)'
    OBVIOUS
  <2>1. stage'[a] = "failed" /\ trash' = trash
    BY <1>1 DEF Breaks, To, FilesTypeOK
  <2> QED BY <2>1, <1>0, <1>2, <1>3, FailedIsSound
<1>5. ASSUME stage'[a] = "applied", trash'[a] # Absent => call[a].tool = "delete",
             a \notin disturbed =>
                /\ call[a].tool = "write" => WriteSound(a)'
                /\ call[a].tool = "move" => MoveSound(a)'
                /\ call[a].tool = "copy" => CopySound(a)'
                /\ call[a].tool = "delete" => DeleteSound(a)',
             a \in disturbed => a \in disturbed'
      PROVE  ActionSound(a)'
  BY <1>0, <1>2, <1>5 DEF ActionSound
<1>6. ASSUME NEW new, Changes(a, new)
      PROVE  /\ stage'[a] = "applied" /\ tree' = new /\ UNCHANGED <<trash, result>>
             /\ a \in disturbed => a \in disturbed'
  BY <1>1, <1>6 DEF Changes, To, Touches, FilesTypeOK
<1>7. CASE ApplyWrite(a)
  <2>1. CASE Changes(a, [tree EXCEPT ![call[a].dest] = a])
    <3>0. /\ stage'[a] = "applied" /\ tree' = [tree EXCEPT ![call[a].dest] = a]
          /\ UNCHANGED <<trash, result>> /\ (a \in disturbed => a \in disturbed')
      BY <1>6, <2>1
    <3>1. /\ stage'[a] = "applied" /\ tree'[call[a].dest] = a /\ UNCHANGED <<trash, result>>
          /\ (a \in disturbed => a \in disturbed') /\ call[a].tool = "write"
      BY <1>1, <1>2, <1>7, <3>0 DEF ApplyWrite
    <3>2. a \notin disturbed => WriteSound(a)'
      BY <1>0, <1>1, <3>1 DEF WriteSound, SavedIsBefore, IsTree
    <3> QED BY <1>3, <1>5, <1>6, <1>7, <2>1, <3>1, <3>2 DEF ApplyWrite
  <2> QED BY <1>4, <1>7, <2>1 DEF ApplyWrite
<1>8. CASE ApplyMove(a)
  <2> DEFINE new == [Lands(call[a].dest, tree[call[a].src]) EXCEPT ![call[a].src] = Absent]
  <2>1. CASE Changes(a, new)
    <3>1. /\ stage'[a] = "applied" /\ tree' = new /\ UNCHANGED <<trash, result>>
          /\ (a \in disturbed => a \in disturbed') /\ call[a].tool = "move"
      BY <1>6, <1>8, <2>1 DEF ApplyMove
    <3>2. ~IsTree(tree[call[a].dest]) =>
             /\ tree'[call[a].src] = Absent
             /\ tree'[call[a].dest] = tree[call[a].src]
      BY <1>1, <1>2, <3>1 DEF Lands
    <3> HIDE DEF new
    <3>3. a \notin disturbed => MoveSound(a)'
      <4> SUFFICES ASSUME a \notin disturbed, a \notin repeated \/ before[a][call[a].dest] = Absent
                   PROVE  before[a][call[a].src] # Absent /\ Moved(a)' /\ SavedIsBefore(a)'
        BY <1>0, <3>1 DEF MoveSound
      <4>1. /\ before[a][call[a].src] # Absent /\ PutBack(a) /\ SavedIsBefore(a)
        BY <1>0, <1>1, <3>1 DEF MoveSound
      <4>2. ~IsTree(tree[call[a].dest]) /\ tree[call[a].src] = before[a][call[a].src]
        BY <4>1 DEF PutBack, SavedIsBefore
      <4>3. Moved(a)'
        BY <1>0, <3>2, <4>2 DEF Moved
      <4>4. SavedIsBefore(a)'
        BY <1>0, <3>1, <4>1 DEF SavedIsBefore, IsTree
      <4> QED BY <4>1, <4>3, <4>4
    <3> QED BY <1>3, <1>5, <3>1, <3>3
  <2> QED BY <1>4, <1>8, <2>1 DEF ApplyMove
<1>9. CASE ApplyCopy(a)
  <2> DEFINE src == call[a].src
             dest == call[a].dest
  <2>1. ASSUME NEW new, Changes(a, new),
               ~IsTree(tree[dest]) => new = [tree EXCEPT ![dest] = tree[src]]
        PROVE  ActionSound(a)'
    <3>1. /\ stage'[a] = "applied" /\ tree' = new /\ UNCHANGED <<trash, result>>
          /\ (a \in disturbed => a \in disturbed') /\ call[a].tool = "copy"
      BY <1>6, <1>9, <2>1 DEF ApplyCopy
    <3>2. ~IsTree(tree[call[a].dest]) =>
             /\ tree'[call[a].src] = tree[call[a].src]
             /\ tree'[call[a].dest] = tree[call[a].src]
      BY <1>1, <1>2, <2>1, <3>1
    <3>3. a \notin disturbed => CopySound(a)'
      <4> SUFFICES ASSUME a \notin disturbed, a \notin repeated
                   PROVE  /\ before[a][call[a].src] # Absent /\ SavedIsBefore(a)'
                          /\ tree'[call[a].src] = before[a][call[a].src]
                          /\ tree'[call[a].dest] = before[a][call[a].src]
        BY <1>0, <3>1 DEF CopySound
      <4>1. /\ before[a][call[a].src] # Absent /\ PutBack(a) /\ SavedIsBefore(a)
        BY <1>0, <1>1, <3>1 DEF CopySound
      <4>2. ~IsTree(tree[call[a].dest]) /\ tree[call[a].src] = before[a][call[a].src]
        BY <4>1 DEF PutBack, SavedIsBefore
      <4>4. SavedIsBefore(a)'
        BY <1>0, <3>1, <4>1 DEF SavedIsBefore, IsTree
      <4> QED BY <3>2, <4>1, <4>2, <4>4
    <3> QED BY <1>3, <1>5, <3>1, <3>3
  <2>2. \/ Breaks(a) \/ Changes(a, [tree EXCEPT ![dest] = tree[src]])
        \/ Changes(a, Lands(dest, tree[src]))
    BY <1>9 DEF ApplyCopy
  <2>3. ~IsTree(tree[dest]) => Lands(dest, tree[src]) = [tree EXCEPT ![dest] = tree[src]]
    BY DEF Lands
  <2> HIDE DEF src, dest
  <2> QED BY <1>4, <2>1, <2>2, <2>3
<1>10. CASE ApplyDelete(a)
  <2>0. call[a].tool = "delete" /\ call[a].src = call[a].dest
    BY <1>1, <1>10 DEF ApplyDelete
  <2>1. CASE Exists(call[a].src)
    <3>1. /\ To(a, "applied") /\ Touches(a, [tree EXCEPT ![call[a].src] = Absent])
          /\ trash' = [trash EXCEPT ![a] = tree[call[a].src]]
          /\ Answers(a, FALSE, tree[call[a].src])
      BY <1>10, <2>1 DEF ApplyDelete
    <3>2. /\ stage'[a] = "applied" /\ tree'[call[a].src] = Absent
          /\ trash'[a] = tree[call[a].src] /\ result'[a].trashed = tree[call[a].src]
          /\ a \in disturbed => a \in disturbed'
      BY <1>1, <3>1 DEF To, Touches, Answers, FilesTypeOK
    <3>3. a \notin disturbed => DeleteSound(a)'
      <4> SUFFICES ASSUME a \notin disturbed
                   PROVE  before[a][call[a].src] # Absent /\ tree[call[a].src] = before[a][call[a].src]
        BY <1>0, <3>2 DEF DeleteSound
      <4>1. PutBack(a)
        BY <1>0, <1>1, <2>0 DEF DeleteSound
      <4> QED BY <2>1, <4>1 DEF PutBack, Exists
    <3> QED BY <1>5, <2>0, <3>2, <3>3
  <2> QED BY <1>4, <1>10, <2>1 DEF ApplyDelete
<1> QED BY <1>7, <1>8, <1>9, <1>10 DEF ApplyFile

(* A worker's death sends its action back, a recorded success ends it.      *)
LEMMA EndsSound ==
    ASSUME FilesInv, NEW a \in FileActions, FileWorkerDies(a) \/ FileRecorded(a)
    PROVE  ActionSound(a)'
<1>0. /\ stage[a] \in {"saved", "applied"} /\ reruns \in Nat
      /\ UNCHANGED <<tree, backup, trash, call, result, before, disturbed, blind>>
      /\ stage'[a] \in {"new", "done"}
      /\ \/ /\ stage'[a] = "new" /\ reruns' = reruns + 1
            /\ a \in repeated' <=> a \in repeated \/ stage[a] = "applied"
         \/ /\ stage'[a] = "done" /\ stage[a] = "applied"
            /\ a \in repeated' <=> a \in repeated
  BY DEF FilesInv, FilesTypeOK, FileWorkerDies, FileRecorded, To
<1>1. /\ ActionSound(a) /\ call[a] # NoCall
      /\ call[a].src \in Paths /\ call[a].dest \in Paths
      /\ call[a].tool \in {"write", "delete"} => call[a].src = call[a].dest
      /\ a \notin disturbed =>
                /\ call[a].tool = "write" => WriteSound(a)
                /\ call[a].tool = "move" => MoveSound(a)
                /\ call[a].tool = "copy" => CopySound(a)
                /\ call[a].tool = "delete" => DeleteSound(a)
  BY <1>0, SavedView
<1>2. /\ PutBack(a)' <=> PutBack(a)
      /\ SavedIsBefore(a)' <=> SavedIsBefore(a)
      /\ Moved(a)' <=> Moved(a)
  BY <1>0 DEF PutBack, SavedIsBefore, Moved, IsTree
<1>3. a \notin disturbed /\ call[a].tool = "write" => WriteSound(a)'
  BY <1>0, <1>1, <1>2 DEF WriteSound
<1>4. a \notin disturbed /\ call[a].tool = "move" => MoveSound(a)'
  <2> SUFFICES ASSUME a \notin disturbed, call[a].tool = "move",
                      a \notin repeated' \/ before[a][call[a].dest] = Absent
               PROVE  MoveSound(a)'
    BY <1>0 DEF MoveSound
  <2>1. a \notin repeated \/ before[a][call[a].dest] = Absent
    BY <1>0
  <2>2. MoveSound(a)
    BY <1>1
  <2>3. CASE before[a][call[a].src] # Absent
    BY <1>0, <1>2, <2>1, <2>2, <2>3 DEF MoveSound
  <2>4. CASE before[a][call[a].src] = Absent
    BY <1>0, <1>2, <2>1, <2>2, <2>4 DEF MoveSound
  <2> QED BY <2>3, <2>4
<1>5. a \notin disturbed /\ call[a].tool = "copy" => CopySound(a)'
  BY <1>0, <1>1, <1>2 DEF CopySound
<1>6. a \notin disturbed /\ call[a].tool = "delete" => DeleteSound(a)'
  BY <1>0, <1>1, <1>2 DEF DeleteSound, PutBack
<1>7. reruns' = 0 => stage'[a] # "new"
  BY <1>0
<1> QED BY <1>0, <1>1, <1>3, <1>4, <1>5, <1>6, <1>7 DEF ActionSound, OnePath

(* Undoing a sound action puts its paths back, and doing it again leaves    *)
(* them so.                                                                 *)
UndoView(a) ==
    /\ stage'[a] = "undone" /\ (a \in disturbed => a \in disturbed')
    /\ UNCHANGED <<backup, call, result, before, repeated, reruns>>

LEMMA UndoneView ==
    ASSUME FilesInv, NEW a \in FileActions, FileUndo(a), NEW new, Undone(a, new)
    PROVE  UndoView(a) /\ tree' = new /\ trash' = trash
BY DEF FilesInv, FilesTypeOK, FileUndo, Undone, To, Touches, UndoView

LEMMA UndoWriteSound ==
    ASSUME FilesInv, NEW a \in FileActions, FileUndo(a), UndoWrite(a)
    PROVE  UndoView(a) /\ trash' = trash /\ (a \notin disturbed => WriteSound(a)')
<1> DEFINE p == call[a].dest
<1>0. /\ stage[a] \in {"done", "undone"} /\ call[a].tool = "write"
      /\ UNCHANGED <<backup, call, result, before, repeated, reruns>>
  BY DEF FileUndo, UndoWrite
<1>1. /\ call[a].src = p /\ p \in Paths /\ tree \in [Paths -> FileContents]
      /\ a \notin disturbed => WriteSound(a)
  BY <1>0, SavedView DEF FilesTypeOK
<1>2. \/ result[a].kept /\ Undone(a, Lands(p, backup[a]))
      \/ ~result[a].kept /\ Undone(a, [tree EXCEPT ![p] = Absent])
  BY DEF UndoWrite
<1>3. /\ UndoView(a) /\ trash' = trash
      /\ \/ result[a].kept /\ tree' = Lands(p, backup[a])
         \/ ~result[a].kept /\ tree' = [tree EXCEPT ![p] = Absent]
  BY <1>2, UndoneView
<1>4. ASSUME a \notin disturbed, a \notin repeated
      PROVE  PutBack(a)' /\ SavedIsBefore(a)'
  <2>1. SavedIsBefore(a) /\ (PutBack(a) \/ tree[p] = a)
    BY <1>0, <1>1, <1>4 DEF WriteSound
  <2>2. ~IsTree(tree[p])
    BY <1>1, <2>1, FileConstants DEF SavedIsBefore, PutBack
  <2>3. tree'[p] = IF result[a].kept THEN backup[a] ELSE Absent
    BY <1>1, <1>3, <2>2 DEF Lands
  <2>4. tree'[p] = before[a][p]
    BY <2>1, <2>3 DEF SavedIsBefore
  <2>5. PutBack(a)'
    BY <1>0, <1>1, <2>4 DEF PutBack
  <2>6. SavedIsBefore(a)'
    BY <1>0, <2>1 DEF SavedIsBefore, IsTree
  <2> QED BY <2>5, <2>6
<1>5. a \notin disturbed => WriteSound(a)'
  BY <1>3, <1>4 DEF WriteSound, UndoView
<1> QED BY <1>3, <1>5

LEMMA UndoMoveSound ==
    ASSUME FilesInv, NEW a \in FileActions, FileUndo(a), UndoMove(a)
    PROVE  UndoView(a) /\ trash' = trash /\ (a \notin disturbed => MoveSound(a)')
<1>0. /\ stage[a] \in {"done", "undone"} /\ call[a].tool = "move"
      /\ UNCHANGED <<backup, call, result, before, repeated, reruns>>
  BY DEF FileUndo, UndoMove
<1>s. PICK src \in Paths : src = call[a].src
  BY <1>0, SavedView
<1>d. PICK dest \in Paths : dest = call[a].dest
  BY <1>0, SavedView
<1>1. /\ src # dest /\ tree \in [Paths -> FileContents]
      /\ a \notin disturbed => MoveSound(a)
  BY <1>s, <1>d, <1>0, SavedView DEF FilesTypeOK
<1> DEFINE back == IF Exists(dest) /\ ~Exists(src)
                   THEN [tree EXCEPT ![src] = tree[dest], ![dest] = Absent] ELSE tree
           new == IF result[a].kept THEN [back EXCEPT ![dest] = backup[a]] ELSE back
<1>2. Undone(a, new)
  BY <1>s, <1>d DEF UndoMove
<1>3. /\ IF Exists(dest) /\ ~Exists(src) THEN back[src] = tree[dest] /\ back[dest] = Absent
                                         ELSE back[src] = tree[src] /\ back[dest] = tree[dest]
      /\ back \in [Paths -> FileContents]
  BY <1>1 DEF FileContents
<1>4. /\ new[src] = back[src]
      /\ new[dest] = IF result[a].kept THEN backup[a] ELSE back[dest]
  <2> HIDE DEF back
  <2> QED BY <1>1, <1>3
<1>5. UndoView(a) /\ trash' = trash /\ tree'[src] = new[src] /\ tree'[dest] = new[dest]
  BY <1>2, UndoneView
<1> HIDE DEF back, new
<1>6. ASSUME a \notin disturbed, a \notin repeated \/ before[a][dest] = Absent
      PROVE  IF before[a][src] # Absent THEN PutBack(a)' /\ SavedIsBefore(a)'
             ELSE ~result[a].kept /\ (tree'[src] # Absent \/ tree'[dest] = Absent)
  <2>0. MoveSound(a)
    BY <1>1, <1>6
  <2>1. CASE before[a][src] # Absent
    <3>1. SavedIsBefore(a) /\ (Moved(a) \/ PutBack(a))
      BY <1>s, <1>d, <1>0, <1>6, <2>0, <2>1 DEF MoveSound
    <3>2. back[src] = before[a][src] /\ back[dest] \in {Absent, before[a][dest]}
      <4>1. CASE Moved(a)
        BY <1>s, <1>d, <1>3, <2>1, <4>1 DEF Moved, Exists
      <4>2. CASE PutBack(a)
        BY <1>s, <1>d, <1>3, <2>1, <4>2 DEF PutBack, Exists
      <4> QED BY <3>1, <4>1, <4>2
    <3>3. new[src] = before[a][src] /\ new[dest] = before[a][dest]
      BY <1>d, <1>4, <3>1, <3>2 DEF SavedIsBefore
    <3>4. PutBack(a)'
      BY <1>s, <1>d, <1>0, <1>5, <3>3 DEF PutBack
    <3>5. SavedIsBefore(a)'
      BY <1>0, <3>1 DEF SavedIsBefore, IsTree
    <3> QED BY <2>1, <3>4, <3>5
  <2>2. CASE before[a][src] = Absent
    <3>1. ~result[a].kept
      BY <1>s, <1>d, <1>0, <1>6, <2>0, <2>2 DEF MoveSound
    <3>2. back[src] # Absent \/ back[dest] = Absent
      BY <1>3 DEF Exists
    <3> QED BY <1>4, <1>5, <2>2, <3>1, <3>2
  <2> QED BY <2>1, <2>2
<1>7. a \notin disturbed => MoveSound(a)'
  BY <1>s, <1>d, <1>0, <1>5, <1>6 DEF MoveSound, UndoView, Exists
<1> QED BY <1>5, <1>7

LEMMA UndoCopySound ==
    ASSUME FilesInv, NEW a \in FileActions, FileUndo(a), UndoCopy(a)
    PROVE  UndoView(a) /\ trash' = trash /\ (a \notin disturbed => CopySound(a)')
<1>0. /\ stage[a] \in {"done", "undone"} /\ call[a].tool = "copy"
      /\ UNCHANGED <<backup, call, result, before, repeated, reruns>>
  BY DEF FileUndo, UndoCopy
<1>s. PICK src \in Paths : src = call[a].src
  BY <1>0, SavedView
<1>d. PICK dest \in Paths : dest = call[a].dest
  BY <1>0, SavedView
<1>1. /\ src # dest /\ tree \in [Paths -> FileContents]
      /\ a \notin disturbed => CopySound(a)
  BY <1>s, <1>d, <1>0, SavedView DEF FilesTypeOK
<1>2. Undone(a, [tree EXCEPT ![dest] = IF result[a].kept THEN backup[a] ELSE Absent])
  BY <1>d DEF UndoCopy
<1>3. /\ UndoView(a) /\ trash' = trash /\ tree'[src] = tree[src]
      /\ tree'[dest] = IF result[a].kept THEN backup[a] ELSE Absent
  <2>1. /\ UndoView(a) /\ trash' = trash
        /\ tree' = [tree EXCEPT ![dest] = IF result[a].kept THEN backup[a] ELSE Absent]
    BY <1>2, UndoneView
  <2> QED BY <2>1, <1>1
<1>4. ASSUME a \notin disturbed, a \notin repeated
      PROVE  PutBack(a)' /\ SavedIsBefore(a)' /\ before[a][src] # Absent
  <2>1. SavedIsBefore(a) /\ before[a][src] # Absent /\ (PutBack(a) \/ tree[src] = before[a][src])
    BY <1>s, <1>0, <1>1, <1>4 DEF CopySound
  <2>2. tree'[src] = before[a][src] /\ tree'[dest] = before[a][dest]
    BY <1>s, <1>d, <1>3, <2>1 DEF SavedIsBefore, PutBack
  <2>3. PutBack(a)'
    BY <1>s, <1>d, <1>0, <2>2 DEF PutBack
  <2>4. SavedIsBefore(a)'
    BY <1>0, <2>1 DEF SavedIsBefore, IsTree
  <2> QED BY <2>1, <2>3, <2>4
<1>5. a \notin disturbed => CopySound(a)'
  BY <1>s, <1>0, <1>3, <1>4 DEF CopySound, UndoView
<1> QED BY <1>3, <1>5

LEMMA UndoDeleteSound ==
    ASSUME FilesInv, NEW a \in FileActions, FileUndo(a), UndoDelete(a)
    PROVE  UndoView(a) /\ (a \notin disturbed => DeleteSound(a)')
<1>0. /\ stage[a] \in {"done", "undone"} /\ call[a].tool = "delete"
      /\ UNCHANGED <<backup, call, result, before, repeated, reruns>>
  BY DEF FileUndo, UndoDelete
<1> DEFINE p == call[a].src
           restores == trash[a] = result[a].trashed /\ ~Exists(p)
<1>1. /\ call[a].dest = p /\ p \in Paths /\ tree \in [Paths -> FileContents]
      /\ a \notin disturbed => DeleteSound(a)
  BY <1>0, SavedView DEF FilesTypeOK
<1>2. UndoView(a) /\ tree'[p] = IF restores THEN trash[a] ELSE tree[p]
  <2>1. CASE restores
    <3>1. To(a, "undone") /\ Touches(a, [tree EXCEPT ![p] = trash[a]])
      BY <2>1 DEF UndoDelete
    <3> QED BY <1>0, <1>1, <2>1, <3>1 DEF FilesInv, FilesTypeOK, To, Touches, UndoView
  <2>2. CASE ~restores
    <3>1. To(a, "undone") /\ Same
      BY <2>2 DEF UndoDelete
    <3> QED BY <1>0, <1>1, <2>2, <3>1 DEF FilesInv, FilesTypeOK, To, Same, UndoView
  <2> QED BY <2>1, <2>2
<1>3. ASSUME a \notin disturbed
      PROVE  before[a][p] # Absent /\ PutBack(a)'
  <2>1. /\ before[a][p] # Absent
        /\ \/ PutBack(a)
           \/ tree[p] = Absent /\ trash[a] = before[a][p] /\ result[a].trashed = trash[a]
    BY <1>0, <1>1, <1>3 DEF DeleteSound
  <2>2. tree'[p] = before[a][p]
    BY <1>2, <2>1 DEF PutBack, Exists
  <2> QED BY <1>0, <1>1, <2>1, <2>2 DEF PutBack
<1>4. a \notin disturbed => DeleteSound(a)'
  BY <1>0, <1>2, <1>3 DEF DeleteSound, UndoView
<1> QED BY <1>2, <1>4

LEMMA UndoSound ==
    ASSUME FilesInv, NEW a \in FileActions, FileUndo(a)
    PROVE  UndoView(a) /\ ActionSound(a)'
<1>0. /\ stage[a] \in {"done", "undone"} /\ ActionSound(a) /\ call[a] # NoCall
  <2>1. stage[a] \in {"done", "undone"}
    BY DEF FileUndo
  <2> QED BY <2>1, SavedView
<1>1. ASSUME UndoView(a), trash' = trash \/ call[a].tool = "delete",
             a \notin disturbed =>
                /\ call[a].tool = "write" => WriteSound(a)'
                /\ call[a].tool = "move" => MoveSound(a)'
                /\ call[a].tool = "copy" => CopySound(a)'
                /\ call[a].tool = "delete" => DeleteSound(a)'
      PROVE  ActionSound(a)'
  BY <1>0, <1>1 DEF ActionSound, UndoView, OnePath
<1>2. CASE UndoWrite(a)
  BY <1>1, <1>2, UndoWriteSound DEF UndoWrite
<1>3. CASE UndoMove(a)
  BY <1>1, <1>3, UndoMoveSound DEF UndoMove
<1>4. CASE UndoCopy(a)
  BY <1>1, <1>4, UndoCopySound DEF UndoCopy
<1>5. CASE UndoDelete(a)
  BY <1>1, <1>5, UndoDeleteSound DEF UndoDelete
<1> QED BY <1>2, <1>3, <1>4, <1>5 DEF FileUndo

-----------------------------------------------------------------------------
(* What was there at first stays somewhere.                                 *)
LEMMA HeldStays ==
    ASSUME NEW v, Held(v),
           \A b \in FileActions : /\ backup[b] = v => Held(v)'
                                  /\ trash[b] = v => Held(v)',
           \A p \in Paths : tree[p] = v => Held(v)'
    PROVE  Held(v)'
<1>1. CASE \E p \in Paths : tree[p] = v
  BY <1>1
<1>2. CASE \E b \in FileActions : v \in {backup[b], trash[b]}
  BY <1>2
<1> QED BY <1>1, <1>2 DEF Held

LEMMA PrepareKeeps ==
    ASSUME FilesInv, NEW a \in FileActions, NEW c \in FileCalls, PrepareFile(a, c),
           reruns = 0, NEW v \in Paths, Held(v)
    PROVE  Held(v)'
<1>0. /\ Starts(a, c) /\ Same /\ v # Absent /\ FilesTypeOK /\ ActionSound(a)
      /\ backup' = [backup EXCEPT ![a] = backup'[a]]
      /\ trash' = [trash EXCEPT ![a] = trash'[a]]
  BY FileConstants DEF FilesInv, FilesTypeOK, PrepareFile, PrepareWrite, PrepareMove, PrepareCopy, PrepareDelete,
         Backed, Fails
<1>1. backup[a] = Absent /\ trash[a] = Absent
  BY <1>0 DEF Starts, ActionSound
<1>2. tree' = tree
  BY <1>0 DEF Same
<1>3. \A b \in FileActions : b # a => backup'[b] = backup[b] /\ trash'[b] = trash[b]
  BY <1>0 DEF FilesTypeOK
<1>4. \A p \in Paths : tree[p] = v => Held(v)'
  BY <1>2 DEF Held
<1>5. \A b \in FileActions : /\ backup[b] = v => Held(v)'
                             /\ trash[b] = v => Held(v)'
  BY <1>0, <1>1, <1>3 DEF Held
<1> QED BY <1>4, <1>5, HeldStays

LEMMA ApplyKeeps ==
    ASSUME FilesInv, NEW a \in FileActions, ApplyFile(a),
           reruns = 0, ~blind', NEW v \in Paths, Held(v)
    PROVE  Held(v)'
<1>0. /\ stage[a] = "saved" /\ a \notin repeated
      /\ UNCHANGED <<backup, call, before, repeated, reruns>>
  BY DEF FilesInv, ApplyFile, ApplyWrite, ApplyMove, ApplyCopy, ApplyDelete, Changing
<1>s. PICK src \in Paths : src = call[a].src
  BY <1>0, SavedView
<1>d. PICK dest \in Paths : dest = call[a].dest
  BY <1>0, SavedView
<1>1. /\ FilesTypeOK /\ tree \in [Paths -> FileContents]
      /\ call[a].tool \in {"move", "copy"} => src # dest
      /\ call[a].tool \in {"write", "delete"} => src = dest
      /\ a \notin disturbed =>
                /\ call[a].tool = "write" => WriteSound(a)
                /\ call[a].tool = "move" => MoveSound(a)
                /\ call[a].tool = "copy" => CopySound(a)
                /\ call[a].tool = "delete" => DeleteSound(a)
  BY <1>0, <1>s, <1>d, SavedView DEF FilesTypeOK
<1>2. v # Absent /\ v # EmptySlot
  BY FileConstants
<1>3. \A b \in FileActions : backup[b] = v => Held(v)'
  BY <1>0 DEF Held
<1>4. Breaks(a) => Held(v)'
  <2> SUFFICES ASSUME Breaks(a) PROVE Held(v)'
    OBVIOUS
  <2>1. UNCHANGED <<tree, backup, trash>>
    BY <1>0 DEF Breaks, Same
  <2> QED BY <2>1 DEF Held
<1>5. ASSUME NEW new, Touches(a, new)
      PROVE  a \notin disturbed /\ tree' = new
  BY <1>5 DEF Touches
<1>6. ASSUME NEW new, Changes(a, new), call[a].tool # "delete",
             new[dest] = tree[src] \/ (src = dest), new[src] = tree[src] \/ call[a].tool # "copy",
             \A p \in Paths \ {src, dest} : new[p] = tree[p],
             PutBack(a), SavedIsBefore(a)
      PROVE  Held(v)'
  <2>1. tree' = new /\ trash' = trash
    BY <1>5, <1>6 DEF Changes
  <2>2. tree[dest] = v => Held(v)'
    <3>1. tree[dest] = v => backup[a] = v
      BY <1>d, <1>2, <1>6 DEF PutBack, SavedIsBefore
    <3> QED BY <3>1, <1>3
  <2>3. src # dest /\ tree[src] = v => Held(v)'
    BY <1>6, <2>1 DEF Held
  <2>4. \A p \in Paths : tree[p] = v => Held(v)'
    BY <1>6, <2>1, <2>2, <2>3 DEF Held
  <2>5. \A b \in FileActions : trash[b] = v => Held(v)'
    BY <2>1 DEF Held
  <2> QED BY <1>3, <2>4, <2>5, HeldStays
<1>7. CASE ApplyWrite(a)
  <2>1. CASE Changes(a, [tree EXCEPT ![dest] = a])
    <3>1. a \notin disturbed /\ call[a].tool = "write"
      BY <1>5, <1>7, <2>1 DEF ApplyWrite, Changes
    <3>2. PutBack(a) /\ SavedIsBefore(a)
      BY <1>0, <1>1, <3>1 DEF WriteSound
    <3>3. \A p \in Paths \ {src, dest} : [tree EXCEPT ![dest] = a][p] = tree[p]
      BY <1>1
    <3> QED BY <1>1, <1>6, <2>1, <3>1, <3>2, <3>3
  <2> QED BY <1>4, <1>7, <1>d, <2>1 DEF ApplyWrite
<1>8. CASE ApplyMove(a)
  <2> DEFINE new == [Lands(dest, tree[src]) EXCEPT ![src] = Absent]
  <2>1. CASE Changes(a, new)
    <3>1. a \notin disturbed /\ call[a].tool = "move"
      BY <1>5, <1>8, <2>1 DEF ApplyMove, Changes
    <3>2. PutBack(a) /\ SavedIsBefore(a)
      BY <1>0, <1>1, <3>1 DEF MoveSound
    <3>3. ~IsTree(tree[dest])
      BY <1>d, <3>2 DEF PutBack, SavedIsBefore
    <3>4. new[dest] = tree[src] /\ \A p \in Paths \ {src, dest} : new[p] = tree[p]
      BY <1>1, <3>1, <3>3 DEF Lands
    <3> HIDE DEF new
    <3> QED BY <1>6, <2>1, <3>1, <3>2, <3>4
  <2> QED BY <1>4, <1>8, <1>s, <1>d, <2>1 DEF ApplyMove
<1>9. CASE ApplyCopy(a)
  <2>1. ASSUME NEW new, Changes(a, new),
               ~IsTree(tree[dest]) => new = [tree EXCEPT ![dest] = tree[src]]
        PROVE  Held(v)'
    <3>1. a \notin disturbed /\ call[a].tool = "copy"
      BY <1>5, <1>9, <2>1 DEF ApplyCopy, Changes
    <3>2. PutBack(a) /\ SavedIsBefore(a)
      BY <1>0, <1>1, <3>1 DEF CopySound
    <3>3. ~IsTree(tree[dest])
      BY <1>d, <3>2 DEF PutBack, SavedIsBefore
    <3>4. /\ new[dest] = tree[src] /\ new[src] = tree[src]
          /\ \A p \in Paths \ {src, dest} : new[p] = tree[p]
      BY <1>1, <2>1, <3>1, <3>3
    <3> QED BY <1>6, <2>1, <3>1, <3>2, <3>4
  <2>2. \/ Breaks(a) \/ Changes(a, [tree EXCEPT ![dest] = tree[src]])
        \/ Changes(a, Lands(dest, tree[src]))
    BY <1>9, <1>s, <1>d DEF ApplyCopy
  <2>3. ~IsTree(tree[dest]) => Lands(dest, tree[src]) = [tree EXCEPT ![dest] = tree[src]]
    BY DEF Lands
  <2> QED BY <1>4, <2>1, <2>2, <2>3
<1>10. CASE ApplyDelete(a)
  <2>1. CASE Exists(src)
    <3>1. /\ Touches(a, [tree EXCEPT ![src] = Absent])
          /\ trash' = [trash EXCEPT ![a] = tree[src]] /\ call[a].tool = "delete"
      BY <1>10, <1>s, <2>1 DEF ApplyDelete
    <3>2. a \notin disturbed /\ tree' = [tree EXCEPT ![src] = Absent]
      BY <1>5, <3>1
    <3>3. trash[a] = EmptySlot
      BY <1>0, <1>1, <3>1, <3>2 DEF DeleteSound
    <3>4. \A b \in FileActions : trash[b] = v => trash'[b] = v
      BY <1>1, <1>2, <3>1, <3>3 DEF FilesTypeOK
    <3>5. \A p \in Paths : tree[p] = v => tree'[p] = v \/ trash'[a] = v
      BY <1>1, <3>1, <3>2 DEF FilesTypeOK
    <3>6. /\ \A b \in FileActions : trash[b] = v => Held(v)'
          /\ \A p \in Paths : tree[p] = v => Held(v)'
      BY <3>4, <3>5 DEF Held
    <3> QED BY <1>3, <3>6, HeldStays
  <2> QED BY <1>4, <1>10, <1>s, <2>1 DEF ApplyDelete
<1> QED BY <1>7, <1>8, <1>9, <1>10 DEF ApplyFile

LEMMA UndoKeeps ==
    ASSUME FilesInv, NEW a \in FileActions, FileUndo(a),
           reruns = 0, ~blind', NEW v \in Paths, Held(v)
    PROVE  Held(v)'
<1>0. /\ stage[a] \in {"done", "undone"} /\ a \notin repeated
      /\ UNCHANGED <<backup, call, before, result, repeated, reruns>>
  BY DEF FilesInv, FileUndo
<1>s. PICK src \in Paths : src = call[a].src
  BY <1>0, SavedView
<1>d. PICK dest \in Paths : dest = call[a].dest
  BY <1>0, SavedView
<1>1. /\ FilesTypeOK /\ tree \in [Paths -> FileContents]
      /\ call[a].tool \in {"move", "copy"} => src # dest
      /\ call[a].tool \in {"write", "delete"} => src = dest
      /\ a \notin disturbed =>
                /\ call[a].tool = "write" => WriteSound(a)
                /\ call[a].tool = "move" => MoveSound(a)
                /\ call[a].tool = "copy" => CopySound(a)
                /\ call[a].tool = "delete" => DeleteSound(a)
  BY <1>0, <1>s, <1>d, SavedView DEF FilesTypeOK
<1>2. v # Absent /\ v # EmptySlot /\ v # a
  BY FileConstants
<1>3. \A b \in FileActions : backup[b] = v => Held(v)'
  BY <1>0 DEF Held
<1>4. ASSUME NEW new, Undone(a, new)
      PROVE  a \notin disturbed /\ tree' = new /\ trash' = trash
  BY <1>4 DEF Undone, Touches
<1>5. ASSUME trash' = trash, \A p \in Paths \ {src, dest} : tree'[p] = tree[p],
             tree[src] = v => Held(v)', tree[dest] = v => Held(v)'
      PROVE  Held(v)'
  <2>1. /\ \A b \in FileActions : trash[b] = v => Held(v)'
        /\ \A p \in Paths : tree[p] = v => Held(v)'
    BY <1>5 DEF Held
  <2> QED BY <1>3, <2>1, HeldStays
<1>6. PutBack(a)' => tree'[src] = before[a][src] /\ tree'[dest] = before[a][dest]
  BY <1>0, <1>s, <1>d DEF PutBack
<1>7. CASE UndoWrite(a)
  <2>0. call[a].tool = "write"
    BY <1>7 DEF UndoWrite
  <2>1. Undone(a, Lands(dest, backup[a])) \/ Undone(a, [tree EXCEPT ![dest] = Absent])
    BY <1>7, <1>d DEF UndoWrite
  <2>2. /\ a \notin disturbed /\ trash' = trash
        /\ tree' \in {Lands(dest, backup[a]), [tree EXCEPT ![dest] = Absent]}
    BY <1>4, <2>1
  <2>3. \A p \in Paths \ {src, dest} : tree'[p] = tree[p]
    BY <1>1, <2>2 DEF Lands
  <2>4. tree[dest] = v => tree'[dest] = v
    <3>1. tree[dest] = a \/ PutBack(a)
      BY <1>0, <1>1, <1>d, <2>0, <2>2 DEF WriteSound
    <3>2. PutBack(a)'
      BY <1>0, <1>7, <2>2, UndoWriteSound DEF WriteSound, UndoView
    <3> QED BY <1>2, <1>6, <1>d, <3>1, <3>2 DEF PutBack
  <2> QED BY <1>1, <1>5, <2>0, <2>2, <2>3, <2>4 DEF Held
<1>8. CASE UndoMove(a)
  <2>0. call[a].tool = "move"
    BY <1>8 DEF UndoMove
  <2> DEFINE back == IF Exists(dest) /\ ~Exists(src)
                     THEN [tree EXCEPT ![src] = tree[dest], ![dest] = Absent] ELSE tree
             new == IF result[a].kept THEN [back EXCEPT ![dest] = backup[a]] ELSE back
  <2>1. Undone(a, new)
    BY <1>8, <1>s, <1>d DEF UndoMove
  <2>2. a \notin disturbed /\ trash' = trash /\ tree' = new
    <3> HIDE DEF back, new
    <3> QED BY <1>4, <2>1
  <2>3. /\ back \in [Paths -> FileContents]
        /\ \A p \in Paths \ {src, dest} : back[p] = tree[p]
        /\ IF Exists(dest) /\ ~Exists(src) THEN back[src] = tree[dest] /\ back[dest] = Absent
                                           ELSE back[src] = tree[src] /\ back[dest] = tree[dest]
    BY <1>1, <2>0 DEF FileContents
  <2> HIDE DEF back
  <2>4. /\ \A p \in Paths \ {src, dest} : tree'[p] = tree[p]
        /\ tree'[src] = back[src]
        /\ ~result[a].kept => tree'[dest] = back[dest]
    BY <1>1, <2>0, <2>2, <2>3
  <2> HIDE DEF new
  <2>5. tree[src] = v => tree'[src] = v
    BY <1>2, <2>3, <2>4 DEF Exists
  <2>6. tree[dest] = v => tree'[dest] = v \/ tree'[src] = v
    <3>1. CASE ~result[a].kept
      BY <2>3, <2>4, <3>1
    <3>2. CASE result[a].kept
      <4>1. MoveSound(a) /\ MoveSound(a)'
        BY <1>1, <1>8, <2>0, <2>2, UndoMoveSound
      <4>2. before[a][src] # Absent /\ (Moved(a) \/ PutBack(a))
        BY <1>0, <1>s, <1>d, <3>2, <4>1 DEF MoveSound
      <4>3. stage'[a] = "undone"
        BY <1>8, UndoMoveSound DEF UndoView
      <4>4. PutBack(a)'
        BY <1>0, <1>s, <1>d, <4>1, <4>2, <4>3 DEF MoveSound
      <4> QED BY <1>6, <1>s, <1>d, <4>2, <4>4 DEF Moved, PutBack
    <3> QED BY <3>1, <3>2
  <2> QED BY <1>5, <2>2, <2>4, <2>5, <2>6 DEF Held
<1>9. CASE UndoCopy(a)
  <2>0. call[a].tool = "copy"
    BY <1>9 DEF UndoCopy
  <2>1. Undone(a, [tree EXCEPT ![dest] = IF result[a].kept THEN backup[a] ELSE Absent])
    BY <1>9, <1>d DEF UndoCopy
  <2>2. /\ a \notin disturbed /\ trash' = trash
        /\ tree' = [tree EXCEPT ![dest] = IF result[a].kept THEN backup[a] ELSE Absent]
    BY <1>4, <2>1
  <2>3. /\ \A p \in Paths \ {src, dest} : tree'[p] = tree[p]
        /\ tree'[src] = tree[src]
    BY <1>1, <2>0, <2>2
  <2>4. tree[dest] = v => tree'[dest] = v \/ tree'[src] = v
    <3>1. CopySound(a) /\ CopySound(a)' /\ stage'[a] = "undone"
      BY <1>1, <1>9, <2>0, <2>2, UndoCopySound DEF UndoView
    <3>2. PutBack(a)'
      BY <1>0, <3>1 DEF CopySound
    <3>3. PutBack(a) \/ tree[dest] = tree[src]
      BY <1>0, <1>s, <1>d, <3>1 DEF CopySound
    <3> QED BY <1>6, <1>d, <2>3, <3>2, <3>3 DEF PutBack
  <2> QED BY <1>5, <2>2, <2>3, <2>4 DEF Held
<1>10. CASE UndoDelete(a)
  <2>1. CASE trash[a] = result[a].trashed /\ ~Exists(src)
    <3>1. /\ Touches(a, [tree EXCEPT ![src] = trash[a]])
          /\ trash' = [trash EXCEPT ![a] = IF @ = EmptySlot THEN Absent ELSE EmptySlot]
      BY <1>10, <1>s, <2>1 DEF UndoDelete
    <3>2. tree' = [tree EXCEPT ![src] = trash[a]]
      BY <3>1 DEF Touches
    <3>3. \A p \in Paths : tree[p] = v => tree'[p] = v
      BY <1>1, <1>2, <2>1, <3>2 DEF Exists
    <3>4. \A b \in FileActions : trash[b] = v => trash'[b] = v \/ tree'[src] = v
      BY <1>1, <3>1, <3>2 DEF FilesTypeOK
    <3>5. /\ \A b \in FileActions : trash[b] = v => Held(v)'
          /\ \A p \in Paths : tree[p] = v => Held(v)'
      BY <3>3, <3>4 DEF Held
    <3> QED BY <1>3, <3>5, HeldStays
  <2>2. CASE ~(trash[a] = result[a].trashed /\ ~Exists(src))
    <3>1. UNCHANGED <<tree, trash>>
      BY <1>10, <1>s, <2>2 DEF UndoDelete, Same
    <3> QED BY <1>0, <3>1 DEF Held
  <2> QED BY <2>1, <2>2
<1> QED BY <1>7, <1>8, <1>9, <1>10 DEF FileUndo

-----------------------------------------------------------------------------
LEMMA FilesInvInit == FilesInit => FilesInv
<1> SUFFICES ASSUME FilesInit PROVE FilesInv
  OBVIOUS
<1>1. \A a \in FileActions : ActionSound(a)
  BY DEF FilesInit, ActionSound, OnePath, NoCall
<1>2. OriginalsAreKept
  BY FileAssumption DEF FilesInit, OriginalsAreKept, Held
<1>3. repeated = {}
  BY DEF FilesInit
<1> QED BY <1>1, <1>2, <1>3, FilesTypeInit DEF FilesInv

(* One action's step leaves every other action sound.                       *)
LEMMA OthersAreLeft ==
    ASSUME FilesInv, NEW a \in FileActions, NEW b \in FileActions, b # a,
           \/ \E c \in FileCalls : PrepareFile(a, c)
           \/ ApplyFile(a) \/ FileWorkerDies(a) \/ FileRecorded(a) \/ FileUndo(a)
    PROVE  LeftAlone(b)
<1>0. FilesTypeOK /\ reruns \in Nat
  BY DEF FilesInv, FilesTypeOK
<1>1. ASSUME NEW c \in FileCalls, PrepareFile(a, c)
      PROVE  LeftAlone(b)
  <2>1. Starts(a, c) /\ Same
    BY <1>1 DEF PrepareFile, PrepareWrite, PrepareMove, PrepareCopy, PrepareDelete, Backed, Fails
  <2>2. stage'[b] = stage[b] /\ backup'[b] = backup[b] /\ trash'[b] = trash[b] /\ result'[b] = result[b]
    <3>1. stage'[b] = stage[b]
      BY <1>0, <1>1 DEF PrepareFile, PrepareWrite, PrepareMove, PrepareCopy, PrepareDelete, Backed, Fails, To,
             FilesTypeOK
    <3>2. backup'[b] = backup[b] /\ trash'[b] = trash[b]
      BY <1>0, <1>1 DEF PrepareFile, PrepareWrite, PrepareMove, PrepareCopy, PrepareDelete, Backed, Fails,
             FilesTypeOK
    <3>3. result'[b] = result[b]
      BY <1>0, <1>1 DEF PrepareFile, PrepareWrite, PrepareMove, PrepareCopy, PrepareDelete, Backed, Fails,
             Answers, FilesTypeOK
    <3> QED BY <3>1, <3>2, <3>3
  <2> QED BY <1>0, <2>1, <2>2 DEF LeftAlone, Starts, Same, FilesTypeOK
<1>2. ASSUME ApplyFile(a) PROVE LeftAlone(b)
  <2>1. UNCHANGED <<backup, call, before, repeated, reruns>>
    BY <1>2 DEF ApplyFile, ApplyWrite, ApplyMove, ApplyCopy, ApplyDelete, Changing
  <2>2. stage'[b] = stage[b] /\ trash'[b] = trash[b] /\ result'[b] = result[b]
    BY <1>0, <1>2 DEF ApplyFile, ApplyWrite, ApplyMove, ApplyCopy, ApplyDelete, Breaks, Changes, To, Answers,
           FilesTypeOK
  <2>3. Same \/ \E new : Touches(a, new)
    BY <1>2 DEF ApplyFile, ApplyWrite, ApplyMove, ApplyCopy, ApplyDelete, Breaks, Changes
  <2>4. /\ b \in disturbed => b \in disturbed'
        /\ call[b] # NoCall /\ stage[b] # "failed" /\ b \notin disturbed' =>
             tree'[call[b].src] = tree[call[b].src] /\ tree'[call[b].dest] = tree[call[b].dest]
    BY <2>3, TouchedAreDisturbed DEF Same
  <2> QED BY <2>1, <2>2, <2>4 DEF LeftAlone
<1>3. ASSUME FileUndo(a) PROVE LeftAlone(b)
  <2>1. UNCHANGED <<backup, call, result, before, repeated, reruns>>
    BY <1>3 DEF FileUndo
  <2>2. stage'[b] = stage[b] /\ trash'[b] = trash[b]
    BY <1>0, <1>3 DEF FileUndo, UndoWrite, UndoMove, UndoCopy, UndoDelete, Undone, To, FilesTypeOK
  <2>3. Same \/ \E new : Touches(a, new)
    BY <1>3 DEF FileUndo, UndoWrite, UndoMove, UndoCopy, UndoDelete, Undone
  <2>4. /\ b \in disturbed => b \in disturbed'
        /\ call[b] # NoCall /\ stage[b] # "failed" /\ b \notin disturbed' =>
             tree'[call[b].src] = tree[call[b].src] /\ tree'[call[b].dest] = tree[call[b].dest]
    BY <2>3, TouchedAreDisturbed DEF Same
  <2> QED BY <2>1, <2>2, <2>4 DEF LeftAlone
<1>4. ASSUME FileWorkerDies(a) \/ FileRecorded(a) PROVE LeftAlone(b)
  <2>1. UNCHANGED <<tree, backup, trash, call, result, before, disturbed, blind>>
    BY <1>4 DEF FileWorkerDies, FileRecorded
  <2>2. stage'[b] = stage[b] /\ (b \in repeated' <=> b \in repeated)
    BY <1>0, <1>4 DEF FileWorkerDies, FileRecorded, To, FilesTypeOK
  <2>3. reruns' = 0 => reruns = 0
    BY <1>0, <1>4 DEF FileWorkerDies, FileRecorded
  <2> QED BY <2>1, <2>2, <2>3 DEF LeftAlone
<1> QED BY <1>1, <1>2, <1>3, <1>4

LEMMA FilesInvNext == FilesInv /\ [FilesNext]_fileVars => FilesInv'
<1> SUFFICES ASSUME FilesInv, [FilesNext]_fileVars PROVE FilesInv'
  OBVIOUS
<1>0. FilesTypeOK'
  BY FilesTypeNext
<1>1. CASE UNCHANGED fileVars
  <2>1. ASSUME NEW b \in FileActions PROVE ActionSound(b)'
    <3>1. LeftAlone(b) /\ ActionSound(b)
      BY <1>1 DEF fileVars, LeftAlone, FilesInv
    <3> QED BY <3>1, OthersStaySound
  <2>2. OriginalsAreKept' /\ (reruns' = 0 => repeated' = {})
    BY <1>1 DEF fileVars, FilesInv, OriginalsAreKept, Held
  <2> QED BY <1>0, <2>1, <2>2 DEF FilesInv
<1>2. ASSUME NEW a \in FileActions,
             \/ \E c \in FileCalls : PrepareFile(a, c)
             \/ ApplyFile(a) \/ FileWorkerDies(a) \/ FileRecorded(a) \/ FileUndo(a)
      PROVE  FilesInv'
  <2>1. ActionSound(a)'
    BY <1>2, PrepareSound, ApplySound, EndsSound, UndoSound
  <2>2. ASSUME NEW b \in FileActions, b # a PROVE ActionSound(b)'
    <3>1. LeftAlone(b) /\ ActionSound(b)
      BY <1>2, <2>2, OthersAreLeft DEF FilesInv
    <3> QED BY <3>1, OthersStaySound
  <2>3. reruns' = 0 => repeated' = {} /\ reruns = 0
    <3>1. reruns \in Nat /\ (reruns = 0 => repeated = {})
      BY DEF FilesInv, FilesTypeOK
    <3>2. (repeated' = repeated /\ reruns' = reruns) \/ reruns' = reruns + 1
      BY <1>2 DEF PrepareFile, PrepareWrite, PrepareMove, PrepareCopy, PrepareDelete, Starts,
             ApplyFile, ApplyWrite, ApplyMove, ApplyCopy, ApplyDelete, Changing,
             FileWorkerDies, FileRecorded, FileUndo
    <3> QED BY <3>1, <3>2
  <2>4. ~blind' => ~blind
    <3>1. blind' = blind \/ \E new : Touches(a, new)
      BY <1>2 DEF PrepareFile, PrepareWrite, PrepareMove, PrepareCopy, PrepareDelete, Backed, Fails, Same,
             ApplyFile, ApplyWrite, ApplyMove, ApplyCopy, ApplyDelete, Breaks, Changes,
             FileWorkerDies, FileRecorded, FileUndo, UndoWrite, UndoMove, UndoCopy, UndoDelete, Undone
    <3> QED BY <3>1 DEF Touches
  <2>5. OriginalsAreKept'
    <3> SUFFICES ASSUME reruns' = 0, ~blind', NEW p \in Present PROVE Held(p)'
      BY DEF OriginalsAreKept
    <3>1. reruns = 0 /\ Held(p) /\ p \in Paths
      BY <2>3, <2>4, FileAssumption DEF FilesInv, OriginalsAreKept
    <3>2. CASE FileWorkerDies(a) \/ FileRecorded(a)
      BY <3>1, <3>2 DEF FileWorkerDies, FileRecorded, Held
    <3> QED BY <1>2, <3>1, <3>2, PrepareKeeps, ApplyKeeps, UndoKeeps
  <2> QED BY <1>0, <2>1, <2>2, <2>3, <2>5 DEF FilesInv
<1> QED BY <1>1, <1>2 DEF FilesNext

(* An undone action that nobody disturbed has its paths as they were.       *)
LEMMA UndoneIsBack ==
    ASSUME FilesInv, NEW a \in FileActions, Undisturbed(a), a \notin repeated \/ Survives(a)
    PROVE  PutBack(a)
<1>1. /\ stage[a] = "undone" /\ a \notin disturbed
      /\ call[a].tool = "write" \/ before[a][call[a].src] # Absent
  BY DEF Undisturbed
<1>2. /\ call[a].tool \in {"write", "delete", "move", "copy"}
      /\ call[a].tool = "write" => WriteSound(a)
      /\ call[a].tool = "move" => MoveSound(a)
      /\ call[a].tool = "copy" => CopySound(a)
      /\ call[a].tool = "delete" => DeleteSound(a)
  BY <1>1, SavedView
<1>3. CASE call[a].tool = "write"
  BY <1>1, <1>2, <1>3 DEF Survives, WriteSound
<1>4. CASE call[a].tool = "move"
  <2>1. a \notin repeated \/ before[a][call[a].dest] = Absent
    BY <1>4 DEF Survives, Overwrites
  <2> QED BY <1>1, <1>2, <1>4, <2>1 DEF MoveSound
<1>5. CASE call[a].tool = "copy"
  BY <1>1, <1>2, <1>5 DEF Survives, CopySound
<1>6. CASE call[a].tool = "delete"
  BY <1>1, <1>2, <1>6 DEF DeleteSound
<1> QED BY <1>2, <1>3, <1>4, <1>5, <1>6

(* Undoing what is undone moves nothing.                                    *)
LEMMA SecondUndoStays ==
    ASSUME FilesInv, NEW a \in FileActions, FileUndo(a), stage[a] = "undone",
           a \notin disturbed, a \notin repeated
    PROVE  \A p \in {call[a].src, call[a].dest} : tree'[p] = tree[p]
<1>0. UNCHANGED <<call, before, result, repeated>> /\ stage'[a] = "undone"
  BY UndoSound DEF FileUndo, UndoView
<1>1. /\ call[a].tool \in {"write", "delete", "move", "copy"} /\ call[a].src \in Paths /\ call[a].dest \in Paths
      /\ call[a].tool = "write" => WriteSound(a)
      /\ call[a].tool = "move" => MoveSound(a)
      /\ call[a].tool = "copy" => CopySound(a)
      /\ call[a].tool = "delete" => DeleteSound(a)
  BY SavedView
<1>2. PutBack(a) /\ PutBack(a)' => \A p \in {call[a].src, call[a].dest} : tree'[p] = tree[p]
  BY <1>0 DEF PutBack
<1>3. CASE call[a].tool = "write"
  <2>1. UndoWrite(a)
    BY <1>3 DEF FileUndo, UndoWrite, UndoMove, UndoCopy, UndoDelete
  <2>2. WriteSound(a) /\ WriteSound(a)'
    BY <1>1, <1>3, <2>1, UndoWriteSound
  <2> QED BY <1>0, <1>2, <2>2 DEF WriteSound
<1>4. CASE call[a].tool = "copy"
  <2>1. UndoCopy(a)
    BY <1>4 DEF FileUndo, UndoWrite, UndoMove, UndoCopy, UndoDelete
  <2>2. CopySound(a) /\ CopySound(a)'
    BY <1>1, <1>4, <2>1, UndoCopySound
  <2> QED BY <1>0, <1>2, <2>2 DEF CopySound
<1>5. CASE call[a].tool = "delete"
  <2>1. UndoDelete(a)
    BY <1>5 DEF FileUndo, UndoWrite, UndoMove, UndoCopy, UndoDelete
  <2>2. DeleteSound(a) /\ DeleteSound(a)'
    BY <1>1, <1>5, <2>1, UndoDeleteSound
  <2> QED BY <1>0, <1>2, <2>2 DEF DeleteSound
<1>6. CASE call[a].tool = "move"
  <2>1. UndoMove(a)
    BY <1>6 DEF FileUndo, UndoWrite, UndoMove, UndoCopy, UndoDelete
  <2>2. MoveSound(a) /\ MoveSound(a)'
    BY <1>1, <1>6, <2>1, UndoMoveSound
  <2>3. CASE before[a][call[a].src] # Absent
    BY <1>0, <1>2, <2>2, <2>3 DEF MoveSound
  <2>4. CASE before[a][call[a].src] = Absent
    <3>1. ~result[a].kept /\ (Exists(call[a].src) \/ ~Exists(call[a].dest))
      BY <2>2, <2>4 DEF MoveSound
    <3>2. Undone(a, tree)
      BY <2>1, <3>1 DEF UndoMove
    <3> QED BY <3>2 DEF Undone, Touches
  <2> QED BY <2>3, <2>4
<1> QED BY <1>1, <1>3, <1>4, <1>5, <1>6

(* An undone action steps only by being undone again, and who is disturbed  *)
(* stays so.                                                                *)
LEMMA UndoAgain ==
    FilesInv /\ [FilesNext]_fileVars =>
        [\A a \in FileActions :
          stage[a] = "undone" /\ stage'[a] = "undone" /\ a \notin disturbed /\ a \notin disturbed'
          /\ a \notin repeated
              => \A p \in {call[a].src, call[a].dest} : tree'[p] = tree[p]]_fileVars
<1> SUFFICES ASSUME FilesInv, [FilesNext]_fileVars, NEW a \in FileActions,
                    stage[a] = "undone", a \notin disturbed, a \notin disturbed', a \notin repeated
             PROVE  \A p \in {call[a].src, call[a].dest} : tree'[p] = tree[p]
  OBVIOUS
<1>1. CASE UNCHANGED fileVars
  BY <1>1 DEF fileVars
<1>2. ASSUME NEW b \in FileActions,
             \/ \E c \in FileCalls : PrepareFile(b, c)
             \/ ApplyFile(b) \/ FileWorkerDies(b) \/ FileRecorded(b) \/ FileUndo(b)
      PROVE  \A p \in {call[a].src, call[a].dest} : tree'[p] = tree[p]
  <2>1. CASE b # a
    <3>1. LeftAlone(a) /\ call[a] # NoCall
      BY <1>2, <2>1, OthersAreLeft, SavedView
    <3> QED BY <3>1 DEF LeftAlone
  <2>2. CASE b = a
    <3>1. FileUndo(a)
      BY <1>2, <2>2 DEF PrepareFile, PrepareWrite, PrepareMove, PrepareCopy, PrepareDelete, Starts,
             ApplyFile, ApplyWrite, ApplyMove, ApplyCopy, ApplyDelete, Changing, FileWorkerDies, FileRecorded
    <3> QED BY <3>1, SecondUndoStays
  <2> QED BY <2>1, <2>2
<1> QED BY <1>1, <1>2 DEF FilesNext

(* However the file actions interleave, die and run again: undoing one that *)
(* nobody disturbed puts its paths back (unless it was repeated in the way  *)
(* the property excludes), a second undo changes nothing, and while nothing *)
(* runs twice and nobody acts on what another changed, what was there at    *)
(* first is still somewhere (fs.write, fs.move, fs.copy, fs.delete and      *)
(* their compensations).                                                    *)
THEOREM UndoPutsBack == FilesSpec => UndoIsSafe
<1>1. FilesInit => FilesInv
  BY FilesInvInit
<1>2. FilesInv /\ [FilesNext]_fileVars => FilesInv'
  BY FilesInvNext
<1>3. FilesInv => FilesTypeOK /\ UndoneUnlessRepeated /\ OriginalsAreKept
  BY UndoneIsBack DEF FilesInv, UndoneUnlessRepeated
<1>4. FilesInv /\ [FilesNext]_fileVars =>
        [\A a \in FileActions :
          stage[a] = "undone" /\ stage'[a] = "undone" /\ a \notin disturbed /\ a \notin disturbed'
          /\ a \notin repeated
              => \A p \in {call[a].src, call[a].dest} : tree'[p] = tree[p]]_fileVars
  BY UndoAgain
<1> QED BY <1>1, <1>2, <1>3, <1>4, PTL DEF FilesSpec, UndoIsSafe, UndoTwiceIsOnce
================================================================================
