--------------------------- MODULE SurfaceSessions ---------------------------
(* The browser and the desktop that a task's actions drive. Each worker       *)
(* process keeps a session of its own for the task; a target is resolved      *)
(* again for every action, by role and name first, by identifier second, by  *)
(* coordinates last; and a click in the browser is verified by a query.       *)
EXTENDS Naturals, Sequences

CONSTANTS
    SurfaceProcesses,  \* worker processes
    Pages,             \* pages and apps
    ElementsOf,        \* ElementsOf[p]: its elements in the order of the walk
    Targets,           \* what actions ask for
    Typed,             \* the text they type, which may become a name
    NoPage             \* nothing has been opened

Unset == "unset"

(* An element: role, the names it answers to, identifier, whether it is a    *)
(* password, whether it has a label (if not, its value is its name), and the  *)
(* points its bounds contain, none when it has no bounds.                     *)
Elements ==
    [role: STRING, names: SUBSET STRING, id: STRING, secret: BOOLEAN, labelled: BOOLEAN,
     over: SUBSET STRING]

ASSUME SurfaceAssumption ==
    /\ NoPage \notin Pages
    /\ \A p \in Pages : ElementsOf[p] \in Seq(Elements)

VARIABLES
    driver,   \* "fixture" or "playwright" browser, or "desktop"; they share nothing
    browser,   \* browser[w]: the page of the fixture, whether its url is fixture://,
               \* the live page, and the elements of each that were typed into
    desktop,   \* desktop[w]: the app whose tree is shown, the title, the windows, the values
    acted      \* acted[w]: the last action of a process and what it reported

surfaceVars == <<driver, browser, desktop, acted>>

NoBrowser == [shown |-> NoPage, routed |-> FALSE, live |-> NoPage, filled |-> {}, liveFilled |-> {}]
NoDesktop == [app |-> NoPage, title |-> NoPage, windows |-> {}, filled |-> {}]
NoAct == [tool |-> "none", target |-> Unset, element |-> 0, reported |-> 0, secret |-> FALSE, allowed |-> FALSE]

SurfaceInit ==
    /\ driver = Unset
    /\ browser = [w \in SurfaceProcesses |-> NoBrowser]
    /\ desktop = [w \in SurfaceProcesses |-> NoDesktop]
    /\ acted = [w \in SurfaceProcesses |-> NoAct]

-----------------------------------------------------------------------------
Indices(p) == IF p = NoPage THEN {} ELSE DOMAIN ElementsOf[p]
FirstOf(S) == IF S = {} THEN 0 ELSE CHOOSE i \in S : \A j \in S : i <= j

(* A text typed into an element without a label becomes its name. *)
Names(e, i, filled) == IF ~e.labelled /\ i \in filled THEN {Typed} ELSE e.names

Says(e, names, t) ==
    /\ t.role # Unset => t.role = e.role
    /\ t.name # Unset => t.name \in names

(* The browser's first tier asks for the selector as well, the desktop's does *)
(* not look at the automation id.                                             *)
ByRole(p, filled, t, inBrowser) ==
    IF t.role = Unset /\ t.name = Unset THEN 0
    ELSE FirstOf({i \in Indices(p) :
            LET e == ElementsOf[p][i]
            IN  Says(e, Names(e, i, filled), t) /\ (inBrowser /\ t.id # Unset => e.id = t.id)})
ById(p, t) == IF t.id = Unset THEN 0 ELSE FirstOf({i \in Indices(p) : ElementsOf[p][i].id = t.id})

Interactive(e) == e.role \in {"button", "textbox"}

(* The browser's fixture looks at no coordinate: any one is its first element *)
(* to operate; the desktop's is what the point lies in, if anything.          *)
Under(e, t, inBrowser) == IF inBrowser THEN Interactive(e) ELSE t.point \in e.over
ByPoint(p, t, inBrowser) ==
    IF t.point = Unset THEN 0 ELSE FirstOf({i \in Indices(p) : Under(ElementsOf[p][i], t, inBrowser)})

(* A reference is a position in the tree and skips every other criterion; 0   *)
(* is an element that was not found.                                          *)
Resolve(p, filled, t, inBrowser) ==
    IF t.ref # 0 THEN IF t.ref \in Indices(p) THEN t.ref ELSE 0
    ELSE IF ByRole(p, filled, t, inBrowser) # 0 THEN ByRole(p, filled, t, inBrowser)
    ELSE IF ById(p, t) # 0 THEN ById(p, t)
    ELSE ByPoint(p, t, inBrowser)

(* A live page is asked for role and name together, or for a selector.       *)
LiveResolve(p, filled, t) ==
    IF t.role # Unset /\ t.name # Unset THEN ByRole(p, filled, [t EXCEPT !.id = Unset], FALSE)
    ELSE ById(p, t)
LiveSelects(p, filled, t) ==
    IF t.id # Unset THEN ById(p, t) ELSE LiveResolve(p, filled, t)

-----------------------------------------------------------------------------
(* The browser. With Playwright an action goes to the fixture once a          *)
(* fixture:// page has been opened, whatever was opened since.                *)
BugLatestOnly(s) == driver = "playwright" /\ s.live # NoPage
OnLive(s) == driver = "playwright" /\ s.live # NoPage /\ ~s.routed

Browsing == driver \in {"fixture", "playwright"} /\ UNCHANGED driver
Operating == driver = "desktop" /\ UNCHANGED driver
StartDriver(b) ==
    /\ driver = Unset /\ driver' = b
    /\ UNCHANGED <<browser, desktop, acted>>

OpenPage(w, p, scheme) ==
    /\ Browsing /\ UNCHANGED desktop
    /\ acted' = [acted EXCEPT ![w] = NoAct]
    /\ browser' = [browser EXCEPT ![w] =
         IF driver = "fixture" \/ scheme = "fixture"
         THEN [@ EXCEPT !.shown = p, !.filled = {}, !.routed = (scheme = "fixture")]
         ELSE [@ EXCEPT !.live = p, !.liveFilled = {}]]

(* The url is stored before the page is found to be missing. *)
OpenMissing(w) ==
    /\ Browsing /\ UNCHANGED <<desktop, acted>>
    /\ browser' = [browser EXCEPT ![w].routed = TRUE]

Acts(w, tool, t, i, reported, secret, allowed) ==
    acted' = [acted EXCEPT ![w] = [tool |-> tool, target |-> t, element |-> i, reported |-> reported,
                                   secret |-> secret, allowed |-> allowed]]

Found(s, t) ==
    IF OnLive(s) THEN LiveResolve(s.live, s.liveFilled, t) ELSE Resolve(s.shown, s.filled, t, TRUE)
ActsOn(s) == IF OnLive(s) THEN s.live ELSE s.shown
Fill(s, i) ==
    IF OnLive(s) THEN [s EXCEPT !.liveFilled = @ \cup {i}] ELSE [s EXCEPT !.filled = @ \cup {i}]

BrowserClick(w, t) ==
    LET s == browser[w] IN
    /\ Browsing /\ Found(s, t) # 0
    /\ Acts(w, "click", t, Found(s, t), Found(s, t), FALSE, FALSE)
    /\ UNCHANGED <<browser, desktop>>

(* On a live page the element is looked for again after it was filled, to be *)
(* reported; by then its value may answer to the name or no longer do so.     *)
BrowserType(w, t, allowed) ==
    LET s == browser[w]
        i == Found(s, t)
    IN
    /\ Browsing /\ i # 0 /\ UNCHANGED desktop
    /\ ElementsOf[ActsOn(s)][i].secret => allowed
    /\ browser' = [browser EXCEPT ![w] = Fill(s, i)]
    /\ Acts(w, "type", t, i, IF OnLive(s) THEN Found(Fill(s, i), t) ELSE i,
            ElementsOf[ActsOn(s)][i].secret, allowed)

(* A selection sets a value too, and looks at no password. *)
BrowserSelect(w, t) ==
    LET s == browser[w]
        i == IF OnLive(s) THEN LiveSelects(s.live, s.liveFilled, t) ELSE Found(s, t)
    IN
    /\ Browsing /\ i # 0 /\ UNCHANGED desktop
    /\ browser' = [browser EXCEPT ![w] = Fill(s, i)]
    /\ Acts(w, "select", t, i, IF OnLive(s) THEN Found(Fill(s, i), t) ELSE i,
            ElementsOf[ActsOn(s)][i].secret, FALSE)

(* The query that verifies a click asks the process' fixture browser, which   *)
(* no Playwright session ever opens a page in.                                *)
ClickVerdict(w) ==
    LET t == acted[w].target IN
    IF t.role = Unset /\ t.name = Unset /\ t.id = Unset /\ t.ref = 0 THEN "PASS"
    ELSE IF driver = "fixture" /\ Found(browser[w], t) # 0 THEN "PASS" ELSE "FAIL"

-----------------------------------------------------------------------------
(* The desktop, where the Windows driver delegates to the fixture. Focusing *)
(* a window changes the title and leaves the tree.                            *)
OpenApp(w, p) ==
    /\ Operating /\ UNCHANGED browser
    /\ acted' = [acted EXCEPT ![w] = NoAct]
    /\ desktop' = [desktop EXCEPT ![w] =
         [app |-> p, title |-> p, windows |-> @.windows \cup {p}, filled |-> {}]]

Focus(w, p) ==
    /\ Operating /\ p \in desktop[w].windows
    /\ desktop' = [desktop EXCEPT ![w].title = p]
    /\ UNCHANGED <<browser, acted>>

OnDesktop(w, t) == Resolve(desktop[w].app, {}, t, FALSE)

DesktopClick(w, t) ==
    /\ Operating /\ OnDesktop(w, t) # 0
    /\ Acts(w, "click_element", t, OnDesktop(w, t), OnDesktop(w, t), FALSE, FALSE)
    /\ UNCHANGED <<browser, desktop>>

DesktopFill(w, tool, t, allowed) ==
    LET i == OnDesktop(w, t)
        secret == ElementsOf[desktop[w].app][i].secret
    IN
    /\ Operating /\ i # 0 /\ UNCHANGED browser
    /\ secret => tool = "type_text" /\ allowed
    /\ desktop' = [desktop EXCEPT ![w].filled = @ \cup {i}]
    /\ Acts(w, tool, t, i, i, secret, allowed)

(* The process ends, and its sessions with it. *)
SurfaceRestart(w) ==
    /\ driver # Unset /\ UNCHANGED driver
    /\ browser' = [browser EXCEPT ![w] = NoBrowser] /\ desktop' = [desktop EXCEPT ![w] = NoDesktop]
    /\ acted' = [acted EXCEPT ![w] = NoAct]

SurfaceNext ==
    \/ \E b \in {"fixture", "playwright", "desktop"} : StartDriver(b)
    \/ \E w \in SurfaceProcesses :
         \/ \E p \in Pages :
              \/ \E scheme \in {"fixture", "https"} : OpenPage(w, p, scheme)
              \/ OpenApp(w, p) \/ Focus(w, p)
         \/ \E t \in Targets :
              \/ BrowserClick(w, t) \/ BrowserSelect(w, t) \/ DesktopClick(w, t)
              \/ \E allowed \in BOOLEAN : BrowserType(w, t, allowed)
              \/ \E tool \in {"set_field", "type_text"}, allowed \in BOOLEAN :
                   DesktopFill(w, tool, t, allowed)
         \/ OpenMissing(w) \/ SurfaceRestart(w)

SurfaceSpec == SurfaceInit /\ [][SurfaceNext]_surfaceVars

-----------------------------------------------------------------------------
(* What read_page shows, when it shows anything, is the page that the next    *)
(* click acts on: reading and acting never look at two pages.                 *)
ReadShowsWhatIsActedOn ==
    \A w \in SurfaceProcesses : browser[w].shown # NoPage => ActsOn(browser[w]) = browser[w].shown

(* An element found by its role or name answers to both whatever tier would  *)
(* have found another, one found by identifier has it and only where no other *)
(* answers, and a point decides only where neither finds anything (ADR-0004,  *)
(* ADR-0005).                                                                 *)
AccessibilityFirst ==
    \A w \in SurfaceProcesses, t \in {x \in Targets : x.ref = 0}, inBrowser \in BOOLEAN :
        LET p == browser[w].shown
            i == Resolve(p, browser[w].filled, t, inBrowser)
            fits == {j \in Indices(p) :
                        /\ Says(ElementsOf[p][j], Names(ElementsOf[p][j], j, browser[w].filled), t)
                        /\ inBrowser => t.id \in {Unset, ElementsOf[p][j].id}}
            called == t.role # Unset \/ t.name # Unset
            identified == {j \in Indices(p) : t.id # Unset /\ ElementsOf[p][j].id = t.id}
        IN  i # 0 =>
              \/ called /\ i \in fits
              \/ (called => fits = {}) /\ i \in identified
              \/ /\ called => fits = {}
                 /\ identified = {}
                 /\ t.point # Unset /\ Under(ElementsOf[p][i], t, inBrowser)

(* No password is filled by typing or by setting a field unless the action    *)
(* was allowed to type one, whatever target led to it, live or not.           *)
SecretsNeedConsent ==
    \A w \in SurfaceProcesses :
        acted[w].secret /\ acted[w].tool # "select" => acted[w].allowed /\ acted[w].tool # "set_field"

(* A click on an element is confirmed when the fixture is the driver, and    *)
(* never when Playwright is: the verdict says nothing about the click.        *)
ClickVerdicts ==
    \A w \in SurfaceProcesses :
        acted[w].tool = "click" =>
            \/ acted[w].target.point # Unset
            \/ ClickVerdict(w) = IF driver = "fixture" THEN "PASS" ELSE "FAIL"

(* What a page or a desktop shows is what is acted on: reads and actions agree*)
(* on the page unless it was opened live after a fixture, a target resolves to*)
(* the most trustworthy tier, nothing secret is typed without consent, and a  *)
(* click is reported verified only after a look (browser and desktop tools).  *)
ActsOnWhatIsSeen ==
    /\ ReadShowsWhatIsActedOn
    /\ AccessibilityFirst
    /\ SecretsNeedConsent
    /\ ClickVerdicts
=============================================================================
