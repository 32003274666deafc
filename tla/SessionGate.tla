------------------------------- MODULE SessionGate -------------------------------
(***************************************************************************)
(* Which page of the web app a browser ends on.  Three parts send it       *)
(* elsewhere, and none knows of the others: the server, before it renders  *)
(* a page, by the token in a cookie (enforceSessionGateForPage, RootPage); *)
(* the login and the landing page, by what /api/me/state answers to the    *)
(* token of the wallet provider; and useAuthedFetch, at a 401.             *)
(*                                                                         *)
(* The cookie is written by /api/me/state only, and nothing removes it at  *)
(* a logout, so the server may go by another user than the pages.  A user  *)
(* has a row and a mandate, a row only (the second write of POST           *)
(* /api/mandates failed), or neither.  A token past its hour is as good as *)
(* none; a browser keeps the cookies it is given.                          *)
(***************************************************************************)
EXTENDS Naturals, FiniteSets, NoValue

CONSTANTS
  Visitors,     \* Privy users of the browser
  FORMER,       \* one who used it before, has a mandate, and has logged out
  MaxFailures,  \* bound on the tokens of a live session that are not verified
  MaxAsks       \* bound on the requests of /api/me/state in flight when the user goes on

ASSUME GateAssumption ==
  FORMER \notin Visitors /\ NOTHING \notin Visitors /\ MaxFailures \in Nat

VARIABLES
  rows,         \* what the database has of each: "none", "user" or "mandate"
  failures,     \* number of verifications that failed
  signedIn,     \* who the wallet provider says is connected
  jar,          \* whose token the cookie has
  window,        \* the page that is shown, and the next of the login page
  stateAsks,    \* requests of /api/me/state: whose token, whether its page is
                \* still there, and the answer
  apiAsks,      \* requests of protected routes: the route, whose token
  reached       \* how often each page was, since the user acted or a token was refused (history)

gateVars == <<rows, failures, signedIn, jar, window, stateAsks, apiAsks, reached>>

\* /desk stands for READY_ONLY_PREFIXES; /withdraw is behind no gate.
GatedPages == {"/desk", "/mandate"}
AppPages   == GatedPages \cup {"/", "/login", "/withdraw"}
Stages     == {"SIGNED_OUT", "NEEDS_MANDATE", "READY"}

GateTypeOK ==
  /\ rows \in [Visitors -> {"none", "user", "mandate"}]
  /\ failures \in 0 .. MaxFailures
  /\ signedIn \in Visitors \cup {NOTHING} /\ jar \in Visitors \cup {FORMER, NOTHING}
  /\ window \in [path : AppPages, next : (AppPages \ {"/login"}) \cup {NOTHING}]
  /\ stateAsks \subseteq [user : Visitors, mine : BOOLEAN, stage : Stages \cup {NOTHING}]
  /\ apiAsks \subseteq [route : {"/api/mandates", "/api/portfolio"}, user : Visitors]
  /\ reached \in [AppPages -> 0 .. 3]

NoPage == [path \in AppPages |-> 0]

GateInit ==
  /\ rows \in [Visitors -> {"none", "mandate"}]
  /\ failures = 0
  /\ signedIn = NOTHING /\ jar \in {NOTHING, FORMER}
  /\ window = [path |-> "/login", next |-> NOTHING]
  /\ stateAsks = {} /\ apiAsks = {} /\ reached = NoPage

--------------------------------------------------------------------------------
(* What the server says of a token.                                        *)

stateForPrivyUserId(u, ok) ==
  IF u = NOTHING \/ ~ok THEN "SIGNED_OUT"
  ELSE IF u = FORMER THEN "READY"
  ELSE IF rows[u] = "mandate" THEN "READY" ELSE "NEEDS_MANDATE"

\* The answer has no user without a row: the route refuses who has none.
MutantRefuses(route, u, ok) == ~ok \/ rows[u] = "none"

\* verifyPrivyToken, and for every route but GET /api/mandates requireAuth.
Refuses(route, u, ok) == ~ok \/ (route # "/api/mandates" /\ rows[u] = "none")

login(next) == [path |-> "/login", next |-> next]
pageAt(path)  == [path |-> path, next |-> NOTHING]

\* enforceSessionGateForPage with redirectPathForPage, and RootPage.
Served(path, stage) ==
  CASE path \in GatedPages /\ stage = "SIGNED_OUT"  -> login(path)
    [] path = "/desk" /\ stage = "NEEDS_MANDATE"    -> pageAt("/mandate")
    [] path = "/" /\ stage = "READY"                -> pageAt("/desk")
    [] path = "/" /\ stage = "NEEDS_MANDATE"        -> pageAt("/mandate")
    [] OTHER                                        -> pageAt(path)

--------------------------------------------------------------------------------
(* A page is shown: what it asks for once the wallet is connected.         *)

StateAsksOf(path, u) ==
  IF u # NOTHING /\ path \in {"/", "/login"}
  THEN {[user |-> u, mine |-> TRUE, stage |-> NOTHING]} ELSE {}

\* useProtectedQueryEnabled; the form of the mandate asks without it.
ApiAsksOf(path, u) ==
  IF u = NOTHING THEN {}
  ELSE CASE path = "/mandate"              -> {[route |-> "/api/mandates", user |-> u]}
         [] path \in {"/desk", "/withdraw"} -> {[route |-> "/api/portfolio", user |-> u]}
         [] OTHER                          -> {}

\* router.push and replace: the effects of the old page are cancelled, its
\* requests are not.
PushTo(to, asks) ==
  /\ window' = to
  /\ stateAsks' = {[a EXCEPT !.mine = FALSE] : a \in asks} \cup StateAsksOf(to.path, signedIn)
  /\ apiAsks' = apiAsks \cup ApiAsksOf(to.path, signedIn)

\* window.location.href: the window is loaded again.
LoadWindow(to) ==
  /\ window' = to
  /\ stateAsks' = StateAsksOf(to.path, signedIn)
  /\ apiAsks' = ApiAsksOf(to.path, signedIn)

\* A token is verified, or the session has ended or the SDK fails: the count of
\* pages starts again.
Verifies(ok) ==
  /\ ok \/ failures < MaxFailures
  /\ failures' = IF ok THEN failures ELSE failures + 1

Counted(ok) == IF ok THEN reached ELSE NoPage

OnItsOwn(ok) == reached' = [Counted(ok) EXCEPT ![window'.path] = @ + 1]

--------------------------------------------------------------------------------
(* The answers.                                                            *)

\* GET /api/me/state decides ...
ServeState(a) ==
  /\ a.stage = NOTHING
  /\ \E ok \in BOOLEAN :
       /\ Verifies(ok)
       /\ stateAsks' = (stateAsks \ {a}) \cup {[a EXCEPT !.stage = stateForPrivyUserId(a.user, ok)]}
       /\ reached' = Counted(ok)
  /\ UNCHANGED <<rows, signedIn, jar, window, apiAsks>>

\* ... and its answer sets or clears the cookie, also when the page has gone.
\* The effect of the login page, and that of the landing page.
NextPath(stage) ==
  IF stage = "NEEDS_MANDATE" THEN "/mandate"
  ELSE IF window.next # NOTHING THEN window.next ELSE "/desk"

StateArrives(a) ==
  /\ a.stage # NOTHING
  /\ jar' = IF a.stage = "SIGNED_OUT" THEN NOTHING ELSE a.user
  /\ IF a.mine /\ a.stage # "SIGNED_OUT"
     THEN \E ok \in BOOLEAN :
            /\ Verifies(ok)
            /\ PushTo(Served(NextPath(a.stage), stateForPrivyUserId(a.user, ok)), stateAsks \ {a})
            /\ OnItsOwn(ok)
     ELSE stateAsks' = stateAsks \ {a} /\ UNCHANGED <<failures, window, apiAsks, reached>>
  /\ UNCHANGED <<rows, signedIn>>

StateFails(a) ==
  /\ stateAsks' = stateAsks \ {a}
  /\ UNCHANGED <<rows, failures, signedIn, jar, window, apiAsks, reached>>

\* maybeRedirectOnUnauthorized, by the page that is shown when the answer comes.
ApiAnswers(a) ==
  /\ \E ok \in BOOLEAN :
       /\ Verifies(ok)
       /\ IF Refuses(a.route, a.user, ok) /\ window.path # "/login"
          THEN LoadWindow(login(window.path)) /\ OnItsOwn(ok)
          ELSE /\ apiAsks' = apiAsks \ {a} /\ reached' = Counted(ok)
               /\ UNCHANGED <<window, stateAsks>>
  /\ UNCHANGED <<rows, signedIn, jar>>

\* The interval of a query: asked again.
AskAgain ==
  /\ window.path # "/mandate"
  /\ apiAsks' = apiAsks \cup ApiAsksOf(window.path, signedIn)
  /\ UNCHANGED <<rows, failures, signedIn, jar, window, stateAsks, reached>>

--------------------------------------------------------------------------------
(* The user, and what changes by itself: the count starts again.           *)

\* A link; an address typed in forgets the requests besides.
Visit(path) ==
  /\ Cardinality(stateAsks) < MaxAsks
  /\ \E ok \in BOOLEAN :
       Verifies(ok) /\ PushTo(Served(path, stateForPrivyUserId(jar, ok)), stateAsks)
  /\ reached' = NoPage
  /\ UNCHANGED <<rows, signedIn, jar>>

\* login() of the login and the withdraw page, logout() of the settings: the page stays.
LogIn(u) ==
  /\ signedIn = NOTHING /\ window.path \in {"/login", "/withdraw"}
  /\ signedIn' = u
  /\ stateAsks' = stateAsks \cup StateAsksOf(window.path, u)
  /\ apiAsks' = apiAsks \cup ApiAsksOf(window.path, u)
  /\ reached' = NoPage
  /\ UNCHANGED <<rows, failures, jar, window>>

LogOut ==
  /\ signedIn # NOTHING
  /\ signedIn' = NOTHING
  /\ reached' = NoPage
  /\ UNCHANGED <<rows, failures, jar, window, stateAsks, apiAsks>>

\* submit: upsertMandate, by requireAuthOrUpsert; then router.push("/").
SubmitMandate ==
  /\ window.path = "/mandate" /\ signedIn # NOTHING
  /\ UNCHANGED <<signedIn, jar>>
  /\ reached' = NoPage
  /\ \/ /\ rows' = [rows EXCEPT ![signedIn] = "mandate"]
        /\ \E ok \in BOOLEAN :
             Verifies(ok) /\ PushTo(Served("/", stateForPrivyUserId(jar, ok)'), stateAsks)
     \/ /\ rows' = [rows EXCEPT ![signedIn] = IF @ = "none" THEN "user" ELSE @]
        /\ UNCHANGED <<failures, window, stateAsks, apiAsks>>
     \/ /\ Verifies(FALSE)
        /\ LoadWindow(login("/mandate")) /\ UNCHANGED rows

TokenExpires ==
  /\ jar # NOTHING /\ jar' = NOTHING
  /\ reached' = NoPage
  /\ UNCHANGED <<rows, failures, signedIn, window, stateAsks, apiAsks>>

GateNext ==
  \/ \E a \in stateAsks : ServeState(a) \/ StateArrives(a) \/ StateFails(a)
  \/ \E a \in apiAsks : ApiAnswers(a)
  \/ AskAgain
  \/ \E path \in AppPages : Visit(path)
  \/ \E u \in Visitors : LogIn(u)
  \/ LogOut \/ SubmitMandate \/ TokenExpires

GateSpec == GateInit /\ [][GateNext]_gateVars

--------------------------------------------------------------------------------
(* Properties.                                                             *)

\* The three never send the browser round in a circle: between two acts of the
\* user, or changes of a session, no page is reached a third time.  (Twice it may
\* be: the late refusal of a page that was left sends away from the page that is
\* shown.  mandates/route.ts tells of the loop that a 401 for a user without a row
\* makes of /mandate and /login, "the user can never break out of".)
NoRedirectLoop == \A path \in AppPages : reached[path] <= 2

================================================================================
