----------------------------- MODULE BrowserTabs -----------------------------
(***************************************************************************)
(* The tabs of one browser: who is signed in, and who the tabs think is.   *)
(* The session cookie and the local storage are shared by the tabs, the    *)
(* session storage is a tab's own (authSession.ts).  A sign-in sets the    *)
(* cookie when its answer arrives; the page then asks /me and stores the   *)
(* account it is told, so another tab can act in between.  Modelled are    *)
(* the sign-in (authLoginFlow.ts), the guards of the signed-in pages       *)
(* (App.tsx), the conflict page, the authorization page, the callback with *)
(* its exchange of the code, and logging out.                              *)
(***************************************************************************)
EXTENDS Integers, FiniteSets

CONSTANTS
    Account, Tab,
    None,
    Anonymous,                                  \* the user of a sign-in whose account is not stored yet
    MaxSigns, MaxVisits, MaxTurns, MaxFails     \* bounds

Sign == 1..MaxSigns

\* The number of an account is not the time of a sign-in.
ASSUME UserAssumption ==
    None # Anonymous /\ {None, Anonymous} \cap Account = {} /\ Account \cap Sign = {}
ASSUME BoundsAssumption == {MaxSigns, MaxVisits, MaxTurns, MaxFails} \subseteq Nat

VARIABLES
    cookie,     \* account of the session the cookie names, None for no live session
    keys,       \* user_role and session_authenticated_at: the sign-in they name, 0 for none
    meta,       \* browser_session_meta
    context,    \* first_party_session_context
    consents,   \* accounts that have consented to the application
    tabMeta,    \* tab_session_meta of every tab
    session,    \* tabs with an authorization session
    page,       \* what every tab shows
    asked,      \* account the cookie named when the tab sent the request it waits for
    exchange,   \* exchanges of the tab's code: the lock, those under way, sent, failed
    signs, visits, turns, fails,
    behind      \* history: the cookie has changed without the stored session following it

shared == <<cookie, keys, meta, context, consents>>
tabs == <<tabMeta, session, page, asked, exchange>>
counters == <<signs, visits, turns, fails>>
tabState == <<tabMeta, session, asked, exchange>>
vars == <<shared, tabs, counters, behind>>

NoMeta == [user |-> None, n |-> 0]
Meta == [user : Account \cup {Anonymous}, n : Sign]
NoExchange == [lock |-> FALSE, sent |-> 0, waits |-> 0, failed |-> 0]

\* A page and the query it was opened with: an authorization request of the own
\* client or of an application, auth_flow=authorization, prompt_login_satisfied=1.
Place == {"login", "answered", "profile", "deciding", "entering", "home", "conflict", "loading",
          "picker", "consent", "approving", "auto", "silent", "confirmed", "blank", "callback", "away", "bye"}
Page == [at : Place,
         for : {"none", "own", "app"}, auth : BOOLEAN, fresh : BOOLEAN,
         who : Account \cup {None}, n : 0..MaxSigns]
Opened(at, for) == [at |-> at, for |-> for, auth |-> FALSE, fresh |-> FALSE, who |-> None, n |-> 0]

TypeOK ==
    /\ cookie \in Account \cup {None} /\ keys \in 0..MaxSigns /\ consents \subseteq Account
    /\ {meta, context} \subseteq Meta \cup {NoMeta} /\ (keys = 0 => meta = NoMeta)
    /\ session \subseteq Tab
    /\ \A t \in Tab : /\ tabMeta[t] \in Meta \cup {NoMeta} /\ page[t] \in Page
                      /\ asked[t] \in Account \cup {None}
                      /\ exchange[t].sent \in 0..(MaxTurns + 1) /\ exchange[t].waits \in 0..exchange[t].sent

Init ==
    /\ cookie = None /\ keys = 0 /\ meta = NoMeta /\ context = NoMeta /\ consents = {}
    /\ tabMeta = [t \in Tab |-> NoMeta] /\ session = {}
    /\ page = [t \in Tab |-> Opened("login", "none")]
    /\ asked = [t \in Tab |-> None]
    /\ exchange = [t \in Tab |-> NoExchange]
    /\ signs = 0 /\ visits = 0 /\ turns = 0 /\ fails = 0
    /\ behind = FALSE

MayFail == fails < MaxFails /\ fails' = fails + 1
Visit == visits < MaxVisits /\ visits' = visits + 1
Turn == turns < MaxTurns /\ turns' = turns + 1

At(t, at) == page[t].at = at
Goto(t, p) == page' = [page EXCEPT ![t] = p]
Move(t, at) == Goto(t, [page[t] EXCEPT !.at = at])
Ask(t) == asked' = [asked EXCEPT ![t] = cookie]

-----------------------------------------------------------------------------
(* authSession.ts *)

\* readBrowserSessionMeta
Browser == IF meta # NoMeta THEN meta
           ELSE IF keys # 0 THEN [user |-> Anonymous, n |-> keys] ELSE NoMeta

\* readSessionToken is not empty.
HasToken(t) == tabMeta[t] # NoMeta \/ Browser # NoMeta

\* Mutant: roles are compared, and the accounts here have the same.
RoleIdentity(m) == "user"

\* What a guard compares: userId || authenticatedAt.
Identity(m) == IF m.user = Anonymous THEN m.n ELSE m.user

\* persistBrowserAndTabSessionMeta
PersistBoth(t, m) == keys' = m.n /\ meta' = m /\ tabMeta' = [tabMeta EXCEPT ![t] = m]

\* Mutant: browser_session_meta is left.
ClearKeysOnly == keys' = 0 /\ context' = NoMeta /\ UNCHANGED meta

\* clearBrowserSessionMeta
ClearBrowser == keys' = 0 /\ meta' = NoMeta /\ context' = NoMeta

\* clearAllSessionMeta
ClearAll(t) == ClearBrowser /\ tabMeta' = [tabMeta EXCEPT ![t] = NoMeta]

\* readFirstPartySessionContext: a context of another session is removed.
ValidContext == IF context = Browser THEN context ELSE NoMeta

-----------------------------------------------------------------------------
(* Signing in *)

\* A sign-in whose answer has set the cookie and whose page has not stored the account.
SigningIn == {"answered", "profile"}

\* The page is left, and with it what it had still to do for its sign-in.
Leave(t) == behind' = (behind \/ page[t].at \in SigningIn)

\* The settings are answered and the page is replaced by one with the first-party
\* client in its query, whatever the sign-in forms are doing.
OwnClient(t) ==
    /\ page[t].at \in {"login"} \cup SigningIn /\ page[t].for = "none"
    /\ Goto(t, Opened("login", "own")) /\ Leave(t)
    /\ UNCHANGED <<shared, tabMeta, session, asked, exchange, counters>>

\* A sign-in that will store the account it has asked for.
Storing(t) == At(t, "profile") /\ ~page[t].auth

\* submit, submitSMSLogin and the other ways to sign in as u: the answer sets the
\* cookie before the page handles it, ...
SignIn(t, u) ==
    /\ At(t, "login")
    /\ signs < MaxSigns /\ signs' = signs + 1
    /\ cookie' = u
    /\ Goto(t, [page[t] EXCEPT !.at = "answered", !.who = u, !.n = signs'])
    /\ behind' = (page[t].auth \/ \E o \in Tab : Storing(o))
    /\ UNCHANGED <<keys, meta, context, consents, tabState, visits, turns, fails>>

\* ... and also when the page does not: a poll for the QR sign-in answered after another
\* way to sign in was chosen, or the answer to a request of a page that was replaced.
SignInLost(t, u) ==
    /\ At(t, "login")
    /\ signs < MaxSigns /\ signs' = signs + 1
    /\ cookie' = u /\ behind' = TRUE
    /\ UNCHANGED <<keys, meta, context, consents, tabs, visits, turns, fails>>

\* handleLoginSuccessResult up to its first await.
HandleLogin(t) ==
    /\ At(t, "answered")
    /\ IF page[t].auth THEN session' = session \cup {t} /\ UNCHANGED keys
                       ELSE keys' = page[t].n /\ UNCHANGED session
    /\ Move(t, "profile") /\ Ask(t)
    /\ UNCHANGED <<cookie, meta, context, consents, tabMeta, exchange, counters, behind>>

\* Mutant: the account of the sign-in's own answer is stored.
OwnAnswer(t) == page[t].who

\* applyPreferredLocaleFromSession tells the account, or else the sign-in's answer.
Profile(t) == IF asked[t] # None THEN asked[t] ELSE page[t].who

\* ... up to the decision whether the authorization is approved at once.
StoreSession(t) ==
    /\ At(t, "profile")
    /\ \E user \in {Profile(t), page[t].who} :
          /\ IF user = Profile(t) THEN UNCHANGED fails ELSE MayFail
          /\ IF page[t].auth THEN UNCHANGED <<keys, meta, tabMeta>>
                             ELSE PersistBoth(t, [user |-> user, n |-> page[t].n])
          /\ behind' = (behind \/ (Storing(t) /\ user # Profile(t)))
    /\ Move(t, IF page[t].for = "none" THEN "entering" ELSE "deciding")
    /\ UNCHANGED <<cookie, context, consents, session, asked, exchange, signs, visits, turns>>

\* A page that asks for an authorization without a session shows the login page.
HasSession(t, p) == (p.auth /\ t \in session) \/ HasToken(t)
OpenAuthorizePage(t, p) == Ask(t) /\ Goto(t, [p EXCEPT !.at = IF HasSession(t, p) THEN "loading" ELSE "login"])

\* shouldAutoApproveAuthorization, and for the own client authorizeAndRedirect is sent.
Decide(t) ==
    /\ At(t, "deciding")
    /\ \/ page[t].for = "own" /\ Move(t, "approving") /\ Ask(t) /\ UNCHANGED fails
       \/ /\ IF page[t].for = "own" THEN MayFail ELSE UNCHANGED fails
          /\ OpenAuthorizePage(t, [page[t] EXCEPT !.fresh = TRUE])
    /\ UNCHANGED <<shared, tabMeta, session, exchange, signs, visits, turns, behind>>

-----------------------------------------------------------------------------
(* The guarded pages, the conflict page and logging out *)

\* RequireAuth and RequireSingleBrowserAccount, then the layout, which remembers the
\* session of the browser, and the page, which asks for the account.
Enter(t) ==
    LET differ == Browser # NoMeta /\ tabMeta[t] # NoMeta /\ Identity(Browser) # Identity(tabMeta[t]) IN
    /\ At(t, "entering")
    /\ Goto(t, Opened(CASE ~HasToken(t) -> "login" [] differ -> "conflict" [] OTHER -> "home", "none"))
    /\ tabMeta' = IF tabMeta[t] = NoMeta THEN [tabMeta EXCEPT ![t] = Browser] ELSE tabMeta
    /\ context' = IF differ \/ Browser = NoMeta THEN context ELSE Browser
    /\ Ask(t)
    /\ UNCHANGED <<cookie, keys, meta, consents, session, exchange, counters, behind>>

\* Another section of the page, or its address again.
Navigate(t) ==
    /\ At(t, "home") /\ Turn
    /\ Move(t, "entering")
    /\ UNCHANGED <<shared, tabState, signs, visits, fails, behind>>

\* redirectToLogin: the page's request was answered 401.
HomeRefused(t) ==
    /\ At(t, "home") /\ asked[t] = None
    /\ ClearAll(t) /\ Goto(t, Opened("login", "none"))
    /\ UNCHANGED <<cookie, consents, session, asked, exchange, counters, behind>>

\* The user opens the page by its address.
OpenHome(t) ==
    /\ page[t].at \in {"login", "away", "blank", "callback"} \cup SigningIn /\ Visit
    /\ Goto(t, Opened("entering", "none")) /\ Leave(t)
    /\ UNCHANGED <<shared, tabState, signs, turns, fails>>

\* useBrowserAccount
UseBrowserAccount(t) ==
    /\ At(t, "conflict")
    /\ IF Browser = NoMeta THEN Goto(t, Opened("login", "none")) /\ UNCHANGED tabMeta
       ELSE Move(t, "entering") /\ tabMeta' = [tabMeta EXCEPT ![t] = Browser]
    /\ UNCHANGED <<shared, session, asked, exchange, counters, behind>>

\* switchBrowserToThisTabAccount, signOutAndRelogin
SwitchBrowser(t) ==
    /\ At(t, "conflict")
    /\ ClearBrowser /\ Goto(t, Opened("login", "none"))
    /\ UNCHANGED <<cookie, consents, tabState, counters, behind>>

\* handleLogout: the form leaves the page, and the answer clears the cookie.
LogOut(t) ==
    /\ At(t, "home")
    /\ cookie' = None /\ Move(t, "bye")
    /\ UNCHANGED <<keys, meta, context, consents, tabState, counters, behind>>

LogoutComplete(t) ==
    /\ At(t, "bye")
    /\ ClearAll(t) /\ Goto(t, Opened("login", "none"))
    /\ UNCHANGED <<cookie, consents, session, asked, exchange, counters, behind>>

\* The session of the cookie ends on the server.
SessionEnds ==
    /\ cookie # None /\ Turn
    /\ cookie' = None
    /\ UNCHANGED <<keys, meta, context, consents, tabs, signs, visits, fails, behind>>

-----------------------------------------------------------------------------
(* The authorization page *)

\* An application sends the browser there.
OpenAuthorize(t) ==
    /\ page[t].at \in {"login", "home", "away"} /\ Visit
    /\ OpenAuthorizePage(t, Opened("loading", "app"))
    /\ UNCHANGED <<shared, tabMeta, session, exchange, signs, turns, fails, behind>>

\* navigateToLoginForNewAccount
LoginForNewAccount(t) ==
    /\ session' = session \ {t}
    /\ Goto(t, [page[t] EXCEPT !.at = "login", !.auth = TRUE, !.fresh = FALSE])

Send(t, how) == Ask(t) /\ Goto(t, [page[t] EXCEPT !.at = how, !.who = asked[t]])

\* The settings and /me are answered; a failure shows the consent page all the same.
Loaded(t) ==
    /\ At(t, "loading")
    /\ \/ /\ asked[t] = None
          /\ ClearBrowser /\ LoginForNewAccount(t) /\ UNCHANGED <<asked, fails>>
       \/ /\ asked[t] # None /\ page[t].for = "own" /\ Send(t, "auto")
          /\ UNCHANGED <<keys, meta, context, session, fails>>
       \/ /\ asked[t] # None /\ page[t].for = "app"
          /\ context' = ValidContext
          /\ IF ValidContext # NoMeta /\ ~page[t].fresh THEN Move(t, "picker") /\ UNCHANGED asked
                                                        ELSE Send(t, "silent")
          /\ UNCHANGED <<keys, meta, session, fails>>
       \/ MayFail /\ Move(t, "consent") /\ UNCHANGED <<keys, meta, context, session, asked>>
    /\ UNCHANGED <<cookie, consents, tabMeta, exchange, signs, visits, turns, behind>>

UseCurrentAccount(t) ==
    /\ At(t, "picker") /\ Move(t, "consent")
    /\ UNCHANGED <<shared, tabState, counters, behind>>

UseAnotherAccount(t) ==
    /\ At(t, "picker") /\ LoginForNewAccount(t)
    /\ UNCHANGED <<shared, tabMeta, asked, exchange, counters, behind>>

Confirm(t) ==
    /\ At(t, "consent") /\ Move(t, "confirmed") /\ Ask(t)
    /\ UNCHANGED <<shared, tabMeta, session, exchange, counters, behind>>

Cancel(t) ==
    /\ At(t, "consent")
    /\ session' = session \ {t}
    /\ Goto(t, [page[t] EXCEPT !.at = "login", !.auth = FALSE, !.fresh = FALSE])
    /\ UNCHANGED <<shared, tabMeta, asked, exchange, counters, behind>>

-----------------------------------------------------------------------------
(* The answer to an authorization request *)

Requested == {"approving", "auto", "silent", "confirmed"}

\* A code is issued to the account of the cookie the request carried.
CodeIssued(t) ==
    /\ page[t].at \in Requested /\ asked[t] # None
    /\ At(t, "silent") => asked[t] \in consents
    /\ consents' = IF At(t, "confirmed") THEN consents \cup {asked[t]} ELSE consents
    /\ session' = IF At(t, "approving") THEN session ELSE session \ {t}
    /\ Goto(t, Opened(IF page[t].for = "own" THEN "callback" ELSE "away", "none"))
    /\ exchange' = [exchange EXCEPT ![t] = NoExchange]
    /\ UNCHANGED <<cookie, keys, meta, context, tabMeta, asked, counters, behind>>

\* consent_required, or a failure that is displayed.
NotIssued(t) ==
    /\ page[t].at \in Requested
    /\ IF At(t, "silent") /\ asked[t] # None /\ asked[t] \notin consents THEN UNCHANGED fails ELSE MayFail
    /\ Move(t, IF At(t, "approving") THEN "login" ELSE "consent")
    /\ UNCHANGED <<shared, tabState, signs, visits, turns, behind>>

\* The session is gone.  With a session of its own the page stays where it is: what
\* it showed before, or nothing.
SessionGone(t) ==
    /\ page[t].at \in Requested /\ asked[t] = None
    /\ IF At(t, "approving")
       THEN Move(t, "login") /\ UNCHANGED <<keys, meta, context, session>>
       ELSE /\ ClearBrowser /\ session' = session \ {t}
            /\ Move(t, CASE tabMeta[t] = NoMeta -> "login"
                         [] tabMeta[t] # NoMeta /\ At(t, "confirmed") -> "consent"
                         [] OTHER -> "blank")
    /\ UNCHANGED <<cookie, consents, tabMeta, asked, exchange, counters, behind>>

-----------------------------------------------------------------------------
(* The callback page *)

\* Mutant: the lock is not looked at.
NoLock(t) == FALSE

Locked(t) == exchange[t].lock

\* exchangeCode, when the page opens, when its language changes, when it is reloaded
\* (then an answer under way is lost).
Exchange(t) ==
    LET e == exchange[t] IN
    /\ At(t, "callback")
    /\ \E reload \in BOOLEAN :
          LET waits == IF reload THEN 0 ELSE e.waits IN
          /\ IF e.sent = 0 THEN ~reload /\ UNCHANGED turns ELSE Turn
          /\ exchange' = [exchange EXCEPT ![t] =
                IF Locked(t) THEN [e EXCEPT !.waits = waits]
                ELSE [e EXCEPT !.lock = TRUE, !.sent = e.sent + 1, !.waits = waits + 1]]
    /\ UNCHANGED <<shared, tabMeta, session, page, asked, signs, visits, fails, behind>>

ExchangeDone(t) ==
    /\ At(t, "callback") /\ exchange[t].waits > 0
    /\ exchange' = [exchange EXCEPT ![t] = NoExchange]
    /\ Goto(t, Opened("entering", "none"))
    /\ UNCHANGED <<shared, tabMeta, session, asked, counters, behind>>

ExchangeFails(t) ==
    /\ At(t, "callback") /\ exchange[t].waits > 0 /\ MayFail
    /\ LET e == exchange[t] IN
       exchange' = [exchange EXCEPT
                        ![t] = [e EXCEPT !.lock = FALSE, !.waits = e.waits - 1, !.failed = e.failed + 1]]
    /\ UNCHANGED <<shared, tabMeta, session, page, asked, signs, visits, turns, behind>>

Next ==
    \/ \E t \in Tab :
        \/ OwnClient(t) \/ (\E u \in Account : SignIn(t, u) \/ SignInLost(t, u))
        \/ HandleLogin(t) \/ StoreSession(t) \/ Decide(t)
        \/ Enter(t) \/ Navigate(t) \/ HomeRefused(t) \/ OpenHome(t)
        \/ UseBrowserAccount(t) \/ SwitchBrowser(t) \/ LogOut(t) \/ LogoutComplete(t)
        \/ OpenAuthorize(t) \/ Loaded(t) \/ UseCurrentAccount(t) \/ UseAnotherAccount(t)
        \/ Confirm(t) \/ Cancel(t) \/ CodeIssued(t) \/ NotIssued(t) \/ SessionGone(t)
        \/ Exchange(t) \/ ExchangeDone(t) \/ ExchangeFails(t)
    \/ SessionEnds

Spec == Init /\ [][Next]_vars

-----------------------------------------------------------------------------
(* Properties *)

\* Nobody is signing in, and no sign-in left the stored session behind the cookie: none
\* was answered while another tab was asking for its account, none was for an
\* authorization flow (which stores no session), none was lost after its cookie was set
\* (the page replaced or left, a poll nobody waited for), and /me answered.
Settled == ~behind /\ cookie # None /\ \A t \in Tab : page[t].at \notin SigningIn

\* Between sign-ins the stored session of the browser is the account of the cookie.
MetaIsCookie == Settled /\ meta # NoMeta => meta.user = cookie

\* A tab comes to the signed-in pages (RequireSingleBrowserAccount) only as the account
\* its requests are answered for: when another tab has signed in as somebody else, the
\* session it remembers does not let it pass, and a session it takes over is the cookie's.
EntersAsItself ==
    [][\A t \in Tab : (At(t, "entering") /\ page'[t].at = "home" /\ Settled /\ meta # NoMeta)
                          => tabMeta'[t].user = asked'[t]]_vars

\* A code is exchanged again only after an exchange that failed (the lock of
\* exchangeCode), whatever languages are chosen and however often the page is reloaded.
ExchangeOnce == \A t \in Tab : exchange[t].sent <= exchange[t].failed + 1
=============================================================================
