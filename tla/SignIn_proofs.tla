--------------------------- MODULE SignIn_proofs ---------------------------
(***************************************************************************)
(* Theorems about the two sides of a sign-in.  First BrowserTabs, for any  *)
(* number of accounts and tabs and any bounds; then QRLogin, for any       *)
(* number of users, sign-ins and concurrent requests.  The two modules     *)
(* share no state.                                                         *)
(***************************************************************************)
EXTENDS BrowserTabs, QRLogin, TLAPS

AnyMeta == Meta \cup {NoMeta}

\* Every variable has its type; the storage holds a session with a time only.
Typed ==
    /\ cookie \in Account \cup {None}
    /\ keys \in 0..MaxSigns /\ meta \in AnyMeta /\ context \in AnyMeta
    /\ keys = 0 => meta = NoMeta
    /\ consents \subseteq Account
    /\ tabMeta \in [Tab -> AnyMeta]
    /\ session \subseteq Tab
    /\ page \in [Tab -> Page]
    /\ asked \in [Tab -> Account \cup {None}]
    /\ exchange \in [Tab -> [lock : BOOLEAN, sent : Nat, waits : Nat, failed : Nat]]
    /\ signs \in 0..MaxSigns /\ turns \in 0..MaxTurns
    /\ behind \in BOOLEAN

\* A tab whose sign-in was answered knows the account and the time of the answer.
SignInOK ==
    \A t \in Tab : page[t].at \in {"answered", "profile"} => page[t].who \in Account /\ page[t].n \in Sign

\* The lock is held from an exchange until its failure, and every exchange but the
\* one that took it has failed.
ExchangeOK ==
    \A t \in Tab :
        /\ exchange[t].sent <= exchange[t].failed + (IF exchange[t].lock THEN 1 ELSE 0)
        /\ exchange[t].sent <= turns + 1
        /\ exchange[t].waits <= exchange[t].sent

\* A sign-in that will be stored.
Pending(t) == page[t].at \in {"answered", "profile"} /\ ~page[t].auth

\* What the tabs will store, and what is stored when they have, is the account of the cookie.
StoredOK ==
    ~behind /\ cookie # None =>
        /\ \A t \in Tab : Storing(t) => asked[t] = cookie
        /\ meta # NoMeta /\ (\A t \in Tab : ~Pending(t)) => meta.user = cookie

IndInv == Typed /\ SignInOK /\ ExchangeOK /\ StoredOK

-----------------------------------------------------------------------------
(* What a step does to the page of the one tab it moves *)

\* Tab t shows one of P after the step, the other tabs what they showed.
Shows(t, P) ==
    /\ page' \in [Tab -> Page]
    /\ page'[t].at \in P
    /\ \A o \in Tab \ {t} : page'[o] = page[o]

LEMMA GotoShows ==
    ASSUME Typed, NEW t \in Tab, NEW p \in Page, Goto(t, p)
    PROVE  Shows(t, {p.at}) /\ page'[t] = p
BY DEF Typed, Goto, Shows

LEMMA Bounds == MaxSigns \in Nat /\ MaxTurns \in Nat
BY BoundsAssumption

LEMMA OpenedPage ==
    ASSUME NEW at \in Place, NEW for \in {"none", "own", "app"}
    PROVE  Opened(at, for) \in Page /\ Opened(at, for).at = at
BY Bounds DEF Opened, Page

LEMMA OpenShows ==
    ASSUME Typed, NEW t \in Tab, NEW at \in Place, NEW for \in {"none", "own", "app"},
           Goto(t, Opened(at, for))
    PROVE  Shows(t, {at})
BY GotoShows, OpenedPage

\* The same page elsewhere, and under another query.
LEMMA MovedPage ==
    ASSUME NEW p \in Page, NEW at \in Place
    PROVE  /\ [p EXCEPT !.at = at] \in Page
           /\ [p EXCEPT !.at = at].at = at
           /\ [p EXCEPT !.at = at].auth = p.auth
           /\ [p EXCEPT !.at = at].who = p.who
           /\ [p EXCEPT !.at = at].n = p.n
BY DEF Page

LEMMA EditedPage ==
    ASSUME NEW p \in Page, NEW at \in Place, NEW auth \in BOOLEAN, NEW fresh \in BOOLEAN
    PROVE  /\ [p EXCEPT !.at = at, !.auth = auth, !.fresh = fresh] \in Page
           /\ [p EXCEPT !.at = at, !.auth = auth, !.fresh = fresh].at = at
BY DEF Page

LEMMA MoveShows ==
    ASSUME Typed, NEW t \in Tab, NEW at \in Place, Move(t, at)
    PROVE  /\ Shows(t, {at})
           /\ page'[t].auth = page[t].auth
           /\ page'[t].who = page[t].who
           /\ page'[t].n = page[t].n
<1>1. page[t] \in Page
  BY DEF Typed
<1>2. /\ [page[t] EXCEPT !.at = at] \in Page
      /\ [page[t] EXCEPT !.at = at].at = at
      /\ [page[t] EXCEPT !.at = at].auth = page[t].auth
      /\ [page[t] EXCEPT !.at = at].who = page[t].who
      /\ [page[t] EXCEPT !.at = at].n = page[t].n
  BY <1>1, MovedPage
<1>. QED BY <1>2, GotoShows DEF Move

LEMMA LoginShows ==
    ASSUME Typed, NEW t \in Tab, LoginForNewAccount(t)
    PROVE  Shows(t, {"login"})
<1>1. page[t] \in Page /\ "login" \in Place
  BY DEF Typed, Place
<1>2. /\ [page[t] EXCEPT !.at = "login", !.auth = TRUE, !.fresh = FALSE] \in Page
      /\ [page[t] EXCEPT !.at = "login", !.auth = TRUE, !.fresh = FALSE].at = "login"
  BY <1>1, EditedPage
<1>. QED BY <1>2, GotoShows DEF LoginForNewAccount

\* The request is sent with the cookie of the moment.
LEMMA AskTyped ==
    ASSUME Typed, NEW t \in Tab, Ask(t)
    PROVE  /\ asked' \in [Tab -> Account \cup {None}]
           /\ \A o \in Tab \ {t} : asked'[o] = asked[o]
           /\ asked'[t] = cookie
BY DEF Typed, Ask

LEMMA SendShows ==
    ASSUME Typed, NEW t \in Tab, NEW how \in Place, Send(t, how)
    PROVE  Shows(t, {how}) /\ Ask(t)
<1>1. page[t] \in Page /\ asked[t] \in Account \cup {None}
  BY DEF Typed
<1>2. /\ [page[t] EXCEPT !.at = how, !.who = asked[t]] \in Page
      /\ [page[t] EXCEPT !.at = how, !.who = asked[t]].at = how
  BY <1>1 DEF Page
<1>. QED BY <1>2, GotoShows DEF Send

LEMMA AuthorizePageShows ==
    ASSUME Typed, NEW t \in Tab, NEW p \in Page, OpenAuthorizePage(t, p)
    PROVE  Shows(t, {"loading", "login"}) /\ Ask(t)
<1>1. ASSUME NEW at \in {"loading", "login"}, Goto(t, [p EXCEPT !.at = at])
      PROVE  Shows(t, {"loading", "login"})
  <2>0. at \in Place
    BY DEF Place
  <2>1. [p EXCEPT !.at = at] \in Page /\ [p EXCEPT !.at = at].at = at
    BY <2>0, MovedPage
  <2>. QED BY <1>1, <2>1, GotoShows DEF Shows
<1>. QED BY <1>1 DEF OpenAuthorizePage

-----------------------------------------------------------------------------
(* Steps that sign nobody in *)

\* Only t moves, and starts no sign-in, nor gives one up unnoticed; cookie and stored
\* session may go, but do not come.
Calm(t) ==
    /\ Shows(t, Place \ SigningIn)
    /\ ~behind' => ~behind /\ page[t].at \notin SigningIn
    /\ \A o \in Tab \ {t} : asked'[o] = asked[o]
    /\ cookie' \in {cookie, None} /\ meta' \in {meta, NoMeta}

LEMMA CalmKeeps ==
    ASSUME Typed, SignInOK, StoredOK, NEW t \in Tab, Calm(t)
    PROVE  SignInOK' /\ StoredOK'
<1>1. SignInOK'
  BY DEF Calm, Shows, SigningIn, SignInOK
<1>2. ASSUME ~behind', cookie' # None
      PROVE  /\ \A o \in Tab : Storing(o)' => asked'[o] = cookie'
             /\ meta' # NoMeta /\ (\A o \in Tab : ~Pending(o)') => meta'.user = cookie'
  <2>1. ~behind /\ cookie # None /\ cookie' = cookie
    BY <1>2 DEF Calm
  <2>2. \A o \in Tab : (Storing(o)' => Storing(o) /\ asked'[o] = asked[o]) /\ (Pending(o) => Pending(o)')
    BY <1>2 DEF Calm, Shows, SigningIn, Storing, At, Pending
  <2>. QED BY <2>1, <2>2 DEF Calm, StoredOK
<1>. QED BY <1>1, <1>2 DEF StoredOK

LEMMA SameExchange ==
    ASSUME Typed, ExchangeOK, exchange' = exchange, turns' \in {turns, turns + 1}
    PROVE  ExchangeOK'
BY DEF ExchangeOK, Typed

LEMMA TurnTyped == Typed /\ Turn => turns' \in 0..MaxTurns /\ turns' = turns + 1
BY Bounds DEF Typed, Turn

\* A session that was cleared.
LEMMA ClearedMeta == 0 \in 0..MaxSigns /\ NoMeta \in AnyMeta
BY Bounds DEF AnyMeta

LEMMA BrowserMeta == Typed => Browser \in AnyMeta
BY Bounds DEF Typed, Browser, AnyMeta, Meta, Sign

LEMMA ContextMeta == Typed => ValidContext \in AnyMeta
BY DEF Typed, ValidContext, AnyMeta

LEMMA NextIndInv == IndInv /\ [Next]_vars => IndInv'
<1>. SUFFICES ASSUME IndInv, [Next]_vars PROVE IndInv'
  OBVIOUS
<1>. USE DEF IndInv
<1>1. ASSUME NEW t \in Tab, OwnClient(t)
      PROVE  IndInv'
  <2>1. Shows(t, {"login"})
    BY <1>1, OpenShows DEF OwnClient, Place
  <2>2. behind' \in BOOLEAN /\ (~behind' => ~behind /\ page[t].at \notin SigningIn)
    BY <1>1 DEF OwnClient, Leave, Typed
  <2>3. Typed'
    BY <1>1, <2>1, <2>2 DEF OwnClient, Typed, Shows, shared, counters
  <2>4. Calm(t)
    BY <1>1, <2>1, <2>2 DEF OwnClient, Calm, Shows, Place, SigningIn, shared
  <2>5. ExchangeOK'
    BY <1>1, SameExchange DEF OwnClient, counters
  <2>. QED BY <2>3, <2>4, <2>5, CalmKeeps
<1>2. ASSUME NEW t \in Tab, NEW u \in Account, SignIn(t, u)
      PROVE  IndInv'
  <2>. DEFINE p == [page[t] EXCEPT !.at = "answered", !.who = u, !.n = signs']
  <2>1. signs' \in Sign /\ signs' \in 0..MaxSigns
    BY <1>2, Bounds DEF SignIn, Typed, Sign
  <2>2. p \in Page /\ p.at = "answered" /\ p.auth = page[t].auth /\ p.who = u /\ p.n = signs'
    <3>1. page[t] \in Page /\ "answered" \in Place
      BY DEF Typed, Place
    <3>. QED BY <2>1, <3>1 DEF Page
  <2>3. /\ page' \in [Tab -> Page] /\ page'[t] = p
        /\ \A o \in Tab \ {t} : page'[o] = page[o]
    BY <1>2, <2>2 DEF SignIn, Goto, Typed
  <2>4. Typed'
    BY <1>2, <2>1, <2>3 DEF SignIn, Typed, tabState
  <2>5. SignInOK'
    BY <2>1, <2>2, <2>3 DEF SignInOK
  <2>6. StoredOK'
    <3>1. ~behind' => ~page[t].auth /\ \A o \in Tab : ~Storing(o)
      BY <1>2 DEF SignIn
    <3>2. Storing(t)' => FALSE
      BY <2>2, <2>3 DEF Storing, At
    <3>3. \A o \in Tab \ {t} : Storing(o)' => Storing(o)
      BY <2>3 DEF Storing, At
    <3>4. ~page[t].auth => Pending(t)'
      BY <2>2, <2>3 DEF Pending
    <3>. QED BY <3>1, <3>2, <3>3, <3>4 DEF StoredOK
  <2>7. ExchangeOK'
    BY <1>2, SameExchange DEF SignIn, tabState
  <2>. QED BY <2>4, <2>5, <2>6, <2>7
<1>3. ASSUME NEW t \in Tab, HandleLogin(t)
      PROVE  IndInv'
  <2>1. /\ Shows(t, {"profile"})
        /\ page'[t].auth = page[t].auth /\ page'[t].who = page[t].who /\ page'[t].n = page[t].n
    BY <1>3, MoveShows DEF HandleLogin, Place
  <2>2. page[t].at = "answered" /\ page[t].who \in Account /\ page[t].n \in Sign
    BY <1>3 DEF HandleLogin, At, SignInOK
  <2>3. Typed'
    <3>1. keys' \in 0..MaxSigns /\ (keys' = 0 => meta' = NoMeta) /\ session' \subseteq Tab
      BY <1>3, <2>2, Bounds DEF HandleLogin, Typed, Sign
    <3>. QED BY <1>3, <2>1, <3>1, AskTyped DEF HandleLogin, Typed, Shows, counters
  <2>4. SignInOK'
    BY <2>1, <2>2 DEF SignInOK, Shows
  <2>5. StoredOK'
    <3>1. \A o \in Tab \ {t} : Storing(o)' => Storing(o) /\ asked'[o] = asked[o]
      BY <1>3, <2>1, AskTyped DEF HandleLogin, Storing, At, Shows
    <3>2. asked'[t] = cookie
      BY <1>3, AskTyped DEF HandleLogin
    <3>3. \A o \in Tab : Pending(o) => Pending(o)'
      BY <2>1, <2>2 DEF Pending, Shows
    <3>. QED BY <1>3, <3>1, <3>2, <3>3 DEF HandleLogin, StoredOK
  <2>6. ExchangeOK'
    BY <1>3, SameExchange DEF HandleLogin, counters
  <2>. QED BY <2>3, <2>4, <2>5, <2>6
<1>4. ASSUME NEW t \in Tab, StoreSession(t)
      PROVE  IndInv'
  <2>1. PICK user \in {Profile(t), page[t].who} :
          /\ IF page[t].auth THEN UNCHANGED <<keys, meta, tabMeta>>
                             ELSE PersistBoth(t, [user |-> user, n |-> page[t].n])
          /\ behind' = (behind \/ (Storing(t) /\ user # Profile(t)))
    BY <1>4 DEF StoreSession
  <2>. DEFINE m == [user |-> user, n |-> page[t].n]
  <2>2. page[t].at = "profile" /\ page[t].who \in Account /\ page[t].n \in Sign
    BY <1>4 DEF StoreSession, At, SignInOK
  <2>3. user \in Account /\ m \in Meta
    BY <2>2 DEF Profile, Typed, Meta
  <2>4. Shows(t, {"entering", "deciding"})
    BY <1>4, MoveShows DEF StoreSession, Place, Shows
  <2>5. Typed'
    <3>1. /\ keys' \in 0..MaxSigns /\ meta' \in AnyMeta /\ (keys' = 0 => meta' = NoMeta)
          /\ tabMeta' \in [Tab -> AnyMeta]
      BY <2>1, <2>2, <2>3, Bounds DEF PersistBoth, Typed, AnyMeta, Sign
    <3>2. behind' \in BOOLEAN
      BY <2>1
    <3>. QED BY <1>4, <2>4, <3>1, <3>2 DEF StoreSession, Typed, Shows
  <2>6. SignInOK'
    BY <2>4 DEF SignInOK, Shows
  <2>7. StoredOK'
    <3>. SUFFICES ASSUME ~behind', cookie # None
                  PROVE  /\ \A o \in Tab : Storing(o)' => asked'[o] = cookie
                         /\ meta' # NoMeta /\ (\A o \in Tab : ~Pending(o)') => meta'.user = cookie
      BY <1>4 DEF StoreSession, StoredOK
    <3>1. ~behind
      BY <2>1 DEF Typed
    <3>2. \A o \in Tab : Storing(o)' => Storing(o) /\ asked'[o] = asked[o]
      BY <1>4, <2>4 DEF StoreSession, Storing, At, Shows
    <3>3. \A o \in Tab \ {t} : Pending(o) => Pending(o)'
      BY <2>4 DEF Pending, Shows
    <3>4. CASE page[t].auth
      BY <2>1, <3>1, <3>2, <3>3, <3>4 DEF StoredOK, Pending
    <3>5. CASE ~page[t].auth
      <4>1. Storing(t)
        BY <2>2, <3>5 DEF Storing, At
      <4>2. user = Profile(t) /\ meta' = m
        BY <2>1, <3>5, <4>1 DEF PersistBoth
      <4>3. asked[t] = cookie
        BY <3>1, <4>1 DEF StoredOK
      <4>. QED BY <3>1, <3>2, <4>2, <4>3 DEF StoredOK, Profile
    <3>. QED BY <3>4, <3>5
  <2>8. ExchangeOK'
    BY <1>4, SameExchange DEF StoreSession
  <2>. QED BY <2>5, <2>6, <2>7, <2>8
<1>5. ASSUME NEW t \in Tab, Decide(t)
      PROVE  IndInv'
  <2>1. page[t].at = "deciding" /\ [page[t] EXCEPT !.fresh = TRUE] \in Page
    <3>1. page[t] \in Page /\ page[t].at = "deciding"
      BY <1>5 DEF Decide, At, Typed
    <3>. QED BY <3>1 DEF Page
  <2>2. Shows(t, {"approving", "loading", "login"}) /\ Ask(t)
    BY <1>5, <2>1, MoveShows, AuthorizePageShows DEF Decide, Place, Shows
  <2>3. Typed'
    BY <1>5, <2>2, AskTyped DEF Decide, Typed, Shows, shared
  <2>4. Calm(t)
    BY <1>5, <2>1, <2>2, AskTyped DEF Decide, Calm, Shows, Place, SigningIn, shared
  <2>5. ExchangeOK'
    BY <1>5, SameExchange DEF Decide
  <2>. QED BY <2>3, <2>4, <2>5, CalmKeeps
<1>6. ASSUME NEW t \in Tab, Enter(t)
      PROVE  IndInv'
  <2>1. Shows(t, {"login", "conflict", "home"}) /\ page[t].at = "entering"
    BY <1>6, OpenShows DEF Enter, At, Place, Shows
  <2>2. Browser \in AnyMeta /\ tabMeta[t] \in AnyMeta
    BY BrowserMeta DEF Typed
  <2>3. Typed'
    BY <1>6, <2>1, <2>2, AskTyped DEF Enter, Typed, Shows, counters
  <2>4. Calm(t)
    BY <1>6, <2>1, AskTyped DEF Enter, Calm, Shows, Place, SigningIn
  <2>5. ExchangeOK'
    BY <1>6, SameExchange DEF Enter, counters
  <2>. QED BY <2>3, <2>4, <2>5, CalmKeeps
<1>7. ASSUME NEW t \in Tab, Navigate(t)
      PROVE  IndInv'
  <2>1. /\ Shows(t, {"entering"})
        /\ page[t].at \notin SigningIn
    BY <1>7, MoveShows DEF Navigate, At, Place, SigningIn
  <2>2. Typed'
    BY <1>7, <2>1, TurnTyped DEF Navigate, Typed, Shows, shared, tabs, counters, tabState
  <2>3. Calm(t)
    BY <1>7, <2>1 DEF Navigate, Calm, Shows, Place, SigningIn, shared, tabs, counters, tabState
  <2>4. ExchangeOK'
    BY <1>7, SameExchange DEF Navigate, shared, tabs, counters, tabState, Turn
  <2>. QED BY <2>2, <2>3, <2>4, CalmKeeps
<1>8. ASSUME NEW t \in Tab, HomeRefused(t)
      PROVE  IndInv'
  <2>1. /\ Shows(t, {"login"})
        /\ page[t].at \notin SigningIn
    BY <1>8, OpenShows DEF HomeRefused, At, Place, SigningIn
  <2>2. Typed'
    BY <1>8, <2>1, ClearedMeta DEF HomeRefused, Typed, Shows, shared, tabs, counters, tabState, ClearAll, ClearBrowser
  <2>3. Calm(t)
    BY <1>8, <2>1 DEF HomeRefused, Calm, Shows, Place, SigningIn, shared, tabs, counters, tabState, ClearAll, ClearBrowser
  <2>4. ExchangeOK'
    BY <1>8, SameExchange DEF HomeRefused, shared, tabs, counters, tabState
  <2>. QED BY <2>2, <2>3, <2>4, CalmKeeps
<1>9. ASSUME NEW t \in Tab, OpenHome(t)
      PROVE  IndInv'
  <2>1. Shows(t, {"entering"})
    BY <1>9, OpenShows DEF OpenHome, Place
  <2>2. behind' \in BOOLEAN /\ (~behind' => ~behind /\ page[t].at \notin SigningIn)
    BY <1>9 DEF OpenHome, Leave, Typed
  <2>3. Typed'
    BY <1>9, <2>1, <2>2 DEF OpenHome, Typed, Shows, shared, tabState
  <2>4. Calm(t)
    BY <1>9, <2>1, <2>2 DEF OpenHome, Calm, Shows, Place, SigningIn, shared, tabState
  <2>5. ExchangeOK'
    BY <1>9, SameExchange DEF OpenHome, tabState
  <2>. QED BY <2>3, <2>4, <2>5, CalmKeeps
<1>10. ASSUME NEW t \in Tab, UseBrowserAccount(t)
       PROVE  IndInv'
  <2>1. Shows(t, {"login", "entering"}) /\ page[t].at = "conflict"
    BY <1>10, OpenShows, MoveShows DEF UseBrowserAccount, At, Place, Shows
  <2>2. Typed'
    BY <1>10, <2>1, BrowserMeta DEF UseBrowserAccount, Typed, Shows, shared, counters
  <2>3. Calm(t)
    BY <1>10, <2>1 DEF UseBrowserAccount, Calm, Shows, Place, SigningIn, shared
  <2>4. ExchangeOK'
    BY <1>10, SameExchange DEF UseBrowserAccount, counters
  <2>. QED BY <2>2, <2>3, <2>4, CalmKeeps
<1>11. ASSUME NEW t \in Tab, SwitchBrowser(t)
       PROVE  IndInv'
  <2>1. /\ Shows(t, {"login"})
        /\ page[t].at \notin SigningIn
    BY <1>11, OpenShows DEF SwitchBrowser, At, Place, SigningIn
  <2>2. Typed'
    BY <1>11, <2>1, ClearedMeta DEF SwitchBrowser, Typed, Shows, shared, tabs, counters, tabState, ClearBrowser
  <2>3. Calm(t)
    BY <1>11, <2>1 DEF SwitchBrowser, Calm, Shows, Place, SigningIn, shared, tabs, counters, tabState, ClearBrowser
  <2>4. ExchangeOK'
    BY <1>11, SameExchange DEF SwitchBrowser, shared, tabs, counters, tabState
  <2>. QED BY <2>2, <2>3, <2>4, CalmKeeps
<1>12. ASSUME NEW t \in Tab, LogOut(t)
       PROVE  IndInv'
  <2>1. /\ Shows(t, {"bye"})
        /\ page[t].at \notin SigningIn
    BY <1>12, MoveShows DEF LogOut, At, Place, SigningIn
  <2>2. Typed'
    BY <1>12, <2>1 DEF LogOut, Typed, Shows, shared, tabs, counters, tabState
  <2>3. Calm(t)
    BY <1>12, <2>1 DEF LogOut, Calm, Shows, Place, SigningIn, shared, tabs, counters, tabState
  <2>4. ExchangeOK'
    BY <1>12, SameExchange DEF LogOut, shared, tabs, counters, tabState
  <2>. QED BY <2>2, <2>3, <2>4, CalmKeeps
<1>13. ASSUME NEW t \in Tab, LogoutComplete(t)
       PROVE  IndInv'
  <2>1. /\ Shows(t, {"login"})
        /\ page[t].at \notin SigningIn
    BY <1>13, OpenShows DEF LogoutComplete, At, Place, SigningIn
  <2>2. Typed'
    BY <1>13, <2>1, ClearedMeta DEF LogoutComplete, Typed, Shows, shared, tabs, counters, tabState, ClearAll, ClearBrowser
  <2>3. Calm(t)
    BY <1>13, <2>1 DEF LogoutComplete, Calm, Shows, Place, SigningIn, shared, tabs, counters, tabState, ClearAll, ClearBrowser
  <2>4. ExchangeOK'
    BY <1>13, SameExchange DEF LogoutComplete, shared, tabs, counters, tabState
  <2>. QED BY <2>2, <2>3, <2>4, CalmKeeps
<1>14. ASSUME NEW t \in Tab, OpenAuthorize(t)
       PROVE  IndInv'
  <2>1. Opened("loading", "app") \in Page
    BY OpenedPage DEF Place
  <2>2. Shows(t, {"loading", "login"}) /\ Ask(t) /\ page[t].at \notin SigningIn
    BY <1>14, <2>1, AuthorizePageShows DEF OpenAuthorize, SigningIn
  <2>3. Typed'
    BY <1>14, <2>2, AskTyped DEF OpenAuthorize, Typed, Shows, shared
  <2>4. Calm(t)
    BY <1>14, <2>2, AskTyped DEF OpenAuthorize, Calm, Shows, Place, SigningIn, shared
  <2>5. ExchangeOK'
    BY <1>14, SameExchange DEF OpenAuthorize
  <2>. QED BY <2>3, <2>4, <2>5, CalmKeeps
<1>15. ASSUME NEW t \in Tab, Loaded(t)
       PROVE  IndInv'
  <2>1. Shows(t, {"login", "auto", "picker", "silent", "consent"}) /\ page[t].at = "loading"
    BY <1>15, LoginShows, SendShows, MoveShows DEF Loaded, At, Place, Shows
  <2>2. /\ asked' \in [Tab -> Account \cup {None}]
        /\ \A o \in Tab \ {t} : asked'[o] = asked[o]
    BY <1>15, SendShows, AskTyped DEF Loaded, Place, Typed
  <2>3. /\ keys' \in 0..MaxSigns /\ meta' \in {meta, NoMeta} /\ context' \in AnyMeta
        /\ keys' = 0 => meta' = NoMeta
        /\ session' \subseteq Tab
    BY <1>15, ClearedMeta, ContextMeta DEF Loaded, ClearBrowser, LoginForNewAccount, Typed
  <2>4. Typed'
    BY <1>15, <2>1, <2>2, <2>3, ClearedMeta DEF Loaded, Typed, Shows
  <2>5. Calm(t)
    BY <1>15, <2>1, <2>2, <2>3 DEF Loaded, Calm, Shows, Place, SigningIn
  <2>6. ExchangeOK'
    BY <1>15, SameExchange DEF Loaded
  <2>. QED BY <2>4, <2>5, <2>6, CalmKeeps
<1>16. ASSUME NEW t \in Tab, UseCurrentAccount(t)
       PROVE  IndInv'
  <2>1. /\ Shows(t, {"consent"})
        /\ page[t].at \notin SigningIn
    BY <1>16, MoveShows DEF UseCurrentAccount, At, Place, SigningIn
  <2>2. Typed'
    BY <1>16, <2>1 DEF UseCurrentAccount, Typed, Shows, shared, tabs, counters, tabState
  <2>3. Calm(t)
    BY <1>16, <2>1 DEF UseCurrentAccount, Calm, Shows, Place, SigningIn, shared, tabs, counters, tabState
  <2>4. ExchangeOK'
    BY <1>16, SameExchange DEF UseCurrentAccount, shared, tabs, counters, tabState
  <2>. QED BY <2>2, <2>3, <2>4, CalmKeeps
<1>17. ASSUME NEW t \in Tab, UseAnotherAccount(t)
       PROVE  IndInv'
  <2>1. /\ Shows(t, {"login"})
        /\ page[t].at \notin SigningIn
    BY <1>17, LoginShows DEF UseAnotherAccount, At, Place, SigningIn
  <2>2. Typed'
    BY <1>17, <2>1 DEF UseAnotherAccount, Typed, Shows, shared, tabs, counters, tabState, LoginForNewAccount
  <2>3. Calm(t)
    BY <1>17, <2>1 DEF UseAnotherAccount, Calm, Shows, Place, SigningIn, shared, tabs, counters, tabState
  <2>4. ExchangeOK'
    BY <1>17, SameExchange DEF UseAnotherAccount, shared, tabs, counters, tabState
  <2>. QED BY <2>2, <2>3, <2>4, CalmKeeps
<1>18. ASSUME NEW t \in Tab, Confirm(t)
       PROVE  IndInv'
  <2>1. /\ Shows(t, {"confirmed"})
        /\ page[t].at \notin SigningIn
    BY <1>18, MoveShows DEF Confirm, At, Place, SigningIn
  <2>2. Typed'
    BY <1>18, <2>1, AskTyped DEF Confirm, Typed, Shows, shared, tabs, counters, tabState
  <2>3. Calm(t)
    BY <1>18, <2>1, AskTyped DEF Confirm, Calm, Shows, Place, SigningIn, shared, tabs, counters, tabState
  <2>4. ExchangeOK'
    BY <1>18, SameExchange DEF Confirm, shared, tabs, counters, tabState
  <2>. QED BY <2>2, <2>3, <2>4, CalmKeeps
<1>19. ASSUME NEW t \in Tab, Cancel(t)
       PROVE  IndInv'
  <2>. DEFINE p == [page[t] EXCEPT !.at = "login", !.auth = FALSE, !.fresh = FALSE]
  <2>1. page[t] \in Page /\ "login" \in Place
    BY DEF Typed, Place
  <2>2. p \in Page /\ p.at = "login"
    BY <2>1, EditedPage
  <2>3. Shows(t, {"login"}) /\ page[t].at = "consent"
    BY <1>19, <2>2, GotoShows DEF Cancel, At
  <2>4. Typed'
    BY <1>19, <2>3 DEF Cancel, Typed, Shows, shared, counters
  <2>5. Calm(t)
    BY <1>19, <2>3 DEF Cancel, Calm, Shows, Place, SigningIn, shared
  <2>6. ExchangeOK'
    BY <1>19, SameExchange DEF Cancel, counters
  <2>. QED BY <2>4, <2>5, <2>6, CalmKeeps
<1>20. ASSUME NEW t \in Tab, CodeIssued(t)
       PROVE  IndInv'
  <2>1. Shows(t, {"callback", "away"}) /\ page[t].at \notin SigningIn
    BY <1>20, OpenShows DEF CodeIssued, Requested, Place, SigningIn, Shows
  <2>2. Typed'
    <3>1. consents' \subseteq Account /\ session' \subseteq Tab
      BY <1>20 DEF CodeIssued, Typed
    <3>2. exchange' \in [Tab -> [lock : BOOLEAN, sent : Nat, waits : Nat, failed : Nat]]
      BY <1>20 DEF CodeIssued, Typed, NoExchange
    <3>. QED BY <1>20, <2>1, <3>1, <3>2 DEF CodeIssued, Typed, Shows, counters
  <2>3. Calm(t)
    BY <1>20, <2>1 DEF CodeIssued, Calm, Shows, Place, SigningIn
  <2>4. ExchangeOK'
    BY <1>20 DEF CodeIssued, ExchangeOK, NoExchange, Typed, counters
  <2>. QED BY <2>2, <2>3, <2>4, CalmKeeps
<1>21. ASSUME NEW t \in Tab, NotIssued(t)
       PROVE  IndInv'
  <2>1. /\ Shows(t, {"login", "consent"})
        /\ page[t].at \notin SigningIn
    BY <1>21, MoveShows DEF NotIssued, At, Place, SigningIn, Requested, Shows
  <2>2. Typed'
    BY <1>21, <2>1 DEF NotIssued, Typed, Shows, shared, tabs, counters, tabState
  <2>3. Calm(t)
    BY <1>21, <2>1 DEF NotIssued, Calm, Shows, Place, SigningIn, shared, tabs, counters, tabState
  <2>4. ExchangeOK'
    BY <1>21, SameExchange DEF NotIssued, shared, tabs, counters, tabState
  <2>. QED BY <2>2, <2>3, <2>4, CalmKeeps
<1>22. ASSUME NEW t \in Tab, SessionGone(t)
       PROVE  IndInv'
  <2>1. Shows(t, {"login", "consent", "blank"}) /\ page[t].at \notin SigningIn
    BY <1>22, MoveShows DEF SessionGone, Requested, Place, SigningIn, Shows
  <2>2. /\ keys' \in 0..MaxSigns /\ meta' \in {meta, NoMeta} /\ context' \in AnyMeta
        /\ keys' = 0 => meta' = NoMeta
        /\ session' \subseteq Tab
    BY <1>22, ClearedMeta DEF SessionGone, ClearBrowser, Typed
  <2>3. Typed'
    BY <1>22, <2>1, <2>2, ClearedMeta DEF SessionGone, Typed, Shows, counters
  <2>4. Calm(t)
    BY <1>22, <2>1, <2>2 DEF SessionGone, Calm, Shows, Place, SigningIn
  <2>5. ExchangeOK'
    BY <1>22, SameExchange DEF SessionGone, counters
  <2>. QED BY <2>3, <2>4, <2>5, CalmKeeps
<1>23. ASSUME NEW t \in Tab, Exchange(t)
       PROVE  IndInv'
  <2>. DEFINE e == exchange[t]
  <2>1. PICK reload \in BOOLEAN :
          /\ IF e.sent = 0 THEN ~reload /\ UNCHANGED turns ELSE Turn
          /\ exchange' = [exchange EXCEPT ![t] =
                IF Locked(t) THEN [e EXCEPT !.waits = IF reload THEN 0 ELSE e.waits]
                ELSE [e EXCEPT !.lock = TRUE, !.sent = e.sent + 1,
                               !.waits = (IF reload THEN 0 ELSE e.waits) + 1]]
    BY <1>23 DEF Exchange
  <2>2. e \in [lock : BOOLEAN, sent : Nat, waits : Nat, failed : Nat]
    BY DEF Typed
  <2>3. /\ exchange'[t] \in [lock : BOOLEAN, sent : Nat, waits : Nat, failed : Nat]
        /\ exchange'[t].lock /\ exchange'[t].failed = e.failed
        /\ exchange'[t].sent = IF e.lock THEN e.sent ELSE e.sent + 1
        /\ exchange'[t].waits <= IF e.lock THEN e.waits ELSE e.waits + 1
    <3>1. CASE e.lock
      <4>1. exchange'[t] = [e EXCEPT !.waits = IF reload THEN 0 ELSE e.waits]
        BY <2>1, <3>1 DEF Typed, Locked
      <4>. QED BY <2>2, <3>1, <4>1
    <3>2. CASE ~e.lock
      <4>. DEFINE left == IF reload THEN 0 ELSE e.waits
      <4>1. exchange'[t] = [e EXCEPT !.lock = TRUE, !.sent = e.sent + 1, !.waits = left + 1]
        <5>. HIDE DEF left
        <5>1. ~Locked(t) /\ exchange \in [Tab -> [lock : BOOLEAN, sent : Nat, waits : Nat, failed : Nat]]
          BY <3>2 DEF Typed, Locked
        <5>2. exchange' = [exchange EXCEPT ![t] = [e EXCEPT !.lock = TRUE, !.sent = e.sent + 1, !.waits = left + 1]]
          BY <2>1, <5>1 DEF left
        <5>. QED BY <5>1, <5>2
      <4>2. left \in Nat /\ left <= e.waits
        <5>. HIDE DEF e
        <5>1. e.waits \in Nat
          BY <2>2
        <5>. QED BY <5>1
      <4>. HIDE DEF left, e
      <4>3. e.sent + 1 \in Nat /\ left + 1 \in Nat /\ left + 1 <= e.waits + 1
        BY <2>2, <4>2
      <4>. QED BY <2>2, <3>2, <4>1, <4>3
    <3>. QED BY <3>1, <3>2
  <2>4. exchange' \in [Tab -> [lock : BOOLEAN, sent : Nat, waits : Nat, failed : Nat]]
        /\ \A o \in Tab \ {t} : exchange'[o] = exchange[o]
    BY <2>1, <2>3 DEF Typed
  <2>5. turns' \in 0..MaxTurns /\ turns' = IF e.sent = 0 THEN turns ELSE turns + 1
    BY <2>1, TurnTyped DEF Typed
  <2>6. Typed' /\ SignInOK' /\ StoredOK'
    BY <1>23, <2>4, <2>5 DEF Exchange, Typed, shared, SignInOK, StoredOK, Storing, Pending, At
  <2>7. ExchangeOK'
    <3>1. turns \in Nat /\ e.sent <= turns + 1 /\ e.waits <= e.sent
          /\ e.sent <= e.failed + (IF e.lock THEN 1 ELSE 0)
      BY Bounds DEF Typed, ExchangeOK
    <3>2. /\ exchange'[t].sent <= exchange'[t].failed + 1
          /\ exchange'[t].sent <= turns' + 1
          /\ exchange'[t].waits <= exchange'[t].sent
      BY <2>2, <2>3, <2>5, <3>1
    <3>3. \A o \in Tab : exchange[o].sent \in Nat
      BY DEF Typed
    <3>. QED BY <2>3, <2>4, <2>5, <3>1, <3>2, <3>3 DEF ExchangeOK
  <2>. QED BY <2>6, <2>7
<1>24. ASSUME NEW t \in Tab, ExchangeDone(t)
       PROVE  IndInv'
  <2>1. Shows(t, {"entering"}) /\ page[t].at = "callback"
    BY <1>24, OpenShows DEF ExchangeDone, At, Place
  <2>2. exchange' \in [Tab -> [lock : BOOLEAN, sent : Nat, waits : Nat, failed : Nat]]
    BY <1>24 DEF ExchangeDone, Typed, NoExchange
  <2>3. Typed'
    BY <1>24, <2>1, <2>2 DEF ExchangeDone, Typed, Shows, shared, counters
  <2>4. Calm(t)
    BY <1>24, <2>1 DEF ExchangeDone, Calm, Shows, Place, SigningIn, shared
  <2>5. ExchangeOK'
    BY <1>24 DEF ExchangeDone, ExchangeOK, NoExchange, Typed, counters
  <2>. QED BY <2>3, <2>4, <2>5, CalmKeeps
<1>25. ASSUME NEW t \in Tab, ExchangeFails(t)
       PROVE  IndInv'
  <2>. DEFINE e == exchange[t]
  <2>0. e \in [lock : BOOLEAN, sent : Nat, waits : Nat, failed : Nat] /\ e.waits > 0
    BY <1>25 DEF ExchangeFails, Typed
  <2>1. exchange'[t] = [e EXCEPT !.lock = FALSE, !.waits = e.waits - 1, !.failed = e.failed + 1]
    BY <1>25 DEF ExchangeFails, Typed
  <2>2. /\ exchange'[t] \in [lock : BOOLEAN, sent : Nat, waits : Nat, failed : Nat]
        /\ exchange'[t].failed = e.failed + 1 /\ exchange'[t].sent = e.sent
        /\ exchange'[t].waits = e.waits - 1
        /\ ~exchange'[t].lock
    <3>. HIDE DEF e
    <3>1. e.waits - 1 \in Nat /\ e.failed + 1 \in Nat
      BY <2>0
    <3>. QED BY <2>0, <2>1, <3>1
  <2>3. exchange' \in [Tab -> [lock : BOOLEAN, sent : Nat, waits : Nat, failed : Nat]]
        /\ \A o \in Tab \ {t} : exchange'[o] = exchange[o]
    BY <1>25, <2>2 DEF ExchangeFails, Typed
  <2>4. Typed' /\ SignInOK' /\ StoredOK'
    BY <1>25, <2>3 DEF ExchangeFails, Typed, shared, SignInOK, StoredOK, Storing, Pending, At
  <2>5. ExchangeOK'
    <3>1. /\ e.sent <= turns + 1 /\ e.waits <= e.sent /\ turns' = turns
          /\ e.sent <= e.failed + 1
      BY <1>25 DEF Typed, ExchangeOK, ExchangeFails
    <3>2. /\ exchange'[t].sent <= exchange'[t].failed
          /\ exchange'[t].sent <= turns' + 1
          /\ exchange'[t].waits <= exchange'[t].sent
      BY <2>0, <2>2, <3>1, Bounds DEF Typed
    <3>. QED BY <2>2, <2>3, <3>1, <3>2 DEF ExchangeOK
  <2>. QED BY <2>4, <2>5
<1>26. ASSUME SessionEnds
      PROVE  IndInv'
  <2>1. Typed'
    BY <1>26, TurnTyped DEF SessionEnds, Typed, tabs
  <2>2. SignInOK' /\ StoredOK'
    BY <1>26 DEF SessionEnds, tabs, SignInOK, StoredOK, At
  <2>3. ExchangeOK'
    BY <1>26, SameExchange DEF SessionEnds, Turn, tabs
  <2>. QED BY <2>1, <2>2, <2>3
<1>27. CASE UNCHANGED vars
  BY <1>27 DEF vars, shared, tabs, counters, Typed, SignInOK, ExchangeOK, StoredOK, Storing, Pending, At
<1>28. ASSUME NEW t \in Tab, NEW u \in Account, SignInLost(t, u)
       PROVE  IndInv'
  <2>1. signs' \in 0..MaxSigns
    BY <1>28, Bounds DEF SignInLost, Typed
  <2>2. Typed' /\ SignInOK' /\ StoredOK'
    BY <1>28, <2>1 DEF SignInLost, tabs, Typed, SignInOK, StoredOK
  <2>3. ExchangeOK'
    BY <1>28, SameExchange DEF SignInLost, tabs
  <2>. QED BY <2>2, <2>3
<1>. QED BY <1>1, <1>2, <1>3, <1>4, <1>5, <1>6, <1>7, <1>8, <1>9, <1>10, <1>11, <1>12, <1>13, <1>14, <1>15, <1>16, <1>17, <1>18, <1>19, <1>20, <1>21, <1>22, <1>23, <1>24, <1>25, <1>26, <1>27, <1>28 DEF Next

LEMMA InitIndInv == Init => IndInv
<1>. SUFFICES ASSUME Init PROVE IndInv
  OBVIOUS
<1>1. Opened("login", "none") \in Page /\ Opened("login", "none").at = "login"
  BY OpenedPage DEF Place
<1>2. Typed
  <2>1. NoExchange \in [lock : BOOLEAN, sent : Nat, waits : Nat, failed : Nat]
    BY DEF NoExchange
  <2>2. /\ page \in [Tab -> Page]
        /\ exchange \in [Tab -> [lock : BOOLEAN, sent : Nat, waits : Nat, failed : Nat]]
    BY <1>1, <2>1 DEF Init
  <2>3. /\ tabMeta \in [Tab -> AnyMeta]
        /\ meta \in AnyMeta /\ context \in AnyMeta /\ meta = NoMeta
    BY DEF Init, AnyMeta
  <2>4. /\ asked \in [Tab -> Account \cup {None}] /\ cookie \in Account \cup {None}
        /\ session \subseteq Tab /\ consents \subseteq Account /\ behind \in BOOLEAN
    BY DEF Init
  <2>5. keys \in 0..MaxSigns /\ signs \in 0..MaxSigns /\ turns \in 0..MaxTurns
    BY Bounds DEF Init
  <2>. QED BY <2>2, <2>3, <2>4, <2>5 DEF Typed
<1>3. SignInOK /\ StoredOK
  BY <1>1 DEF Init, SignInOK, StoredOK, Storing, At
<1>4. ExchangeOK
  BY DEF Init, ExchangeOK, NoExchange
<1>. QED BY <1>2, <1>3, <1>4 DEF IndInv

-----------------------------------------------------------------------------
\* In every reachable state what the tabs wait for, will store and have stored agrees
\* as the parts of IndInv say (authSession.ts, authLoginFlow.ts, App.tsx).
THEOREM BrowserInvariant == Spec => []IndInv
BY InitIndInv, NextIndInv, PTL DEF Spec

\* Cookie, storages, pages and exchanges keep their types.
THEOREM BrowserTypeCorrect == Spec => []TypeOK
<1>1. IndInv => TypeOK
  <2>. SUFFICES ASSUME IndInv, NEW t \in Tab
                PROVE  /\ exchange[t].sent \in 0..(MaxTurns + 1)
                       /\ exchange[t].waits \in 0..exchange[t].sent
    BY DEF IndInv, Typed, AnyMeta, TypeOK
  <2>1. /\ exchange[t] \in [lock : BOOLEAN, sent : Nat, waits : Nat, failed : Nat]
        /\ turns \in 0..MaxTurns /\ MaxTurns \in Nat
    BY Bounds DEF IndInv, Typed
  <2>. QED BY <2>1 DEF IndInv, ExchangeOK
<1>. QED BY <1>1, BrowserInvariant, PTL

\* The session the browser has stored is the account of its cookie, between sign-ins
\* and unless the stored session was left behind in one of the ways Settled names
\* (handleLoginSuccessResult).
THEOREM StoredIsCookie == Spec => []MetaIsCookie
<1>1. IndInv => MetaIsCookie
  BY DEF IndInv, StoredOK, Settled, MetaIsCookie, Pending, SigningIn
<1>. QED BY <1>1, BrowserInvariant, PTL

\* Nothing but its guards brings a tab to the signed-in pages.
LEMMA OnlyEnter ==
    ASSUME Typed, Next, NEW t \in Tab, page[t].at = "entering", page'[t].at = "home"
    PROVE  Enter(t)
<1>1. page'[t] # page[t]
  OBVIOUS
<1>2. ~SessionEnds
  BY <1>1 DEF SessionEnds, tabs
<1>3. PICK o \in Tab :
        \/ OwnClient(o) \/ (\E u \in Account : SignIn(o, u) \/ SignInLost(o, u))
        \/ HandleLogin(o) \/ StoreSession(o) \/ Decide(o)
        \/ Enter(o) \/ Navigate(o) \/ HomeRefused(o) \/ OpenHome(o)
        \/ UseBrowserAccount(o) \/ SwitchBrowser(o) \/ LogOut(o) \/ LogoutComplete(o)
        \/ OpenAuthorize(o) \/ Loaded(o) \/ UseCurrentAccount(o) \/ UseAnotherAccount(o)
        \/ Confirm(o) \/ Cancel(o) \/ CodeIssued(o) \/ NotIssued(o) \/ SessionGone(o)
        \/ Exchange(o) \/ ExchangeDone(o) \/ ExchangeFails(o)
  BY <1>2 DEF Next
<1>4. (\E p : Goto(o, p)) \/ page' = page
  BY <1>3 DEF OwnClient, SignIn, SignInLost, HandleLogin, StoreSession, Decide, Enter, Navigate, HomeRefused,
     OpenHome, UseBrowserAccount, SwitchBrowser, LogOut, LogoutComplete, OpenAuthorize, Loaded,
     UseCurrentAccount, UseAnotherAccount, Confirm, Cancel, CodeIssued, NotIssued, SessionGone, Exchange,
     ExchangeDone, ExchangeFails, Move, OpenAuthorizePage, LoginForNewAccount, Send, tabs
<1>5. o = t
  BY <1>1, <1>4 DEF Goto, Typed
<1>. QED BY <1>1, <1>3, <1>5 DEF OwnClient, SignIn, SignInLost, HandleLogin, StoreSession, Decide, Navigate,
     HomeRefused, OpenHome, UseBrowserAccount, SwitchBrowser, LogOut, LogoutComplete, OpenAuthorize, Loaded,
     UseCurrentAccount, UseAnotherAccount, Confirm, Cancel, CodeIssued, NotIssued, SessionGone, Exchange,
     ExchangeDone, ExchangeFails, At, SigningIn, Requested, tabs

\* RequireSingleBrowserAccount lets a tab in only as the account of the cookie, which is
\* the one its requests are answered for, whatever the other tabs have done.
THEOREM TabsEnterAsThemselves == Spec => EntersAsItself
<1>. DEFINE Enters(t) == (At(t, "entering") /\ page'[t].at = "home" /\ Settled /\ meta # NoMeta)
                             => tabMeta'[t].user = asked'[t]
<1>1. IndInv /\ [Next]_vars => [\A t \in Tab : Enters(t)]_vars
  <2>. SUFFICES ASSUME IndInv, Next, NEW t \in Tab, page[t].at = "entering", page'[t].at = "home",
                       Settled, meta # NoMeta
                PROVE  tabMeta'[t].user = asked'[t]
    BY DEF At
  <2>1. Enter(t)
    BY OnlyEnter DEF IndInv
  <2>2. asked'[t] = cookie /\ cookie \in Account /\ Browser = meta /\ meta.user = cookie
    BY <2>1, AskTyped DEF Enter, IndInv, Typed, Browser, Settled, StoredOK, Pending, SigningIn
  <2>3. CASE tabMeta[t] = NoMeta
    BY <2>1, <2>2, <2>3 DEF Enter, IndInv, Typed
  <2>4. CASE tabMeta[t] # NoMeta
    <3>1. ~(Identity(Browser) # Identity(tabMeta[t]))
      <4>1. SUFFICES ASSUME Identity(Browser) # Identity(tabMeta[t]), Browser # NoMeta, HasToken(t)
                     PROVE  FALSE
        BY <2>2, <2>4 DEF HasToken
      <4>2. page'[t] = Opened("conflict", "none")
        BY <2>1, <2>4, <4>1 DEF Enter, Goto, IndInv, Typed
      <4>. QED BY <4>2 DEF Opened
    <3>2. Identity(tabMeta[t]) = cookie
      BY <2>2, <3>1, UserAssumption DEF Identity
    <3>3. tabMeta[t].user = cookie
      <4>1. tabMeta[t] \in Meta
        BY <2>4 DEF IndInv, Typed, AnyMeta
      <4>. QED BY <2>2, <3>2, <4>1, UserAssumption DEF Identity, Meta
    <3>. QED BY <2>1, <2>2, <2>4, <3>3 DEF Enter
  <2>. QED BY <2>3, <2>4
<1>. QED BY <1>1, BrowserInvariant, PTL DEF Spec, EntersAsItself

\* exchangeCode sends the code again only after a failure, whatever reloads and
\* changes of the language come in between.
THEOREM CodeExchangedOnce == Spec => []ExchangeOnce
<1>1. IndInv => ExchangeOnce
  <2>. SUFFICES ASSUME IndInv, NEW t \in Tab
                PROVE  exchange[t].sent <= exchange[t].failed + 1
    BY DEF ExchangeOnce
  <2>1. exchange[t] \in [lock : BOOLEAN, sent : Nat, waits : Nat, failed : Nat]
    BY DEF IndInv, Typed
  <2>. QED BY <2>1 DEF IndInv, ExchangeOK
<1>. QED BY <1>1, BrowserInvariant, PTL

-----------------------------------------------------------------------------
(* The sign-in by QR code *)

\* A request has what its next statement needs; what a confirmation created is
\* its own alone until it is recorded; what a poll carries is what the row records.
QRRequestOK ==
    \A w \in Worker :
        /\ req[w].pc \in {"scan.claim", "cancel.write", "confirm.login"} => req[w].user \in User
        /\ Unsettled(w) =>
              /\ req[w].user \in User
              /\ req[w].login \in Login
              /\ req[w].login # row.login
              /\ logins[req[w].login].st # "absent"
              /\ logins[req[w].login].user = req[w].user
              /\ \A v \in Worker : Unsettled(v) /\ req[v].login = req[w].login => v = w
        /\ req[w].pc \in {"poll.session", "poll.delete"} =>
              /\ outcome = "confirmed"
              /\ req[w].login = row.login

\* What the row records agrees with the decision a user was told.
QRRowOK ==
    /\ outcome = "none" => row.st \in {"absent", "pending", "scanned", "deleted"} /\ row.login = Null
    /\ outcome = "cancelled" => row.st \in {"cancelled", "deleted"} /\ row.login = Null
    /\ outcome = "confirmed" =>
          /\ row.st \in {"confirmed", "deleted"}
          /\ row.user \in User
          /\ row.login \in Login
          /\ logins[row.login].st # "absent"
          /\ logins[row.login].user = row.user

QRInv == QRTypeOK /\ QRRequestOK /\ QRRowOK /\ DeliveredIsConfirmed /\ NoStrayLogin

-----------------------------------------------------------------------------
LEMMA InitQRInv == QRInit => QRInv
<1>. SUFFICES ASSUME QRInit PROVE QRInv
  OBVIOUS
<1>1. QRTypeOK
  BY NullAssumption DEF QRInit, QRTypeOK, Row, Status, LoginRow, Request, PC, Idle
<1>2. QRRequestOK /\ QRRowOK
  BY DEF QRInit, QRRequestOK, QRRowOK, Unsettled, Idle
<1>3. DeliveredIsConfirmed /\ NoStrayLogin
  BY DEF QRInit, DeliveredIsConfirmed, NoStrayLogin
<1>. QED BY <1>1, <1>2, <1>3 DEF QRInv

LEMMA NextQRInv == QRInv /\ [QRNext]_qrVars => QRInv'
<1>. SUFFICES ASSUME QRInv, [QRNext]_qrVars PROVE QRInv'
  OBVIOUS
<1>. USE NullAssumption DEF QRInv
<1>1. ASSUME NEW w \in Worker, NEW u \in User, ScanQRLogin(w, u)
      PROVE  QRInv'
  <2>1. QRTypeOK'
    BY <1>1 DEF ScanQRLogin, Begin, Idle, QRTypeOK, Request, PC
  <2>2. QRRequestOK'
    BY <1>1 DEF ScanQRLogin, Begin, QRRequestOK, Unsettled
  <2>3. QRRowOK'
    BY <1>1 DEF ScanQRLogin, QRRowOK
  <2>4. DeliveredIsConfirmed'
    BY <1>1 DEF ScanQRLogin, DeliveredIsConfirmed
  <2>5. NoStrayLogin'
    BY <1>1 DEF ScanQRLogin, Begin, NoStrayLogin, Unsettled
  <2>. QED BY <2>1, <2>2, <2>3, <2>4, <2>5
<1>2. ASSUME NEW w \in Worker, ClaimPendingQRLoginChallenge(w)
      PROVE  QRInv'
  <2>1. CASE row.st = "pending" /\ ~expired
    <3>1. /\ req[w].pc = "scan.claim" /\ req[w].user \in User
          /\ row' = [row EXCEPT !.st = "scanned", !.user = req[w].user]
          /\ scanner' = req[w].user
          /\ req' = [req EXCEPT ![w] = Idle]
          /\ UNCHANGED <<expired, logins, delivered, outcome, dropped>>
      BY <1>2, <2>1 DEF ClaimPendingQRLoginChallenge, Finish, QRRequestOK
    <3>2. outcome = "none" /\ row.login = Null
      BY <2>1 DEF QRRowOK, QRTypeOK
    <3>3. /\ row' \in [st: Status, user: User \cup {Null}, login: Login \cup {Null}]
          /\ row'.st = "scanned" /\ row'.login = row.login
      BY <2>1, <3>1 DEF QRTypeOK, Row, Status
    <3>4. QRTypeOK'
      BY <3>1, <3>3 DEF QRTypeOK, Row, Request, PC, Idle
    <3>5. QRRequestOK' /\ QRRowOK'
      BY <3>1, <3>2, <3>3 DEF QRRequestOK, QRRowOK, Unsettled, Idle
    <3>6. DeliveredIsConfirmed' /\ NoStrayLogin'
      BY <3>1, <3>2, <3>3 DEF DeliveredIsConfirmed, NoStrayLogin, Unsettled
    <3>. QED BY <3>4, <3>5, <3>6
  <2>2. CASE ~(row.st = "pending" /\ ~expired)
    <3>1. /\ req[w].pc = "scan.claim"
          /\ req' = [req EXCEPT ![w] = Idle]
          /\ UNCHANGED <<row, scanner, expired, logins, delivered, outcome, dropped>>
      BY <1>2, <2>2 DEF ClaimPendingQRLoginChallenge, Finish
    <3>. QED BY <3>1 DEF QRTypeOK, Request, PC, Idle, QRRequestOK, QRRowOK, DeliveredIsConfirmed,
         NoStrayLogin, Unsettled
  <2>. QED BY <2>1, <2>2
<1>3. ASSUME NEW w \in Worker, NEW u \in User, NEW confirm \in BOOLEAN, ConfirmQRLogin(w, u, confirm)
      PROVE  QRInv'
  <2>1. QRTypeOK'
    BY <1>3 DEF ConfirmQRLogin, Begin, Idle, QRTypeOK, Request, PC
  <2>2. QRRequestOK'
    BY <1>3 DEF ConfirmQRLogin, Begin, QRRequestOK, Unsettled
  <2>3. QRRowOK'
    BY <1>3 DEF ConfirmQRLogin, QRRowOK
  <2>4. DeliveredIsConfirmed'
    BY <1>3 DEF ConfirmQRLogin, DeliveredIsConfirmed
  <2>5. NoStrayLogin'
    BY <1>3 DEF ConfirmQRLogin, Begin, NoStrayLogin, Unsettled
  <2>. QED BY <2>1, <2>2, <2>3, <2>4, <2>5
<1>4. ASSUME NEW w \in Worker, CancelWrite(w)
      PROVE  QRInv'
  <2>1. CASE Updatable
    <3>1. /\ req[w].pc = "cancel.write" /\ req[w].user \in User
          /\ row' = [row EXCEPT !.st = "cancelled", !.user = req[w].user]
          /\ outcome' = "cancelled"
          /\ req' = [req EXCEPT ![w] = Idle]
          /\ UNCHANGED <<expired, logins, delivered, scanner, dropped>>
      BY <1>4, <2>1 DEF CancelWrite, Finish, QRRequestOK
    <3>2. outcome = "none" /\ row.login = Null
      BY <2>1 DEF Updatable, QRRowOK, QRTypeOK
    <3>3. /\ row' \in [st: Status, user: User \cup {Null}, login: Login \cup {Null}]
          /\ row'.st = "cancelled" /\ row'.login = row.login
      BY <3>1 DEF QRTypeOK, Row, Status
    <3>4. QRTypeOK'
      BY <3>1, <3>3 DEF QRTypeOK, Row, Request, PC, Idle
    <3>5. QRRequestOK' /\ QRRowOK'
      BY <3>1, <3>2, <3>3 DEF QRRequestOK, QRRowOK, Unsettled, Idle
    <3>6. DeliveredIsConfirmed' /\ NoStrayLogin'
      BY <3>1, <3>2, <3>3 DEF DeliveredIsConfirmed, NoStrayLogin, Unsettled
    <3>. QED BY <3>4, <3>5, <3>6
  <2>2. CASE ~Updatable
    <3>1. /\ req[w].pc = "cancel.write"
          /\ req' = [req EXCEPT ![w] = Idle]
          /\ UNCHANGED <<row, scanner, expired, logins, delivered, outcome, dropped>>
      BY <1>4, <2>2 DEF CancelWrite, Finish
    <3>. QED BY <3>1 DEF QRTypeOK, Request, PC, Idle, QRRequestOK, QRRowOK, DeliveredIsConfirmed,
         NoStrayLogin, Unsettled
  <2>. QED BY <2>1, <2>2
<1>5. ASSUME NEW w \in Worker, ContinuePostAuthentication(w)
      PROVE  QRInv'
  <2>1. ASSUME NEW l \in Login, NEW kind \in {"session", "flow"},
               logins[l].st = "absent",
               logins' = [logins EXCEPT ![l] = [st |-> "live", kind |-> kind, user |-> req[w].user]],
               req' = [req EXCEPT ![w].pc = "confirm.write", ![w].login = l]
        PROVE  QRInv'
    <3>1. /\ req[w].pc = "confirm.login" /\ req[w].user \in User
          /\ UNCHANGED <<row, expired, delivered, scanner, outcome, dropped>>
      BY <1>5 DEF ContinuePostAuthentication, QRRequestOK
    <3>2. /\ logins' \in [Login -> LoginRow]
          /\ logins'[l].st = "live" /\ logins'[l].user = req[w].user
          /\ \A k \in Login \ {l} : logins'[k] = logins[k]
      BY <2>1, <3>1 DEF QRTypeOK, LoginRow
    <3>3. /\ req' \in [Worker -> Request]
          /\ req'[w].pc = "confirm.write" /\ req'[w].login = l /\ req'[w].user = req[w].user
          /\ \A v \in Worker \ {w} : req'[v] = req[v]
      BY <2>1 DEF QRTypeOK, Request, PC
    <3>4. l # row.login /\ l \notin delivered /\ \A v \in Worker : Unsettled(v) => req[v].login # l
      BY <2>1 DEF QRRowOK, QRRequestOK, DeliveredIsConfirmed, QRTypeOK
    <3>5. QRTypeOK'
      BY <3>1, <3>2, <3>3 DEF QRTypeOK
    <3>6. QRRequestOK' /\ QRRowOK'
      BY <3>1, <3>2, <3>3, <3>4 DEF QRRequestOK, QRRowOK, Unsettled
    <3>7. DeliveredIsConfirmed'
      BY <3>1, <3>2, <3>4 DEF DeliveredIsConfirmed, QRTypeOK
    <3>8. NoStrayLogin'
      <4>1. \A v \in Worker : Unsettled(v) => Unsettled(v)' /\ req'[v].login = req[v].login
        BY <3>1, <3>3 DEF Unsettled
      <4>2. Unsettled(w)'
        BY <3>3 DEF Unsettled
      <4>. QED BY <3>1, <3>2, <3>3, <4>1, <4>2 DEF NoStrayLogin
    <3>. QED BY <3>5, <3>6, <3>7, <3>8
  <2>2. ASSUME Finish(w), UNCHANGED logins
        PROVE  QRInv'
    <3>1. /\ req[w].pc = "confirm.login"
          /\ req' = [req EXCEPT ![w] = Idle]
          /\ UNCHANGED <<row, expired, logins, delivered, scanner, outcome, dropped>>
      BY <1>5, <2>2 DEF ContinuePostAuthentication, Finish
    <3>. QED BY <3>1 DEF QRTypeOK, Request, PC, Idle, QRRequestOK, QRRowOK, DeliveredIsConfirmed,
         NoStrayLogin, Unsettled
  <2>. QED BY <1>5, <2>1, <2>2 DEF ContinuePostAuthentication
<1>6. ASSUME NEW w \in Worker, ConfirmWrite(w)
      PROVE  QRInv'
  <2>. DEFINE l == req[w].login
  <2>1. /\ Unsettled(w) /\ req[w].pc = "confirm.write"
        /\ req[w].user \in User /\ l \in Login /\ l # row.login
        /\ logins[l].st # "absent" /\ logins[l].user = req[w].user
        /\ \A v \in Worker \ {w} : Unsettled(v) => req[v].login # l
        /\ UNCHANGED <<expired, logins, delivered, scanner, dropped>>
    BY <1>6 DEF ConfirmWrite, QRRequestOK, Unsettled
  <2>2. CASE Updatable
    <3>1. /\ row' = [st |-> "confirmed", user |-> req[w].user, login |-> l]
          /\ outcome' = "confirmed"
          /\ req' = [req EXCEPT ![w] = Idle]
      BY <1>6, <2>2 DEF ConfirmWrite, Finish
    <3>2. outcome = "none" /\ row.login = Null
      BY <2>2 DEF Updatable, QRRowOK, QRTypeOK
    <3>3. /\ req' \in [Worker -> Request] /\ req'[w].pc = "idle"
          /\ \A v \in Worker \ {w} : req'[v] = req[v]
      BY <3>1 DEF QRTypeOK, Request, PC, Idle
    <3>4. QRTypeOK'
      BY <2>1, <3>1, <3>3 DEF QRTypeOK, Row, Status
    <3>5. QRRequestOK'
      BY <2>1, <3>1, <3>2, <3>3 DEF QRRequestOK, Unsettled
    <3>6. QRRowOK'
      BY <2>1, <3>1 DEF QRRowOK
    <3>7. DeliveredIsConfirmed'
      BY <2>1, <3>2 DEF DeliveredIsConfirmed
    <3>8. NoStrayLogin'
      <4>1. \A v \in Worker : Unsettled(v) /\ v # w => Unsettled(v)' /\ req'[v].login = req[v].login
        BY <3>3 DEF Unsettled
      <4>2. row'.login = l
        BY <3>1
      <4>. QED BY <2>1, <3>2, <4>1, <4>2 DEF NoStrayLogin
    <3>. QED BY <3>4, <3>5, <3>6, <3>7, <3>8
  <2>3. CASE ~Updatable
    <3>1. /\ req' = [req EXCEPT ![w].pc = "confirm.clean"]
          /\ UNCHANGED <<row, outcome>>
      BY <1>6, <2>3 DEF ConfirmWrite, Continue
    <3>2. \A v \in Worker : /\ Unsettled(v)' <=> Unsettled(v)
                           /\ req'[v].login = req[v].login /\ req'[v].user = req[v].user
      BY <2>1, <3>1 DEF Unsettled
    <3>3. QRTypeOK'
      BY <2>1, <3>1 DEF QRTypeOK, Request, PC
    <3>4. QRRequestOK'
      <4>1. \A v \in Worker : req'[v].pc # "confirm.clean" => req'[v].pc = req[v].pc
        BY <3>1
      <4>. QED BY <2>1, <3>1, <3>2, <4>1 DEF QRRequestOK
    <3>5. QRRowOK' /\ DeliveredIsConfirmed'
      BY <2>1, <3>1 DEF QRRowOK, DeliveredIsConfirmed
    <3>6. NoStrayLogin'
      BY <2>1, <3>1, <3>2 DEF NoStrayLogin
    <3>. QED BY <3>3, <3>4, <3>5, <3>6
  <2>. QED BY <2>2, <2>3
<1>7. ASSUME NEW w \in Worker, CleanupQRLoginFlowResult(w)
      PROVE  QRInv'
  <2>1. QRTypeOK'
    <3>1. UNCHANGED <<row, expired, delivered, scanner, outcome, dropped>>
      BY <1>7 DEF CleanupQRLoginFlowResult
    <3>2. logins' \in [Login -> LoginRow]
      <4>. DEFINE x == req[w].login
                  deleted == [logins[x] EXCEPT !.st = "deleted"]
      <4>1. logins \in [Login -> LoginRow] /\ logins' = [logins EXCEPT ![x] = deleted]
        BY <1>7 DEF CleanupQRLoginFlowResult, WithoutLogin, QRTypeOK
      <4>2. x \in Login => logins[x] \in LoginRow
        BY <4>1
      <4>3. x \in Login => deleted \in LoginRow
        BY <4>2 DEF LoginRow
      <4>. HIDE DEF x, deleted
      <4>. QED BY <4>1, <4>3
    <3>3. Idle \in Request
      BY DEF Idle, Request, PC
    <3>4. req' \in [Worker -> Request]
      BY <1>7, <3>3 DEF CleanupQRLoginFlowResult, Finish, QRTypeOK
    <3>. QED BY <3>1, <3>2, <3>4 DEF QRTypeOK
  <2>2. QRRequestOK'
    BY <1>7 DEF CleanupQRLoginFlowResult, WithoutLogin, Finish, Idle, QRRequestOK, Unsettled
  <2>3. QRRowOK'
    BY <1>7 DEF CleanupQRLoginFlowResult, WithoutLogin, QRRowOK
  <2>4. DeliveredIsConfirmed'
    BY <1>7 DEF CleanupQRLoginFlowResult, WithoutLogin, DeliveredIsConfirmed
  <2>5. NoStrayLogin'
    BY <1>7 DEF CleanupQRLoginFlowResult, WithoutLogin, Finish, NoStrayLogin, Unsettled, QRTypeOK
  <2>. QED BY <2>1, <2>2, <2>3, <2>4, <2>5
<1>8. ASSUME NEW w \in Worker, GetQRLoginStatus(w)
      PROVE  QRInv'
  <2>1. QRTypeOK'
    BY <1>8 DEF GetQRLoginStatus, Begin, Idle, QRTypeOK, Row, Request, PC
  <2>2. QRRequestOK'
    BY <1>8 DEF GetQRLoginStatus, Begin, QRRequestOK, QRRowOK, Unsettled, QRTypeOK
  <2>3. QRRowOK'
    BY <1>8 DEF GetQRLoginStatus, QRRowOK
  <2>4. DeliveredIsConfirmed'
    BY <1>8 DEF GetQRLoginStatus, DeliveredIsConfirmed
  <2>5. NoStrayLogin'
    BY <1>8 DEF GetQRLoginStatus, Begin, NoStrayLogin, Unsettled
  <2>. QED BY <2>1, <2>2, <2>3, <2>4, <2>5
<1>9. ASSUME NEW w \in Worker, PollSession(w)
      PROVE  QRInv'
  <2>1. /\ req[w].pc = "poll.session"
        /\ \E pc \in {"poll.delete", "idle"} :
              \/ req' = [req EXCEPT ![w].pc = pc]
              \/ req' = [req EXCEPT ![w] = Idle]
        /\ UNCHANGED <<row, expired, logins, delivered, scanner, outcome, dropped>>
    BY <1>9 DEF PollSession, Continue, Finish
  <2>2. QRTypeOK'
    BY <2>1 DEF QRTypeOK, Request, PC, Idle
  <2>3. QRRequestOK'
    BY <1>9 DEF PollSession, Continue, Finish, Idle, QRRequestOK, Unsettled, QRTypeOK, Request
  <2>4. QRRowOK' /\ DeliveredIsConfirmed'
    BY <2>1 DEF QRRowOK, DeliveredIsConfirmed
  <2>5. NoStrayLogin'
    BY <2>1 DEF NoStrayLogin, Unsettled, QRTypeOK
  <2>. QED BY <2>2, <2>3, <2>4, <2>5
<1>10. ASSUME NEW w \in Worker, DeleteQRLoginChallenge(w)
       PROVE  QRInv'
  <2>1. /\ req[w].pc = "poll.delete" /\ outcome = "confirmed" /\ req[w].login = row.login
        /\ row' = [row EXCEPT !.st = "deleted"]
        /\ delivered' = delivered \cup {row.login}
        /\ req' = [req EXCEPT ![w] = Idle]
        /\ UNCHANGED <<expired, logins, scanner, outcome, dropped>>
    BY <1>10 DEF DeleteQRLoginChallenge, Finish, QRRequestOK
  <2>2. row' \in Row /\ row'.st = "deleted" /\ row'.login = row.login /\ row'.user = row.user
    BY <2>1 DEF QRTypeOK, Row, Status
  <2>3. QRTypeOK'
    BY <2>1, <2>2 DEF QRTypeOK, Request, PC, Idle, QRRowOK
  <2>4. QRRequestOK'
    BY <2>1, <2>2 DEF QRRequestOK, Unsettled, Idle
  <2>5. QRRowOK' /\ DeliveredIsConfirmed'
    BY <2>1, <2>2 DEF QRRowOK, DeliveredIsConfirmed
  <2>6. NoStrayLogin'
    BY <2>1, <2>2 DEF NoStrayLogin, Unsettled
  <2>. QED BY <2>3, <2>4, <2>5, <2>6
<1>11. ASSUME NEW w \in Worker, Abort(w)
       PROVE  QRInv'
  <2>1. QRTypeOK'
    BY <1>11 DEF Abort, Finish, Idle, QRTypeOK, Request, PC, QRRequestOK
  <2>2. QRRequestOK'
    BY <1>11 DEF Abort, Finish, Idle, QRRequestOK, Unsettled
  <2>3. QRRowOK'
    BY <1>11 DEF Abort, QRRowOK
  <2>4. DeliveredIsConfirmed'
    BY <1>11 DEF Abort, DeliveredIsConfirmed
  <2>5. NoStrayLogin'
    BY <1>11 DEF Abort, Finish, NoStrayLogin, Unsettled
  <2>. QED BY <2>1, <2>2, <2>3, <2>4, <2>5
<1>12. ASSUME CreateQRLoginChallenge
       PROVE  QRInv'
  <2>1. QRTypeOK'
    BY <1>12 DEF CreateQRLoginChallenge, QRTypeOK, Row, Status
  <2>2. QRRequestOK'
    BY <1>12 DEF CreateQRLoginChallenge, QRRequestOK, Unsettled
  <2>3. QRRowOK'
    BY <1>12 DEF CreateQRLoginChallenge, QRRowOK
  <2>4. DeliveredIsConfirmed'
    BY <1>12 DEF CreateQRLoginChallenge, DeliveredIsConfirmed
  <2>5. NoStrayLogin'
    BY <1>12 DEF CreateQRLoginChallenge, NoStrayLogin, Unsettled
  <2>. QED BY <2>1, <2>2, <2>3, <2>4, <2>5
<1>13. ASSUME Expire
       PROVE  QRInv'
  <2>1. QRTypeOK'
    BY <1>13 DEF Expire, QRTypeOK
  <2>2. QRRequestOK'
    BY <1>13 DEF Expire, QRRequestOK, Unsettled
  <2>3. QRRowOK'
    BY <1>13 DEF Expire, QRRowOK
  <2>4. DeliveredIsConfirmed'
    BY <1>13 DEF Expire, DeliveredIsConfirmed
  <2>5. NoStrayLogin'
    BY <1>13 DEF Expire, NoStrayLogin, Unsettled
  <2>. QED BY <2>1, <2>2, <2>3, <2>4, <2>5
<1>14. ASSUME CleanupRuntimeData
       PROVE  QRInv'
  <2>1. QRTypeOK'
    BY <1>14 DEF CleanupRuntimeData, QRTypeOK, Row, Status
  <2>2. QRRequestOK'
    BY <1>14 DEF CleanupRuntimeData, QRRequestOK, Unsettled
  <2>3. QRRowOK'
    BY <1>14 DEF CleanupRuntimeData, QRRowOK
  <2>4. DeliveredIsConfirmed'
    BY <1>14 DEF CleanupRuntimeData, DeliveredIsConfirmed
  <2>5. NoStrayLogin'
    BY <1>14 DEF CleanupRuntimeData, NoStrayLogin, Unsettled
  <2>. QED BY <2>1, <2>2, <2>3, <2>4, <2>5
<1>15. ASSUME NEW u \in User, InvalidateAuth(u)
       PROVE  QRInv'
  <2>1. QRTypeOK'
    BY <1>15 DEF InvalidateAuth, QRTypeOK, Row, Status, LoginRow
  <2>2. QRRequestOK'
    BY <1>15 DEF InvalidateAuth, QRRequestOK, Unsettled
  <2>3. QRRowOK'
    BY <1>15 DEF InvalidateAuth, QRRowOK
  <2>4. DeliveredIsConfirmed'
    BY <1>15 DEF InvalidateAuth, DeliveredIsConfirmed, QRRowOK
  <2>5. NoStrayLogin'
    BY <1>15 DEF InvalidateAuth, NoStrayLogin, Unsettled
  <2>. QED BY <2>1, <2>2, <2>3, <2>4, <2>5
<1>16. CASE UNCHANGED qrVars
  BY <1>16 DEF qrVars, QRTypeOK, QRRequestOK, QRRowOK, DeliveredIsConfirmed, NoStrayLogin, Unsettled
<1>. QED BY <1>1, <1>2, <1>3, <1>4, <1>5, <1>6, <1>7, <1>8, <1>9, <1>10, <1>11, <1>12, <1>13,
     <1>14, <1>15, <1>16 DEF QRNext, Step, Arrive

-----------------------------------------------------------------------------
\* In every reachable state requests, row and decision agree as QRRequestOK and QRRowOK
\* say, and the two safety properties hold (qr_login.go, ConfirmQRLogin and
\* GetQRLoginStatus).
THEOREM QRLoginInvariant == QRSpec => []QRInv
  BY InitQRInv, NextQRInv, PTL DEF QRSpec

\* Rows, requests and histories keep their types.
THEOREM QRLoginTypeCorrect == QRSpec => []QRTypeOK
  BY QRLoginInvariant, PTL DEF QRInv

\* Polls deliver nothing but the sign-in of the one confirmation the challenge
\* records, however many confirmations, cancellations and polls overlap.
THEOREM OnlyConfirmedDelivered == QRSpec => []DeliveredIsConfirmed
  BY QRLoginInvariant, PTL DEF QRInv

\* A sign-in completed for a confirmation that lost its race is taken back by
\* cleanupQRLoginFlowResult, unless its request stops first.
THEOREM LostConfirmationsCleaned == QRSpec => []NoStrayLogin
  BY QRLoginInvariant, PTL DEF QRInv

\* UpdateQRLoginChallenge asks for a status that no decided row has: the first
\* decision a user is told stays, and with it the sign-in the row carries.
THEOREM DecisionIsFinal == QRSpec => OutcomeIsFinal
<1>. DEFINE Final == outcome # "none" => outcome' = outcome /\ row'.login = row.login
<1>1. QRInv /\ [QRNext]_qrVars => [Final]_qrVars
  <2>. SUFFICES ASSUME QRInv, QRNext, outcome # "none"
                PROVE  outcome' = outcome /\ row'.login = row.login
    OBVIOUS
  <2>1. ~Updatable /\ row.st # "pending"
    BY DEF QRInv, QRTypeOK, QRRowOK, Updatable
  <2>2. row = [st |-> row.st, user |-> row.user, login |-> row.login]
    BY DEF QRInv, QRTypeOK, Row
  <2>. QED BY <2>1, <2>2 DEF QRNext, Step, Arrive, ScanQRLogin, ClaimPendingQRLoginChallenge,
       ConfirmQRLogin, CancelWrite, ContinuePostAuthentication, ConfirmWrite,
       CleanupQRLoginFlowResult, GetQRLoginStatus, PollSession, DeleteQRLoginChallenge, Abort,
       CreateQRLoginChallenge, Expire, CleanupRuntimeData, InvalidateAuth
<1>. QED BY <1>1, QRLoginInvariant, PTL DEF QRSpec, OutcomeIsFinal
=============================================================================
