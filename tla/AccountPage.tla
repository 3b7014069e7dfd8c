----------------------------- MODULE AccountPage -----------------------------
(***************************************************************************)
(* The account page (/me) of one browser tab: the hook                     *)
(* useUserPageController over the caches of userApi.ts, which outlive a    *)
(* visit to the page and belong to one session identity at a time.  The    *)
(* identity (readSessionToken) names a sign-in and only keys the caches:   *)
(* a request is answered for the account of the cookie, which the tabs of  *)
(* a browser share.  An operation that ends the sessions of the account    *)
(* leaves the page by a timer; a load that is answered 401 leaves at once. *)
(*                                                                         *)
(* Contents are sets: the consents, the passkeys, and for the overview the *)
(* edits it holds.                                                         *)
(***************************************************************************)
EXTENDS Integers, Sequences

CONSTANTS
    Account,
    Item,       \* consents and passkeys of an account at the start
    Section,    \* the sections that are visited
    Slot,       \* operations at one time
    None,
    MaxSigns, MaxVisits, MaxOps, MaxTurns, MaxFails   \* bounds

Needs == [profile |-> {}, security |-> {"passkeys"}, bindings |-> {"consents"}]
Lists == UNION {Needs[s] : s \in Section}
Resource == {"overview"} \cup Lists

ASSUME SectionAssumption == Section \subseteq DOMAIN Needs /\ Section # {}
ASSUME NoneAssumption == None \notin Account \cup Nat
ASSUME AccountAssumption == Account # {}
ASSUME ItemAssumption == Item \cap Nat = {}   \* operations number the entries they add
ASSUME BoundsAssumption == MaxSigns \in Nat \ {0} /\ {MaxVisits, MaxOps, MaxTurns, MaxFails} \subseteq Nat

VARIABLES
    srv,       \* server: contents of every account
    cookie,    \* account of the session cookie, or None
    owner,     \* account of every identity so far
    token,     \* the identity of the tab, 0 for none
    browser,   \* the identity the browser signed in last, 0 for none
    visit,     \* visits to the page so far; the last one may be on
    up,        \* the page is mounted
    section,
    shown,     \* contents on the page
    cache,     \* the caches of userApi.ts
    load,      \* the loads of every visit
    act,       \* the operations
    timers,    \* redirects to the login page that wait for their 800 ms
    ops, turns, fails,
    ended,     \* history: the identities whose sessions their own page has ended
    left,      \* history: the page was left with an operation under way, or one failed
    crossed,   \* history: a change of the overview was sent with another request for it under way,
               \* or a load of a resource with another load of it and of the same identity
    foreign    \* history: another account signed in while the tab was signed in

sessionVars == <<cookie, owner, token, browser>>
pageVars == <<visit, up, section, shown>>
counters == <<ops, turns, fails>>
history == <<ended, left, crossed, foreign>>
vars == <<srv, sessionVars, pageVars, cache, load, act, timers, counters, history>>

Identity == 1..MaxSigns
Visit == 1..MaxVisits
Entry == Item \cup 1..MaxOps
\* What an answer holds: the account, the entries, and the identity that asked.
Content == [of : Account, has : SUBSET Entry, asked : Identity]
Nothing == [of |-> None]
Shown == Content \cup {Nothing}
\* A load waits for the request of the visit by.
NoLoad == [st |-> "no", token |-> 0, by |-> 0, got |-> Nothing]
Load == [st : {"no", "sent", "handled", "refused"}, token : 0..MaxSigns, by : 0..MaxVisits, got : Shown]
NoOp == [pc |-> "idle"]
EmptyCache == [value |-> Nothing, inflight |-> 0, token |-> 0]
Cache == [value : Shown, inflight : 0..MaxVisits, token : 0..MaxSigns]

TypeOK ==
    /\ srv \in [Account -> [Resource -> SUBSET Entry]]
    /\ cookie \in Account \cup {None} /\ owner \in Seq(Account) /\ Len(owner) \in Identity
    /\ {token, browser} \subseteq 0..Len(owner)
    /\ visit \in 0..MaxVisits /\ up \in BOOLEAN /\ section \in Section
    /\ shown \in [Resource -> Shown]
    /\ cache \in [Resource -> Cache]
    /\ load \in [Visit -> [Resource -> Load]]
    /\ \A s \in Slot : act[s].pc # "idle" => act[s].visit \in 1..visit /\ act[s].token \in 1..Len(owner)
    /\ timers \in 0..ops /\ ops \in 0..MaxOps /\ turns \in 0..MaxTurns /\ fails \in 0..MaxFails
    /\ ended \subseteq 1..Len(owner) /\ {left, crossed, foreign} \subseteq BOOLEAN

Init ==
    /\ srv = [a \in Account |-> [r \in Resource |-> IF r = "overview" THEN {} ELSE Item]]
    /\ cookie = (CHOOSE a \in Account : TRUE) /\ owner = <<cookie>>
    /\ token = 1 /\ browser = 1
    /\ visit = 0 /\ up = FALSE /\ section = CHOOSE sec \in Section : TRUE
    /\ shown = [r \in Resource |-> Nothing]
    /\ cache = [r \in Resource |-> EmptyCache]
    /\ load = [v \in Visit |-> [r \in Resource |-> NoLoad]]
    /\ act = [s \in Slot |-> NoOp]
    /\ timers = 0
    /\ ops = 0 /\ turns = 0 /\ fails = 0
    /\ ended = {} /\ left = FALSE /\ crossed = FALSE /\ foreign = FALSE

MayFail == fails < MaxFails /\ fails' = fails + 1
Turn == turns < MaxTurns /\ turns' = turns + 1

-----------------------------------------------------------------------------
(* userApi.ts *)

\* Mutant: identities are not told apart.
AnyCache(c, t) == [c EXCEPT !.token = t]

\* readSessionScopedCache: the cache of another identity is emptied.
Scoped(c, t) == IF c.token = t THEN c ELSE [EmptyCache EXCEPT !.token = t]

\* updateUserOverviewCache, updateUserConsentsCache, updateUserPasskeysCache
UpdateCache(c, t, value) == [Scoped(c, t) EXCEPT !.value = value]

\* fetchUserAccountOverview, fetchUserConsents, fetchUserPasskeys, of visit v: the
\* value at once (then the load is over), the request in flight, or a new one.
FetchLoad(c, v, t) ==
    CASE c.value # Nothing -> NoLoad
      [] c.value = Nothing /\ c.inflight # 0 -> [NoLoad EXCEPT !.st = "sent", !.token = t, !.by = c.inflight]
      [] OTHER -> [NoLoad EXCEPT !.st = "sent", !.token = t, !.by = v]

FetchCache(c, v) == IF c.value = Nothing /\ c.inflight = 0 THEN [c EXCEPT !.inflight = v] ELSE c

\* The loads of rs start in visit v of identity t, unless they are under way.  An answer
\* of another identity may have emptied the cache, so that a request of this one is not seen.
StartLoads(v, t, rs) ==
    LET scoped == [r \in Resource |-> Scoped(cache[r], t)]
        new == {r \in rs : load[v][r].st = "no"}
    IN  /\ load' = [load EXCEPT ![v] = [r \in Resource |-> IF r \in new THEN FetchLoad(scoped[r], v, t)
                                                                        ELSE load[v][r]]]
        /\ cache' = [r \in Resource |-> IF r \in new THEN FetchCache(scoped[r], v) ELSE cache[r]]
        /\ crossed' = (crossed \/ \E r \in new, w \in Visit :
                          /\ FetchLoad(scoped[r], v, t).by = v
                          /\ load[w][r].st # "no" /\ load[w][r].token = t)

\* What is cached is displayed at once.
FromCache(r, t) == Scoped(cache[r], t).value

-----------------------------------------------------------------------------
(* The page *)

OperationUnderWay == \E s \in Slot : act[s].pc # "idle"
Unmount == up' = FALSE /\ shown' = [r \in Resource |-> Nothing]
Leave == Unmount /\ left' = (left \/ (up /\ OperationUnderWay)) /\ UNCHANGED <<visit, section>>

\* RequireAuth, RequireSingleBrowserAccount
Admitted == token # 0 /\ (browser = 0 \/ owner[browser] = owner[token])

\* loadUser, and what the section needs.
OpenPage(sec) ==
    LET rs == {"overview"} \cup Needs[sec] IN
    /\ ~up /\ Admitted
    /\ visit < MaxVisits
    /\ up' = TRUE /\ visit' = visit + 1 /\ section' = sec
    /\ StartLoads(visit', token, rs)
    /\ shown' = [r \in Resource |-> IF r \in rs THEN FromCache(r, token) ELSE Nothing]
    /\ UNCHANGED <<srv, sessionVars, act, timers, counters, ended, left, foreign>>

OpenSection(sec) ==
    /\ up /\ sec # section
    /\ Turn
    /\ IF Admitted
       THEN LET rs == {r \in Needs[sec] : shown[r] = Nothing} IN
            /\ section' = sec
            /\ StartLoads(visit, token, rs)
            /\ shown' = [r \in Resource |-> IF r \in rs /\ load[visit][r].st = "no" THEN FromCache(r, token)
                                            ELSE shown[r]]
            /\ UNCHANGED <<visit, up, left>>
       ELSE Leave /\ UNCHANGED <<cache, load, crossed>>
    /\ UNCHANGED <<srv, sessionVars, act, timers, ops, fails, ended, foreign>>

LeavePage ==
    /\ up
    /\ Turn
    /\ Leave
    /\ UNCHANGED <<srv, sessionVars, cache, load, act, timers, ops, fails, ended, crossed, foreign>>

\* redirectToLogin, whoever called it and whatever is mounted by then.
RedirectToLogin ==
    /\ token' = 0 /\ browser' = 0
    /\ Leave
    /\ UNCHANGED <<cookie, owner>>

-----------------------------------------------------------------------------
(* Requests of the loads *)

\* The server answers for the account of the cookie.
HandleLoad(v, r) ==
    LET l == load[v][r] IN
    /\ l.st = "sent" /\ l.by = v
    /\ load' = [load EXCEPT ![v][r] =
                   IF cookie = None THEN [l EXCEPT !.st = "refused"]
                   ELSE [l EXCEPT !.st = "handled",
                                  !.got = [of |-> cookie, has |-> srv[cookie][r], asked |-> l.token]]]
    /\ UNCHANGED <<srv, sessionVars, pageVars, cache, act, timers, counters, history>>

Waiting(v, r) == {w \in Visit : load[w][r].st # "no" /\ load[w][r].by = v}
Ended(v, r) == [w \in Visit |-> IF w \in Waiting(v, r) THEN [load[w] EXCEPT ![r] = NoLoad] ELSE load[w]]

\* Mutant: the load does not store the answer in the caches of its own identity.
StoreInPlace(c, t, value) == [c EXCEPT !.value = value, !.inflight = 0]

\* The request stores its answer in the cache as it is by now; then every load
\* that waited for it stores it under the identity it was started with.
StoreAnswer(c, t, value) == UpdateCache([c EXCEPT !.value = value, !.inflight = 0], t, value)

\* loadUser, loadConsents, loadPasskeys have their answer.
LoadAnswered(v, r) ==
    LET l == load[v][r] IN
    /\ l.st = "handled"
    /\ load' = Ended(v, r)
    /\ cache' = [cache EXCEPT ![r] = StoreAnswer(@, l.token, l.got)]
    /\ shown' = IF up /\ visit \in Waiting(v, r) THEN [shown EXCEPT ![r] = l.got] ELSE shown
    /\ UNCHANGED <<srv, sessionVars, visit, up, section, act, timers, counters, history>>

\* 401
LoadRefused(v, r) ==
    /\ load[v][r].st = "refused"
    /\ load' = Ended(v, r)
    /\ cache' = [cache EXCEPT ![r].inflight = 0]
    /\ RedirectToLogin
    /\ UNCHANGED <<srv, act, timers, counters, ended, crossed, foreign>>

LoadFails(v, r) ==
    /\ load[v][r].st \in {"sent", "handled"} /\ load[v][r].by = v
    /\ MayFail
    /\ load' = Ended(v, r)
    /\ cache' = [cache EXCEPT ![r].inflight = 0]
    /\ UNCHANGED <<srv, sessionVars, pageVars, act, timers, ops, turns, history>>

-----------------------------------------------------------------------------
(* The operations: what they change, whether they are answered with the whole *)
(* user, and whether they end the sessions of the account. *)

Overview(op) == op.on = "overview"
SaveDisplayName == [on |-> "overview", does |-> "edit", whole |-> TRUE, ends |-> FALSE]
SaveGender == [on |-> "overview", does |-> "edit", whole |-> TRUE, ends |-> FALSE]
SavePreferredLocale == [on |-> "overview", does |-> "edit", whole |-> TRUE, ends |-> FALSE]
SaveEmail == [on |-> "overview", does |-> "edit", whole |-> TRUE, ends |-> FALSE]
SavePhone == [on |-> "overview", does |-> "edit", whole |-> TRUE, ends |-> FALSE]
UploadUserAvatar == [on |-> "overview", does |-> "edit", whole |-> FALSE, ends |-> FALSE]
SaveMFA == [on |-> "overview", does |-> "edit", whole |-> TRUE, ends |-> TRUE]
SavePassword == [on |-> "overview", does |-> "none", whole |-> FALSE, ends |-> TRUE]
RequestAccountDeletion == [on |-> "overview", does |-> "none", whole |-> FALSE, ends |-> TRUE]
RevokeConsent == [on |-> "consents", does |-> "remove", whole |-> FALSE, ends |-> FALSE]
RevokeSelectedConsents == [on |-> "consents", does |-> "remove", whole |-> FALSE, ends |-> FALSE]
AddPasskey == [on |-> "passkeys", does |-> "edit", whole |-> FALSE, ends |-> FALSE]
RemovePasskey == [on |-> "passkeys", does |-> "remove", whole |-> FALSE, ends |-> FALSE]

Operation == {op \in {SaveDisplayName, SaveGender, SavePreferredLocale, SaveEmail, SavePhone,
                      UploadUserAvatar, SaveMFA, SavePassword, RequestAccountDeletion, RevokeConsent,
                      RevokeSelectedConsents, AddPasskey, RemovePasskey} : op.on \in Resource}

Offered(op) == up /\ shown[op.on] # Nothing /\ (op.on \in Lists => op.on \in Needs[section])

\* The entries an operation is about: the ones it removes, or a new one.
Operands(op) == IF op.does = "remove" THEN {{i} : i \in shown[op.on].has} ELSE {{ops'}}

Operate(s, op) ==
    /\ Offered(op)
    /\ act[s].pc = "idle"
    /\ ops < MaxOps /\ ops' = ops + 1
    /\ \E xs \in Operands(op) :
          act' = [act EXCEPT ![s] = [pc |-> "sent", op |-> op, xs |-> xs, of |-> shown[op.on].of,
                                    token |-> token, visit |-> visit, got |-> Nothing]]
    /\ crossed' = (crossed \/ (Overview(op) /\ op.does = "edit" /\
                                 (\/ \E t \in Slot : act[t].pc # "idle" /\ Overview(act[t].op)
                                  \/ \E v \in Visit : load[v]["overview"].st # "no")))
    /\ UNCHANGED <<srv, sessionVars, pageVars, cache, load, timers, turns, fails, ended, left, foreign>>

Change(S, a) == IF a.op.does = "edit" THEN S \cup a.xs ELSE IF a.op.does = "remove" THEN S \ a.xs ELSE S

\* The server: on the account of the cookie; nobody removes what another has.
Accepted(a) == cookie # None /\ (a.op.does = "remove" => a.of = cookie)

Handle(s) ==
    LET a == act[s] IN
    /\ a.pc = "sent"
    /\ Accepted(a)
    /\ srv' = [srv EXCEPT ![cookie][a.op.on] = Change(@, a)]
    /\ act' = [act EXCEPT ![s].pc = "handled",
                          ![s].got = [of |-> cookie, has |-> srv'[cookie][a.op.on], asked |-> a.token]]
    /\ cookie' = IF a.op.ends THEN None ELSE cookie
    /\ ended' = IF a.op.ends THEN ended \cup {a.token} ELSE ended
    /\ UNCHANGED <<owner, token, browser, pageVars, cache, load, timers, counters, left, crossed, foreign>>

Mounted(a) == up /\ visit = a.visit

\* Mutant: setConsents and setPasskeys, and no update of the caches.
AfterChangePageOnly(a) == [page |-> [shown[a.op.on] EXCEPT !.has = Change(@, a)], cache |-> cache[a.op.on]]

\* The updater of setConsents, setPasskeys and setUser changes the page and the cache.
AfterChange(a) ==
    LET next == [shown[a.op.on] EXCEPT !.has = Change(@, a)]
    IN  [page |-> next, cache |-> UpdateCache(cache[a.op.on], a.token, next)]

\* Mutant: the redirect is left out.
NoTimer(a) == timers

\* Mutant: the redirect is scheduled in the finally block too.
TwoTimers(a) == IF a.op.ends THEN timers + 2 ELSE timers

Timer(a) == IF a.op.ends THEN timers + 1 ELSE timers

\* The answer.  The updaters do not run when the page is gone.
Answered(s) ==
    LET a == act[s] IN
    /\ a.pc = "handled"
    /\ act' = [act EXCEPT ![s] = NoOp]
    /\ timers' = Timer(a)
    /\ CASE a.op.whole ->
              /\ cache' = [cache EXCEPT !["overview"] = UpdateCache(@, a.token, a.got)]
              /\ shown' = IF Mounted(a) THEN [shown EXCEPT !["overview"] = a.got] ELSE shown
         [] ~a.op.whole /\ a.op.does # "none" /\ Mounted(a) ->
              /\ cache' = [cache EXCEPT ![a.op.on] = AfterChange(a).cache]
              /\ shown' = [shown EXCEPT ![a.op.on] = AfterChange(a).page]
         [] OTHER -> UNCHANGED <<cache, shown>>
    /\ UNCHANGED <<srv, sessionVars, visit, up, section, load, counters, history>>

\* An error is displayed; also when there is no session any more.
Refused(s) ==
    /\ act[s].pc = "sent" /\ ~Accepted(act[s])
    /\ act' = [act EXCEPT ![s] = NoOp]
    /\ UNCHANGED <<srv, sessionVars, pageVars, cache, load, timers, counters, history>>

\* No answer, whether it was handled or not.
OperationFails(s) ==
    /\ act[s].pc \in {"sent", "handled"}
    /\ MayFail
    /\ act' = [act EXCEPT ![s] = NoOp]
    /\ left' = TRUE
    /\ UNCHANGED <<srv, sessionVars, pageVars, cache, load, timers, ops, turns, ended, crossed, foreign>>

\* window.setTimeout(redirectToLogin, 800)
TimerFires ==
    /\ timers > 0 /\ timers' = timers - 1
    /\ RedirectToLogin
    /\ UNCHANGED <<srv, cache, load, act, counters, ended, crossed, foreign>>

-----------------------------------------------------------------------------
(* Sessions *)

SignIn(a) ==
    /\ Len(owner) < MaxSigns
    /\ owner' = Append(owner, a)
    /\ cookie' = a
    /\ browser' = Len(owner')

SignInHere(a) ==
    /\ token = 0
    /\ SignIn(a)
    /\ token' = browser'
    /\ UNCHANGED <<srv, pageVars, cache, load, act, timers, counters, history>>

SignInInAnotherTab(a) ==
    /\ SignIn(a)
    /\ foreign' = (foreign \/ (token # 0 /\ owner[token] # a))
    /\ UNCHANGED <<srv, token, pageVars, cache, load, act, timers, counters, ended, left, crossed>>

\* useBrowserAccount of the conflict page
UseBrowserAccount ==
    /\ ~up /\ token # 0 /\ ~Admitted
    /\ token' = browser
    /\ UNCHANGED <<srv, cookie, owner, browser, pageVars, cache, load, act, timers, counters, history>>

\* The session expires, or is ended on another device.
SessionEnds ==
    /\ cookie # None
    /\ Turn
    /\ cookie' = None
    /\ UNCHANGED <<srv, owner, token, browser, pageVars, cache, load, act, timers, ops, fails, history>>

-----------------------------------------------------------------------------
Receive(s) == Answered(s) \/ Refused(s) \/ OperationFails(s)

Next ==
    \/ \E sec \in Section : OpenPage(sec) \/ OpenSection(sec)
    \/ LeavePage
    \/ \E v \in Visit, r \in Resource : HandleLoad(v, r) \/ LoadAnswered(v, r) \/ LoadRefused(v, r) \/ LoadFails(v, r)
    \/ \E s \in Slot, op \in Operation : Operate(s, op)
    \/ \E s \in Slot : Handle(s) \/ Receive(s)
    \/ TimerFires
    \/ \E a \in Account : SignInHere(a) \/ SignInInAnotherTab(a)
    \/ UseBrowserAccount
    \/ SessionEnds

Spec == Init /\ [][Next]_vars

-----------------------------------------------------------------------------
(* Properties *)

\* Neither a cache nor the page holds what another identity asked for, although an answer
\* that comes late is put into whatever the cache is by then; and unless another account
\* signed in at some other tab meanwhile, the page shows the data of its own account.
OwnContent ==
    /\ \A r \in Resource : cache[r].value # Nothing => cache[r].value.asked = cache[r].token
    /\ up => \A r \in Resource : shown[r] # Nothing =>
                 shown[r].asked = token /\ (shown[r].of = owner[token] \/ foreign)

Quiet == ~OperationUnderWay /\ \A v \in Visit, r \in Resource : load[v][r].st = "no"

\* At rest the page shows what the server holds: what was revoked, removed or
\* changed does not come back from a cache, over visits and sign-ins, unless the
\* page was left with an operation under way, two requests for one resource
\* crossed, or another account signed in.
UpToDate ==
    Quiet /\ up /\ ~left /\ ~crossed /\ ~foreign =>
        \A r \in Resource : shown[r] # Nothing => shown[r].has = srv[owner[token]][r]

\* A tab that has ended the sessions of its account does not stay on its page:
\* with nothing under way and no timer running, it has left that identity,
\* unless the answer was lost.
EndedIsLeft == Quiet /\ timers = 0 /\ up /\ fails = 0 => token \notin ended
=============================================================================
