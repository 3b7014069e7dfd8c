---------------------------- MODULE AdminConsole ----------------------------
(***************************************************************************)
(* The administrator's pages: lists that are read page by page and         *)
(* corrected when an operation empties a page (useAdminData, index.tsx),   *)
(* the drawer with the security policy of a user (useBatchUserActions),    *)
(* and the system settings, which every one of their tabs saves as a whole *)
(* (useSystemSettings over UpdateSystemSettings).  A behaviour is one      *)
(* visit to one page: pageType is chosen at the start.  On the settings    *)
(* two administrators work at one time.                                    *)
(***************************************************************************)
EXTENDS Integers, Sequences

CONSTANTS
    PageType,   \* the pages that are visited
    Admin,      \* administrators with the settings open
    User,       \* users whose policy is edited
    SettingsTab,\* the tabs of the settings; "email" holds a secret
    Slot,       \* operations and loads of a list at one time
    None,       \* nothing displayed
    MaxRows, MaxOps, MaxTurns, MaxFails   \* bounds: rows of a list, operations, turns, failures

ASSUME TabAssumption == "email" \in SettingsTab /\ "secret" \notin SettingsTab
ASSUME NoneAssumption == None \notin User \cup Nat
ASSUME SlotAssumption == Slot # {} /\ Slot \cap {"closed", "ready", "saving", "saved"} = {}
ASSUME BoundsAssumption == MaxRows \in Nat \ {0} /\ {MaxOps, MaxTurns, MaxFails} \subseteq Nat

VARIABLES
    pageType,  \* the page that is open
    rows,      \* server: rows of the list (a page holds one)
    page,      \* the selected page
    shown,     \* what the last answer held: its page, the total, whether there were rows
    act,       \* the operations and loads of the list, with the variables of their closures
    order,     \* the loads in flight, the one started first in front
    drawer,    \* the policy drawer
    asked,     \* the requests for a policy in flight
    policies,  \* server: version of each user's policy
    saved,     \* history: policies sent to be saved
    db,        \* server: the settings
    site,      \* the settings page of each administrator
    late,      \* server: the saves a page has given up, which the server goes on with
    accepted,  \* history: what was saved last on each tab, and the secret entered last
    overlap,   \* history: a save was sent while the server was at another one
    blind,     \* history: a save was clicked on a page that was not up to date
    ops, turns, fails,           \* bounded counters
    failed, hurried, disorder    \* history: see DeveloperConsole

listVars == <<rows, page, shown, act, order, failed, hurried, disorder>>
drawerVars == <<drawer, asked, policies, saved>>
siteVars == <<db, site, late, accepted, overlap, blind>>
vars == <<pageType, listVars, drawerVars, siteVars, ops, turns, fails>>

PageOf == 1..MaxRows
Max2(a, b) == IF a > b THEN a ELSE b
Min2(a, b) == IF a < b THEN a ELSE b

Idle == [pc |-> "idle", page |-> 1, delta |-> 0, reset |-> FALSE, low |-> 0, high |-> 0]
NoDrawer == [user |-> None, of |-> None, base |-> 0, opened |-> 0, st |-> "closed", missed |-> FALSE]
Blank == 0
Row == SettingsTab \cup {"secret"}
Defaults == [r \in Row |-> 0]      \* defaultSettings of constants.ts
NoSave == [pc |-> "idle", tab |-> "email", body |-> Defaults, entered |-> FALSE, left |-> {}]
\* A load: the state it answers with (Defaults until it has been handled), and
\* whether a save waits for it.
NewLoad(ofSave) == [of |-> Defaults, ofSave |-> ofSave]
FirstSite == [copy |-> Defaults, cached |-> FALSE, stale |-> TRUE, loads |-> {NewLoad(FALSE)},
              save |-> NoSave]
Number == 0..MaxOps + 1

Shown == [page : PageOf, total : 0..MaxRows, any : BOOLEAN]
Act == [pc : {"idle", "write", "written", "load"}, page : PageOf, delta : {-1, 0, 1},
        reset : BOOLEAN, low : 0..MaxRows, high : 0..MaxRows]
Drawer == [user : User \cup {None}, of : User \cup {None}, base : Number, opened : Number,
           st : {"closed", "ready", "saving", "saved"} \cup Slot, missed : BOOLEAN]
Values == [Row -> Number]
Save == [pc : {"idle", "sent", "write", "written", "reload"}, tab : SettingsTab, body : Values,
         entered : BOOLEAN, left : SUBSET SettingsTab]
Site == [copy : Values, cached : BOOLEAN, stale : BOOLEAN,
         loads : SUBSET [of : Values, ofSave : BOOLEAN], save : Save]

TypeOK ==
    /\ pageType \in PageType
    /\ rows \in 0..MaxRows /\ page \in PageOf
    /\ shown \in Shown \cup {None}
    /\ act \in [Slot -> Act]
    /\ order \in Seq(Slot)
    /\ drawer \in Drawer
    /\ asked \subseteq [user : User, low : Number]
    /\ policies \in [User -> Number]
    /\ saved \subseteq Drawer
    /\ db \in Values /\ accepted \in Values
    /\ site \in [Admin -> Site] /\ late \subseteq Save
    /\ ops \in 0..MaxOps /\ turns \in 0..MaxTurns /\ fails \in 0..MaxFails
    /\ {overlap, blind, failed, hurried, disorder} \subseteq BOOLEAN

Init ==
    /\ pageType \in PageType
    /\ rows = MaxRows
    /\ page = 1
    /\ shown = None
    /\ act = [s \in Slot |-> IF s = CHOOSE t \in Slot : TRUE
                             THEN [Idle EXCEPT !.pc = "load", !.low = rows, !.high = rows] ELSE Idle]
    /\ order = <<CHOOSE s \in Slot : TRUE>>
    /\ drawer = NoDrawer /\ asked = {}
    /\ policies = [u \in User |-> 0]
    /\ saved = {}
    /\ db = [r \in Row |-> 1]
    /\ site = [a \in Admin |-> FirstSite] /\ late = {}
    /\ accepted = db
    /\ overlap = FALSE /\ blind = FALSE
    /\ ops = 0 /\ turns = 0 /\ fails = 0
    /\ failed = FALSE /\ hurried = FALSE /\ disorder = FALSE

MayOperate == ops < MaxOps /\ ops' = ops + 1
MayFail == fails < MaxFails /\ fails' = fails + 1

-----------------------------------------------------------------------------
(* The lists *)

Lists == {"users", "apps", "auditLogs", "developerAccessLogs", "riskLogs"}
\* The pages with an effect that leaves a page that has become empty.
Corrected == {"apps", "auditLogs", "developerAccessLogs"}

Quiet == \A s \in Slot : act[s].pc = "idle"

\* load() with the query of its closure
Load(a, s, p) == [a EXCEPT ![s] = [Idle EXCEPT !.pc = "load", !.page = p, !.low = rows, !.high = rows]]

\* Mutant: the page is missing among the dependencies of load.
ShowStale(s, p) ==
    /\ page' = p
    /\ act' = Load(act, s, page)
    /\ order' = Append(order, s)

\* A change of the query changes load, and the effect runs it.
Show(s, p) ==
    /\ page' = p
    /\ act' = Load(act, s, p)
    /\ order' = Append(order, s)

ChangePage(s, p) ==
    /\ pageType \in Lists
    /\ act[s].pc = "idle" /\ p # page
    /\ turns < MaxTurns /\ turns' = turns + 1
    /\ Show(s, p)
    /\ hurried' = (hurried \/ ~Quiet)
    /\ UNCHANGED <<pageType, rows, shown, failed, disorder, drawerVars, siteVars, ops, fails>>

\* Operations: where they are offered and what they do to the number of rows.
CreateApp == [on |-> {"apps"}, delta |-> 1, reset |-> FALSE]
ReviewApp == [on |-> {"apps"}, delta |-> 0, reset |-> FALSE]
DeleteApp == [on |-> {"apps"}, delta |-> -1, reset |-> FALSE]
UpdateApp == [on |-> {"apps"}, delta |-> 0, reset |-> FALSE]
ResetSecret == [on |-> {"apps"}, delta |-> 0, reset |-> FALSE]
SetDisabled == [on |-> {"apps"}, delta |-> 0, reset |-> FALSE]
BatchDeleteApps == [on |-> {"apps"}, delta |-> -1, reset |-> FALSE]
CreateUser == [on |-> {"users"}, delta |-> 1, reset |-> FALSE]
FreezeUser == [on |-> {"users"}, delta |-> 0, reset |-> FALSE]
BatchFreezeUsers == [on |-> {"users"}, delta |-> 0, reset |-> FALSE]
BatchDeleteUsers == [on |-> {"users"}, delta |-> -1, reset |-> FALSE]
UpdateUser == [on |-> {"users"}, delta |-> 0, reset |-> FALSE]
UpdateUserAnnouncement == [on |-> {"users"}, delta |-> 0, reset |-> FALSE]
BatchDeleteAuditLogs == [on |-> {"auditLogs"}, delta |-> -1, reset |-> FALSE]
BatchDeleteDeveloperAccessLogs == [on |-> {"developerAccessLogs"}, delta |-> -1, reset |-> FALSE]
ClearRiskProfile == [on |-> {"riskLogs"}, delta |-> 0, reset |-> FALSE]
MarkRiskFalsePositive == [on |-> {"riskLogs"}, delta |-> 0, reset |-> FALSE]
DeleteRiskEvents == [on |-> {"riskLogs"}, delta |-> -1, reset |-> TRUE]

Operation == {CreateApp, ReviewApp, DeleteApp, UpdateApp, ResetSecret, SetDisabled, BatchDeleteApps,
              CreateUser, FreezeUser, BatchFreezeUsers, BatchDeleteUsers, UpdateUser,
              UpdateUserAnnouncement, BatchDeleteAuditLogs, BatchDeleteDeveloperAccessLogs,
              ClearRiskProfile, MarkRiskFalsePositive, DeleteRiskEvents}

Operate(s, op) ==
    /\ pageType \in op.on
    /\ act[s].pc = "idle"
    /\ op.delta = -1 => shown # None /\ shown.any
    /\ MayOperate
    /\ act' = [act EXCEPT ![s] = [Idle EXCEPT !.pc = "write", !.page = page, !.delta = op.delta,
                                             !.reset = op.reset]]
    /\ hurried' = (hurried \/ ~Quiet)
    /\ UNCHANGED <<pageType, rows, page, shown, order, failed, disorder, drawerVars, siteVars,
                   turns, fails>>

Changed(delta) == Min2(MaxRows, Max2(0, rows + delta))

\* There are n rows now: a load under way may count them and read them before or after.
Widened(n) ==
    [s \in Slot |-> IF act[s].pc = "load" THEN [act[s] EXCEPT !.low = Min2(@, n), !.high = Max2(@, n)]
                    ELSE act[s]]

Handle(s) ==
    LET n == Changed(act[s].delta) IN
    /\ act[s].pc = "write"
    /\ rows' = n
    /\ act' = [Widened(n) EXCEPT ![s].pc = "written"]
    /\ UNCHANGED <<pageType, page, shown, order, failed, hurried, disorder, drawerVars, siteVars,
                   ops, turns, fails>>

\* The answer: reload() of the render of the click.  deleteRiskEvents first
\* selects page 1, and the effect loads that page in slot t.
Reload(s, t) ==
    LET a == Load(act, s, act[s].page) IN
    /\ act[s].pc = "written"
    /\ IF act[s].reset /\ page # 1
       THEN /\ s # t /\ act[t].pc = "idle"
            /\ page' = 1
            /\ act' = Load(a, t, 1)
            /\ order' = Append(Append(order, s), t)
       ELSE act' = a /\ order' = Append(order, s) /\ UNCHANGED page
    /\ UNCHANGED <<pageType, rows, shown, failed, hurried, disorder, drawerVars, siteVars, ops, turns,
                   fails>>

\* An operation of another administrator, or one that this page has given up
\* (after 5 seconds without an answer) and that the server handles all the same.
HandleElsewhere(delta) ==
    LET n == Changed(delta) IN
    /\ pageType \in Lists
    /\ MayOperate
    /\ rows' = n
    /\ act' = Widened(n)
    /\ UNCHANGED <<pageType, page, shown, order, failed, hurried, disorder, drawerVars, siteVars,
                   turns, fails>>

OperationFails(s) ==
    /\ act[s].pc \in {"write", "written"}
    /\ MayFail
    /\ act' = [act EXCEPT ![s] = Idle]
    /\ UNCHANGED <<pageType, rows, page, shown, order, failed, hurried, disorder, drawerVars, siteVars,
                   ops, turns>>

\* closeSecurityPolicy, after the reload that follows the save of a policy
CloseAfter(s) ==
    /\ drawer' = IF drawer.st = s THEN NoDrawer ELSE drawer
    /\ UNCHANGED <<asked, policies, saved>>

\* Mutant: pages counted from 0.
LastPageFromZero(total) == total - 1

LastPage(total) == Max2(1, total)

\* Mutant: the list has no such effect (as the list of users has none).
NoCorrection(p, v) == p

\* The effects on an empty page, which run when a load has ended.
CorrectPage(p, v) ==
    IF pageType \in Corrected /\ p > 1 /\ ~v.any /\ p > LastPage(v.total) THEN LastPage(v.total) ELSE p

\* The loads in flight, without that of s.
Position(s) == CHOOSE i \in 1..Len(order) : order[i] = s
Without(s) == [i \in 1..Len(order) - 1 |-> order[IF i < Position(s) THEN i ELSE i + 1]]

\* load() has its answer, with a total and rows of moments since it was sent.
Loaded(s, total, n) ==
    LET v == [page |-> act[s].page, total |-> total, any |-> act[s].page <= n]
    IN  /\ act[s].pc = "load"
        /\ shown' = v
        /\ failed' = FALSE
        /\ disorder' = (disorder \/ Head(order) # s)
        /\ page' = CorrectPage(page, v)
        /\ IF page' # page THEN act' = Load(act, s, page') /\ order' = Append(Without(s), s)
           ELSE act' = [act EXCEPT ![s] = Idle] /\ order' = Without(s)
        /\ CloseAfter(s)
        /\ UNCHANGED <<pageType, rows, hurried, siteVars, ops, turns, fails>>

LoadFails(s) ==
    /\ act[s].pc = "load"
    /\ MayFail
    /\ act' = [act EXCEPT ![s] = Idle]
    /\ order' = Without(s)
    /\ failed' = TRUE
    /\ disorder' = (disorder \/ Head(order) # s)
    /\ CloseAfter(s)
    /\ UNCHANGED <<pageType, rows, page, shown, hurried, siteVars, ops, turns>>

-----------------------------------------------------------------------------
(* The drawer with the security policy of a user *)

\* The rows may be older than the policy (shown was fetched before).
OpenSecurityPolicy(u) ==
    /\ pageType = "users" /\ shown # None /\ shown.any
    /\ drawer.st = "closed"
    /\ turns < MaxTurns /\ turns' = turns + 1
    /\ drawer' = [NoDrawer EXCEPT !.user = u, !.of = u, !.opened = policies[u], !.st = "ready"]
    /\ asked' = asked \cup {[user |-> u, low |-> policies[u]]}
    /\ UNCHANGED <<pageType, listVars, policies, saved, siteVars, ops, fails>>

\* setSecurityPolicy(result), whoever the drawer shows
PolicyLoaded(q, v) ==
    /\ asked' = asked \ {q}
    /\ drawer' = IF drawer.st = "closed" THEN drawer
                 ELSE [drawer EXCEPT !.of = q.user, !.base = v, !.missed = FALSE]
    /\ UNCHANGED <<pageType, listVars, policies, saved, siteVars, ops, turns, fails>>

\* The policy of the row stays.
PolicyFails(q) ==
    /\ MayFail
    /\ asked' = asked \ {q}
    /\ drawer' = [drawer EXCEPT !.missed = TRUE]
    /\ UNCHANGED <<pageType, listVars, policies, saved, siteVars, ops, turns>>

\* Mutant: the drawer may be closed at any time.
AlwaysClosable(d) == d.st # "closed"

\* handleClose returns while the policy is loading or being saved.
Closable(d) == d.st = "ready" /\ asked = {}

CloseSecurityPolicy ==
    /\ Closable(drawer)
    /\ drawer' = NoDrawer
    /\ UNCHANGED <<pageType, listVars, asked, policies, saved, siteVars, ops, turns, fails>>

UpdateUserSecurityPolicy ==
    /\ drawer.st = "ready" /\ asked = {}
    /\ MayOperate
    /\ drawer' = [drawer EXCEPT !.st = "saving"]
    /\ saved' = saved \cup {drawer}
    /\ UNCHANGED <<pageType, listVars, asked, policies, siteVars, turns, fails>>

HandlePolicy ==
    /\ drawer.st = "saving"
    /\ policies' = [policies EXCEPT ![drawer.user] = @ + 1]
    /\ drawer' = [drawer EXCEPT !.st = "saved"]
    /\ UNCHANGED <<pageType, listVars, asked, saved, siteVars, ops, turns, fails>>

\* The answer: the list is loaded again in slot s, then the drawer closes.
PolicySaved(s) ==
    /\ drawer.st = "saved"
    /\ act[s].pc = "idle"
    /\ drawer' = [drawer EXCEPT !.st = s]
    /\ act' = Load(act, s, page)
    /\ order' = Append(order, s)
    /\ UNCHANGED <<pageType, rows, page, shown, failed, hurried, disorder, asked, policies, saved,
                   siteVars, ops, turns, fails>>

PolicySaveFails ==
    /\ drawer.st \in {"saving", "saved"}
    /\ MayFail
    /\ drawer' = [drawer EXCEPT !.st = "ready"]
    /\ UNCHANGED <<pageType, listVars, asked, policies, saved, siteVars, ops, turns>>

\* Another administrator saves the policy of u, or the server handles a save that
\* the drawer has given up.
OtherSavesPolicy(u) ==
    /\ pageType = "users"
    /\ MayOperate
    /\ policies' = [policies EXCEPT ![u] = @ + 1]
    /\ UNCHANGED <<pageType, listVars, drawer, asked, saved, siteVars, turns, fails>>

-----------------------------------------------------------------------------
(* The system settings *)

Others(a) == Admin \ {a}

UnderWay(a) == site[a].save.pc \in {"sent", "write", "written"}

\* What is left of a save when load l has ended: its page waits for no other.
AfterLoad(save, l) == IF l.ofSave THEN NoSave ELSE save

\* GET /admin/system-settings: without the secret
HandleSettingsLoad(a, l) ==
    /\ l.of = Defaults
    /\ site' = [site EXCEPT ![a].loads = (@ \ {l}) \cup {[l EXCEPT !.of = [db EXCEPT !["secret"] = Blank]]}]
    /\ UNCHANGED <<pageType, listVars, drawerVars, db, late, accepted, overlap, blind, ops, turns, fails>>

\* stale: a save under way is going to display what it sent when it is answered,
\* so what it missed stays missed.
SettingsLoaded(a, l) ==
    /\ l.of # Defaults
    /\ site' = [site EXCEPT ![a].copy = l.of,
                            ![a].cached = TRUE,
                            ![a].stale = (@ /\ UnderWay(a)) \/ l.of # [db EXCEPT !["secret"] = Blank],
                            ![a].loads = @ \ {l},
                            ![a].save = AfterLoad(@, l)]
    /\ UNCHANGED <<pageType, listVars, drawerVars, db, late, accepted, overlap, blind, ops, turns, fails>>

SettingsFail(a, l) ==
    /\ MayFail
    /\ site' = [site EXCEPT ![a].loads = @ \ {l}, ![a].save = AfterLoad(@, l)]
    /\ UNCHANGED <<pageType, listVars, drawerVars, db, late, accepted, overlap, blind, ops, turns>>

\* Another tab of the settings: what is cached is there already, otherwise it is
\* loaded, or the request in flight is shared.
OpenSettingsTab(a) ==
    /\ pageType = "settings"
    /\ ~site[a].cached /\ site[a].loads = {}
    /\ site' = [site EXCEPT ![a].loads = {NewLoad(FALSE)}]
    /\ UNCHANGED <<pageType, listVars, drawerVars, db, late, accepted, overlap, blind, ops, turns, fails>>

\* The body of a save on tab t: everything displayed, and the values of the tab,
\* among them a secret or a blank.
SaveSystemSettings(a, t, secret) ==
    LET n == ops + 2
        body == [site[a].copy EXCEPT ![t] = n, !["secret"] = IF secret THEN n ELSE @]
    IN  /\ pageType = "settings"
        /\ site[a].save.pc = "idle"
        /\ secret => t = "email"
        /\ MayOperate
        /\ site' = [site EXCEPT ![a].save = [NoSave EXCEPT !.pc = "sent", !.tab = t, !.body = body,
                                                            !.entered = secret]]
        /\ blind' = (blind \/ site[a].stale)
        /\ overlap' = (overlap \/ late # {} \/ \E b \in Others(a) : site[b].save.pc \in {"sent", "write"})
        /\ UNCHANGED <<pageType, listVars, drawerVars, db, late, accepted, turns, fails>>

\* Mutant: a blank secret is stored as it is.
StoreBlank(b, current) == b

\* UpdateSystemSettings: a blank secret stands for the current one.
KeepSecret(b, current) == IF b["secret"] = Blank THEN [b EXCEPT !["secret"] = current] ELSE b

\* The server reads the current secret.
Read(save) ==
    [save EXCEPT !.pc = "write", !.left = SettingsTab, !.body = KeepSecret(@, db["secret"])]

UpdateSystemSettings(a) ==
    /\ site[a].save.pc = "sent"
    /\ site' = [site EXCEPT ![a].save = Read(@)]
    /\ UNCHANGED <<pageType, listVars, drawerVars, db, late, accepted, overlap, blind, ops, turns, fails>>

RowsOf(t) == IF t = "email" THEN {"email", "secret"} ELSE {t}

\* UpsertSettings: row by row, in any order; the rows of a tab are taken together.
Upsert(save, t) ==
    /\ save.pc = "write" /\ t \in save.left
    /\ db' = [r \in Row |-> IF r \in RowsOf(t) THEN save.body[r] ELSE db[r]]
    /\ accepted' = IF t # save.tab THEN accepted
                   ELSE [r \in Row |-> IF r = t THEN save.body[r]
                                       ELSE IF r \in RowsOf(t) /\ save.entered THEN save.body[r]
                                       ELSE accepted[r]]

UpsertSettings(a, t) ==
    LET save == site[a].save IN
    /\ Upsert(save, t)
    /\ site' = [b \in Admin |->
                   IF b = a THEN [site[a] EXCEPT !.save.left = @ \ {t},
                                                 !.save.pc = IF save.left = {t} THEN "written" ELSE @]
                   ELSE [site[b] EXCEPT !.stale = @ \/ db' # db]]
    /\ UNCHANGED <<pageType, listVars, drawerVars, late, overlap, blind, ops, turns, fails>>

\* Mutant: the page forgets what it displayed and keeps the defaults.
FromDefaults(save) == [Defaults EXCEPT ![save.tab] = save.body[save.tab]]

\* sanitizedSettings: what was sent, without the secret.
Sanitized(save) == [save.body EXCEPT !["secret"] = Blank]

\* The answer: the page displays what it sent and loads the settings again.
SettingsSaved(a) ==
    LET save == site[a].save IN
    /\ save.pc = "written"
    /\ site' = [site EXCEPT ![a].copy = Sanitized(save),
                            ![a].cached = FALSE,
                            ![a].loads = @ \cup {NewLoad(TRUE)},
                            ![a].save = [NoSave EXCEPT !.pc = "reload"]]
    /\ UNCHANGED <<pageType, listVars, drawerVars, db, late, accepted, overlap, blind, ops, turns, fails>>

\* An error, or no answer within 5 seconds: the page gives up.  No context of the
\* request reaches the server's loop over the rows: it goes on by itself.
SettingsSaveFails(a) ==
    /\ UnderWay(a)
    /\ MayFail
    /\ late' = IF site[a].save.pc = "written" THEN late ELSE late \cup {site[a].save}
    /\ site' = [site EXCEPT ![a].save = NoSave, ![a].stale = TRUE]
    /\ UNCHANGED <<pageType, listVars, drawerVars, db, accepted, overlap, blind, ops, turns>>

\* The steps of UpdateSystemSettings and UpsertSettings for a save given up.
ReadLate(l) ==
    /\ l.pc = "sent"
    /\ late' = (late \ {l}) \cup {Read(l)}
    /\ UNCHANGED <<pageType, listVars, drawerVars, db, site, accepted, overlap, blind, ops, turns, fails>>

UpsertLate(l, t) ==
    /\ Upsert(l, t)
    /\ late' = (late \ {l}) \cup (IF l.left = {t} THEN {} ELSE {[l EXCEPT !.left = @ \ {t}]})
    /\ site' = [b \in Admin |-> [site[b] EXCEPT !.stale = @ \/ db' # db]]
    /\ UNCHANGED <<pageType, listVars, drawerVars, overlap, blind, ops, turns, fails>>

\* It never arrived, or an error ended it, in the middle of the rows too.
StopLate(l) ==
    /\ late' = late \ {l}
    /\ UNCHANGED <<pageType, listVars, drawerVars, db, site, accepted, overlap, blind, ops, turns, fails>>

-----------------------------------------------------------------------------
Lister ==
    \E s \in Slot :
        \/ \E p \in PageOf : ChangePage(s, p)
        \/ \E op \in Operation : Operate(s, op)
        \/ Handle(s)
        \/ \E t \in Slot : Reload(s, t)
        \/ OperationFails(s)
        \/ \E total, n \in act[s].low..act[s].high : Loaded(s, total, n)
        \/ LoadFails(s)

Elsewhere == \E delta \in {-1, 1} : HandleElsewhere(delta)

PolicyDrawer ==
    \/ \E u \in User : OpenSecurityPolicy(u) \/ OtherSavesPolicy(u)
    \/ \E q \in asked : PolicyFails(q) \/ \E v \in q.low..policies[q.user] : PolicyLoaded(q, v)
    \/ CloseSecurityPolicy
    \/ UpdateUserSecurityPolicy
    \/ HandlePolicy
    \/ \E s \in Slot : PolicySaved(s)
    \/ PolicySaveFails

Settings ==
    /\ pageType = "settings"
    /\ \E a \in Admin :
        \/ \E l \in site[a].loads : HandleSettingsLoad(a, l) \/ SettingsLoaded(a, l) \/ SettingsFail(a, l)
        \/ OpenSettingsTab(a)
        \/ \E t \in SettingsTab, secret \in BOOLEAN : SaveSystemSettings(a, t, secret)
        \/ UpdateSystemSettings(a)
        \/ \E t \in SettingsTab : UpsertSettings(a, t)
        \/ SettingsSaved(a)
        \/ SettingsSaveFails(a)

LateSaves ==
    \E l \in late : ReadLate(l) \/ StopLate(l) \/ \E t \in SettingsTab : UpsertLate(l, t)

Next == Lister \/ Elsewhere \/ PolicyDrawer \/ Settings \/ LateSaves

Spec == Init /\ [][Next]_vars

-----------------------------------------------------------------------------
(* Properties *)

\* The rows are those of the selected page when the page is at rest, unless the
\* last load failed, a page was chosen with requests under way, or answers came
\* out of order: no correction, reload or jump to page 1 leaves them apart.
RowsFit ==
    Quiet /\ ~failed /\ ~hurried /\ ~disorder => shown = None \/ shown.page = page

\* A list that shrank is not left on a page past its end: at rest the page that
\* was displayed last is not an empty one beyond the last page of its total.
NoEmptyPageLeft ==
    Quiet /\ ~failed /\ ~hurried /\ ~disorder /\ pageType \in Corrected /\ shown # None =>
        shown.any \/ page <= LastPage(shown.total)

\* Every policy that was sent to be saved had been read for the same user after the drawer
\* was opened, and not taken from a row of the list, unless that read failed.
SavedPolicyWasRead ==
    \A d \in saved : d.of = d.user /\ (d.base >= d.opened \/ d.missed)

NoSaveUnderWay == late = {} /\ \A a \in Admin : ~UnderWay(a)

\* Although every save writes all tabs, each tab holds what was saved on it
\* last, as long as nobody saved from a page that was not up to date and no save
\* was sent while the server was at another one, which may be one that its page
\* had given up.
AcceptedIsStored ==
    NoSaveUnderWay /\ ~overlap /\ ~blind => db = accepted

\* The secret, which no page ever displays, survives even the saves of pages
\* that are out of date or were never loaded, and saves that fail: only a save
\* that is sent while the server is at another one, given up or not, may read
\* before the other writes and bring an old secret back.
SecretKept == NoSaveUnderWay /\ ~overlap => db["secret"] = accepted["secret"]
=============================================================================
