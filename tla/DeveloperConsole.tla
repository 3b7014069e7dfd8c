-------------------------- MODULE DeveloperConsole --------------------------
(***************************************************************************)
(* The developer's console in one browser tab: the hook                    *)
(* useDeveloperPageController over the caches of developerApi.ts.  The     *)
(* page is one component for all its tabs: a change of what it displays    *)
(* starts a load (an effect), a click starts an operation that is followed *)
(* by a forced load with the tab, the page and the filter of the click.    *)
(* Requests run concurrently, and what a load fetched is put on the page   *)
(* when all of it has arrived, whatever the page displays by then.         *)
(*                                                                         *)
(* Contents are version numbers, except for the one set a click computes   *)
(* from the display: the groups an application is bound to.                *)
(***************************************************************************)
EXTENDS Integers, Sequences

CONSTANTS
    Tab,       \* the tabs that are visited
    Page,      \* page numbers
    Group,     \* groups an application may be bound to
    Filter,    \* groups the list of users may be filtered by
    None,      \* no filter; nothing displayed; nothing cached
    Slot,      \* what runs at one time: operations and loads
    Followed,  \* the resources whose requests are followed; the others are left out
    MaxTurns,  \* bound on the changes of what is displayed
    MaxOps,    \* bound on the operations
    MaxFails   \* bound on the requests that fail

ASSUME PageAssumption == Page \subseteq Nat \ {0} /\ 1 \in Page
ASSUME NoneAssumption == /\ None \notin Filter \cup Nat \cup Slot
                         /\ None \notin [page : Page, filter : Filter \cup {None}]
ASSUME SlotAssumption == Slot # {}
ASSUME BoundsAssumption == {MaxTurns, MaxOps, MaxFails} \subseteq Nat

VARIABLES
    ver,       \* server: version of each resource
    bindings,  \* server: the binding set of every version of "accessApps", oldest first
    late,      \* server: writes the page has given up, which may still be handled
    view,      \* tab, page of each list and filter that are selected
    chosen,    \* the filter each of the two user tabs keeps for itself
    shown,     \* version of each resource on the page
    listed,    \* page and filter the list on the page was fetched for
    bound,     \* the binding set on the page
    cache,     \* developerApi's caches
    act,       \* what each slot is doing, with the variables of its closure
    ahead,     \* history: of each slot with a load under way, the loads that started before it
    turns,     \* changes of the display so far
    ops,       \* operations so far
    fails,     \* failed requests so far
    failed,    \* history: a load failed, and none of the tab displayed succeeded since
    hurried,   \* history: the display was changed, or a binding edited, with requests under way
    disorder,  \* history: a load ended before one started earlier, or an older answer came last
    wanted,    \* history: the bindings the developer asked for
    belated    \* history: an edit of the bindings was handled after it had been given up

vars == <<ver, bindings, late, view, chosen, shown, listed, bound, cache, act, ahead, turns, ops, fails,
          failed, hurried, disorder, wanted, belated>>

ASSUME FollowedAssumption == {"accessApps", "users"} \subseteq Followed

Cached == {"apps", "auditLogs", "analytics", "scopes", "groups", "accessApps"} \cap Followed
List == {"users", "logs"} \cap Followed
Resource == Cached \cup List
UserTab == {"users", "groupMembers"}

\* What load() fetches first on each tab; "apps" and "groups" are those of user access.
FetchedFirst ==
    [dashboard |-> {"apps", "auditLogs"}, console |-> {"apps", "scopes"},
     auditLogs |-> {"apps", "auditLogs"}, analytics |-> {"analytics"},
     docsManual |-> {"scopes"}, profile |-> {},
     logs |-> {"logs"}, groups |-> {"groups"}, apps |-> {"groups", "accessApps"},
     groupMembers |-> {"groups", "accessApps"}, users |-> {"groups", "users", "accessApps"}]

Needs == [t \in DOMAIN FetchedFirst |-> FetchedFirst[t] \cap Resource]

ASSUME TabAssumption == Tab \subseteq DOMAIN Needs /\ Tab # {}

View == [tab : Tab, page : [List -> Page], filter : Filter \cup {None}]
Get == [st : {"none", "sent", "done"}, v : Nat, of : Slot]   \* of: the slot that sends it
NoGet == [st |-> "none", v |-> 0, of |-> CHOOSE s \in Slot : TRUE]
NoGetOf == [r \in Resource |-> NoGet]
FirstView == [tab |-> CHOOSE t \in Tab : TRUE, page |-> [l \in List |-> 1], filter |-> None]
Cache == [value : 0..MaxOps \cup {None}, inflight : Slot \cup {None}]
Act == [pc : {"idle", "write", "written", "load", "members", "drain"}, view : View,
        writes : SUBSET Resource, bound : SUBSET Group, wrote : [Resource -> 0..MaxOps],
        get : [Resource -> Get]]
Idle == [pc |-> "idle", view |-> FirstView, writes |-> {}, bound |-> {},
         wrote |-> [r \in Resource |-> 0], get |-> NoGetOf]
\* A write given up at the nth failure; rebinds: it stores the binding set bound.
Late == [n : 1..MaxFails, writes : SUBSET Resource, rebinds : BOOLEAN, bound : SUBSET Group]

TypeOK ==
    /\ ver \in [Resource -> 0..MaxOps] /\ turns \in 0..MaxTurns /\ ops \in 0..MaxOps /\ fails \in 0..MaxFails
    /\ bindings \in Seq(SUBSET Group) /\ Len(bindings) = ver["accessApps"] + 1
    /\ view \in View
    /\ chosen \in [UserTab -> Filter \cup {None}]
    /\ shown \in [Resource -> 0..MaxOps \cup {None}]
    /\ listed \in [List -> [page : Page, filter : Filter \cup {None}] \cup {None}]
    /\ bound \subseteq Group
    /\ cache \in [Cached -> Cache]
    /\ act \in [Slot -> Act]
    /\ ahead \in [Slot -> SUBSET Slot]
    /\ {failed, hurried, disorder, belated} \subseteq BOOLEAN
    /\ wanted \subseteq Group
    /\ late \subseteq Late

-----------------------------------------------------------------------------
(* developerApi.ts *)

NothingCached == [value |-> None, inflight |-> None]

\* Mutant: a forced load shares the request in flight.
ForgetValueOnly(c, force) == IF force THEN [c EXCEPT !.value = None] ELSE c

\* options.force forgets the value and the request in flight.
Forget(c, force) == IF force THEN NothingCached ELSE c

\* loadCachedResource, c being the cache after Forget: the value, the request in
\* flight, or a request of its own, which becomes the one in flight.
LoadCachedResource(s, c, r) ==
    CASE c.value # None -> [NoGet EXCEPT !.st = "done", !.v = c.value]
      [] c.value = None /\ c.inflight # None -> [st |-> "sent", v |-> 0, of |-> c.inflight]
      [] OTHER -> [st |-> "sent", v |-> ver[r], of |-> s]

\* fetchDeveloperManagedUsers and fetchDeveloperAccessLogs always ask.
FetchList(s, l) == [st |-> "sent", v |-> ver[l], of |-> s]

\* What load() comes to fetch: the members only when a group is selected.
Fetched(v) ==
    Needs[v.tab] \cup (IF v.tab = "groupMembers" /\ v.filter # None THEN {"users"} ELSE {})

Loading(a) == {s \in Slot : a[s].pc \in {"load", "members"}}

\* A load started in slot s with the closure c: m holds act, cache and ahead.
Load(m, s, c, force) ==
    LET left == [r \in Cached |-> IF r \in Needs[c.view.tab] THEN Forget(m.cache[r], force)
                                                             ELSE m.cache[r]]
        get  == [r \in Resource |-> IF r \notin Needs[c.view.tab] THEN NoGet
                                    ELSE IF r \in List THEN FetchList(s, r)
                                    ELSE LoadCachedResource(s, left[r], r)]
    IN  [act   |-> [m.act EXCEPT ![s] = [c EXCEPT !.pc = "load", !.get = get]],
         cache |-> [r \in Cached |-> IF get[r].st = "sent" /\ get[r].of = s
                                     THEN [left[r] EXCEPT !.inflight = s] ELSE left[r]],
         ahead |-> [m.ahead EXCEPT ![s] = Loading(m.act)]]

Machine == [act |-> act, cache |-> cache, ahead |-> ahead]

\* The loads of the slots in S are over.
Without(S) == [t \in Slot |-> IF t \in S THEN {} ELSE ahead[t] \ S]

Proceed(m) == act' = m.act /\ cache' = m.cache /\ ahead' = m.ahead

-----------------------------------------------------------------------------
Complete(s) ==
    act[s].pc \in {"load", "members"} /\ \A r \in Resource : act[s].get[r].st # "sent"
Calm == \A s \in Slot : ~Complete(s)
Free(s) == act[s].pc = "idle"
Quiet == \A s \in Slot : Free(s)
Turn == turns < MaxTurns /\ turns' = turns + 1 /\ hurried' = (hurried \/ ~Quiet)

Init ==
    /\ ver = [r \in Resource |-> 0]
    /\ bindings = <<{}>> /\ late = {}
    /\ view = FirstView
    /\ chosen = [t \in UserTab |-> None]
    /\ shown = [r \in Resource |-> None]
    /\ listed = [l \in List |-> None]
    /\ bound = {}
    /\ LET m == Load([act |-> [s \in Slot |-> Idle], cache |-> [r \in Cached |-> NothingCached],
                      ahead |-> [s \in Slot |-> {}]], CHOOSE s \in Slot : TRUE, Idle, FALSE)
       IN  act = m.act /\ cache = m.cache /\ ahead = m.ahead
    /\ turns = 0
    /\ ops = 0
    /\ fails = 0
    /\ failed = FALSE /\ hurried = FALSE /\ disorder = FALSE
    /\ wanted = {} /\ belated = FALSE

-----------------------------------------------------------------------------
(* The developer changes what is displayed. *)

\* Mutant: what was changed is missing among the dependencies of load.
LoadEffectStale(s, v) == Free(s) /\ Proceed(Load(Machine, s, [Idle EXCEPT !.view = view], FALSE))

\* The effect on [load]: a load with what is selected now.
LoadEffect(s, v) == Free(s) /\ Proceed(Load(Machine, s, [Idle EXCEPT !.view = v], FALSE))

CurrentList == IF view.tab = "logs" THEN "logs" ELSE "users"

\* changeManagedUsersPage, changeAccessLogsPage
ChangePage(s, p) ==
    /\ CurrentList \in Fetched(view)
    /\ p # view.page[CurrentList]
    /\ view' = [view EXCEPT !.page[CurrentList] = p]
    /\ LoadEffect(s, view')
    /\ Turn
    /\ UNCHANGED <<ver, bindings, late, chosen, shown, listed, bound, ops, fails, failed, disorder,
                   wanted, belated>>

\* Mutant: pages counted from 0.
FilteredFromZero(v, f) == [v EXCEPT !.filter = f, !.page["users"] = 0]

\* changeManagedUsersGroupFilter: page 1, and the list is emptied.
Filtered(v, f) == [v EXCEPT !.filter = f, !.page["users"] = 1]
EmptyList == shown' = [shown EXCEPT !["users"] = None] /\ listed' = [listed EXCEPT !["users"] = None]

ChangeFilter(s, f) ==
    /\ view.tab \in UserTab
    /\ f # chosen[view.tab]
    /\ chosen' = [chosen EXCEPT ![view.tab] = f]
    /\ view' = Filtered(view, f)
    /\ EmptyList
    /\ LoadEffect(s, view')
    /\ Turn
    /\ UNCHANGED <<ver, bindings, late, bound, ops, fails, failed, disorder, wanted, belated>>

\* changeActiveTab.  On a user tab the effects of UserAccess set its own filter
\* while the effect of the controller still loads with the old page and filter;
\* when the two differ a second load follows in slot t.
ChangeTab(s, t, tab) ==
    LET old == [view EXCEPT !.tab = tab]
        new == IF tab \in UserTab THEN Filtered(old, chosen[tab]) ELSE old
        m == Load(Machine, s, [Idle EXCEPT !.view = old], FALSE)
    IN  /\ Calm
        /\ tab # view.tab
        /\ s # t /\ Free(s) /\ Free(t)
        /\ view' = new
        /\ IF tab \in UserTab THEN EmptyList ELSE UNCHANGED <<shown, listed>>
        /\ Proceed(IF new = old THEN m ELSE Load(m, t, [Idle EXCEPT !.view = new], FALSE))
        /\ Turn
        /\ UNCHANGED <<ver, bindings, late, chosen, bound, ops, fails, failed, disorder, wanted,
                       belated>>

-----------------------------------------------------------------------------
(* The operations: where they are offered, and what of the server they write. *)

CreateApp == [on |-> {"console"}, writes |-> {"apps", "auditLogs", "analytics"}]
EditApp == [on |-> {"console"}, writes |-> {"apps", "auditLogs", "analytics"}]
ResetSecret == [on |-> {"console"}, writes |-> {"apps", "auditLogs"}]
DeleteApp == [on |-> {"console"}, writes |-> {"apps", "auditLogs", "analytics", "accessApps", "users"}]
DeleteSelectedAuditLogs == [on |-> {"auditLogs"}, writes |-> {"auditLogs"}]
CreateGroup == [on |-> {"groups"}, writes |-> {"groups", "logs"}]
UpdateGroup == [on |-> {"groups"}, writes |-> {"groups", "users", "logs"}]
DeleteGroup == [on |-> {"groups"}, writes |-> {"groups", "users", "accessApps", "logs"}]
UpdateManagedUserGroups == [on |-> {"users"}, writes |-> {"users", "logs"}]
BatchUpdateManagedUserGroups == [on |-> UserTab, writes |-> {"users", "logs"}]
BanAppUser == [on |-> UserTab, writes |-> {"users", "logs"}]
UnbanAppUser == [on |-> {"groupMembers"}, writes |-> {"users", "logs"}]
DeleteSelectedAccessLogs == [on |-> {"logs"}, writes |-> {"logs"}]

Operation == {CreateApp, EditApp, ResetSecret, DeleteApp, DeleteSelectedAuditLogs, CreateGroup,
              UpdateGroup, DeleteGroup, UpdateManagedUserGroups, BatchUpdateManagedUserGroups,
              BanAppUser, UnbanAppUser, DeleteSelectedAccessLogs}

Send(s, writes, groups) ==
    /\ Free(s)
    /\ ops < MaxOps
    /\ ops' = ops + 1
    /\ act' = [act EXCEPT ![s] = [Idle EXCEPT !.pc = "write", !.view = view, !.bound = groups,
                                             !.writes = writes \cap Resource]]

Operate(s, op) ==
    /\ view.tab \in op.on
    /\ Send(s, op.writes, {})
    /\ UNCHANGED <<ver, bindings, late, view, chosen, shown, listed, bound, cache, ahead, turns, fails,
                   failed, hurried, disorder, wanted, belated>>

Toggle(S, g) == IF g \in S THEN S \ {g} ELSE S \cup {g}
Rebinds(s) == "accessApps" \in act[s].writes /\ act[s].view.tab = "apps"

\* The select holds the groups displayed; the new set is displayed at once.
UpdateAppBindings(s, g) ==
    /\ view.tab = "apps"
    /\ shown["accessApps"] # None
    /\ Send(s, {"accessApps", "users", "logs"}, Toggle(bound, g))
    /\ bound' = Toggle(bound, g)
    /\ wanted' = Toggle(wanted, g)
    /\ hurried' = (hurried \/ failed \/ ~Quiet)
    /\ UNCHANGED <<ver, bindings, late, view, chosen, shown, listed, cache, ahead, turns, fails,
                   failed, disorder, belated>>

\* The server writes the resources W, and with rebinds the binding set B.
Write(W, rebinds, B) ==
    /\ ver' = [r \in Resource |-> IF r \in W THEN ver[r] + 1 ELSE ver[r]]
    /\ bindings' = IF "accessApps" \notin W THEN bindings
                   ELSE Append(bindings, IF rebinds THEN B ELSE bindings[Len(bindings)])

\* The server handles the request.
Handle(s) ==
    /\ act[s].pc = "write"
    /\ Write(act[s].writes, Rebinds(s), act[s].bound)
    /\ act' = [act EXCEPT ![s].pc = "written", ![s].wrote = ver']
    /\ UNCHANGED <<late, view, chosen, shown, listed, bound, cache, ahead, turns, ops, fails, failed,
                   hurried, disorder, wanted, belated>>

\* It handles a request the page has given up: no handler is told of that.
HandleLate(l) ==
    /\ Write(l.writes, l.rebinds, l.bound)
    /\ late' = late \ {l}
    /\ belated' = (belated \/ l.rebinds)
    /\ UNCHANGED <<view, chosen, shown, listed, bound, cache, act, ahead, turns, ops, fails, failed,
                   hurried, disorder, wanted>>

\* The answer arrives: refreshUserAccess, load({ force: true }) of the render of the click.
Reload(s) ==
    /\ act[s].pc = "written"
    /\ Proceed(Load(Machine, s, act[s], TRUE))
    /\ UNCHANGED <<ver, bindings, late, view, chosen, shown, listed, bound, turns, ops, fails, failed,
                   hurried, disorder, wanted, belated>>

\* A write that was not handled yet may still be.
GiveUp(s) ==
    /\ act[s].pc \in {"write", "written"}
    /\ fails < MaxFails
    /\ fails' = fails + 1
    /\ late' = IF act[s].pc = "written" THEN late
               ELSE late \cup {[n |-> fails', writes |-> act[s].writes, rebinds |-> Rebinds(s),
                                bound |-> act[s].bound]}

\* Mutant: the bindings are not loaded again either.
FailQuietly(s) ==
    /\ GiveUp(s)
    /\ act' = [act EXCEPT ![s] = Idle]
    /\ wanted' = IF Rebinds(s) THEN bindings[Len(bindings)] ELSE wanted
    /\ UNCHANGED <<ver, bindings, view, chosen, shown, listed, bound, cache, ahead, turns, ops, failed,
                   hurried, disorder, belated>>

\* An error, or no answer within 5 seconds, handled or not: only the bindings are loaded again.
OperationFails(s) ==
    /\ GiveUp(s)
    /\ IF Rebinds(s)
       THEN /\ Proceed(Load(Machine, s, [act[s] EXCEPT !.writes = {}], TRUE))
            /\ wanted' = bindings[Len(bindings)]
       ELSE /\ act' = [act EXCEPT ![s] = Idle]
            /\ UNCHANGED <<cache, ahead, wanted>>
    /\ UNCHANGED <<ver, bindings, view, chosen, shown, listed, bound, turns, ops, failed, hurried,
                   disorder, belated>>

-----------------------------------------------------------------------------
(* The answers of the loads *)

Sends(s, r) == act[s].get[r].st = "sent" /\ act[s].get[r].of = s
Awaits(t, s, r) == act[t].get[r].st = "sent" /\ act[t].get[r].of = s

\* A slot whose load is over is free when its own requests are answered.
Drained(a) ==
    [s \in Slot |-> IF a[s].pc = "drain" /\ \A r \in Resource : a[s].get[r].st # "sent"
                    THEN Idle ELSE a[s]]

\* The answer carries a state v the resource had since the request was sent.
Answer(s, r, v) ==
    /\ Sends(s, r)
    /\ LET got == [NoGet EXCEPT !.st = "done", !.v = v]
       IN  act' = Drained([t \in Slot |-> IF Awaits(t, s, r) THEN [act[t] EXCEPT !.get[r] = got]
                                                             ELSE act[t]])
    /\ cache' = IF r \in Cached THEN [cache EXCEPT ![r] = [value |-> v, inflight |-> None]] ELSE cache
    /\ disorder' = (disorder \/ (shown[r] # None /\ v < shown[r])
                             \/ (r \in Cached /\ cache[r].value # None /\ v < cache[r].value))
    /\ UNCHANGED <<ver, bindings, late, view, chosen, shown, listed, bound, ahead, turns, ops, fails,
                   failed, hurried, wanted, belated>>

\* The load keeps nothing; its own other requests still fill the caches.
Abandoned(c, s) ==
    [c EXCEPT !.pc = "drain",
              !.get = [r \in Resource |-> IF @[r].st = "sent" /\ @[r].of = s THEN @[r] ELSE NoGet]]

\* A request of s fails, and with it every load that waits for it.
LoadFails(s, r) ==
    /\ Sends(s, r)
    /\ fails < MaxFails
    /\ fails' = fails + 1
    /\ LET hit == {t \in Slot : Awaits(t, s, r)}
           lost == hit \cap Loading(act)
           gone == [act EXCEPT ![s].get[r] = NoGet]
       IN  /\ act' = Drained([t \in Slot |-> IF t \in hit /\ act[t].pc # "drain"
                                             THEN Abandoned(gone[t], t) ELSE gone[t]])
           /\ ahead' = Without(hit)
           /\ failed' = (failed \/ lost # {})
           /\ disorder' = (disorder \/ (lost # {} /\ \A t \in lost : ahead[t] # {}))
    /\ cache' = IF r \in Cached THEN [cache EXCEPT ![r].inflight = None] ELSE cache
    /\ UNCHANGED <<ver, bindings, late, view, chosen, shown, listed, bound, turns, ops, hurried,
                   wanted, belated>>

-----------------------------------------------------------------------------
(* load() has all it asked for *)

Got(s) == {r \in Resource : act[s].get[r].st = "done"}
Lists(s) == Got(s) \cap List

\* Mutant: the page of the answer is not selected.
KeepPage(s) == view

\* setManagedUsersPage(userResult.page), setAccessLogsPage(logResult.page)
SetBack(s) ==
    [view EXCEPT !.page = [l \in List |-> IF l \in Lists(s) THEN act[s].view.page[l] ELSE @[l]]]

Bound(s) ==
    IF "accessApps" \in Got(s) THEN bindings[act[s].get["accessApps"].v + 1] ELSE bound

Display(s) ==
    /\ shown' = [r \in Resource |-> IF r \in Got(s) THEN act[s].get[r].v ELSE shown[r]]
    /\ listed' = [l \in List |-> IF l \in Lists(s)
                                 THEN [page |-> act[s].view.page[l], filter |-> act[s].view.filter]
                                 ELSE listed[l]]
    /\ bound' = Bound(s)

\* Members are asked for when groups and applications are displayed.
LoadMembers(s) ==
    /\ Complete(s)
    /\ act[s].pc = "load" /\ act[s].view.tab = "groupMembers" /\ act[s].view.filter # None
    /\ Display(s)
    /\ Proceed([Machine EXCEPT !.act[s].pc = "members",
                               !.act[s].get = [NoGetOf EXCEPT !["users"] = FetchList(s, "users")]])
    /\ UNCHANGED <<ver, bindings, late, view, chosen, turns, ops, fails, failed, hurried, disorder,
                   wanted, belated>>

\* Mutant: load is another function after every render.
EveryRender(v) == TRUE

\* load is another function when something it depends on has changed.
Changed(v) == v # view

\* A page that is set back is another state of the page: the effect loads again.
Loaded(s) ==
    /\ Complete(s)
    /\ ~(act[s].pc = "load" /\ act[s].view.tab = "groupMembers" /\ act[s].view.filter # None)
    /\ IF act[s].view.tab = "groupMembers" /\ act[s].view.filter = None
       THEN /\ shown' = [r \in Resource |-> IF r = "users" THEN None
                                            ELSE IF r \in Got(s) THEN act[s].get[r].v ELSE shown[r]]
            /\ listed' = [listed EXCEPT !["users"] = None]
            /\ bound' = Bound(s)
       ELSE Display(s)
    /\ view' = SetBack(s)
    /\ LET m == [Machine EXCEPT !.act[s] = Idle, !.ahead = Without({s})]
       IN  Proceed(IF Changed(view') THEN Load(m, s, [Idle EXCEPT !.view = view'], FALSE) ELSE m)
    /\ failed' = (failed /\ act[s].view.tab # view.tab)
    /\ disorder' = (disorder \/ ahead[s] # {})
    /\ UNCHANGED <<ver, bindings, late, chosen, turns, ops, fails, hurried, wanted, belated>>

-----------------------------------------------------------------------------
\* What is ready runs before anything else can happen in the tab.
Finish(s) == LoadMembers(s) \/ Loaded(s)

Receive(s, r) == Calm /\ ((\E v \in act[s].get[r].v..ver[r] : Answer(s, r, v)) \/ LoadFails(s, r))

Continue(s) == Calm /\ (Handle(s) \/ Reload(s) \/ OperationFails(s))

Click(s) ==
    \/ \E p \in Page : ChangePage(s, p)
    \/ \E f \in Filter \cup {None} : ChangeFilter(s, f)
    \/ \E t \in Slot, tab \in Tab : ChangeTab(s, t, tab)
    \/ \E op \in Operation : Operate(s, op)
    \/ \E g \in Group : UpdateAppBindings(s, g)

Next ==
    \/ \E s \in Slot : Finish(s)
    \/ \E s \in Slot, r \in Resource : Receive(s, r)
    \/ \E s \in Slot : Continue(s)
    \/ Calm /\ \E l \in late : HandleLate(l)
    \/ Calm /\ \E s \in Slot : Click(s)

\* Every request is answered or given up after its timeout (api/client.ts), and
\* what a promise resolves to runs.
Fairness == \A s \in Slot : WF_vars(Finish(s)) /\ WF_vars(Continue(s)) /\ \A r \in Resource : WF_vars(Receive(s, r))

Spec == Init /\ [][Next]_vars /\ Fairness

-----------------------------------------------------------------------------
(* Properties *)

\* At rest, unless the last load of the tab failed, every list was fetched for the page its pager
\* names, in whatever order the answers came; and the users are those of the selected
\* group, when nothing was changed with requests under way and the loads ended in order
\* (a change of tab starts two loads, the first of them with the old filter).
ListsFit ==
    Quiet /\ ~failed =>
        /\ \A l \in List \cap Fetched(view) : listed[l] # None => listed[l].page = view.page[l]
        /\ ~hurried /\ ~disorder /\ "users" \in Fetched(view) =>
               listed["users"] # None /\ listed["users"].filter = view.filter

\* A change that was accepted is on the page when the load that follows it
\* ends, also when other loads were under way before the change.
SavedIsShown ==
    [][\A s \in Slot :
          Complete(s) /\ act'[s] # act[s] /\ act'[s].pc # "members" =>
              \A r \in act[s].writes \cap Got(s) : shown'[r] >= act[s].wrote[r]]_vars

\* Edits of the bindings add up, although each of them writes the whole set the
\* page displays: what is stored is what the developer asked for, change by
\* change, when each edit was made at rest on a page whose last load succeeded,
\* and also when edits fail, except for one that the server handles after the
\* page has given it up: it writes a set nobody may want any more.
EditsAddUp == Quiet /\ ~hurried /\ ~belated => bindings[Len(bindings)] = wanted

Crossing ==
    \E s, t \in Slot : /\ {act[s].pc, act[t].pc} \subseteq {"load", "members"}
                       /\ act[s].get["users"].st # "none" /\ act[t].get["users"].st # "none"
                       /\ act[s].view.page["users"] # act[t].view.page["users"]

\* A page that is not hurried comes to rest again and again, however often the
\* answers set the page back, except when the users of two pages were asked for
\* at one time: then each answer selects its page and asks for it again.
Settles == <>hurried \/ <>Crossing \/ []<>Quiet
=============================================================================
