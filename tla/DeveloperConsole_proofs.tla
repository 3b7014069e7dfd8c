---------------------- MODULE DeveloperConsole_proofs ----------------------
(***************************************************************************)
(* Theorems about DeveloperConsole, for any number of pages, groups,       *)
(* concurrent operations and loads, and any bounds.                        *)
(*                                                                         *)
(* Three arguments share the facts about the slots (SlotsOK).  A list that *)
(* does not fit its pager has a load of it to come, or one failed.         *)
(* Without haste whatever runs belongs to the tab that is displayed, and   *)
(* only the load that started first can ask for another filter.  An edit   *)
(* made at rest is alone until its answer, and every copy of the bindings  *)
(* the tab keeps is up to date once it has been answered.                  *)
(***************************************************************************)
EXTENDS DeveloperConsole, FiniteSetTheorems, TLAPS

Under == {"write", "written"}
Loads == Loading(act)

\* What a load asks for, and what it has got of what its operation wrote.
Asks(x) == IF x.pc = "load" THEN Needs[x.view.tab] ELSE IF x.pc = "members" THEN {"users"} ELSE {}
ActOK(a, s) ==
    /\ a.pc # "drain" => \A r \in Resource : a.get[r].st # "none" <=> r \in Asks(a)
    /\ a.pc = "members" => a.view.tab = "groupMembers" /\ a.view.filter # None
    /\ \A r \in Resource : a.get[r].v <= ver[r]
    /\ a.pc = "idle" => a.writes = {}
    /\ a.pc \in {"written", "load", "members"} => \A r \in a.writes :
          /\ a.wrote[r] <= ver[r]
          /\ a.get[r].st = "sent" => a.get[r].of = s
          /\ a.get[r].st # "none" => a.get[r].v >= a.wrote[r]

\* The slots, the caches and the order of the loads, c being caches and h the order.
SlotsOK(a, c, h) ==
    /\ a \in [Slot -> Act] /\ c \in [Cached -> Cache] /\ h \in [Slot -> SUBSET Slot]
    /\ \A s \in Slot : ActOK(a[s], s)
    /\ \A r \in Cached :
          /\ c[r].value # None => c[r].value <= ver[r]
          /\ c[r].inflight # None => LET g == a[c[r].inflight].get[r] IN g.st = "sent" /\ g.of = c[r].inflight
    /\ \A s \in Loading(a) : h[s] \subseteq Loading(a)
    /\ \A s, t \in Loading(a) : s # t => s \in h[t] \/ t \in h[s]

\* Operations that the server has not handled are counted once more, also
\* those the page has given up.
Unhandled == {s \in Slot : act[s].pc = "write"}
Counted ==
    /\ IsFiniteSet(Unhandled) /\ IsFiniteSet(late)
    /\ \A r \in Resource : ver[r] + Cardinality(Unhandled) + Cardinality(late) <= ops

DisplayOK == \A r \in Resource : shown[r] # None => shown[r] <= ver[r]

\* A list that does not fit has a load of it to come.
PagesFit ==
    \A l \in List \cap Fetched(view) :
        listed[l] # None /\ listed[l].page # view.page[l] =>
            failed \/ \E s \in Loads : l \in Fetched(act[s].view)

\* What runs without haste is of the tab and the filter that are displayed, but
\* for the first of the two loads of a change of tab.
OfTheTab ==
    ~hurried => \A s \in Slot :
        /\ act[s].pc \in Under \cup {"load", "members"} => act[s].view.tab = view.tab
        /\ act[s].pc \in Under => act[s].view.filter = view.filter
FirstIsOld ==
    ~hurried /\ ~disorder => \A s \in Loads :
        act[s].view.filter # view.filter => ahead[s] = {} /\ \E t \in Loads : s \in ahead[t]
FilterFits ==
    ~hurried /\ ~disorder /\ ~failed /\ Loads = {} /\ "users" \in Fetched(view) =>
        listed["users"] # None /\ listed["users"].filter = view.filter

\* The binding sets of v and of all later versions are the one that is stored.
Stored == bindings[Len(bindings)]
Fresh(v) == \A w \in v..ver["accessApps"] : bindings[w + 1] = Stored

Editing(s, pc) == act[s].pc \in pc /\ Rebinds(s)
EditAlone ==
    ~hurried => \A s \in Slot : Editing(s, Under) =>
        /\ \A t \in Slot : t # s => act[t].pc = "idle"
        /\ ~belated /\ act[s].pc = "write" => act[s].bound = wanted
StoredIsWanted == ~hurried /\ ~belated /\ (\A s \in Slot : ~Editing(s, {"write"})) => Stored = wanted
CopiesFresh(a, c) ==
    /\ c["accessApps"].value # None => Fresh(c["accessApps"].value)
    /\ \A s \in Slot : LET g == a[s].get["accessApps"] IN
                       g.st = "done" \/ (g.st = "sent" /\ g.of = s) => Fresh(g.v)
CopiesOK == ~hurried /\ ~belated /\ (\A s \in Slot : ~Editing(s, {"written"})) => CopiesFresh(act, cache)
BoundIsWanted ==
    ~hurried /\ ~belated /\ ~failed /\ view.tab = "apps" /\ shown["accessApps"] # None =>
        bound = wanted \/ \E s \in Loads : act[s].view.tab = "apps"

IndInv ==
    /\ TypeOK /\ SlotsOK(act, cache, ahead) /\ Counted /\ DisplayOK
    /\ PagesFit
    /\ OfTheTab /\ FirstIsOld /\ FilterFits
    /\ EditAlone /\ StoredIsWanted /\ CopiesOK /\ BoundIsWanted

-----------------------------------------------------------------------------
(* Constants *)

LEMMA Names ==
    /\ "accessApps" \in Cached /\ "accessApps" \notin List
    /\ "users" \in List /\ "users" \notin Cached
    /\ Resource = Cached \cup List /\ \A r \in Cached : r \notin List
BY FollowedAssumption DEF Cached, List, Resource

LEMMA NeedsFacts ==
    /\ \A t \in Tab : Needs[t] \subseteq Resource
    /\ "apps" \in Tab => "accessApps" \in Needs["apps"]
    /\ "groupMembers" \in Tab => Needs["groupMembers"] \cap List = {}
<1>1. ASSUME NEW t \in Tab PROVE Needs[t] = FetchedFirst[t] \cap Resource
  BY TabAssumption DEF Needs
<1>2. "accessApps" \in FetchedFirst["apps"]
  BY DEF FetchedFirst
<1>3. FetchedFirst["groupMembers"] \cap List = {}
  BY DEF FetchedFirst, List
<1>. QED BY <1>1, <1>2, <1>3, Names

LEMMA FetchedFacts ==
    ASSUME NEW v \in View
    PROVE  /\ Needs[v.tab] \subseteq Fetched(v) /\ v.tab \in Tab
           /\ \A l \in List : l \in Fetched(v) /\ l \notin Needs[v.tab] =>
                 l = "users" /\ v.tab = "groupMembers" /\ v.filter # None
BY DEF Fetched, View

LEMMA IdleFacts ==
    /\ NoGet \in Get /\ NoGet.st = "none" /\ NoGet.v = 0
    /\ FirstView \in View /\ FirstView.tab \in Tab /\ FirstView.filter = None
    /\ Idle \in Act /\ Idle.pc = "idle" /\ Idle.writes = {} /\ Idle.view = FirstView
    /\ \A r \in Resource : Idle.get[r] = NoGet
<1>1. NoGet \in Get /\ NoGet.st = "none" /\ NoGet.v = 0
  BY SlotAssumption DEF NoGet, Get
<1>2. FirstView \in View /\ FirstView.tab \in Tab /\ FirstView.filter = None
  BY TabAssumption, PageAssumption DEF FirstView, View
<1>3. Idle \in Act
  BY <1>1, <1>2, BoundsAssumption DEF Idle, NoGetOf, Act
<1>. QED BY <1>1, <1>2, <1>3 DEF Idle, NoGetOf

LEMMA GetExcept ==
    ASSUME NEW g \in Get, NEW p \in {"none", "sent", "done"}, NEW v \in Nat
    PROVE  [g EXCEPT !.st = p, !.v = v] = [st |-> p, v |-> v, of |-> g.of]
<1>. DEFINE u == [g EXCEPT !.st = p, !.v = v]
<1>1. u \in Get /\ u.st = p /\ u.v = v /\ u.of = g.of
  BY DEF Get
<1>. HIDE DEF u
<1>2. u = [st |-> u.st, v |-> u.v, of |-> u.of]
  BY <1>1 DEF Get
<1>3. u = [st |-> p, v |-> v, of |-> g.of]
  BY <1>1, <1>2
<1>. QED BY <1>3 DEF u

-----------------------------------------------------------------------------
(* Load *)

\* What the load of the closure x asks for in slot s, g being its part about r.
Requested(g, r, s) == g = [st |-> "sent", v |-> ver[r], of |-> s]

\* What Load returns, member by member.
Shape(n, a, c, h, s, x, force) ==
    /\ n.act \in [Slot -> Act] /\ n.cache \in [Cached -> Cache]
    /\ n.ahead = [h EXCEPT ![s] = Loading(a)]
    /\ \A t \in Slot : t # s => n.act[t] = a[t]
    /\ n.act[s].pc = "load" /\ n.act[s].view = x.view /\ n.act[s].writes = x.writes
    /\ n.act[s].wrote = x.wrote
    /\ \A r \in Resource : LET g == n.act[s].get[r] IN
          /\ r \notin Needs[x.view.tab] => g = NoGet
          /\ r \in Needs[x.view.tab] => g.st # "none"
          /\ r \in Needs[x.view.tab] /\ (force \/ r \in List) => Requested(g, r, s)
          /\ g.st = "done" => r \in Cached /\ c[r].value # None /\ g.v = c[r].value
          /\ g.st = "sent" => Requested(g, r, s) \/ (g.v = 0 /\ g.of # s)
    /\ \A r \in Cached :
          \/ n.cache[r] = c[r] /\ ~(force /\ r \in Needs[x.view.tab])
          \/ n.cache[r] = [value |-> None, inflight |-> s] /\ Requested(n.act[s].get[r], r, s)

LEMMA LoadShape ==
    ASSUME NEW a \in [Slot -> Act], NEW c \in [Cached -> Cache], NEW h \in [Slot -> SUBSET Slot],
           ver \in [Resource -> 0..MaxOps],
           NEW s \in Slot, NEW x \in Act, NEW force \in BOOLEAN,
           \A r \in Cached : c[r].inflight # s
    PROVE  Shape(Load([act |-> a, cache |-> c, ahead |-> h], s, x, force), a, c, h, s, x, force)
<1>. DEFINE m == [act |-> a, cache |-> c, ahead |-> h]
            left == [r \in Cached |-> IF r \in Needs[x.view.tab] THEN Forget(c[r], force) ELSE c[r]]
            get  == [r \in Resource |-> IF r \notin Needs[x.view.tab] THEN NoGet
                                        ELSE IF r \in List THEN FetchList(s, r)
                                        ELSE LoadCachedResource(s, left[r], r)]
            to   == [r \in Cached |-> IF get[r].st = "sent" /\ get[r].of = s
                                      THEN [left[r] EXCEPT !.inflight = s] ELSE left[r]]
            n    == Load(m, s, x, force)
            y    == [x EXCEPT !.pc = "load", !.get = get]
<1>1. n = [act |-> [a EXCEPT ![s] = y], cache |-> to, ahead |-> [h EXCEPT ![s] = Loading(a)]]
  BY DEF Load
<1>2. /\ \A r \in Cached :
            /\ left[r] = IF r \in Needs[x.view.tab] THEN Forget(c[r], force) ELSE c[r]
            /\ to[r] = IF get[r].st = "sent" /\ get[r].of = s THEN [left[r] EXCEPT !.inflight = s] ELSE left[r]
      /\ \A r \in Resource :
            get[r] = IF r \notin Needs[x.view.tab] THEN NoGet
                     ELSE IF r \in List THEN FetchList(s, r) ELSE LoadCachedResource(s, left[r], r)
      /\ get = [r \in Resource |-> get[r]] /\ to = [r \in Cached |-> to[r]]
  OBVIOUS
<1>. HIDE DEF left, get, to
<1>3. \A r \in Cached : c[r].value \in 0..MaxOps \cup {None} /\ c[r].inflight \in Slot \cup {None}
                        /\ c[r] = [value |-> c[r].value, inflight |-> c[r].inflight]
  BY DEF Cache
<1>4. \A r \in Cached :
         left[r] = IF force /\ r \in Needs[x.view.tab] THEN [value |-> None, inflight |-> None] ELSE c[r]
  BY <1>2 DEF Forget, NothingCached
<1>5. ASSUME NEW r \in Cached, r \in Needs[x.view.tab]
      PROVE  \/ ~force /\ c[r].value # None /\ get[r] = [st |-> "done", v |-> c[r].value, of |-> NoGet.of]
             \/ /\ ~force /\ c[r].value = None /\ c[r].inflight # None
                /\ get[r] = [st |-> "sent", v |-> 0, of |-> c[r].inflight]
             \/ (force \/ (c[r].value = None /\ c[r].inflight = None)) /\ Requested(get[r], r, s)
  <2>1. get[r] = LoadCachedResource(s, left[r], r)
    BY <1>2, <1>5, Names
  <2>2. CASE force
    <3>1. left[r] = [value |-> None, inflight |-> None]
      BY <1>4, <1>5, <2>2
    <3>2. left[r].value = None /\ left[r].inflight = None
      BY <3>1
    <3>. QED BY <2>1, <2>2, <3>2 DEF LoadCachedResource, Requested
  <2>3. CASE ~force
    <3>1. left[r] = c[r]
      BY <1>4, <2>3
    <3>2. get[r] = LoadCachedResource(s, c[r], r)
      BY <2>1, <3>1
    <3>4. CASE c[r].value # None
      <4>1. c[r].value \in Nat
        BY <1>3, <3>4, BoundsAssumption
      <4>2. [NoGet EXCEPT !.st = "done", !.v = c[r].value] = [st |-> "done", v |-> c[r].value, of |-> NoGet.of]
        BY <4>1, IdleFacts, GetExcept
      <4>. QED BY <2>3, <3>2, <3>4, <4>2 DEF LoadCachedResource
    <3>5. CASE c[r].value = None
      BY <2>3, <3>2, <3>5 DEF LoadCachedResource, Requested
    <3>. QED BY <3>4, <3>5
  <2>. QED BY <2>2, <2>3
<1>6. ASSUME NEW r \in Resource
      PROVE  /\ get[r] \in Get
             /\ r \notin Needs[x.view.tab] => get[r] = NoGet
             /\ r \in Needs[x.view.tab] => get[r].st # "none"
             /\ r \in Needs[x.view.tab] /\ (force \/ r \in List) => Requested(get[r], r, s)
             /\ get[r].st = "done" => r \in Cached /\ c[r].value # None /\ get[r].v = c[r].value
             /\ get[r].st = "sent" => Requested(get[r], r, s) \/ (get[r].v = 0 /\ get[r].of # s)
  <2>0. ver[r] \in Nat
    BY BoundsAssumption
  <2>1. CASE r \notin Needs[x.view.tab]
    <3>1. get[r] = NoGet
      BY <1>2, <2>1
    <3>. QED BY <2>1, <3>1, IdleFacts
  <2>2. Requested(get[r], r, s) =>
          get[r] \in Get /\ get[r].st = "sent" /\ get[r].v = ver[r] /\ get[r].of = s
    BY <2>0 DEF Requested, Get
  <2>3. CASE r \in Needs[x.view.tab] /\ r \in List
    <3>1. Requested(get[r], r, s)
      BY <1>2, <2>3 DEF FetchList, Requested
    <3>2. get[r] \in Get /\ get[r].st = "sent"
      BY <2>2, <3>1
    <3>3. get[r].st # "none" /\ get[r].st # "done"
      BY <3>2
    <3>. QED BY <2>3, <3>1, <3>2, <3>3
  <2>4. CASE r \in Needs[x.view.tab] /\ r \notin List
    <3>1. r \in Cached
      BY <2>4, Names
    <3>2. CASE ~force /\ c[r].value # None /\ get[r] = [st |-> "done", v |-> c[r].value, of |-> NoGet.of]
      <4>1. c[r].value \in Nat /\ NoGet.of \in Slot
        BY <1>3, <3>1, <3>2, IdleFacts, BoundsAssumption DEF Get
      <4>2. get[r] \in Get /\ get[r].st = "done" /\ get[r].v = c[r].value
        BY <3>2, <4>1 DEF Get
      <4>. QED BY <2>4, <3>1, <3>2, <4>2
    <3>3. CASE /\ ~force /\ c[r].value = None /\ c[r].inflight # None
               /\ get[r] = [st |-> "sent", v |-> 0, of |-> c[r].inflight]
      <4>1. c[r].inflight \in Slot /\ c[r].inflight # s
        BY <1>3, <3>1, <3>3
      <4>2. get[r] \in Get /\ get[r].st = "sent" /\ get[r].v = 0 /\ get[r].of # s
        BY <3>3, <4>1 DEF Get
      <4>. QED BY <2>4, <3>3, <4>2
    <3>4. CASE Requested(get[r], r, s)
      <4>1. get[r] \in Get /\ get[r].st = "sent"
        BY <2>2, <3>4
      <4>2. get[r].st # "none" /\ get[r].st # "done"
        BY <4>1
      <4>. QED BY <2>4, <3>1, <3>4, <4>1, <4>2
    <3>. QED BY <1>5, <2>4, <3>1, <3>2, <3>3, <3>4
  <2>. QED BY <2>1, <2>3, <2>4
<1>7. ASSUME NEW r \in Cached
      PROVE  /\ to[r] \in Cache
             /\ \/ to[r] = c[r] /\ ~(force /\ r \in Needs[x.view.tab])
                \/ to[r] = [value |-> None, inflight |-> s] /\ Requested(get[r], r, s)
  <2>1. r \in Resource
    BY Names
  <2>2. CASE get[r].st = "sent" /\ get[r].of = s
    <3>1. get[r].st # NoGet.st
      BY <2>2, IdleFacts
    <3>2. r \in Needs[x.view.tab]
      BY <1>6, <2>1, <3>1
    <3>3. left[r].value = None /\ Requested(get[r], r, s)
      <4>1. CASE force
        BY <1>4, <1>5, <3>2, <4>1
      <4>2. CASE ~force
        <5>1. left[r] = c[r]
          BY <1>4, <4>2
        <5>2. [st |-> "sent", v |-> 0, of |-> c[r].inflight].of # s
          OBVIOUS
        <5>3. [st |-> "done", v |-> c[r].value, of |-> NoGet.of].st # "sent"
          OBVIOUS
        <5>. QED BY <1>5, <2>2, <3>2, <4>2, <5>1, <5>2, <5>3
      <4>. QED BY <4>1, <4>2
    <3>4. left[r] = [value |-> left[r].value, inflight |-> left[r].inflight]
      BY <1>3, <1>4
    <3>5. to[r] = [left[r] EXCEPT !.inflight = s]
      BY <1>2, <2>2
    <3>6. to[r] = [value |-> None, inflight |-> s]
      BY <3>3, <3>4, <3>5
    <3>. QED BY <3>3, <3>6 DEF Cache
  <2>3. CASE ~(get[r].st = "sent" /\ get[r].of = s)
    <3>1. to[r] = left[r]
      BY <1>2, <2>3
    <3>2. ~Requested(get[r], r, s)
      BY <2>3 DEF Requested
    <3>3. ~(force /\ r \in Needs[x.view.tab])
      BY <1>6, <2>1, <3>2
    <3>. QED BY <1>4, <3>1, <3>3
  <2>. QED BY <2>2, <2>3
<1>8. y \in Act /\ y.pc = "load" /\ y.view = x.view /\ y.writes = x.writes /\ y.wrote = x.wrote /\ y.get = get
  <2>1. get \in [Resource -> Get]
    BY <1>2, <1>6
  <2>. QED BY <2>1 DEF Act
<1>9. to \in [Cached -> Cache]
  BY <1>2, <1>7
<1>. HIDE DEF y, n
<1>10. n.act = [a EXCEPT ![s] = y] /\ n.cache = to /\ n.ahead = [h EXCEPT ![s] = Loading(a)]
  BY <1>1
<1>11. n.act[s] = y /\ n.act \in [Slot -> Act] /\ \A t \in Slot : t # s => n.act[t] = a[t]
  BY <1>8, <1>10
<1>12. n.act[s].get = get
  BY <1>8, <1>11
<1>13. \A r \in Resource : LET g == n.act[s].get[r] IN
                 /\ r \notin Needs[x.view.tab] => g = NoGet
                 /\ r \in Needs[x.view.tab] => g.st # "none"
                 /\ r \in Needs[x.view.tab] /\ (force \/ r \in List) => Requested(g, r, s)
                 /\ g.st = "done" => r \in Cached /\ c[r].value # None /\ g.v = c[r].value
                 /\ g.st = "sent" => Requested(g, r, s) \/ (g.v = 0 /\ g.of # s)
  BY <1>6, <1>12
<1>14. \A r \in Cached :
                 \/ n.cache[r] = c[r] /\ ~(force /\ r \in Needs[x.view.tab])
                 \/ n.cache[r] = [value |-> None, inflight |-> s] /\ Requested(n.act[s].get[r], r, s)
  BY <1>7, <1>10, <1>12
<1>15. n.act[s].pc = "load" /\ n.act[s].view = x.view /\ n.act[s].writes = x.writes /\ n.act[s].wrote = x.wrote
  BY <1>8, <1>11
<1>16. n.cache \in [Cached -> Cache] /\ n.ahead = [h EXCEPT ![s] = Loading(a)]
  BY <1>9, <1>10
<1>. QED BY <1>11, <1>13, <1>14, <1>15, <1>16 DEF n, m, Shape

History ==
    /\ ver \in [Resource -> 0..MaxOps]
    /\ bindings \in Seq(SUBSET Group) /\ Len(bindings) = ver["accessApps"] + 1

LEMMA Versions == History => \A r \in Resource : ver[r] \in Nat
BY BoundsAssumption DEF History

\* The version of now is the binding set that is stored.
LEMMA FreshNow == History => Fresh(ver["accessApps"]) /\ Stored \subseteq Group
<1>1. "accessApps" \in Resource
  BY Names
<1>2. ASSUME History PROVE ver["accessApps"] \in Nat /\ Len(bindings) \in 1..Len(bindings)
  BY <1>1, <1>2, Versions DEF History
<1>. QED BY <1>2 DEF Fresh, Stored, History

\* One more load, in slot s.
Started(n, a, c, h, s, v) ==
    /\ \A t \in Slot : t # s => n.act[t] = a[t] /\ n.ahead[t] = h[t]
    /\ n.act[s].pc = "load" /\ n.act[s].view = v
    /\ Loading(n.act) = Loading(a) \cup {s} /\ n.ahead[s] = Loading(a)
    /\ CopiesFresh(a, c) => CopiesFresh(n.act, n.cache)

LEMMA LoadOK ==
    ASSUME History, NEW a, NEW c, NEW h, SlotsOK(a, c, h), NEW s \in Slot, s \notin Loading(a),
           NEW x \in Act, NEW force \in BOOLEAN, x.writes = {} \/ force,
           \A r \in x.writes : x.wrote[r] <= ver[r],
           \A r \in Resource : ~(a[s].get[r].st = "sent" /\ a[s].get[r].of = s)
    PROVE  LET n == Load([act |-> a, cache |-> c, ahead |-> h], s, x, force) IN
           /\ SlotsOK(n.act, n.cache, n.ahead)
           /\ Started(n, a, c, h, s, x.view)
           /\ force /\ "accessApps" \in Needs[x.view.tab]
              /\ (\A t \in Slot : t # s => a[t].get["accessApps"].st = "none") => CopiesFresh(n.act, n.cache)
<1>. DEFINE n == Load([act |-> a, cache |-> c, ahead |-> h], s, x, force)
            y == n.act[s]
<1>. USE Versions
<1>1. a \in [Slot -> Act] /\ c \in [Cached -> Cache] /\ h \in [Slot -> SUBSET Slot]
  BY DEF SlotsOK
<1>2. ver \in [Resource -> 0..MaxOps]
  BY DEF History
<1>3. \A r \in Cached : c[r].inflight # s
  <2>. SUFFICES ASSUME NEW r \in Cached, c[r].inflight = s
                PROVE  FALSE
    OBVIOUS
  <2>1. r \in Resource /\ s # None
    BY Names, NoneAssumption
  <2>. QED BY <2>1 DEF SlotsOK
<1>0. Shape(n, a, c, h, s, x, force)
  BY <1>1, <1>2, <1>3, LoadShape
<1>. HIDE DEF n
<1>4. /\ n.act \in [Slot -> Act] /\ n.cache \in [Cached -> Cache]
      /\ \A t \in Slot : t # s => n.act[t] = a[t]
      /\ y.pc = "load" /\ y.view = x.view /\ y.writes = x.writes /\ y.wrote = x.wrote
      /\ n.ahead = [h EXCEPT ![s] = Loading(a)]
  BY <1>0 DEF Shape
<1>5. \A r \in Resource :
         /\ r \notin Needs[x.view.tab] => y.get[r] = NoGet
         /\ r \in Needs[x.view.tab] => y.get[r].st # "none"
         /\ r \in Needs[x.view.tab] /\ (force \/ r \in List) => Requested(y.get[r], r, s)
         /\ y.get[r].st = "done" => r \in Cached /\ c[r].value # None /\ y.get[r].v = c[r].value
         /\ y.get[r].st = "sent" => Requested(y.get[r], r, s) \/ (y.get[r].v = 0 /\ y.get[r].of # s)
  BY <1>0 DEF Shape
<1>6. \A r \in Cached :
         \/ n.cache[r] = c[r] /\ ~(force /\ r \in Needs[x.view.tab])
         \/ n.cache[r] = [value |-> None, inflight |-> s] /\ Requested(y.get[r], r, s)
  BY <1>0 DEF Shape
<1>7. /\ \A t \in Slot : t # s => n.ahead[t] = h[t]
      /\ n.ahead[s] = Loading(a) /\ n.ahead \in [Slot -> SUBSET Slot]
  BY <1>1, <1>4 DEF Loading
<1>8. Loading(n.act) = Loading(a) \cup {s}
  BY <1>4 DEF Loading
<1>9. \A r \in Resource : /\ y.get[r] \in Get
                          /\ Requested(y.get[r], r, s) => y.get[r].st = "sent" /\ y.get[r].v = ver[r] /\ y.get[r].of = s
  BY <1>4 DEF Act, Requested
<1>10. x.writes \subseteq Resource /\ \A r \in Resource : x.wrote[r] \in Nat
  BY BoundsAssumption DEF Act
<1>. HIDE DEF y
<1>11. ActOK(y, s)
  <2>1. \A r \in Resource : y.get[r].st # "none" <=> r \in Needs[x.view.tab]
    BY <1>5, IdleFacts
  <2>2. \A r \in Resource : y.get[r].v <= ver[r]
    <3>. SUFFICES ASSUME NEW r \in Resource
                  PROVE  y.get[r].v <= ver[r]
      OBVIOUS
    <3>0. ver[r] \in Nat
      OBVIOUS
    <3>1. CASE y.get[r].st = "none"
      BY <1>5, <2>1, <3>0, <3>1, IdleFacts
    <3>2. CASE y.get[r].st = "sent"
      BY <1>5, <1>9, <3>0, <3>2
    <3>3. CASE y.get[r].st = "done"
      BY <1>5, <3>3 DEF SlotsOK
    <3>. QED BY <1>9, <3>1, <3>2, <3>3 DEF Get
  <2>3. ASSUME NEW r \in x.writes
        PROVE  /\ y.wrote[r] <= ver[r]
               /\ y.get[r].st = "sent" => y.get[r].of = s
               /\ y.get[r].st # "none" => y.get[r].v >= y.wrote[r]
    <3>1. r \in Resource /\ force /\ x.wrote[r] <= ver[r] /\ y.wrote[r] = x.wrote[r]
      BY <1>4, <1>10, <2>3
    <3>2. ver[r] \in Nat /\ x.wrote[r] \in Nat
      BY <1>10, <3>1
    <3>3. y.get[r].st # "none" => y.get[r].v = ver[r] /\ y.get[r].of = s
      BY <1>5, <1>9, <2>1, <3>1
    <3>. QED BY <1>9, <3>1, <3>2, <3>3 DEF Get
  <2>. QED BY <1>4, <2>1, <2>2, <2>3 DEF ActOK, Asks
<1>12. \A t \in Slot : ActOK(n.act[t], t)
  BY <1>4, <1>11 DEF SlotsOK, y
<1>13. ASSUME NEW r \in Cached
       PROVE  /\ n.cache[r].value # None => n.cache[r].value <= ver[r]
              /\ n.cache[r].inflight # None =>
                    LET g == n.act[n.cache[r].inflight].get[r] IN g.st = "sent" /\ g.of = n.cache[r].inflight
  <2>1. r \in Resource
    BY Names
  <2>2. CASE n.cache[r] = c[r]
    <3>1. c[r].inflight # None => c[r].inflight \in Slot /\ c[r].inflight # s
      BY <1>1, <1>3 DEF Cache
    <3>2. c[r].inflight # None => n.act[c[r].inflight] = a[c[r].inflight]
      BY <1>4, <3>1
    <3>. QED BY <2>2, <3>2 DEF SlotsOK
  <2>3. CASE n.cache[r] = [value |-> None, inflight |-> s] /\ Requested(y.get[r], r, s)
    BY <1>9, <2>1, <2>3 DEF y
  <2>. QED BY <1>6, <2>2, <2>3
<1>14. SlotsOK(n.act, n.cache, n.ahead)
  <2>1. \A t \in Loading(n.act) : n.ahead[t] \subseteq Loading(n.act)
    BY <1>7, <1>8 DEF SlotsOK, Loading
  <2>2. \A t, u \in Loading(n.act) : t # u => t \in n.ahead[u] \/ u \in n.ahead[t]
    BY <1>7, <1>8 DEF SlotsOK, Loading
  <2>. QED BY <1>4, <1>7, <1>12, <1>13, <2>1, <2>2 DEF SlotsOK
<1>15. /\ "accessApps" \in Resource /\ "accessApps" \in Cached /\ Fresh(ver["accessApps"])
       /\ "accessApps" \notin List
  BY Names, FreshNow
<1>16. ASSUME CopiesFresh(a, c)
       PROVE  CopiesFresh(n.act, n.cache)
  <2>1. n.cache["accessApps"].value # None => Fresh(n.cache["accessApps"].value)
    BY <1>6, <1>15, <1>16 DEF CopiesFresh
  <2>2. y.get["accessApps"].st = "done" => Fresh(y.get["accessApps"].v)
    BY <1>5, <1>15, <1>16 DEF CopiesFresh
  <2>3. y.get["accessApps"].st = "sent" /\ y.get["accessApps"].of = s => Fresh(y.get["accessApps"].v)
    BY <1>5, <1>9, <1>15
  <2>4. \A t \in Slot : t # s => LET g == n.act[t].get["accessApps"] IN
                                 g.st = "done" \/ (g.st = "sent" /\ g.of = t) => Fresh(g.v)
    BY <1>4, <1>16 DEF CopiesFresh
  <2>. QED BY <2>1, <2>2, <2>3, <2>4 DEF CopiesFresh, y
<1>17. ASSUME force, "accessApps" \in Needs[x.view.tab],
              \A t \in Slot : t # s => a[t].get["accessApps"].st = "none"
       PROVE  CopiesFresh(n.act, n.cache)
  <2>1. n.cache["accessApps"].value = None
    BY <1>6, <1>15, <1>17
  <2>2. y.get["accessApps"].v = ver["accessApps"]
    BY <1>5, <1>9, <1>15, <1>17
  <2>3. \A t \in Slot : t # s => n.act[t].get["accessApps"].st = "none"
    BY <1>4, <1>17
  <2>. QED BY <1>15, <2>1, <2>2, <2>3 DEF CopiesFresh, y
<1>. QED BY <1>4, <1>7, <1>8, <1>14, <1>16, <1>17 DEF Started, n, y

\* The load of an effect, in a slot that is free.
LEMMA EffectOK ==
    ASSUME History, NEW a, NEW c, NEW h, SlotsOK(a, c, h), NEW s \in Slot, a[s].pc = "idle", NEW v \in View
    PROVE  LET n == Load([act |-> a, cache |-> c, ahead |-> h], s, [Idle EXCEPT !.view = v], FALSE) IN
           /\ SlotsOK(n.act, n.cache, n.ahead)
           /\ Started(n, a, c, h, s, v)
           /\ n = [act |-> n.act, cache |-> n.cache, ahead |-> n.ahead]
<1>. DEFINE x == [Idle EXCEPT !.view = v]
            n == Load([act |-> a, cache |-> c, ahead |-> h], s, x, FALSE)
<1>1. x \in Act /\ x.view = v /\ x.writes = {}
  BY IdleFacts DEF Act
<1>. HIDE DEF x
<1>2. s \notin Loading(a)
  BY DEF Loading
<1>3. a[s] \in Act /\ \A r \in Resource : a[s].get[r].st = "none"
  BY DEF SlotsOK, ActOK, Asks
<1>4. n = [act |-> n.act, cache |-> n.cache, ahead |-> n.ahead]
  BY DEF Load
<1>5. SlotsOK(n.act, n.cache, n.ahead) /\ Started(n, a, c, h, s, x.view)
  BY <1>1, <1>2, <1>3, LoadOK
<1>. QED BY <1>1, <1>4, <1>5 DEF x

-----------------------------------------------------------------------------
(* Facts about the states *)

LEMMA TypeFacts == TypeOK => History
BY DEF TypeOK, History

LEMMA SlotsNext == ver' = ver /\ SlotsOK(act', cache', ahead') => SlotsOK(act, cache, ahead)'
BY DEF SlotsOK, ActOK

LEMMA CopiesNext ==
    UNCHANGED <<ver, bindings>> /\ CopiesFresh(act', cache') => CopiesFresh(act, cache)'
BY DEF CopiesFresh, Fresh, Stored

\* What is idle or on its way to the server asks for nothing.
LEMMA NothingAsked ==
    ASSUME NEW a, NEW c, NEW h, SlotsOK(a, c, h), NEW s \in Slot, a[s].pc \in {"idle", "write", "written"}
    PROVE  \A r \in Resource : a[s].get[r].st = "none"
BY DEF SlotsOK, ActOK, Asks

LEMMA AtRest ==
    ASSUME Quiet
    PROVE  /\ Loads = {} /\ Unhandled = {}
           /\ \A s \in Slot, pc \in SUBSET Under : ~Editing(s, pc)
BY DEF Quiet, Free, Loads, Loading, Unhandled, Editing, Under

\* What leaves the slot of a write may be on its way as a late one.
LEMMA CountedLess ==
    ASSUME IndInv, NEW s \in Slot, Unhandled' = Unhandled \ {s}, ver' = ver, ops' = ops,
           late' = late \/ (s \in Unhandled /\ \E l \in Late : late' = late \cup {l})
    PROVE  Counted'
<1>1. /\ IsFiniteSet(Unhandled) /\ IsFiniteSet(late) /\ ops \in Nat
      /\ \A r \in Resource : ver[r] \in Nat /\ ver[r] + Cardinality(Unhandled) + Cardinality(late) <= ops
  BY TypeFacts, Versions, BoundsAssumption DEF IndInv, Counted, TypeOK
<1>2. CASE late' = late
  <2>1. /\ IsFiniteSet(Unhandled') /\ Cardinality(Unhandled') <= Cardinality(Unhandled)
        /\ Cardinality(Unhandled) \in Nat /\ Cardinality(Unhandled') \in Nat /\ Cardinality(late) \in Nat
    BY <1>1, FS_Subset, FS_CardinalityType
  <2>2. \A r \in Resource : ver[r] + Cardinality(Unhandled') + Cardinality(late) <= ops
    BY <1>1, <2>1
  <2>. QED BY <1>1, <1>2, <2>1, <2>2 DEF Counted
<1>3. CASE s \in Unhandled /\ \E l \in Late : late' = late \cup {l}
  <2>1. PICK l \in Late : late' = late \cup {l}
    BY <1>3
  <2>2. /\ IsFiniteSet(Unhandled') /\ Cardinality(Unhandled') = Cardinality(Unhandled) - 1
        /\ Cardinality(Unhandled) \in Nat
    BY <1>1, <1>3, FS_RemoveElement, FS_CardinalityType
  <2>3. CASE l \in late
    <3>1. late' = late
      BY <2>1, <2>3
    <3>. QED BY <1>2, <3>1
  <2>4. CASE l \notin late
    <3>1. IsFiniteSet(late') /\ Cardinality(late') = Cardinality(late) + 1 /\ Cardinality(late) \in Nat
      BY <1>1, <2>1, <2>4, FS_AddElement, FS_CardinalityType
    <3>2. \A r \in Resource : ver[r] + Cardinality(Unhandled') + Cardinality(late') <= ops
      BY <1>1, <2>2, <3>1
    <3>. QED BY <2>2, <3>1, <3>2 DEF Counted
  <2>. QED BY <2>3, <2>4
<1>. QED BY <1>2, <1>3

-----------------------------------------------------------------------------
(* The developer changes what is displayed *)

\* Loads start in slots that were free, the last one with what is selected now.
LEMMA TurnOK ==
    ASSUME IndInv, view' \in View, chosen' \in [UserTab -> Filter \cup {None}],
           shown' \in [Resource -> 0..MaxOps \cup {None}],
           \A r \in Resource : shown'[r] # None => shown'[r] = shown[r],
           listed' \in [List -> [page : Page, filter : Filter \cup {None}] \cup {None}],
           Turn, UNCHANGED <<ver, bindings, late, bound, ops, fails, failed, disorder, wanted, belated>>,
           SlotsOK(act', cache', ahead'), CopiesFresh(act, cache) => CopiesFresh(act', cache'),
           NEW l \in Slot, act'[l].pc = "load", act'[l].view = view',
           \A t \in Slot :
              \/ act'[t] = act[t]
              \/ /\ act[t].pc = "idle" /\ act'[t].pc = "load" /\ act'[t].view.tab = view'.tab
                 /\ act'[t].view.filter = view'.filter \/ (ahead'[t] = Loads /\ t \in ahead'[l])
    PROVE  IndInv'
<1>. USE DEF Under
<1>1. TypeOK'
  <2>1. TypeOK
    BY DEF IndInv
  <2>2. turns' \in 0..MaxTurns
    BY <2>1, BoundsAssumption DEF TypeOK, Turn
  <2>3. hurried' \in BOOLEAN
    BY DEF Turn
  <2>4. cache' \in [Cached -> Cache] /\ act' \in [Slot -> Act] /\ ahead' \in [Slot -> SUBSET Slot]
    BY DEF SlotsOK
  <2>. QED BY <2>1, <2>2, <2>3, <2>4 DEF TypeOK
<1>2. SlotsOK(act, cache, ahead)'
  BY SlotsNext
<1>3. Unhandled' = Unhandled
  BY DEF Unhandled
<1>4. Counted' /\ DisplayOK'
  BY <1>3 DEF IndInv, Counted, DisplayOK
<1>5. l \in Loads'
  BY DEF Loads, Loading
<1>6. PagesFit'
  BY <1>5 DEF PagesFit
<1>7. ASSUME ~hurried'
      PROVE  /\ ~hurried /\ Loads = {}
             /\ \A t \in Slot : /\ act'[t].pc \in {"idle", "load"}
                                /\ act'[t].pc = "load" => /\ act'[t].view.tab = view'.tab
                                                          /\ act'[t].view.filter = view'.filter
                                                             \/ (ahead'[t] = {} /\ t \in ahead'[l])
             /\ \A t \in Slot, pc \in SUBSET Under : ~Editing(t, pc)
  <2>1. ~hurried /\ Quiet
    BY <1>7 DEF Turn, IndInv, TypeOK
  <2>2. Loads = {} /\ \A t \in Slot, pc \in SUBSET Under : ~Editing(t, pc)
    BY <2>1, AtRest
  <2>3. \A t \in Slot : act[t].pc = "idle"
    BY <2>1 DEF Quiet, Free
  <2>. QED BY <2>1, <2>2, <2>3
<1>8. OfTheTab'
  BY <1>7 DEF OfTheTab
<1>9. FirstIsOld'
  BY <1>5, <1>7 DEF FirstIsOld, Loads, Loading
<1>10. FilterFits'
  BY <1>5 DEF FilterFits
<1>11. EditAlone'
  BY <1>7 DEF EditAlone, Editing
<1>12. StoredIsWanted'
  <2>1. ~hurried' /\ ~belated' => Stored = wanted
    BY <1>7 DEF IndInv, StoredIsWanted
  <2>. QED BY <2>1 DEF StoredIsWanted, Stored
<1>13. CopiesOK'
  <2>1. ~hurried' /\ ~belated' => CopiesFresh(act, cache)
    BY <1>7 DEF IndInv, CopiesOK
  <2>. QED BY <2>1, CopiesNext DEF CopiesOK
<1>14. BoundIsWanted'
  BY <1>5 DEF BoundIsWanted
<1>. QED BY <1>1, <1>2, <1>4, <1>6, <1>8, <1>9, <1>10, <1>11, <1>12, <1>13, <1>14 DEF IndInv

LEMMA MachineIs == Machine = [act |-> act, cache |-> cache, ahead |-> ahead]
BY DEF Machine

\* The effect of one turn: the slot holds a load of what is selected.
LEMMA EffectStep ==
    ASSUME IndInv, NEW s \in Slot, NEW v \in View, LoadEffect(s, v)
    PROVE  /\ SlotsOK(act', cache', ahead') /\ (CopiesFresh(act, cache) => CopiesFresh(act', cache'))
           /\ act[s].pc = "idle" /\ act'[s].pc = "load" /\ act'[s].view = v
           /\ \A t \in Slot : t # s => act'[t] = act[t]
<1>. DEFINE n == Load([act |-> act, cache |-> cache, ahead |-> ahead], s, [Idle EXCEPT !.view = v], FALSE)
<1>1. History /\ SlotsOK(act, cache, ahead) /\ act[s].pc = "idle"
  BY TypeFacts DEF IndInv, LoadEffect, Free
<1>2. act' = n.act /\ cache' = n.cache /\ ahead' = n.ahead
  BY MachineIs DEF LoadEffect, Proceed
<1>3. SlotsOK(n.act, n.cache, n.ahead) /\ Started(n, act, cache, ahead, s, v)
  BY <1>1, EffectOK
<1>. HIDE DEF n
<1>. QED BY <1>1, <1>2, <1>3 DEF Started

LEMMA LogsOnly == "logs" \in Resource => "logs" \in List
BY DEF Resource, Cached, List

LEMMA ChangePageOK == ASSUME IndInv, NEW s \in Slot, NEW p \in Page, ChangePage(s, p) PROVE IndInv'
<1>1. view' \in View
  <2>1. CurrentList \in List
    <3>1. view.tab = "logs" => Fetched(view) = Needs["logs"]
      BY DEF Fetched
    <3>2. view.tab = "logs" /\ "logs" \in Fetched(view) => "logs" \in List
      BY <3>1, NeedsFacts, LogsOnly DEF IndInv, TypeOK, View
    <3>. QED BY <3>2, Names DEF ChangePage, CurrentList
  <2>2. view \in View /\ view' = [view EXCEPT !.page[CurrentList] = p]
    BY DEF ChangePage, IndInv, TypeOK
  <2>. QED BY <2>1, <2>2 DEF View
<1>2. LoadEffect(s, view') /\ Turn
  BY DEF ChangePage
<1>3. /\ SlotsOK(act', cache', ahead') /\ (CopiesFresh(act, cache) => CopiesFresh(act', cache'))
      /\ act[s].pc = "idle" /\ act'[s].pc = "load" /\ act'[s].view = view'
      /\ \A t \in Slot : t # s => act'[t] = act[t]
  BY <1>1, <1>2, EffectStep
<1>4. UNCHANGED <<ver, bindings, late, bound, ops, fails, failed, disorder, wanted, belated, chosen, shown,
                 listed>>
  BY DEF ChangePage
<1>5. /\ chosen' \in [UserTab -> Filter \cup {None}] /\ shown' \in [Resource -> 0..MaxOps \cup {None}]
      /\ listed' \in [List -> [page : Page, filter : Filter \cup {None}] \cup {None}]
  BY <1>4 DEF IndInv, TypeOK
<1>. QED BY <1>1, <1>2, <1>3, <1>4, <1>5, TurnOK

LEMMA EmptyListOK ==
    ASSUME IndInv, EmptyList
    PROVE  /\ shown' \in [Resource -> 0..MaxOps \cup {None}]
           /\ \A r \in Resource : shown'[r] # None => shown'[r] = shown[r]
           /\ listed' \in [List -> [page : Page, filter : Filter \cup {None}] \cup {None}]
BY DEF IndInv, TypeOK, EmptyList

LEMMA FilteredOK ==
    ASSUME NEW v \in View, NEW f \in Filter \cup {None}
    PROVE  Filtered(v, f) \in View /\ Filtered(v, f).filter = f /\ Filtered(v, f).tab = v.tab
BY Names, PageAssumption DEF Filtered, View

LEMMA ChangeFilterOK ==
    ASSUME IndInv, NEW s \in Slot, NEW f \in Filter \cup {None}, ChangeFilter(s, f)
    PROVE  IndInv'
<1>1. view' \in View
  BY FilteredOK DEF ChangeFilter, IndInv, TypeOK
<1>2. LoadEffect(s, view') /\ Turn /\ EmptyList
  BY DEF ChangeFilter
<1>3. /\ SlotsOK(act', cache', ahead') /\ (CopiesFresh(act, cache) => CopiesFresh(act', cache'))
      /\ act[s].pc = "idle" /\ act'[s].pc = "load" /\ act'[s].view = view'
      /\ \A t \in Slot : t # s => act'[t] = act[t]
  BY <1>1, <1>2, EffectStep
<1>4. UNCHANGED <<ver, bindings, late, bound, ops, fails, failed, disorder, wanted, belated>>
  BY DEF ChangeFilter
<1>5. chosen' \in [UserTab -> Filter \cup {None}]
  BY DEF ChangeFilter, IndInv, TypeOK
<1>. QED BY <1>1, <1>2, <1>3, <1>4, <1>5, EmptyListOK, TurnOK

\* The effect of the controller loads with the old filter, the one of UserAccess with the new.
LEMMA ChangeTabOK ==
    ASSUME IndInv, NEW s \in Slot, NEW t \in Slot, NEW tab \in Tab, ChangeTab(s, t, tab)
    PROVE  IndInv'
<1>. DEFINE old == [view EXCEPT !.tab = tab]
            new == IF tab \in UserTab THEN Filtered(old, chosen[tab]) ELSE old
            m == Load([act |-> act, cache |-> cache, ahead |-> ahead], s, [Idle EXCEPT !.view = old], FALSE)
            n == Load([act |-> m.act, cache |-> m.cache, ahead |-> m.ahead], t, [Idle EXCEPT !.view = new], FALSE)
<1>1. view \in View /\ chosen \in [UserTab -> Filter \cup {None}]
  BY DEF IndInv, TypeOK
<1>2. old \in View /\ old.tab = tab
  BY <1>1 DEF View
<1>. HIDE DEF old
<1>3. new \in View /\ new.tab = tab
  BY <1>1, <1>2, FilteredOK
<1>4. /\ s # t /\ act[s].pc = "idle" /\ act[t].pc = "idle" /\ view' = new /\ Turn
      /\ IF tab \in UserTab THEN EmptyList ELSE UNCHANGED <<shown, listed>>
      /\ UNCHANGED <<ver, bindings, late, chosen, bound, ops, fails, failed, disorder, wanted, belated>>
  BY DEF ChangeTab, Free, old
<1>. HIDE DEF new
<1>5. History /\ SlotsOK(act, cache, ahead)
  BY TypeFacts DEF IndInv
<1>6. /\ SlotsOK(m.act, m.cache, m.ahead) /\ Started(m, act, cache, ahead, s, old)
      /\ m = [act |-> m.act, cache |-> m.cache, ahead |-> m.ahead]
  BY <1>2, <1>4, <1>5, EffectOK
<1>7. Proceed(IF new = old THEN m ELSE n)
  BY <1>6, MachineIs DEF ChangeTab, old, new
<1>. HIDE DEF m
<1>8. /\ shown' \in [Resource -> 0..MaxOps \cup {None}]
      /\ \A r \in Resource : shown'[r] # None => shown'[r] = shown[r]
      /\ listed' \in [List -> [page : Page, filter : Filter \cup {None}] \cup {None}]
      /\ chosen' \in [UserTab -> Filter \cup {None}]
  <2>1. CASE EmptyList
    BY <1>1, <1>4, <2>1, EmptyListOK
  <2>2. CASE UNCHANGED <<shown, listed>>
    BY <1>4, <2>2 DEF IndInv, TypeOK
  <2>. QED BY <1>4, <2>1, <2>2
<1>9. CASE new = old
  <2>1. act' = m.act /\ cache' = m.cache /\ ahead' = m.ahead
    BY <1>7, <1>9 DEF Proceed
  <2>2. /\ SlotsOK(act', cache', ahead') /\ (CopiesFresh(act, cache) => CopiesFresh(act', cache'))
        /\ act'[s].pc = "load" /\ act'[s].view = view' /\ \A u \in Slot : u # s => act'[u] = act[u]
    BY <1>4, <1>6, <1>9, <2>1 DEF Started
  <2>. QED BY <1>3, <1>4, <1>8, <2>2, TurnOK
<1>10. CASE new # old
  <2>1. act' = n.act /\ cache' = n.cache /\ ahead' = n.ahead
    BY <1>7, <1>10 DEF Proceed
  <2>2. m.act[t].pc = "idle"
    BY <1>4, <1>6 DEF Started
  <2>3. SlotsOK(n.act, n.cache, n.ahead) /\ Started(n, m.act, m.cache, m.ahead, t, new)
    BY <1>3, <1>5, <1>6, <2>2, EffectOK
  <2>. HIDE DEF n
  <2>4. SlotsOK(act', cache', ahead') /\ (CopiesFresh(act, cache) => CopiesFresh(act', cache'))
    BY <1>6, <2>1, <2>3 DEF Started
  <2>5. act'[t].pc = "load" /\ act'[t].view = view'
    BY <1>4, <2>1, <2>3 DEF Started
  <2>6. /\ act'[s].pc = "load" /\ act'[s].view = old /\ ahead'[s] = Loads /\ s \in ahead'[t]
        /\ \A u \in Slot : u # s /\ u # t => act'[u] = act[u]
    BY <1>4, <1>6, <2>1, <2>3 DEF Started, Loads
  <2>7. \A u \in Slot :
              \/ act'[u] = act[u]
              \/ /\ act[u].pc = "idle" /\ act'[u].pc = "load" /\ act'[u].view.tab = view'.tab
                 /\ act'[u].view.filter = view'.filter \/ (ahead'[u] = Loads /\ u \in ahead'[t])
    BY <1>2, <1>3, <1>4, <2>5, <2>6
  <2>. QED BY <1>3, <1>4, <1>8, <2>4, <2>5, <2>7, TurnOK
<1>. QED BY <1>9, <1>10

-----------------------------------------------------------------------------
(* The operations *)

\* What a click leaves: one more request on its way, and nothing else that runs.
LEMMA SendOK ==
    ASSUME IndInv, NEW s \in Slot, NEW W, NEW groups \in SUBSET Group, Send(s, W, groups),
           UNCHANGED <<ver, late, cache, ahead>>
    PROVE  /\ SlotsOK(act, cache, ahead)' /\ Counted' /\ Loads' = Loads
           /\ act' \in [Slot -> Act] /\ ops' \in 0..MaxOps
           /\ act[s].pc = "idle" /\ \A t \in Slot : t # s => act'[t] = act[t]
           /\ act'[s].pc = "write" /\ act'[s].view = view /\ act'[s].bound = groups
           /\ act'[s].writes = W \cap Resource
           /\ CopiesFresh(act, cache) => CopiesFresh(act', cache')
<1>. DEFINE y == [Idle EXCEPT !.pc = "write", !.view = view, !.bound = groups, !.writes = W \cap Resource]
<1>1. /\ act \in [Slot -> Act] /\ view \in View /\ ops \in 0..MaxOps
      /\ SlotsOK(act, cache, ahead) /\ ver \in [Resource -> 0..MaxOps]
  BY DEF IndInv, TypeOK
<1>2. act[s].pc = "idle" /\ ops < MaxOps /\ ops' = ops + 1 /\ act' = [act EXCEPT ![s] = y]
  BY DEF Send, Free
<1>3. /\ y \in Act /\ y.pc = "write" /\ y.view = view /\ y.bound = groups /\ y.writes = W \cap Resource
      /\ y.get = Idle.get
  BY <1>1, IdleFacts DEF Act
<1>4. \A r \in Resource : y.get[r].st = "none" /\ y.get[r].v = 0
  BY <1>3, IdleFacts
<1>. HIDE DEF y
<1>5. act' \in [Slot -> Act] /\ act'[s] = y /\ \A t \in Slot : t # s => act'[t] = act[t]
  BY <1>1, <1>2, <1>3
<1>6. Loading(act') = Loading(act)
  BY <1>2, <1>3, <1>5 DEF Loading
<1>7. ActOK(y, s)
  <2>1. \A r \in Resource : ver[r] \in Nat
    BY <1>1, BoundsAssumption
  <2>. QED BY <1>3, <1>4, <2>1 DEF ActOK, Asks
<1>8. SlotsOK(act', cache', ahead')
  <2>1. \A t \in Slot : ActOK(act'[t], t)
    BY <1>1, <1>5, <1>7 DEF SlotsOK
  <2>2. ASSUME NEW r \in Cached, cache[r].inflight # None
        PROVE  cache[r].inflight \in Slot /\ act'[cache[r].inflight] = act[cache[r].inflight]
    <3>1. cache[r].inflight \in Slot /\ r \in Resource
      BY <1>1, <2>2, Names DEF SlotsOK, Cache
    <3>2. act[cache[r].inflight].get[r].st = "sent"
      BY <1>1, <2>2 DEF SlotsOK
    <3>3. act[s].get[r].st = "none"
      BY <1>1, <1>2, <3>1, NothingAsked
    <3>. QED BY <1>5, <3>1, <3>2, <3>3
  <2>. QED BY <1>1, <1>5, <1>6, <2>1, <2>2 DEF SlotsOK
<1>9. Counted'
  <2>1. Unhandled' = Unhandled \cup {s} /\ s \notin Unhandled
    BY <1>2, <1>3, <1>5 DEF Unhandled
  <2>2. /\ IsFiniteSet(Unhandled) /\ IsFiniteSet(late)
        /\ \A r \in Resource : ver[r] + Cardinality(Unhandled) + Cardinality(late) <= ops
    BY DEF IndInv, Counted
  <2>3. IsFiniteSet(Unhandled') /\ Cardinality(Unhandled') = Cardinality(Unhandled) + 1
    BY <2>1, <2>2, FS_AddElement
  <2>4. \A r \in Resource : ver[r] \in Nat
    BY <1>1, BoundsAssumption
  <2>5. Cardinality(Unhandled) \in Nat /\ Cardinality(late) \in Nat
    BY <2>2, FS_CardinalityType
  <2>6. \A r \in Resource : ver'[r] + Cardinality(Unhandled') + Cardinality(late) <= ops'
    BY <1>1, <1>2, <2>2, <2>3, <2>4, <2>5, BoundsAssumption
  <2>. QED BY <2>2, <2>3, <2>6 DEF Counted
<1>10. ops' \in 0..MaxOps
  BY <1>1, <1>2, BoundsAssumption
<1>11. CopiesFresh(act, cache) => CopiesFresh(act', cache')
  <2>1. y.get["accessApps"].st = "none"
    BY <1>4, Names
  <2>. QED BY <1>5, <2>1 DEF CopiesFresh
<1>. QED BY <1>2, <1>3, <1>5, <1>6, <1>8, <1>9, <1>10, <1>11, SlotsNext DEF Loads

\* On the tab of the applications only the bindings are changed.
LEMMA OperateTab == \A op \in Operation : "apps" \notin op.on
BY DEF Operation, CreateApp, EditApp, ResetSecret, DeleteApp, DeleteSelectedAuditLogs, CreateGroup,
       UpdateGroup, DeleteGroup, UpdateManagedUserGroups, BatchUpdateManagedUserGroups, BanAppUser,
       UnbanAppUser, DeleteSelectedAccessLogs, UserTab

LEMMA OperateOK ==
    ASSUME IndInv, NEW s \in Slot, NEW op \in Operation, Operate(s, op)
    PROVE  IndInv'
<1>1. /\ view.tab \in op.on /\ Send(s, op.writes, {})
      /\ UNCHANGED <<ver, bindings, late, view, chosen, shown, listed, bound, cache, ahead, turns, fails,
                     failed, hurried, disorder, wanted, belated>>
  BY DEF Operate
<1>2. /\ SlotsOK(act, cache, ahead)' /\ Counted' /\ Loads' = Loads
      /\ act' \in [Slot -> Act] /\ ops' \in 0..MaxOps
      /\ act[s].pc = "idle" /\ \A t \in Slot : t # s => act'[t] = act[t]
      /\ act'[s].pc = "write" /\ act'[s].view = view
      /\ CopiesFresh(act, cache) => CopiesFresh(act', cache')
  BY <1>1, SendOK
<1>3. view.tab # "apps"
  BY <1>1, OperateTab
<1>4. s \notin Loads /\ \A t \in Loads : act'[t] = act[t]
  BY <1>2 DEF Loads, Loading
<1>5. TypeOK'
  BY <1>1, <1>2 DEF IndInv, TypeOK
<1>6. DisplayOK'
  BY <1>1 DEF IndInv, DisplayOK
<1>7. PagesFit'
  BY <1>1, <1>2, <1>4 DEF IndInv, PagesFit
<1>8. OfTheTab'
  BY <1>1, <1>2 DEF IndInv, OfTheTab
<1>9. FirstIsOld'
  BY <1>1, <1>2, <1>4 DEF IndInv, FirstIsOld
<1>10. FilterFits'
  BY <1>1, <1>2 DEF IndInv, FilterFits
<1>11. \A t \in Slot, pc \in SUBSET Under : Editing(t, pc)' => Editing(t, pc)
  BY <1>2, <1>3 DEF Editing, Rebinds
<1>12. EditAlone'
  <2>1. ~hurried => \A t \in Slot : ~Editing(t, Under)
    BY <1>3 DEF IndInv, OfTheTab, Editing, Rebinds
  <2>. QED BY <1>1, <1>11, <2>1 DEF EditAlone
<1>13. \A t \in Slot, pc \in SUBSET Under : Editing(t, pc) => Editing(t, pc)'
  BY <1>2 DEF Editing, Rebinds, Under
<1>14. StoredIsWanted'
  BY <1>1, <1>13 DEF IndInv, StoredIsWanted, Stored, Under
<1>15. CopiesOK'
  BY <1>1, <1>2, <1>13, CopiesNext DEF IndInv, CopiesOK, Under
<1>16. BoundIsWanted'
  BY <1>1, <1>3 DEF BoundIsWanted
<1>. QED BY <1>2, <1>5, <1>6, <1>7, <1>8, <1>9, <1>10, <1>12, <1>14, <1>15, <1>16 DEF IndInv

LEMMA UpdateAppBindingsOK ==
    ASSUME IndInv, NEW s \in Slot, NEW g \in Group, UpdateAppBindings(s, g)
    PROVE  IndInv'
<1>1. /\ view.tab = "apps" /\ shown["accessApps"] # None
      /\ Send(s, {"accessApps", "users", "logs"}, Toggle(bound, g))
      /\ bound' = Toggle(bound, g) /\ wanted' = Toggle(wanted, g)
      /\ hurried' = (hurried \/ failed \/ ~Quiet)
      /\ UNCHANGED <<ver, bindings, late, view, chosen, shown, listed, cache, ahead, turns, fails, failed, disorder,
                     belated>>
  BY DEF UpdateAppBindings
<1>2. Toggle(bound, g) \in SUBSET Group /\ Toggle(wanted, g) \in SUBSET Group
  BY DEF Toggle, IndInv, TypeOK
<1>3. /\ SlotsOK(act, cache, ahead)' /\ Counted' /\ Loads' = Loads
      /\ act' \in [Slot -> Act] /\ ops' \in 0..MaxOps
      /\ act[s].pc = "idle" /\ \A t \in Slot : t # s => act'[t] = act[t]
      /\ act'[s].pc = "write" /\ act'[s].view = view /\ act'[s].bound = Toggle(bound, g)
      /\ act'[s].writes = {"accessApps", "users", "logs"} \cap Resource
      /\ CopiesFresh(act, cache) => CopiesFresh(act', cache')
  BY <1>1, <1>2, SendOK
<1>4. s \notin Loads /\ \A t \in Loads : act'[t] = act[t]
  BY <1>3 DEF Loads, Loading
<1>5. TypeOK'
  <2>1. hurried' \in BOOLEAN
    BY <1>1
  <2>. QED BY <1>1, <1>2, <1>3, <2>1 DEF IndInv, TypeOK
<1>6. DisplayOK'
  BY <1>1 DEF IndInv, DisplayOK
<1>7. PagesFit'
  BY <1>1, <1>3, <1>4 DEF IndInv, PagesFit
<1>8. ~hurried' => ~hurried /\ ~failed /\ Quiet
  BY <1>1
<1>9. OfTheTab'
  BY <1>1, <1>3, <1>8 DEF IndInv, OfTheTab
<1>10. FirstIsOld'
  BY <1>1, <1>3, <1>4, <1>8 DEF IndInv, FirstIsOld
<1>11. FilterFits'
  BY <1>1, <1>3, <1>8 DEF IndInv, FilterFits
<1>12. ASSUME ~hurried'
       PROVE  /\ \A t \in Slot : t # s => act'[t].pc = "idle"
              /\ ~belated => CopiesFresh(act, cache) /\ bound = wanted
  <2>1. Quiet /\ ~hurried /\ ~failed
    BY <1>8, <1>12
  <2>2. Loads = {} /\ \A t \in Slot, pc \in SUBSET Under : ~Editing(t, pc)
    BY <2>1, AtRest
  <2>3. \A t \in Slot : t # s => act'[t].pc = "idle"
    BY <1>3, <2>1 DEF Quiet, Free
  <2>4. ~belated => CopiesFresh(act, cache)
    BY <2>1, <2>2 DEF IndInv, CopiesOK, Under
  <2>5. ~belated => bound = wanted
    BY <1>1, <2>1, <2>2 DEF IndInv, BoundIsWanted
  <2>. QED BY <2>3, <2>4, <2>5
<1>13. Editing(s, {"write"})'
  BY <1>1, <1>3, Names DEF Editing, Rebinds
<1>14. EditAlone'
  BY <1>1, <1>3, <1>12 DEF EditAlone, Editing, Under
<1>15. StoredIsWanted'
  BY <1>13 DEF StoredIsWanted
<1>16. CopiesOK'
  BY <1>1, <1>3, <1>12, CopiesNext DEF CopiesOK
<1>17. BoundIsWanted'
  BY <1>1, <1>12 DEF BoundIsWanted
<1>. QED BY <1>3, <1>5, <1>6, <1>7, <1>9, <1>10, <1>11, <1>14, <1>15, <1>16, <1>17 DEF IndInv

\* An edit made without haste is the only one as long as anything else runs.
LEMMA OnlyEdit ==
    ASSUME IndInv, ~hurried, NEW s \in Slot, act[s].pc # "idle"
    PROVE  \A t \in Slot, pc \in SUBSET Under : Editing(t, pc) => t = s
BY DEF IndInv, EditAlone, Editing, Under

\* The version the server makes of a copy that was up to date is that copy.
LEMMA FreshGrows ==
    ASSUME History, NEW v \in Nat, Fresh(v), v <= ver["accessApps"],
           \/ ver'["accessApps"] = ver["accessApps"] + 1 /\ bindings' = Append(bindings, Stored)
           \/ ver'["accessApps"] = ver["accessApps"] /\ bindings' = bindings
    PROVE  Fresh(v)'
<1>1. "accessApps" \in Resource
  BY Names
<1>2. ver["accessApps"] \in Nat /\ Len(bindings) = ver["accessApps"] + 1 /\ bindings \in Seq(SUBSET Group)
  BY <1>1, Versions DEF History
<1>3. CASE ver'["accessApps"] = ver["accessApps"] /\ bindings' = bindings
  BY <1>3 DEF Fresh, Stored
<1>4. CASE ver'["accessApps"] = ver["accessApps"] + 1 /\ bindings' = Append(bindings, Stored)
  <2>1. Stored \in SUBSET Group
    BY FreshNow
  <2>2. /\ Len(bindings') = ver["accessApps"] + 2 /\ bindings'[Len(bindings')] = Stored
        /\ \A i \in 1..Len(bindings) : bindings'[i] = bindings[i]
    BY <1>2, <1>4, <2>1
  <2>3. ASSUME NEW w \in v..ver'["accessApps"]
        PROVE  bindings'[w + 1] = bindings'[Len(bindings')]
    <3>1. CASE w = ver["accessApps"] + 1
      BY <1>2, <2>2, <3>1
    <3>2. CASE w # ver["accessApps"] + 1
      <4>1. w \in v..ver["accessApps"] /\ w + 1 \in 1..Len(bindings)
        BY <1>2, <1>4, <2>3, <3>2
      <4>. QED BY <2>2, <4>1 DEF Fresh
    <3>. QED BY <3>1, <3>2
  <2>. QED BY <2>3 DEF Fresh, Stored
<1>. QED BY <1>3, <1>4

LEMMA HandleOK == ASSUME IndInv, NEW s \in Slot, Handle(s) PROVE IndInv'
<1>. DEFINE y == [act[s] EXCEPT !.pc = "written", !.wrote = ver']
<1>1. /\ act[s].pc = "write"
      /\ ver' = [r \in Resource |-> IF r \in act[s].writes THEN ver[r] + 1 ELSE ver[r]]
      /\ bindings' = IF Rebinds(s) THEN Append(bindings, act[s].bound)
                     ELSE IF "accessApps" \in act[s].writes THEN Append(bindings, Stored) ELSE bindings
      /\ UNCHANGED <<late, view, chosen, shown, listed, bound, cache, ahead, turns, ops, fails, failed,
                     hurried, disorder, wanted, belated>>
  BY DEF Handle, Write, Rebinds, Stored
<1>2. /\ TypeOK /\ SlotsOK(act, cache, ahead) /\ act \in [Slot -> Act] /\ act[s] \in Act
      /\ History /\ ops \in 0..MaxOps
  BY TypeFacts DEF IndInv, TypeOK
<1>3. \A r \in Resource : ver[r] \in Nat /\ ver'[r] \in {ver[r], ver[r] + 1}
  BY <1>1, <1>2, Versions
<1>4. Counted' /\ \A r \in Resource : ver'[r] <= ops
  <2>1. s \in Unhandled
    BY <1>1 DEF Unhandled
  <2>2. Unhandled' = Unhandled \ {s}
    BY <1>2 DEF Unhandled, Handle
  <2>3. /\ IsFiniteSet(Unhandled) /\ IsFiniteSet(late)
        /\ \A r \in Resource : ver[r] + Cardinality(Unhandled) + Cardinality(late) <= ops
    BY DEF IndInv, Counted
  <2>4. IsFiniteSet(Unhandled') /\ Cardinality(Unhandled') = Cardinality(Unhandled) - 1
    BY <2>1, <2>2, <2>3, FS_RemoveElement
  <2>5. Cardinality(Unhandled) \in Nat /\ Cardinality(Unhandled') \in Nat /\ Cardinality(late) \in Nat
    BY <2>3, <2>4, FS_CardinalityType
  <2>6. \A r \in Resource : /\ ver'[r] + Cardinality(Unhandled') + Cardinality(late) <= ops
                            /\ ver'[r] <= ops
    BY <1>2, <1>3, <2>3, <2>4, <2>5, BoundsAssumption
  <2>. QED BY <1>1, <2>3, <2>4, <2>6 DEF Counted
<1>5. ver' \in [Resource -> 0..MaxOps]
  <2>1. \A r \in Resource : ver'[r] \in 0..MaxOps
    BY <1>2, <1>3, <1>4, BoundsAssumption
  <2>. QED BY <1>1, <2>1
<1>6. /\ y \in Act /\ y.pc = "written" /\ y.wrote = ver' /\ y.view = act[s].view
      /\ y.writes = act[s].writes /\ y.bound = act[s].bound /\ y.get = act[s].get
  BY <1>2, <1>5 DEF Act
<1>7. act' \in [Slot -> Act] /\ act'[s] = y /\ \A t \in Slot : t # s => act'[t] = act[t]
  BY <1>2, <1>6 DEF Handle
<1>. HIDE DEF y
<1>8. Loading(act') = Loading(act) /\ s \notin Loads /\ \A t \in Loads : act'[t] = act[t]
  BY <1>1, <1>6, <1>7 DEF Loads, Loading
<1>9. \A r \in Resource : act[s].get[r].st = "none" /\ y.get[r] = act[s].get[r]
  BY <1>1, <1>2, <1>6, NothingAsked
<1>10. SlotsOK(act, cache, ahead)'
  <2>1. ASSUME NEW t \in Slot, t # s
        PROVE  ActOK(act[t], t)'
    <3>1. ActOK(act[t], t) /\ act'[t] = act[t] /\ act[t] \in Act
      BY <1>2, <1>7, <2>1 DEF SlotsOK
    <3>2. \A r \in Resource : act[t].get[r].v \in Nat /\ act[t].wrote[r] \in Nat
      BY <3>1, BoundsAssumption DEF Act, Get
    <3>3. \A r \in Resource : act[t].get[r].v <= ver'[r]
      BY <1>3, <3>1, <3>2 DEF ActOK
    <3>4. act[t].pc \in {"written", "load", "members"} => \A r \in act[t].writes : act[t].wrote[r] <= ver'[r]
      <4>1. act[t].writes \subseteq Resource
        BY <3>1 DEF Act
      <4>. QED BY <1>3, <3>1, <3>2, <4>1 DEF ActOK
    <3>. QED BY <3>1, <3>3, <3>4 DEF ActOK
  <2>2. ActOK(act[s], s)'
    <3>1. \A r \in Resource : act[s].get[r].v <= ver'[r]
      <4>1. \A r \in Resource : act[s].get[r].v \in Nat /\ act[s].get[r].v <= ver[r]
        BY <1>2 DEF SlotsOK, ActOK, Act, Get
      <4>. QED BY <1>3, <4>1
    <3>2. y.writes \subseteq Resource /\ \A r \in Resource : ver'[r] <= ver'[r]
      BY <1>2, <1>3, <1>6 DEF Act
    <3>. QED BY <1>6, <1>7, <1>9, <3>1, <3>2 DEF ActOK, Asks
  <2>3. ASSUME NEW r \in Cached
        PROVE  /\ cache[r].value # None => cache[r].value <= ver'[r]
               /\ cache[r].inflight # None =>
                     LET g == act'[cache[r].inflight].get[r] IN g.st = "sent" /\ g.of = cache[r].inflight
    <3>1. r \in Resource /\ cache[r] \in Cache
      BY <1>2, Names DEF SlotsOK
    <3>2. cache[r].value # None => cache[r].value \in Nat /\ cache[r].value <= ver[r]
      BY <1>2, <3>1, BoundsAssumption DEF SlotsOK, Cache
    <3>3. cache[r].value # None => cache[r].value <= ver'[r]
      BY <1>3, <3>1, <3>2
    <3>4. cache[r].inflight # None => cache[r].inflight \in Slot
      BY <3>1 DEF Cache
    <3>5. cache[r].inflight # None => act'[cache[r].inflight].get[r] = act[cache[r].inflight].get[r]
      BY <1>6, <1>7, <3>4
    <3>. QED BY <1>2, <3>3, <3>5 DEF SlotsOK
  <2>4. \A t \in Slot : ActOK(act[t], t)'
    BY <2>1, <2>2
  <2>. QED BY <1>1, <1>2, <1>7, <1>8, <2>3, <2>4 DEF SlotsOK
<1>11. /\ "accessApps" \in Resource /\ act[s].bound \in SUBSET Group /\ Stored \in SUBSET Group
       /\ act[s].writes \subseteq Resource
  BY <1>2, FreshNow, Names DEF Act
<1>12. bindings' \in Seq(SUBSET Group) /\ Len(bindings') = ver'["accessApps"] + 1
  <2>1. bindings \in Seq(SUBSET Group) /\ Len(bindings) = ver["accessApps"] + 1
    BY <1>2 DEF History
  <2>2. CASE "accessApps" \in act[s].writes
    <3>1. PICK b \in SUBSET Group : bindings' = Append(bindings, b)
      BY <1>1, <1>11, <2>2 DEF Rebinds
    <3>. QED BY <1>1, <1>3, <1>11, <2>1, <2>2, <3>1
  <2>3. CASE "accessApps" \notin act[s].writes
    BY <1>1, <1>11, <2>1, <2>3 DEF Rebinds
  <2>. QED BY <2>2, <2>3
<1>13. TypeOK'
  BY <1>1, <1>2, <1>5, <1>7, <1>12 DEF TypeOK
<1>14. DisplayOK'
  <2>1. \A r \in Resource : shown[r] # None => shown[r] \in Nat /\ shown[r] <= ver[r]
    BY <1>2, BoundsAssumption DEF IndInv, DisplayOK, TypeOK
  <2>. QED BY <1>1, <1>3, <2>1 DEF DisplayOK
<1>15. Loads' = Loads
  BY <1>8 DEF Loads
<1>16. PagesFit'
  BY <1>1, <1>8, <1>15 DEF IndInv, PagesFit
<1>17. OfTheTab'
  BY <1>1, <1>6, <1>7 DEF IndInv, OfTheTab, Under
<1>18. FirstIsOld'
  BY <1>1, <1>8, <1>15 DEF IndInv, FirstIsOld
<1>19. FilterFits'
  BY <1>1, <1>15 DEF IndInv, FilterFits
<1>20. /\ \A t \in Slot, pc \in SUBSET Under : t # s => (Editing(t, pc)' <=> Editing(t, pc))
       /\ Rebinds(s)' <=> Rebinds(s)
       /\ act'[s].pc = "written"
  BY <1>6, <1>7 DEF Editing, Rebinds
<1>21. EditAlone'
  <2>1. ASSUME ~hurried, NEW t \in Slot, Editing(t, Under)'
        PROVE  t = s /\ \A u \in Slot : u # t => act'[u].pc = "idle"
    <3>1. Editing(t, Under)
      BY <1>1, <1>20, <2>1 DEF Editing, Under
    <3>2. t = s
      BY <1>1, <2>1, <3>1, OnlyEdit
    <3>. QED BY <1>7, <2>1, <3>1, <3>2 DEF IndInv, EditAlone
  <2>. QED BY <1>1, <1>20, <2>1 DEF EditAlone
<1>22. StoredIsWanted'
  <2>. SUFFICES ASSUME ~hurried', ~belated', \A t \in Slot : ~Editing(t, {"write"})'
                PROVE  Stored' = wanted
    BY <1>1 DEF StoredIsWanted
  <2>1. ~hurried /\ ~belated
    BY <1>1
  <2>2. CASE Rebinds(s)
    <3>1. Editing(s, Under)
      BY <1>1, <2>2 DEF Editing, Under
    <3>2. act[s].bound = wanted
      BY <1>1, <2>1, <3>1 DEF IndInv, EditAlone
    <3>. QED BY <1>1, <1>2, <1>11, <2>2, <3>2 DEF Stored, History
  <2>3. CASE ~Rebinds(s)
    <3>1. \A t \in Slot : ~Editing(t, {"write"})
      BY <1>20, <2>3 DEF Editing, Under
    <3>2. Stored = wanted
      BY <2>1, <3>1 DEF IndInv, StoredIsWanted
    <3>3. Stored' = Stored
      BY <1>1, <1>2, <1>11, <2>3 DEF Stored, History
    <3>. QED BY <3>2, <3>3
  <2>. QED BY <2>2, <2>3
<1>23. CopiesOK'
  <2>. SUFFICES ASSUME ~hurried', ~belated', \A t \in Slot : ~Editing(t, {"written"})'
                PROVE  CopiesFresh(act, cache)'
    BY DEF CopiesOK
  <2>1. ~Rebinds(s)
    BY <1>20 DEF Editing
  <2>2. \A t \in Slot : ~Editing(t, {"written"})
    BY <1>1, <1>20 DEF Editing, Under
  <2>3. CopiesFresh(act, cache)
    BY <1>1, <2>2 DEF IndInv, CopiesOK
  <2>4. ASSUME NEW v \in Nat, v <= ver["accessApps"], Fresh(v)
        PROVE  Fresh(v)'
    <3>1. \/ ver'["accessApps"] = ver["accessApps"] + 1 /\ bindings' = Append(bindings, Stored)
          \/ ver'["accessApps"] = ver["accessApps"] /\ bindings' = bindings
      BY <1>1, <1>11, <2>1
    <3>. QED BY <1>2, <2>4, <3>1, FreshGrows
  <2>5. cache'["accessApps"].value # None => Fresh(cache["accessApps"].value)'
    <3>1. "accessApps" \in Cached /\ cache["accessApps"] \in Cache
      BY <1>2, Names DEF SlotsOK
    <3>2. cache["accessApps"].value # None =>
            cache["accessApps"].value \in Nat /\ cache["accessApps"].value <= ver["accessApps"]
      BY <1>2, <3>1, BoundsAssumption DEF SlotsOK, Cache
    <3>. QED BY <1>1, <2>3, <2>4, <3>2 DEF CopiesFresh
  <2>6. ASSUME NEW t \in Slot, act'[t].get["accessApps"].st = "done"
                               \/ (act'[t].get["accessApps"].st = "sent" /\ act'[t].get["accessApps"].of = t)
        PROVE  Fresh(act[t].get["accessApps"].v)'
    <3>1. act'[t].get["accessApps"] = act[t].get["accessApps"]
      BY <1>6, <1>7
    <3>2. act[t].get["accessApps"].v \in Nat /\ act[t].get["accessApps"].v <= ver["accessApps"]
      BY <1>2, <1>11 DEF SlotsOK, ActOK, Act, Get
    <3>3. Fresh(act[t].get["accessApps"].v)
      BY <2>3, <2>6, <3>1 DEF CopiesFresh
    <3>4. Fresh(act[t].get["accessApps"].v) =>
            \A w \in act[t].get["accessApps"].v..ver'["accessApps"] : bindings'[w + 1] = Stored'
      BY <2>4, <3>2 DEF Fresh
    <3>. QED BY <3>1, <3>3, <3>4 DEF Fresh
  <2>. QED BY <2>5, <2>6 DEF CopiesFresh
<1>24. BoundIsWanted'
  BY <1>1, <1>8, <1>15 DEF IndInv, BoundIsWanted
<1>. QED BY <1>4, <1>10, <1>13, <1>14, <1>16, <1>17, <1>18, <1>19, <1>21, <1>22, <1>23, <1>24 DEF IndInv

\* What was true of the slots and the caches is true of later versions.
LEMMA SlotsLater ==
    ASSUME TypeOK, SlotsOK(act, cache, ahead), ver' \in [Resource -> 0..MaxOps],
           \A r \in Resource : ver'[r] \in {ver[r], ver[r] + 1}, UNCHANGED <<act, cache, ahead>>
    PROVE  SlotsOK(act, cache, ahead)'
<1>1. \A r \in Resource : ver[r] \in Nat
  BY TypeFacts, Versions
<1>2. ASSUME NEW t \in Slot
      PROVE  ActOK(act[t], t)'
  <2>1. ActOK(act[t], t) /\ act[t] \in Act
    BY DEF SlotsOK
  <2>2. /\ \A r \in Resource : act[t].get[r].v \in Nat /\ act[t].wrote[r] \in Nat
        /\ act[t].writes \subseteq Resource
    BY <2>1, BoundsAssumption DEF Act, Get
  <2>3. \A r \in Resource : act[t].get[r].v <= ver'[r]
    BY <1>1, <2>1, <2>2 DEF ActOK
  <2>4. act[t].pc \in {"written", "load", "members"} => \A r \in act[t].writes : act[t].wrote[r] <= ver'[r]
    BY <1>1, <2>1, <2>2 DEF ActOK
  <2>. QED BY <2>1, <2>3, <2>4 DEF ActOK
<1>3. ASSUME NEW r \in Cached, cache[r].value # None
      PROVE  cache[r].value <= ver'[r]
  <2>1. r \in Resource /\ cache[r] \in Cache
    BY Names DEF SlotsOK
  <2>2. cache[r].value \in Nat /\ cache[r].value <= ver[r]
    BY <1>3, <2>1, BoundsAssumption DEF SlotsOK, Cache
  <2>. QED BY <1>1, <2>1, <2>2
<1>. QED BY <1>2, <1>3 DEF SlotsOK

\* And of the copies, when the set stored stays what it was.
LEMMA CopiesLater ==
    ASSUME TypeOK, SlotsOK(act, cache, ahead), CopiesFresh(act, cache), UNCHANGED <<act, cache>>,
           \/ ver'["accessApps"] = ver["accessApps"] + 1 /\ bindings' = Append(bindings, Stored)
           \/ ver'["accessApps"] = ver["accessApps"] /\ bindings' = bindings
    PROVE  CopiesFresh(act, cache)'
<1>1. "accessApps" \in Cached /\ "accessApps" \in Resource
  BY Names
<1>2. ASSUME NEW v \in Nat, v <= ver["accessApps"], Fresh(v)
      PROVE  Fresh(v)'
  BY <1>2, TypeFacts, FreshGrows
<1>3. cache["accessApps"].value # None => Fresh(cache["accessApps"].value)'
  <2>1. cache["accessApps"] \in Cache
    BY <1>1 DEF SlotsOK
  <2>2. cache["accessApps"].value # None =>
           cache["accessApps"].value \in Nat /\ cache["accessApps"].value <= ver["accessApps"]
    BY <1>1, <2>1, BoundsAssumption DEF SlotsOK, Cache
  <2>. QED BY <1>2, <2>2 DEF CopiesFresh
<1>4. ASSUME NEW t \in Slot, act[t].get["accessApps"].st = "done"
                             \/ (act[t].get["accessApps"].st = "sent" /\ act[t].get["accessApps"].of = t)
      PROVE  Fresh(act[t].get["accessApps"].v)'
  <2>1. act[t].get["accessApps"].v \in Nat /\ act[t].get["accessApps"].v <= ver["accessApps"]
    BY <1>1 DEF SlotsOK, ActOK, Act, Get
  <2>. QED BY <1>2, <1>4, <2>1 DEF CopiesFresh
<1>. QED BY <1>3, <1>4 DEF CopiesFresh

\* A late write: only one of the bindings disturbs what the page relies on.
LEMMA HandleLateOK == ASSUME IndInv, NEW l \in late, HandleLate(l) PROVE IndInv'
<1>1. /\ ver' = [r \in Resource |-> IF r \in l.writes THEN ver[r] + 1 ELSE ver[r]]
      /\ bindings' = IF "accessApps" \notin l.writes THEN bindings
                     ELSE Append(bindings, IF l.rebinds THEN l.bound ELSE Stored)
      /\ late' = late \ {l} /\ belated' = (belated \/ l.rebinds)
      /\ UNCHANGED <<view, chosen, shown, listed, bound, cache, act, ahead, turns, ops, fails, failed,
                     hurried, disorder, wanted>>
  BY DEF HandleLate, Write, Stored
<1>2. /\ TypeOK /\ SlotsOK(act, cache, ahead) /\ History /\ ops \in 0..MaxOps
      /\ l \in Late /\ l.bound \in SUBSET Group /\ l.rebinds \in BOOLEAN /\ late \subseteq Late
  BY TypeFacts DEF IndInv, TypeOK, Late
<1>3. \A r \in Resource : ver[r] \in Nat /\ ver'[r] \in {ver[r], ver[r] + 1}
  BY <1>1, <1>2, Versions
<1>4. Counted' /\ \A r \in Resource : ver'[r] <= ops
  <2>1. Unhandled' = Unhandled
    BY <1>1 DEF Unhandled
  <2>2. /\ IsFiniteSet(Unhandled) /\ IsFiniteSet(late)
        /\ \A r \in Resource : ver[r] + Cardinality(Unhandled) + Cardinality(late) <= ops
    BY DEF IndInv, Counted
  <2>3. /\ IsFiniteSet(late') /\ Cardinality(late') = Cardinality(late) - 1
        /\ Cardinality(Unhandled) \in Nat /\ Cardinality(late) \in Nat /\ Cardinality(late') \in Nat
    BY <1>1, <2>2, FS_RemoveElement, FS_CardinalityType
  <2>4. \A r \in Resource : /\ ver'[r] + Cardinality(Unhandled) + Cardinality(late') <= ops
                            /\ ver'[r] <= ops
    BY <1>2, <1>3, <2>2, <2>3, BoundsAssumption
  <2>. QED BY <1>1, <2>1, <2>2, <2>3, <2>4 DEF Counted
<1>5. ver' \in [Resource -> 0..MaxOps]
  <2>1. \A r \in Resource : ver'[r] \in 0..MaxOps
    BY <1>2, <1>3, <1>4, BoundsAssumption
  <2>. QED BY <1>1, <2>1
<1>6. "accessApps" \in Resource /\ Stored \in SUBSET Group
  BY <1>2, FreshNow, Names
<1>7. bindings' \in Seq(SUBSET Group) /\ Len(bindings') = ver'["accessApps"] + 1
  <2>1. bindings \in Seq(SUBSET Group) /\ Len(bindings) = ver["accessApps"] + 1
    BY <1>2 DEF History
  <2>2. (IF l.rebinds THEN l.bound ELSE Stored) \in SUBSET Group
    BY <1>2, <1>6
  <2>. QED BY <1>1, <1>3, <1>6, <2>1, <2>2
<1>8. TypeOK'
  <2>1. late' \subseteq Late /\ belated' \in BOOLEAN
    BY <1>1, <1>2
  <2>. QED BY <1>1, <1>2, <1>5, <1>7, <2>1 DEF TypeOK
<1>9. SlotsOK(act, cache, ahead)'
  BY <1>1, <1>2, <1>3, <1>5, SlotsLater
<1>10. DisplayOK'
  <2>1. \A r \in Resource : shown[r] # None => shown[r] \in Nat /\ shown[r] <= ver[r]
    BY <1>2, BoundsAssumption DEF IndInv, DisplayOK, TypeOK
  <2>. QED BY <1>1, <1>3, <2>1 DEF DisplayOK
<1>11. Loads' = Loads /\ \A t \in Slot, pc \in SUBSET Under : Editing(t, pc)' <=> Editing(t, pc)
  BY <1>1 DEF Loads, Loading, Editing, Rebinds
<1>12. PagesFit' /\ FirstIsOld' /\ FilterFits'
  BY <1>1, <1>11 DEF IndInv, PagesFit, FirstIsOld, FilterFits
<1>13. OfTheTab' /\ EditAlone'
  BY <1>1, <1>11 DEF IndInv, OfTheTab, EditAlone, Under
<1>14. ~belated' => ~belated /\ ~l.rebinds
  BY <1>1
<1>15. StoredIsWanted'
  <2>1. ~belated' => Stored' = Stored
    BY <1>1, <1>2, <1>6, <1>14 DEF Stored, History
  <2>. QED BY <1>1, <1>11, <1>14, <2>1 DEF IndInv, StoredIsWanted, Under
<1>16. CopiesOK'
  <2>. SUFFICES ASSUME ~hurried', ~belated', \A t \in Slot : ~Editing(t, {"written"})'
                PROVE  CopiesFresh(act, cache)'
    BY DEF CopiesOK
  <2>1. CopiesFresh(act, cache)
    BY <1>1, <1>11, <1>14 DEF IndInv, CopiesOK, Under
  <2>2. \/ ver'["accessApps"] = ver["accessApps"] + 1 /\ bindings' = Append(bindings, Stored)
        \/ ver'["accessApps"] = ver["accessApps"] /\ bindings' = bindings
    BY <1>1, <1>6, <1>14
  <2>. QED BY <1>1, <1>2, <2>1, <2>2, CopiesLater
<1>17. BoundIsWanted'
  BY <1>1, <1>11, <1>14 DEF IndInv, BoundIsWanted
<1>. QED BY <1>4, <1>8, <1>9, <1>10, <1>12, <1>13, <1>15, <1>16, <1>17 DEF IndInv

\* The load that follows an operation, after an answer and after a failure alike.
LEMMA ForcedLoadOK ==
    ASSUME IndInv, NEW s \in Slot, act[s].pc \in Under, NEW x \in Act, x.view = act[s].view,
           x.writes = {} \/ (x = act[s] /\ act[s].pc = "written"),
           Proceed(Load(Machine, s, x, TRUE)),
           UNCHANGED <<ver, bindings, view, chosen, shown, listed, bound, turns, ops, failed, hurried, disorder,
                       belated>>,
           fails' \in 0..MaxFails, late' \subseteq Late,
           late' = late \/ (s \in Unhandled /\ \E l \in Late : late' = late \cup {l}),
           (act[s].pc = "written" /\ wanted' = wanted) \/ (Rebinds(s) /\ wanted' = Stored)
    PROVE  IndInv'
<1>. DEFINE n == Load([act |-> act, cache |-> cache, ahead |-> ahead], s, x, TRUE)
<1>1. TypeOK /\ History /\ SlotsOK(act, cache, ahead) /\ act[s] \in Act /\ view \in View
  BY TypeFacts DEF IndInv, TypeOK
<1>2. \A r \in Resource : act[s].get[r].st = "none"
  BY <1>1, NothingAsked DEF Under
<1>3. s \notin Loading(act)
  BY DEF Loading, Under
<1>4. \A r \in x.writes : x.wrote[r] <= ver[r]
  BY <1>1 DEF SlotsOK, ActOK
<1>5. /\ SlotsOK(n.act, n.cache, n.ahead) /\ Started(n, act, cache, ahead, s, x.view)
      /\ "accessApps" \in Needs[x.view.tab]
         /\ (\A t \in Slot : t # s => act[t].get["accessApps"].st = "none") => CopiesFresh(n.act, n.cache)
  BY <1>1, <1>2, <1>3, <1>4, LoadOK
<1>6. act' = n.act /\ cache' = n.cache /\ ahead' = n.ahead
  BY MachineIs DEF Proceed
<1>. HIDE DEF n
<1>7. SlotsOK(act', cache', ahead')
  BY <1>5, <1>6
<1>8. /\ \A t \in Slot : t # s => act'[t] = act[t] /\ ahead'[t] = ahead[t]
      /\ act'[s].pc = "load" /\ act'[s].view = act[s].view /\ Loads' = Loads \cup {s}
  BY <1>5, <1>6 DEF Started, Loads
<1>9. s \notin Loads /\ \A t \in Loads : act'[t] = act[t] /\ ahead'[t] = ahead[t]
  BY <1>3, <1>8 DEF Loads, Loading
<1>10. wanted' \subseteq Group
  BY <1>1, FreshNow DEF TypeOK
<1>11. TypeOK'
  <2>1. cache' \in [Cached -> Cache] /\ act' \in [Slot -> Act] /\ ahead' \in [Slot -> SUBSET Slot]
    BY <1>7 DEF SlotsOK
  <2>. QED BY <1>1, <1>10, <2>1 DEF TypeOK
<1>12. SlotsOK(act, cache, ahead)'
  BY <1>7, SlotsNext
<1>13. Counted'
  <2>1. Unhandled' = Unhandled \ {s}
    BY <1>8 DEF Unhandled
  <2>. QED BY <2>1, CountedLess
<1>14. DisplayOK'
  BY DEF IndInv, DisplayOK
<1>15. PagesFit'
  BY <1>8, <1>9 DEF IndInv, PagesFit
<1>16. ~hurried => act[s].view.tab = view.tab /\ act[s].view.filter = view.filter
  BY DEF IndInv, OfTheTab
<1>17. OfTheTab'
  BY <1>8, <1>16 DEF IndInv, OfTheTab, Under
<1>18. FirstIsOld'
  <2>. SUFFICES ASSUME ~hurried, ~disorder, NEW t \in Loads', act'[t].view.filter # view.filter
                PROVE  ahead'[t] = {} /\ \E u \in Loads' : t \in ahead'[u]
    BY DEF FirstIsOld
  <2>1. t # s
    BY <1>8, <1>16
  <2>2. t \in Loads /\ act[t].view.filter # view.filter
    BY <1>8, <1>9, <2>1
  <2>3. ahead[t] = {} /\ \E u \in Loads : t \in ahead[u]
    BY <2>2 DEF IndInv, FirstIsOld
  <2>. QED BY <1>8, <1>9, <2>2, <2>3
<1>19. FilterFits'
  BY <1>8 DEF FilterFits
<1>20. ~hurried => \A t \in Slot, pc \in SUBSET Under : ~Editing(t, pc)'
  <2>. SUFFICES ASSUME ~hurried, NEW t \in Slot, NEW pc \in SUBSET Under, Editing(t, pc)'
                PROVE  FALSE
    OBVIOUS
  <2>1. t # s
    BY <1>8 DEF Editing, Under
  <2>2. Editing(t, pc)
    BY <1>8, <2>1 DEF Editing, Rebinds
  <2>3. act[s].pc # "idle"
    BY DEF Under
  <2>. QED BY <2>1, <2>2, <2>3, OnlyEdit
<1>21. EditAlone'
  BY <1>20 DEF EditAlone, Under
<1>22. StoredIsWanted'
  <2>1. CASE Rebinds(s) /\ wanted' = Stored
    BY <2>1 DEF StoredIsWanted, Stored
  <2>2. CASE act[s].pc = "written" /\ wanted' = wanted
    <3>1. \A t \in Slot : Editing(t, {"write"}) => Editing(t, {"write"})'
      BY <1>8, <2>2 DEF Editing, Rebinds
    <3>. QED BY <2>2, <3>1 DEF IndInv, StoredIsWanted, Stored
  <2>. QED BY <2>1, <2>2
<1>23. CopiesOK'
  <2>. SUFFICES ASSUME ~hurried, ~belated
                PROVE  CopiesFresh(act', cache')
    BY CopiesNext DEF CopiesOK
  <2>1. CASE Rebinds(s)
    <3>1. act[s].view.tab = "apps" /\ "apps" \in Tab
      BY <1>1, <2>1 DEF Rebinds, Act, View
    <3>2. Editing(s, Under)
      BY <2>1 DEF Editing
    <3>3. \A t \in Slot : t # s => act[t].pc = "idle"
      BY <3>2 DEF IndInv, EditAlone
    <3>4. \A t \in Slot : t # s => act[t].get["accessApps"].st = "none"
      BY <1>1, <3>3, NothingAsked, Names
    <3>. QED BY <1>5, <1>6, <3>1, <3>4, NeedsFacts
  <2>2. CASE ~Rebinds(s)
    <3>1. \A t \in Slot : ~Editing(t, {"written"})
      <4>1. act[s].pc # "idle" /\ {"written"} \in SUBSET Under
        BY DEF Under
      <4>. QED BY <2>2, <4>1, OnlyEdit DEF Editing
    <3>2. CopiesFresh(act, cache)
      BY <3>1 DEF IndInv, CopiesOK
    <3>. QED BY <1>5, <1>6, <3>2 DEF Started
  <2>. QED BY <2>1, <2>2
<1>24. BoundIsWanted'
  <2>1. CASE Rebinds(s)
    BY <1>8, <2>1 DEF BoundIsWanted, Rebinds
  <2>2. CASE wanted' = wanted
    BY <1>8, <1>9, <2>2 DEF IndInv, BoundIsWanted
  <2>. QED BY <2>1, <2>2
<1>. QED BY <1>11, <1>12, <1>13, <1>14, <1>15, <1>17, <1>18, <1>19, <1>21, <1>22, <1>23, <1>24 DEF IndInv

LEMMA ReloadOK == ASSUME IndInv, NEW s \in Slot, Reload(s) PROVE IndInv'
<1>1. act[s].pc = "written" /\ act[s] \in Act /\ fails \in 0..MaxFails /\ late \subseteq Late
  BY DEF Reload, IndInv, TypeOK
<1>2. /\ Proceed(Load(Machine, s, act[s], TRUE))
      /\ UNCHANGED <<ver, bindings, late, view, chosen, shown, listed, bound, turns, ops, failed, hurried, disorder,
                     fails, wanted, belated>>
  BY DEF Reload
<1>3. act[s].pc \in Under
  BY <1>1 DEF Under
<1>. QED BY <1>1, <1>2, <1>3, ForcedLoadOK

LEMMA OperationFailsOK == ASSUME IndInv, NEW s \in Slot, OperationFails(s) PROVE IndInv'
<1>1. /\ act[s].pc \in Under /\ fails < MaxFails /\ fails' = fails + 1
      /\ UNCHANGED <<ver, bindings, view, chosen, shown, listed, bound, turns, ops, failed, hurried, disorder,
                     belated>>
  BY DEF OperationFails, GiveUp, Under
<1>2. TypeOK /\ SlotsOK(act, cache, ahead) /\ act \in [Slot -> Act] /\ act[s] \in Act
  BY DEF IndInv, TypeOK
<1>3. fails' \in 0..MaxFails /\ fails' \in 1..MaxFails
  BY <1>1, <1>2, BoundsAssumption DEF TypeOK
<1>0. /\ late' \subseteq Late
      /\ late' = late \/ (s \in Unhandled /\ \E l \in Late : late' = late \cup {l})
  <2>. DEFINE l == [n |-> fails', writes |-> act[s].writes, rebinds |-> Rebinds(s), bound |-> act[s].bound]
  <2>1. l \in Late
    BY <1>2, <1>3 DEF Late, Act, Rebinds
  <2>2. late' = IF act[s].pc = "written" THEN late ELSE late \cup {l}
    BY DEF OperationFails, GiveUp
  <2>. HIDE DEF l
  <2>3. act[s].pc # "written" => s \in Unhandled
    BY <1>1 DEF Under, Unhandled
  <2>. QED BY <1>2, <2>1, <2>2, <2>3 DEF TypeOK
<1>4. CASE Rebinds(s)
  <2>1. Proceed(Load(Machine, s, [act[s] EXCEPT !.writes = {}], TRUE)) /\ wanted' = Stored
    BY <1>4 DEF OperationFails, Stored
  <2>2. /\ [act[s] EXCEPT !.writes = {}] \in Act /\ [act[s] EXCEPT !.writes = {}].view = act[s].view
        /\ [act[s] EXCEPT !.writes = {}].writes = {}
    BY <1>2 DEF Act
  <2>. QED BY <1>0, <1>1, <1>3, <1>4, <2>1, <2>2, ForcedLoadOK
<1>5. CASE ~Rebinds(s)
  <2>1. act' = [act EXCEPT ![s] = Idle] /\ UNCHANGED <<cache, ahead, wanted, belated>>
    BY <1>5 DEF OperationFails
  <2>2. /\ act' \in [Slot -> Act] /\ act'[s] = Idle /\ Idle.pc = "idle"
        /\ \A t \in Slot : t # s => act'[t] = act[t]
    BY <1>2, <2>1, IdleFacts
  <2>3. Loading(act') = Loading(act) /\ s \notin Loads /\ Loads' = Loads /\ \A t \in Loads : act'[t] = act[t]
    BY <1>1, <2>2 DEF Loads, Loading, Under
  <2>4. SlotsOK(act', cache', ahead')
    <3>1. ActOK(Idle, s)
      <4>1. \A r \in Resource : ver[r] \in Nat
        BY <1>2, TypeFacts, Versions
      <4>. QED BY <4>1, IdleFacts DEF ActOK, Asks
    <3>2. \A t \in Slot : ActOK(act'[t], t)
      BY <1>2, <2>2, <3>1 DEF SlotsOK
    <3>3. ASSUME NEW r \in Cached, cache[r].inflight # None
          PROVE  cache[r].inflight \in Slot /\ act'[cache[r].inflight] = act[cache[r].inflight]
      <4>1. cache[r].inflight \in Slot /\ r \in Resource
        BY <1>2, <3>3, Names DEF SlotsOK, Cache
      <4>2. act[cache[r].inflight].get[r].st = "sent"
        BY <1>2, <3>3 DEF SlotsOK
      <4>3. act[s].get[r].st = "none"
        BY <1>1, <1>2, <4>1, NothingAsked DEF Under
      <4>. QED BY <2>2, <4>1, <4>2, <4>3
    <3>4. \A r \in Cached :
            /\ cache[r].value # None => cache[r].value <= ver[r]
            /\ cache[r].inflight # None =>
                  LET g == act'[cache[r].inflight].get[r] IN g.st = "sent" /\ g.of = cache[r].inflight
      BY <1>2, <3>3 DEF SlotsOK
    <3>5. /\ \A t \in Loading(act') : ahead[t] \subseteq Loading(act')
          /\ \A t, u \in Loading(act') : t # u => t \in ahead[u] \/ u \in ahead[t]
      BY <1>2, <2>3 DEF SlotsOK
    <3>6. cache \in [Cached -> Cache] /\ ahead \in [Slot -> SUBSET Slot]
      BY <1>2 DEF SlotsOK
    <3>. QED BY <2>1, <2>2, <3>2, <3>4, <3>5, <3>6 DEF SlotsOK
  <2>5. SlotsOK(act, cache, ahead)'
    BY <1>1, <2>4, SlotsNext
  <2>6. TypeOK'
    BY <1>0, <1>1, <1>2, <1>3, <2>1, <2>2 DEF TypeOK
  <2>7. Counted'
    <3>1. Unhandled' = Unhandled \ {s}
      BY <2>2 DEF Unhandled
    <3>. QED BY <1>0, <1>1, <3>1, CountedLess
  <2>8. DisplayOK'
    BY <1>1 DEF IndInv, DisplayOK
  <2>9. PagesFit'
    BY <1>1, <2>3 DEF IndInv, PagesFit
  <2>10. OfTheTab'
    BY <1>1, <2>2 DEF IndInv, OfTheTab, Under
  <2>11. FirstIsOld'
    BY <1>1, <2>1, <2>3 DEF IndInv, FirstIsOld
  <2>12. FilterFits'
    BY <1>1, <2>3 DEF IndInv, FilterFits
  <2>13. \A t \in Slot, pc \in SUBSET Under : Editing(t, pc)' <=> Editing(t, pc)
    BY <1>5, <2>2 DEF Editing, Rebinds, Under
  <2>14. EditAlone'
    <3>1. ~hurried => \A t \in Slot : ~Editing(t, Under)
      <4>1. act[s].pc # "idle"
        BY <1>1 DEF Under
      <4>. QED BY <1>5, <4>1, OnlyEdit DEF Editing
    <3>. QED BY <1>1, <2>13, <3>1 DEF EditAlone
  <2>15. StoredIsWanted'
    BY <1>1, <2>1, <2>13 DEF IndInv, StoredIsWanted, Stored, Under
  <2>16. CopiesOK'
    <3>1. Idle.get["accessApps"].st = "none"
      BY IdleFacts, Names
    <3>2. CopiesFresh(act, cache) => CopiesFresh(act', cache')
      BY <2>1, <2>2, <3>1 DEF CopiesFresh
    <3>. QED BY <1>1, <2>13, <3>2, CopiesNext DEF IndInv, CopiesOK, Under
  <2>17. BoundIsWanted'
    BY <1>1, <2>1, <2>3 DEF IndInv, BoundIsWanted
  <2>. QED BY <2>5, <2>6, <2>7, <2>8, <2>9, <2>10, <2>11, <2>12, <2>14, <2>15, <2>16, <2>17 DEF IndInv
<1>. QED BY <1>4, <1>5

-----------------------------------------------------------------------------
(* The answers of the loads *)

\* y is x but for the requests; Idle when it had nothing left but them.
Alike(y, x) ==
    y.pc = x.pc /\ y.view = x.view /\ y.writes = x.writes /\ y.wrote = x.wrote /\ y.bound = x.bound

LEMMA PutGet ==
    ASSUME NEW x \in Act, NEW r \in Resource, NEW g \in Get
    PROVE  LET y == [x EXCEPT !.get[r] = g] IN
           y \in Act /\ Alike(y, x) /\ \A q \in Resource : y.get[q] = IF q = r THEN g ELSE x.get[q]
<1>1. [x.get EXCEPT ![r] = g] \in [Resource -> Get]
  BY DEF Act
<1>2. [x EXCEPT !.get[r] = g] = [x EXCEPT !.get = [x.get EXCEPT ![r] = g]]
  BY DEF Act
<1>3. LET y == [x EXCEPT !.get = [x.get EXCEPT ![r] = g]] IN
      y \in Act /\ Alike(y, x) /\ y.get = [x.get EXCEPT ![r] = g]
  BY <1>1 DEF Act, Alike
<1>4. \A q \in Resource : [x.get EXCEPT ![r] = g][q] = IF q = r THEN g ELSE x.get[q]
  BY DEF Act
<1>. QED BY <1>2, <1>3, <1>4

\* Draining turns slots into idle ones and leaves the others as they are.
LEMMA DrainedIs ==
    ASSUME NEW a \in [Slot -> Act]
    PROVE  /\ Drained(a) \in [Slot -> Act]
           /\ \A t \in Slot : \/ Drained(a)[t] = a[t]
                              \/ /\ Drained(a)[t] = Idle /\ a[t].pc = "drain"
                                 /\ \A q \in Resource : a[t].get[q].st # "sent"
BY IdleFacts DEF Drained

LEMMA AnswerShape ==
    ASSUME IndInv, NEW s \in Slot, NEW r \in Resource, NEW v \in act[s].get[r].v..ver[r], Answer(s, r, v)
    PROVE  /\ v \in Nat /\ act[s].get[r].v \in Nat /\ act[s].get[r].v <= v /\ v <= ver[r] /\ v \in 0..MaxOps
           /\ Sends(s, r) /\ act' \in [Slot -> Act]
           /\ \A t \in Slot :
                 \/ /\ act'[t] = Idle /\ act[t].pc = "drain"
                    /\ \A q \in Resource : q # r => act[t].get[q].st # "sent"
                 \/ /\ Alike(act'[t], act[t])
                    /\ \A q \in Resource : act'[t].get[q] = IF q = r /\ Awaits(t, s, r)
                                                            THEN [st |-> "done", v |-> v, of |-> NoGet.of]
                                                            ELSE act[t].get[q]
<1>. DEFINE got == [NoGet EXCEPT !.st = "done", !.v = v]
            g == [t \in Slot |-> IF Awaits(t, s, r) THEN [act[t] EXCEPT !.get[r] = got] ELSE act[t]]
<1>1. act \in [Slot -> Act] /\ ver[r] \in 0..MaxOps
  BY DEF IndInv, TypeOK
<1>2. act[s].get[r].v \in Nat
  BY <1>1 DEF Act, Get
<1>3. v \in Nat /\ act[s].get[r].v <= v /\ v <= ver[r] /\ v \in 0..MaxOps
  BY <1>1, <1>2, BoundsAssumption
<1>4. got = [st |-> "done", v |-> v, of |-> NoGet.of] /\ got \in Get
  <2>1. got = [st |-> "done", v |-> v, of |-> NoGet.of]
    BY <1>3, IdleFacts, GetExcept
  <2>2. NoGet.of \in Slot
    BY IdleFacts DEF Get
  <2>. QED BY <1>3, <2>1, <2>2 DEF Get
<1>5. act' = Drained(g) /\ Sends(s, r)
  BY DEF Answer
<1>. HIDE DEF got
<1>6. ASSUME NEW t \in Slot
      PROVE  /\ g[t] \in Act /\ Alike(g[t], act[t])
             /\ \A q \in Resource : g[t].get[q] = IF q = r /\ Awaits(t, s, r) THEN got ELSE act[t].get[q]
  <2>1. CASE Awaits(t, s, r)
    <3>1. g[t] = [act[t] EXCEPT !.get[r] = got] /\ act[t] \in Act
      BY <1>1, <2>1
    <3>. HIDE DEF g
    <3>. QED BY <1>4, <2>1, <3>1, PutGet
  <2>2. CASE ~Awaits(t, s, r)
    <3>1. g[t] = act[t] /\ act[t] \in Act
      BY <1>1, <2>2
    <3>. HIDE DEF g
    <3>. QED BY <2>2, <3>1 DEF Alike
  <2>. QED BY <2>1, <2>2
<1>7. g \in [Slot -> Act]
  BY <1>6
<1>. HIDE DEF g
<1>8. act' \in [Slot -> Act]
  BY <1>5, <1>7, DrainedIs
<1>9. ASSUME NEW t \in Slot
      PROVE  \/ /\ act'[t] = Idle /\ act[t].pc = "drain"
                /\ \A q \in Resource : q # r => act[t].get[q].st # "sent"
             \/ /\ Alike(act'[t], act[t])
                /\ \A q \in Resource : act'[t].get[q] = IF q = r /\ Awaits(t, s, r) THEN got ELSE act[t].get[q]
  <2>1. CASE act'[t] = g[t]
    BY <1>6, <2>1
  <2>2. CASE act'[t] = Idle /\ g[t].pc = "drain" /\ \A q \in Resource : g[t].get[q].st # "sent"
    <3>1. act[t].pc = "drain"
      BY <1>6, <2>2 DEF Alike
    <3>2. \A q \in Resource : q # r => act[t].get[q].st # "sent"
      BY <1>6, <2>2
    <3>. QED BY <2>2, <3>1, <3>2
  <2>. QED BY <1>5, <1>7, <2>1, <2>2, DrainedIs
<1>. QED BY <1>2, <1>3, <1>4, <1>5, <1>8, <1>9

\* An answer leaves a slot as it was, but for its requests; what drains becomes
\* free; the loads of L are given up.
Same(y, x) ==
    /\ y.pc = x.pc \/ {y.pc, x.pc} \subseteq {"load", "members"}
    /\ y.view = x.view /\ y.writes = x.writes /\ y.bound = x.bound
Answered(L) ==
    \A t \in Slot : IF t \in L THEN act'[t].pc \in {"drain", "idle"}
                    ELSE (act[t].pc = "drain" /\ act'[t].pc = "idle") \/ Same(act'[t], act[t])

LEMMA AnsweredOK ==
    ASSUME IndInv, NEW L \in SUBSET Loads, Answered(L),
           UNCHANGED <<ver, bindings, late, view, ops, hurried, wanted, belated>>
    PROVE  /\ Loads' = Loads \ L /\ \A t \in Loads' : act'[t].view = act[t].view
           /\ \A t \in Slot, pc \in SUBSET Under : Editing(t, pc)' <=> Editing(t, pc)
           /\ Counted' /\ OfTheTab' /\ EditAlone' /\ StoredIsWanted'
<1>1. ASSUME NEW t \in Slot
      PROVE  /\ t \in Loads' <=> t \in Loads \ L
             /\ t \in Loads' => act'[t].view = act[t].view
             /\ act'[t].pc \in Under \/ act[t].pc \in Under => Same(act'[t], act[t]) /\ act'[t].pc = act[t].pc
             /\ act[t].pc = "idle" => act'[t].pc = "idle"
  BY DEF Answered, Same, Loads, Loading, Under
<1>2. Loads' = Loads \ L /\ \A t \in Loads' : act'[t].view = act[t].view
  BY <1>1 DEF Loads, Loading
<1>3. \A t \in Slot, pc \in SUBSET Under : Editing(t, pc)' <=> Editing(t, pc)
  BY <1>1 DEF Editing, Rebinds, Same
<1>4. Counted'
  <2>1. Unhandled' = Unhandled
    BY <1>1 DEF Unhandled, Under
  <2>. QED BY <2>1 DEF IndInv, Counted
<1>5. OfTheTab'
  <2>1. \A t \in Slot : act'[t].pc \in Under \cup {"load", "members"} =>
           act'[t].view = act[t].view /\ act[t].pc \in Under \cup {"load", "members"}
    BY <1>1 DEF Loads, Loading, Same
  <2>2. \A t \in Slot : act'[t].pc \in Under => act[t].pc \in Under
    BY <1>1
  <2>. QED BY <2>1, <2>2 DEF IndInv, OfTheTab
<1>6. EditAlone'
  <2>. SUFFICES ASSUME ~hurried, NEW t \in Slot, Editing(t, Under)'
                PROVE  /\ \A u \in Slot : u # t => act'[u].pc = "idle"
                       /\ ~belated /\ act'[t].pc = "write" => act'[t].bound = wanted
    BY DEF EditAlone
  <2>1. Editing(t, Under)
    BY <1>3
  <2>2. Same(act'[t], act[t]) /\ act'[t].pc = act[t].pc
    BY <1>1, <2>1 DEF Editing
  <2>. QED BY <1>1, <2>1, <2>2 DEF IndInv, EditAlone, Same
<1>7. StoredIsWanted'
  BY <1>3 DEF IndInv, StoredIsWanted, Stored, Under
<1>. QED BY <1>2, <1>3, <1>4, <1>5, <1>6, <1>7

LEMMA AnswerOK ==
    ASSUME IndInv, NEW s \in Slot, NEW r \in Resource, NEW v \in act[s].get[r].v..ver[r], Answer(s, r, v)
    PROVE  IndInv'
<1>1. /\ v \in Nat /\ act[s].get[r].v \in Nat /\ act[s].get[r].v <= v /\ v <= ver[r] /\ v \in 0..MaxOps
      /\ Sends(s, r) /\ act' \in [Slot -> Act]
      /\ \A t \in Slot :
            \/ /\ act'[t] = Idle /\ act[t].pc = "drain"
               /\ \A q \in Resource : q # r => act[t].get[q].st # "sent"
            \/ /\ Alike(act'[t], act[t])
               /\ \A q \in Resource : act'[t].get[q] = IF q = r /\ Awaits(t, s, r)
                                                       THEN [st |-> "done", v |-> v, of |-> NoGet.of]
                                                       ELSE act[t].get[q]
  BY AnswerShape
<1>2. /\ cache' = IF r \in Cached THEN [cache EXCEPT ![r] = [value |-> v, inflight |-> None]] ELSE cache
      /\ disorder \in BOOLEAN => disorder' \in BOOLEAN /\ (disorder => disorder')
      /\ UNCHANGED <<ver, bindings, late, view, chosen, shown, listed, bound, ahead, turns, ops, fails,
                     failed, hurried, wanted, belated>>
  BY DEF Answer
<1>3. /\ TypeOK /\ History /\ SlotsOK(act, cache, ahead) /\ act \in [Slot -> Act] /\ disorder \in BOOLEAN
      /\ cache \in [Cached -> Cache]
  BY TypeFacts DEF IndInv, TypeOK
<1>4. Answered({})
  BY <1>1, IdleFacts DEF Answered, Alike, Same
<1>5. /\ Loads' = Loads /\ \A t \in Loads' : act'[t].view = act[t].view
      /\ \A t \in Slot, pc \in SUBSET Under : Editing(t, pc)' <=> Editing(t, pc)
      /\ Counted' /\ OfTheTab' /\ EditAlone' /\ StoredIsWanted'
  <2>1. {} \in SUBSET Loads /\ UNCHANGED <<ver, bindings, late, view, ops, hurried, wanted, belated>>
    BY <1>2
  <2>. QED BY <1>4, <2>1, AnsweredOK
<1>6. cache' \in [Cached -> Cache]
  BY <1>1, <1>2, <1>3 DEF Cache
<1>7. TypeOK'
  BY <1>1, <1>2, <1>3, <1>6 DEF TypeOK
<1>8. SlotsOK(act', cache', ahead')
  <2>1. ASSUME NEW t \in Slot
        PROVE  ActOK(act'[t], t)
    <3>0. ActOK(act[t], t) /\ act[t] \in Act /\ act'[t] \in Act /\ \A q \in Resource : ver[q] \in Nat
      BY <1>1, <1>3, Versions DEF SlotsOK
    <3>1. CASE act'[t] = Idle
      BY <3>0, <3>1, IdleFacts DEF ActOK, Asks
    <3>2. CASE /\ Alike(act'[t], act[t])
               /\ \A q \in Resource : act'[t].get[q] = IF q = r /\ Awaits(t, s, r)
                                                       THEN [st |-> "done", v |-> v, of |-> NoGet.of]
                                                       ELSE act[t].get[q]
      <4>1. /\ act'[t].pc = act[t].pc /\ act'[t].view = act[t].view /\ act'[t].writes = act[t].writes
            /\ act'[t].wrote = act[t].wrote /\ Asks(act'[t]) = Asks(act[t])
        BY <3>2 DEF Alike, Asks
      <4>2. CASE ~Awaits(t, s, r)
        <5>1. \A q \in Resource : act'[t].get[q] = act[t].get[q]
          BY <3>2, <4>2
        <5>2. act[t].writes \subseteq Resource
          BY <3>0 DEF Act
        <5>. QED BY <3>0, <4>1, <5>1, <5>2 DEF ActOK
      <4>3. CASE Awaits(t, s, r)
        <5>1. /\ act'[t].get[r].st = "done" /\ act'[t].get[r].v = v
              /\ \A q \in Resource : q # r => act'[t].get[q] = act[t].get[q]
          BY <3>2, <4>3
        <5>2. act[t].get[r].st = "sent" /\ act[t].get[r].of = s
          BY <4>3 DEF Awaits
        <5>3. act[t].writes \subseteq Resource /\ \A q \in Resource : act[t].wrote[q] \in Nat
          BY <3>0, BoundsAssumption DEF Act
        <5>4. \A q \in Resource : /\ act'[t].get[q].st # "none" <=> act[t].get[q].st # "none"
                                  /\ act'[t].get[q].v <= ver[q]
          BY <1>1, <3>0, <5>1, <5>2 DEF ActOK
        <5>5. ASSUME act[t].pc \in {"written", "load", "members"}, NEW q \in act[t].writes
              PROVE  /\ act[t].wrote[q] <= ver[q]
                     /\ act'[t].get[q].st = "sent" => act'[t].get[q].of = t
                     /\ act'[t].get[q].st # "none" => act'[t].get[q].v >= act[t].wrote[q]
          <6>1. CASE q = r
            <7>1. act[t].get[r].of = t /\ act[t].get[r].v >= act[t].wrote[r] /\ act[t].wrote[r] <= ver[r]
              BY <3>0, <5>2, <5>5, <6>1 DEF ActOK
            <7>2. t = s /\ v >= act[t].wrote[r]
              BY <1>1, <5>2, <5>3, <5>5, <6>1, <7>1
            <7>. QED BY <5>1, <6>1, <7>1, <7>2
          <6>2. CASE q # r
            BY <3>0, <5>1, <5>3, <5>5, <6>2 DEF ActOK
          <6>. QED BY <6>1, <6>2
        <5>. QED BY <3>0, <4>1, <5>4, <5>5 DEF ActOK
      <4>. QED BY <4>2, <4>3
    <3>. QED BY <1>1, <3>1, <3>2
  <2>2. ASSUME NEW q \in Cached
        PROVE  /\ cache'[q].value # None => cache'[q].value <= ver[q]
               /\ cache'[q].inflight # None =>
                     LET g == act'[cache'[q].inflight].get[q] IN g.st = "sent" /\ g.of = cache'[q].inflight
    <3>0. q \in Resource
      BY Names
    <3>1. CASE q = r
      BY <1>1, <1>2, <1>3, <3>1
    <3>2. CASE q # r
      <4>1. cache'[q] = cache[q]
        BY <1>2, <1>3, <3>2
      <4>2. cache[q].inflight # None => cache[q].inflight \in Slot
        BY <1>3 DEF Cache
      <4>3. cache[q].inflight # None => LET g == act[cache[q].inflight].get[q] IN g.st = "sent" /\ g.of = cache[q].inflight
        BY <1>3 DEF SlotsOK
      <4>4. cache[q].inflight # None => act'[cache[q].inflight].get[q] = act[cache[q].inflight].get[q]
        BY <1>1, <3>0, <3>2, <4>2, <4>3
      <4>5. cache[q].value # None => cache[q].value <= ver[q]
        BY <1>3 DEF SlotsOK
      <4>. QED BY <4>1, <4>3, <4>4, <4>5
    <3>. QED BY <3>1, <3>2
  <2>3. /\ \A t \in Loading(act') : ahead[t] \subseteq Loading(act')
        /\ \A t, u \in Loading(act') : t # u => t \in ahead[u] \/ u \in ahead[t]
    BY <1>3, <1>5 DEF SlotsOK, Loads
  <2>. QED BY <1>1, <1>2, <1>3, <1>6, <2>1, <2>2, <2>3 DEF SlotsOK
<1>9. SlotsOK(act, cache, ahead)'
  BY <1>2, <1>8, SlotsNext
<1>10. DisplayOK'
  BY <1>2 DEF IndInv, DisplayOK
<1>11. PagesFit'
  BY <1>2, <1>5 DEF IndInv, PagesFit
<1>12. FirstIsOld'
  BY <1>2, <1>3, <1>5 DEF IndInv, FirstIsOld
<1>13. FilterFits'
  BY <1>2, <1>3, <1>5 DEF IndInv, FilterFits
<1>14. CopiesOK'
  <2>. SUFFICES ASSUME CopiesFresh(act, cache)
                PROVE  CopiesFresh(act', cache')
    BY <1>2, <1>5, CopiesNext DEF IndInv, CopiesOK, Under
  <2>1. r = "accessApps" => Fresh(v)
    <3>1. r = "accessApps" => Fresh(act[s].get["accessApps"].v)
      BY <1>1 DEF CopiesFresh, Sends
    <3>2. r = "accessApps" => ver["accessApps"] \in Nat
      BY <1>3, Versions
    <3>. QED BY <1>1, <3>1, <3>2 DEF Fresh
  <2>2. "accessApps" \in Cached /\ "accessApps" \in Resource
    BY Names
  <2>3. cache'["accessApps"].value # None => Fresh(cache'["accessApps"].value)
    <3>1. CASE r = "accessApps"
      BY <1>2, <1>3, <2>1, <2>2, <3>1
    <3>2. CASE r # "accessApps"
      BY <1>2, <1>3, <2>2, <3>2 DEF CopiesFresh
    <3>. QED BY <3>1, <3>2
  <2>4. ASSUME NEW t \in Slot, LET g == act'[t].get["accessApps"] IN g.st = "done" \/ (g.st = "sent" /\ g.of = t)
        PROVE  Fresh(act'[t].get["accessApps"].v)
    <3>1. act'[t] # Idle
      BY <2>2, <2>4, IdleFacts
    <3>2. CASE r = "accessApps" /\ Awaits(t, s, r)
      BY <1>1, <2>1, <2>2, <3>1, <3>2
    <3>3. CASE ~(r = "accessApps" /\ Awaits(t, s, r))
      <4>1. act'[t].get["accessApps"] = act[t].get["accessApps"]
        BY <1>1, <2>2, <3>1, <3>3
      <4>. QED BY <2>4, <4>1 DEF CopiesFresh
    <3>. QED BY <3>2, <3>3
  <2>. QED BY <2>3, <2>4 DEF CopiesFresh
<1>15. BoundIsWanted'
  BY <1>2, <1>5 DEF IndInv, BoundIsWanted
<1>. QED BY <1>5, <1>7, <1>9, <1>10, <1>11, <1>12, <1>13, <1>14, <1>15 DEF IndInv

LEMMA AbandonedIs ==
    ASSUME NEW x \in Act, NEW t \in Slot
    PROVE  LET y == Abandoned(x, t) IN
           /\ y \in Act /\ y.pc = "drain" /\ y.view = x.view /\ y.writes = x.writes /\ y.bound = x.bound
           /\ \A q \in Resource : y.get[q] = IF x.get[q].st = "sent" /\ x.get[q].of = t THEN x.get[q] ELSE NoGet
<1>. DEFINE get == [q \in Resource |-> IF x.get[q].st = "sent" /\ x.get[q].of = t THEN x.get[q] ELSE NoGet]
<1>1. get \in [Resource -> Get]
  BY IdleFacts DEF Act
<1>2. \A q \in Resource : get[q] = IF x.get[q].st = "sent" /\ x.get[q].of = t THEN x.get[q] ELSE NoGet
  OBVIOUS
<1>3. Abandoned(x, t) = [x EXCEPT !.pc = "drain", !.get = get]
  BY DEF Abandoned
<1>. HIDE DEF get
<1>4. LET y == [x EXCEPT !.pc = "drain", !.get = get] IN
      y \in Act /\ y.pc = "drain" /\ y.view = x.view /\ y.writes = x.writes /\ y.bound = x.bound /\ y.get = get
  BY <1>1 DEF Act
<1>. QED BY <1>2, <1>3, <1>4

Hit(s, r) == {t \in Slot : Awaits(t, s, r)}
Lost(s, r) == Hit(s, r) \cap Loading(act)

LEMMA LoadFailsShape ==
    ASSUME IndInv, NEW s \in Slot, NEW r \in Resource, LoadFails(s, r)
    PROVE  /\ Sends(s, r) /\ act' \in [Slot -> Act]
           /\ \A t \in Lost(s, r) : act'[t] = Idle \/ act'[t].pc = "drain"
           /\ \A t \in Slot \ Lost(s, r) :
                 \/ act'[t] = Idle /\ act[t].pc = "drain"
                 \/ /\ Alike(act'[t], act[t])
                    /\ act[t].pc = "drain" \/ \A q \in Resource : act'[t].get[q] = act[t].get[q]
           /\ \A t \in Slot, q \in Resource :
                 /\ act'[t].get[q] \in {act[t].get[q], NoGet}
                 /\ q # r /\ act[t].get[q].st = "sent" /\ act[t].get[q].of = t => act'[t].get[q] = act[t].get[q]
<1>. DEFINE gone == [act EXCEPT ![s].get[r] = NoGet]
            g == [t \in Slot |-> IF t \in Hit(s, r) /\ act[t].pc # "drain" THEN Abandoned(gone[t], t) ELSE gone[t]]
<1>1. act \in [Slot -> Act] /\ SlotsOK(act, cache, ahead)
  BY DEF IndInv, TypeOK
<1>2. act' = Drained(g) /\ Sends(s, r) /\ s \in Hit(s, r)
  BY DEF LoadFails, Hit, Awaits, Sends
<1>3. ASSUME NEW t \in Slot
      PROVE  /\ gone[t] \in Act /\ Alike(gone[t], act[t])
             /\ \A q \in Resource : gone[t].get[q] = IF t = s /\ q = r THEN NoGet ELSE act[t].get[q]
  <2>1. CASE t = s
    <3>1. gone[t] = [act[t] EXCEPT !.get[r] = NoGet] /\ act[t] \in Act /\ NoGet \in Get
      BY <1>1, <2>1, IdleFacts
    <3>. HIDE DEF gone
    <3>. QED BY <2>1, <3>1, PutGet
  <2>2. CASE t # s
    <3>1. gone[t] = act[t] /\ act[t] \in Act
      BY <1>1, <2>2
    <3>. HIDE DEF gone
    <3>. QED BY <2>2, <3>1 DEF Alike
  <2>. QED BY <2>1, <2>2
<1>4. ASSUME NEW t \in Hit(s, r)
      PROVE  act[t].pc = "drain" \/ t \in Lost(s, r)
  <2>1. t \in Slot /\ act[t].get[r].st = "sent" /\ act[t] \in Act
    BY <1>1 DEF Hit, Awaits
  <2>2. act[t].pc \notin {"idle", "write", "written"}
    BY <1>1, <2>1, NothingAsked
  <2>. QED BY <2>1, <2>2 DEF Lost, Loading, Act
<1>5. ASSUME NEW t \in Slot
      PROVE  g[t] = IF t \in Lost(s, r) THEN Abandoned(gone[t], t) ELSE gone[t]
  <2>1. t \in Lost(s, r) => t \in Hit(s, r) /\ act[t].pc # "drain"
    BY DEF Lost, Loading
  <2>. HIDE DEF gone
  <2>. QED BY <1>4, <2>1
<1>. HIDE DEF gone, g
<1>6. ASSUME NEW t \in Lost(s, r)
      PROVE  /\ g[t] \in Act /\ g[t].pc = "drain"
             /\ \A q \in Resource :
                   /\ g[t].get[q] \in {act[t].get[q], NoGet}
                   /\ q # r /\ act[t].get[q].st = "sent" /\ act[t].get[q].of = t => g[t].get[q] = act[t].get[q]
  <2>1. t \in Slot
    BY DEF Lost, Hit
  <2>2. /\ g[t] \in Act /\ g[t].pc = "drain"
        /\ \A q \in Resource : g[t].get[q] = IF gone[t].get[q].st = "sent" /\ gone[t].get[q].of = t
                                             THEN gone[t].get[q] ELSE NoGet
    BY <1>3, <1>5, <2>1, AbandonedIs
  <2>. QED BY <1>3, <2>1, <2>2
<1>7. ASSUME NEW t \in Slot \ Lost(s, r)
      PROVE  /\ g[t] \in Act /\ Alike(g[t], act[t])
             /\ act[t].pc = "drain" \/ \A q \in Resource : g[t].get[q] = act[t].get[q]
             /\ \A q \in Resource :
                   /\ g[t].get[q] \in {act[t].get[q], NoGet}
                   /\ q # r /\ act[t].get[q].st = "sent" /\ act[t].get[q].of = t => g[t].get[q] = act[t].get[q]
  <2>1. g[t] = gone[t]
    BY <1>5
  <2>2. t = s => act[t].pc = "drain"
    BY <1>2, <1>4
  <2>. QED BY <1>3, <2>1, <2>2
<1>8. \A t \in Slot : g[t] \in Act
  BY <1>6, <1>7
<1>9. g \in [Slot -> Act]
  BY <1>8 DEF g
<1>10. /\ act' \in [Slot -> Act]
       /\ \A t \in Slot : \/ act'[t] = g[t]
                          \/ /\ act'[t] = Idle /\ g[t].pc = "drain"
                             /\ \A q \in Resource : g[t].get[q].st # "sent"
  BY <1>2, <1>9, DrainedIs
<1>11. ASSUME NEW t \in Lost(s, r)
       PROVE  act'[t] = Idle \/ act'[t].pc = "drain"
  <2>1. t \in Slot
    BY DEF Lost, Hit
  <2>. QED BY <1>6, <1>10, <2>1
<1>12. ASSUME NEW t \in Slot \ Lost(s, r)
       PROVE  \/ act'[t] = Idle /\ act[t].pc = "drain"
              \/ /\ Alike(act'[t], act[t])
                 /\ act[t].pc = "drain" \/ \A q \in Resource : act'[t].get[q] = act[t].get[q]
  <2>1. CASE act'[t] = g[t]
    BY <1>7, <2>1
  <2>2. CASE act'[t] = Idle /\ g[t].pc = "drain"
    BY <1>7, <2>2 DEF Alike
  <2>. QED BY <1>10, <2>1, <2>2
<1>13. ASSUME NEW t \in Slot, NEW q \in Resource
       PROVE  /\ act'[t].get[q] \in {act[t].get[q], NoGet}
              /\ q # r /\ act[t].get[q].st = "sent" /\ act[t].get[q].of = t => act'[t].get[q] = act[t].get[q]
  <2>1. /\ g[t].get[q] \in {act[t].get[q], NoGet}
        /\ q # r /\ act[t].get[q].st = "sent" /\ act[t].get[q].of = t => g[t].get[q] = act[t].get[q]
    BY <1>6, <1>7
  <2>2. CASE act'[t] = g[t]
    BY <2>1, <2>2
  <2>3. CASE act'[t] = Idle /\ g[t].get[q].st # "sent"
    BY <2>1, <2>3, IdleFacts
  <2>. QED BY <1>10, <2>2, <2>3
<1>. QED BY <1>2, <1>10, <1>11, <1>12, <1>13

LEMMA LoadFailsOK ==
    ASSUME IndInv, NEW s \in Slot, NEW r \in Resource, LoadFails(s, r)
    PROVE  IndInv'
<1>. DEFINE lost == Lost(s, r)
<1>1. /\ Sends(s, r) /\ act' \in [Slot -> Act]
      /\ \A t \in lost : act'[t] = Idle \/ act'[t].pc = "drain"
      /\ \A t \in Slot \ lost :
            \/ act'[t] = Idle /\ act[t].pc = "drain"
            \/ /\ Alike(act'[t], act[t])
               /\ act[t].pc = "drain" \/ \A q \in Resource : act'[t].get[q] = act[t].get[q]
      /\ \A t \in Slot, q \in Resource :
            /\ act'[t].get[q] \in {act[t].get[q], NoGet}
            /\ q # r /\ act[t].get[q].st = "sent" /\ act[t].get[q].of = t => act'[t].get[q] = act[t].get[q]
  BY LoadFailsShape
<1>2. /\ fails < MaxFails /\ fails' = fails + 1 /\ ahead' = Without(Hit(s, r))
      /\ failed' = (failed \/ lost # {})
      /\ disorder' = (disorder \/ (lost # {} /\ \A t \in lost : ahead[t] # {}))
      /\ cache' = IF r \in Cached THEN [cache EXCEPT ![r].inflight = None] ELSE cache
      /\ UNCHANGED <<ver, bindings, late, view, chosen, shown, listed, bound, turns, ops, hurried, wanted, belated>>
  BY DEF LoadFails, Lost, Hit
<1>3. /\ TypeOK /\ History /\ SlotsOK(act, cache, ahead) /\ act \in [Slot -> Act] /\ cache \in [Cached -> Cache]
      /\ ahead \in [Slot -> SUBSET Slot] /\ {failed, disorder} \subseteq BOOLEAN
  BY TypeFacts DEF IndInv, TypeOK
<1>4. lost \subseteq Loads /\ lost \subseteq Slot /\ lost = Hit(s, r) \cap Loads /\ Hit(s, r) \subseteq Slot
  BY DEF Lost, Loads, Loading, Hit
<1>. HIDE DEF lost
<1>5. Answered(lost)
  BY <1>1, IdleFacts DEF Answered, Alike, Same
<1>6. /\ Loads' = Loads \ lost /\ \A t \in Loads' : act'[t].view = act[t].view
      /\ \A t \in Slot, pc \in SUBSET Under : Editing(t, pc)' <=> Editing(t, pc)
      /\ Counted' /\ OfTheTab' /\ EditAlone' /\ StoredIsWanted'
  BY <1>2, <1>4, <1>5, AnsweredOK
<1>7. /\ cache' \in [Cached -> Cache]
      /\ \A q \in Cached : /\ cache'[q].value = cache[q].value
                           /\ cache'[q].inflight = IF q = r THEN None ELSE cache[q].inflight
  BY <1>2, <1>3 DEF Cache
<1>8. /\ ahead' \in [Slot -> SUBSET Slot]
      /\ \A t \in Loads \ lost : ahead'[t] = ahead[t] \ Hit(s, r)
  BY <1>2, <1>3, <1>4 DEF Without, Loads, Loading
<1>9. TypeOK'
  <2>1. fails' \in 0..MaxFails
    BY <1>2, <1>3, BoundsAssumption DEF TypeOK
  <2>2. failed' \in BOOLEAN /\ disorder' \in BOOLEAN
    BY <1>2
  <2>. QED BY <1>1, <1>2, <1>3, <1>7, <1>8, <2>1, <2>2 DEF TypeOK
<1>10. SlotsOK(act', cache', ahead')
  <2>1. ASSUME NEW t \in Slot
        PROVE  ActOK(act'[t], t)
    <3>0. ActOK(act[t], t) /\ act[t] \in Act /\ \A q \in Resource : ver[q] \in Nat
      BY <1>3, Versions DEF SlotsOK
    <3>1. \A q \in Resource : act'[t].get[q].v <= ver[q]
      BY <1>1, <3>0, IdleFacts DEF ActOK
    <3>2. CASE act'[t] = Idle
      BY <3>0, <3>2, IdleFacts DEF ActOK, Asks
    <3>3. CASE act'[t].pc = "drain"
      BY <3>1, <3>3 DEF ActOK
    <3>4. CASE Alike(act'[t], act[t]) /\ \A q \in Resource : act'[t].get[q] = act[t].get[q]
      <4>1. act[t].writes \subseteq Resource
        BY <3>0 DEF Act
      <4>. QED BY <3>0, <3>4, <4>1 DEF ActOK, Alike, Asks
    <3>. QED BY <1>1, <3>2, <3>3, <3>4 DEF Alike
  <2>2. ASSUME NEW q \in Cached
        PROVE  /\ cache'[q].value # None => cache'[q].value <= ver[q]
               /\ cache'[q].inflight # None =>
                     LET g == act'[cache'[q].inflight].get[q] IN g.st = "sent" /\ g.of = cache'[q].inflight
    <3>0. q \in Resource
      BY Names
    <3>1. CASE q = r
      BY <1>3, <1>7, <3>1 DEF SlotsOK
    <3>2. CASE q # r
      <4>1. cache'[q].value = cache[q].value /\ cache'[q].inflight = cache[q].inflight
        BY <1>7, <3>2
      <4>2. cache[q].inflight # None => cache[q].inflight \in Slot
        BY <1>3 DEF Cache
      <4>3. cache[q].inflight # None => LET g == act[cache[q].inflight].get[q] IN g.st = "sent" /\ g.of = cache[q].inflight
        BY <1>3 DEF SlotsOK
      <4>4. cache[q].inflight # None => act'[cache[q].inflight].get[q] = act[cache[q].inflight].get[q]
        BY <1>1, <3>0, <3>2, <4>2, <4>3
      <4>5. cache[q].value # None => cache[q].value <= ver[q]
        BY <1>3 DEF SlotsOK
      <4>. QED BY <4>1, <4>3, <4>4, <4>5
    <3>. QED BY <3>1, <3>2
  <2>3. /\ \A t \in Loads' : ahead'[t] \subseteq Loads'
        /\ \A t, u \in Loads' : t # u => t \in ahead'[u] \/ u \in ahead'[t]
    <3>1. /\ \A t \in Loads : ahead[t] \subseteq Loads
          /\ \A t, u \in Loads : t # u => t \in ahead[u] \/ u \in ahead[t]
      BY <1>3 DEF SlotsOK, Loads
    <3>. QED BY <1>4, <1>6, <1>8, <3>1
  <2>. QED BY <1>1, <1>7, <1>8, <2>1, <2>2, <2>3 DEF SlotsOK, Loads
<1>11. SlotsOK(act, cache, ahead)'
  BY <1>2, <1>10, SlotsNext
<1>12. DisplayOK'
  BY <1>2 DEF IndInv, DisplayOK
<1>13. lost = {} => Loads' = Loads /\ (failed' <=> failed) /\ (disorder' <=> disorder)
  BY <1>2, <1>6
<1>14. PagesFit'
  <2>1. CASE lost = {}
    BY <1>2, <1>6, <1>13, <2>1 DEF IndInv, PagesFit
  <2>2. CASE lost # {}
    BY <1>2, <2>2 DEF PagesFit
  <2>. QED BY <2>1, <2>2
<1>15. FirstIsOld'
  <2>. SUFFICES ASSUME ~hurried, ~disorder', NEW t \in Loads', act'[t].view.filter # view.filter
                PROVE  ahead'[t] = {} /\ \E u \in Loads' : t \in ahead'[u]
    BY <1>2 DEF FirstIsOld
  <2>1. t \in Loads /\ t \notin lost /\ act[t].view.filter # view.filter /\ ~disorder
    BY <1>2, <1>6
  <2>2. ahead[t] = {} /\ \E u \in Loads : t \in ahead[u]
    BY <2>1 DEF IndInv, FirstIsOld
  <2>3. lost = {}
    <3>. SUFFICES ASSUME lost # {}
                  PROVE  FALSE
      OBVIOUS
    <3>1. PICK u \in lost : ahead[u] = {}
      BY <1>2
    <3>2. u \in Loads /\ u # t
      BY <1>4, <2>1, <3>1
    <3>. QED BY <1>3, <2>1, <2>2, <3>1, <3>2 DEF SlotsOK, Loads
  <2>4. PICK u \in Loads : t \in ahead[u]
    BY <2>2
  <2>5. t \notin Hit(s, r)
    BY <1>4, <2>1, <2>3
  <2>. QED BY <1>6, <1>8, <2>1, <2>2, <2>3, <2>4, <2>5
<1>16. FilterFits'
  <2>1. CASE lost = {}
    BY <1>2, <1>13, <2>1 DEF IndInv, FilterFits
  <2>2. CASE lost # {}
    BY <1>2, <2>2 DEF FilterFits
  <2>. QED BY <2>1, <2>2
<1>17. CopiesOK'
  <2>. SUFFICES ASSUME CopiesFresh(act, cache)
                PROVE  CopiesFresh(act', cache')
    BY <1>2, <1>6, CopiesNext DEF IndInv, CopiesOK, Under
  <2>1. "accessApps" \in Cached /\ "accessApps" \in Resource
    BY Names
  <2>2. cache'["accessApps"].value # None => Fresh(cache'["accessApps"].value)
    BY <1>7, <2>1 DEF CopiesFresh
  <2>3. \A t \in Slot : act'[t].get["accessApps"] \in {act[t].get["accessApps"], NoGet}
    BY <1>1, <2>1
  <2>. QED BY <2>2, <2>3, IdleFacts DEF CopiesFresh
<1>18. BoundIsWanted'
  <2>1. CASE lost = {}
    BY <1>2, <1>6, <1>13, <2>1 DEF IndInv, BoundIsWanted
  <2>2. CASE lost # {}
    BY <1>2, <2>2 DEF BoundIsWanted
  <2>. QED BY <2>1, <2>2
<1>. QED BY <1>6, <1>9, <1>11, <1>12, <1>14, <1>15, <1>16, <1>17, <1>18 DEF IndInv

\* A load that has all it asked for.
LEMMA CompleteFacts ==
    ASSUME IndInv, NEW s \in Slot, Complete(s)
    PROVE  /\ act[s].pc \in {"load", "members"} /\ s \in Loads /\ act[s].view \in View
           /\ act[s].pc = "load" => Got(s) = Needs[act[s].view.tab]
           /\ act[s].pc = "members" => /\ Got(s) = {"users"}
                                       /\ act[s].view.tab = "groupMembers" /\ act[s].view.filter # None
           /\ \A r \in Got(s) : r \in Resource /\ act[s].get[r].v \in 0..MaxOps /\ act[s].get[r].v <= ver[r]
           /\ Bound(s) \in SUBSET Group
           /\ \A r \in Cached : cache[r].inflight # s
<1>1. TypeOK /\ History /\ SlotsOK(act, cache, ahead) /\ act[s] \in Act /\ ActOK(act[s], s)
  BY TypeFacts DEF IndInv, TypeOK, SlotsOK
<1>2. act[s].pc \in {"load", "members"} /\ \A r \in Resource : act[s].get[r].st # "sent"
  BY DEF Complete
<1>3. s \in Loads /\ act[s].view \in View /\ act[s].view.tab \in Tab
  BY <1>1, <1>2 DEF Loads, Loading, Act, View
<1>4. \A r \in Resource : r \in Got(s) <=> r \in Asks(act[s])
  <2>1. \A r \in Resource : act[s].get[r].st \in {"none", "sent", "done"}
    BY <1>1 DEF Act, Get
  <2>2. \A r \in Resource : act[s].get[r].st # "none" <=> r \in Asks(act[s])
    BY <1>1, <1>2 DEF ActOK
  <2>. QED BY <1>2, <2>1, <2>2 DEF Got
<1>5. Asks(act[s]) \subseteq Resource /\ Got(s) \subseteq Resource
  BY <1>2, <1>3, NeedsFacts, Names DEF Asks, Got
<1>6. Got(s) = Asks(act[s])
  BY <1>4, <1>5
<1>7. \A r \in Resource : act[s].get[r].v \in 0..MaxOps /\ act[s].get[r].v <= ver[r]
  <2>1. \A r \in Resource : act[s].get[r].v \in Nat /\ act[s].get[r].v <= ver[r] /\ ver[r] \in 0..MaxOps
    BY <1>1 DEF ActOK, Act, Get, History
  <2>. QED BY <2>1, BoundsAssumption
<1>8. Bound(s) \in SUBSET Group
  <2>1. "accessApps" \in Resource
    BY Names
  <2>2. act[s].get["accessApps"].v + 1 \in 1..Len(bindings) /\ bindings \in Seq(SUBSET Group)
    BY <1>1, <1>7, <2>1, Versions, BoundsAssumption DEF History
  <2>3. bindings[act[s].get["accessApps"].v + 1] \in SUBSET Group
    BY <2>2
  <2>4. bound \in SUBSET Group
    BY <1>1 DEF TypeOK
  <2>. QED BY <2>3, <2>4 DEF Bound
<1>9. \A r \in Cached : cache[r].inflight # s
  <2>1. s # None
    BY NoneAssumption
  <2>. QED BY <1>1, <1>2, <2>1, Names DEF SlotsOK
<1>10. act[s].pc = "members" => act[s].view.tab = "groupMembers" /\ act[s].view.filter # None
  BY <1>1 DEF ActOK
<1>. QED BY <1>2, <1>3, <1>5, <1>6, <1>7, <1>8, <1>9, <1>10 DEF Asks

LEMMA ShownOK ==
    ASSUME IndInv, NEW s \in Slot, Complete(s), NEW r \in Resource, NEW v,
           v = None \/ v = shown[r] \/ (r \in Got(s) /\ v = act[s].get[r].v)
    PROVE  v \in 0..MaxOps \cup {None} /\ (v # None => v <= ver[r])
<1>1. shown \in [Resource -> 0..MaxOps \cup {None}] /\ DisplayOK
  BY DEF IndInv, TypeOK
<1>2. \A q \in Got(s) : act[s].get[q].v \in 0..MaxOps /\ act[s].get[q].v <= ver[q]
  BY CompleteFacts
<1>. QED BY <1>1, <1>2 DEF DisplayOK

LEMMA DisplayedOK ==
    ASSUME IndInv, NEW s \in Slot, Complete(s), Display(s), ver' = ver
    PROVE  /\ shown' \in [Resource -> 0..MaxOps \cup {None}] /\ DisplayOK'
           /\ listed' \in [List -> [page : Page, filter : Filter \cup {None}] \cup {None}]
           /\ bound' \in SUBSET Group
<1>1. \A r \in Resource : shown'[r] \in 0..MaxOps \cup {None} /\ (shown'[r] # None => shown'[r] <= ver[r])
  <2>1. \A r \in Resource : shown'[r] = shown[r] \/ (r \in Got(s) /\ shown'[r] = act[s].get[r].v)
    BY DEF Display
  <2>. QED BY <2>1, ShownOK
<1>2. shown' \in [Resource -> 0..MaxOps \cup {None}] /\ DisplayOK'
  <2>1. shown' \in [Resource -> 0..MaxOps \cup {None}]
    BY <1>1 DEF Display
  <2>. QED BY <1>1, <2>1 DEF DisplayOK
<1>3. act[s].view \in View /\ Bound(s) \in SUBSET Group
  BY CompleteFacts
<1>4. \A l \in List : [page |-> act[s].view.page[l], filter |-> act[s].view.filter]
                         \in [page : Page, filter : Filter \cup {None}]
  BY <1>3 DEF View
<1>5. listed \in [List -> [page : Page, filter : Filter \cup {None}] \cup {None}]
  BY DEF IndInv, TypeOK
<1>6. listed' \in [List -> [page : Page, filter : Filter \cup {None}] \cup {None}]
  BY <1>4, <1>5 DEF Display
<1>. QED BY <1>2, <1>3, <1>6 DEF Display

LEMMA LoadMembersShape ==
    ASSUME IndInv, NEW s \in Slot, LoadMembers(s)
    PROVE  /\ act' = [act EXCEPT ![s] = [act[s] EXCEPT !.pc = "members",
                                                      !.get = [NoGetOf EXCEPT !["users"] = FetchList(s, "users")]]]
           /\ cache' = cache /\ ahead' = ahead
<1>. DEFINE get == [NoGetOf EXCEPT !["users"] = FetchList(s, "users")]
<1>1. act \in [Slot -> Act] /\ act[s] \in Act
  BY DEF IndInv, TypeOK
<1>2. act' = [act EXCEPT ![s] = [act[s] EXCEPT !.pc = "members", !.get = get]] /\ cache' = cache /\ ahead' = ahead
  <2>. HIDE DEF get
  <2>. QED BY <1>1, MachineIs DEF LoadMembers, Proceed, Act, get
<1>. QED BY <1>2

LEMMA LoadMembersOK == ASSUME IndInv, NEW s \in Slot, LoadMembers(s) PROVE IndInv'
<1>. DEFINE get == [NoGetOf EXCEPT !["users"] = FetchList(s, "users")]
            y == [act[s] EXCEPT !.pc = "members", !.get = get]
<1>1. /\ Complete(s) /\ Display(s)
      /\ act[s].pc = "load" /\ act[s].view.tab = "groupMembers" /\ act[s].view.filter # None
      /\ UNCHANGED <<ver, bindings, late, view, chosen, turns, ops, fails, failed, hurried, disorder, wanted, belated>>
  BY DEF LoadMembers
<1>2. /\ TypeOK /\ History /\ SlotsOK(act, cache, ahead) /\ act \in [Slot -> Act] /\ act[s] \in Act
      /\ ActOK(act[s], s)
  BY TypeFacts DEF IndInv, TypeOK, SlotsOK
<1>3. /\ act[s].pc = "load" => Got(s) = Needs[act[s].view.tab]
      /\ s \in Loads /\ act[s].view \in View /\ \A r \in Cached : cache[r].inflight # s
  BY <1>1, CompleteFacts
<1>4. "users" \in Resource /\ "users" \in List /\ "accessApps" \in Resource /\ "accessApps" # "users"
  BY Names
<1>5. ver["users"] \in Nat
  BY <1>2, <1>4, Versions
<1>6. get \in [Resource -> Get]
  <2>1. FetchList(s, "users") \in Get /\ NoGet \in Get
    BY <1>5, IdleFacts DEF FetchList, Get
  <2>. QED BY <2>1 DEF NoGetOf
<1>7. \A r \in Resource : get[r] = IF r = "users" THEN [st |-> "sent", v |-> ver["users"], of |-> s] ELSE NoGet
  BY <1>4 DEF NoGetOf, FetchList
<1>8. act' = [act EXCEPT ![s] = y] /\ cache' = cache /\ ahead' = ahead
  BY LoadMembersShape
<1>. HIDE DEF get
<1>9. /\ y \in Act /\ y.pc = "members" /\ y.view = act[s].view /\ y.writes = act[s].writes
      /\ y.wrote = act[s].wrote /\ y.bound = act[s].bound /\ y.get = get
  BY <1>2, <1>6 DEF Act
<1>. HIDE DEF y
<1>10. act' \in [Slot -> Act] /\ act'[s] = y /\ \A t \in Slot : t # s => act'[t] = act[t]
  BY <1>2, <1>8, <1>9
<1>11. Answered({})
  BY <1>1, <1>9, <1>10 DEF Answered, Same
<1>12. /\ Loads' = Loads /\ \A t \in Loads' : act'[t].view = act[t].view
       /\ \A t \in Slot, pc \in SUBSET Under : Editing(t, pc)' <=> Editing(t, pc)
       /\ Counted' /\ OfTheTab' /\ EditAlone' /\ StoredIsWanted'
  <2>1. {} \in SUBSET Loads /\ UNCHANGED <<ver, bindings, late, view, ops, hurried, wanted, belated>>
    BY <1>1
  <2>. QED BY <1>11, <2>1, AnsweredOK
<1>13. /\ shown' \in [Resource -> 0..MaxOps \cup {None}] /\ DisplayOK'
       /\ listed' \in [List -> [page : Page, filter : Filter \cup {None}] \cup {None}]
       /\ bound' \in SUBSET Group
  BY <1>1, DisplayedOK
<1>14. TypeOK'
  BY <1>1, <1>2, <1>8, <1>10, <1>13 DEF TypeOK
<1>15. ActOK(y, s)
  <2>1. \A r \in Resource : /\ y.get[r].st # "none" <=> r \in {"users"}
                            /\ y.get[r].st = "sent" => y.get[r].of = s
    BY <1>7, <1>9, IdleFacts
  <2>2. \A r \in Resource : y.get[r].v <= ver[r]
    BY <1>2, <1>5, <1>7, <1>9, Versions, IdleFacts
  <2>3. y.writes \subseteq Resource /\ \A r \in Resource : y.wrote[r] \in Nat
    BY <1>9, BoundsAssumption DEF Act
  <2>4. \A r \in y.writes : /\ y.wrote[r] <= ver[r]
                            /\ y.get[r].st # "none" => y.get[r].v >= y.wrote[r]
    <3>1. \A r \in y.writes : y.wrote[r] <= ver[r]
      BY <1>1, <1>2, <1>9 DEF ActOK
    <3>2. \A r \in Resource : y.get[r].st # "none" => y.get[r].v = ver[r]
      BY <1>7, <1>9, IdleFacts
    <3>3. \A r \in Resource : ver[r] \in Nat
      BY <1>2, Versions
    <3>. QED BY <2>3, <3>1, <3>2, <3>3
  <2>. QED BY <1>1, <1>9, <2>1, <2>2, <2>3, <2>4 DEF ActOK, Asks
<1>16. SlotsOK(act', cache', ahead')
  <2>1. \A t \in Slot : ActOK(act'[t], t)
    BY <1>2, <1>10, <1>15 DEF SlotsOK
  <2>2. ASSUME NEW r \in Cached, cache[r].inflight # None
        PROVE  act'[cache[r].inflight] = act[cache[r].inflight]
    <3>1. cache[r].inflight \in Slot
      BY <1>2, <2>2 DEF SlotsOK, Cache
    <3>. QED BY <1>3, <1>10, <3>1
  <2>3. Loading(act') = Loading(act)
    BY <1>12 DEF Loads
  <2>4. \A r \in Cached :
          /\ cache[r].value # None => cache[r].value <= ver[r]
          /\ cache[r].inflight # None =>
                LET g == act'[cache[r].inflight].get[r] IN g.st = "sent" /\ g.of = cache[r].inflight
    BY <1>2, <2>2 DEF SlotsOK
  <2>5. /\ \A t \in Loading(act') : ahead[t] \subseteq Loading(act')
        /\ \A t, u \in Loading(act') : t # u => t \in ahead[u] \/ u \in ahead[t]
    BY <1>2, <2>3 DEF SlotsOK
  <2>6. cache \in [Cached -> Cache] /\ ahead \in [Slot -> SUBSET Slot]
    BY <1>2 DEF SlotsOK
  <2>. QED BY <1>8, <1>10, <2>1, <2>4, <2>5, <2>6 DEF SlotsOK
<1>17. SlotsOK(act, cache, ahead)'
  BY <1>1, <1>16, SlotsNext
<1>18. PagesFit'
  <2>1. Got(s) = Needs["groupMembers"] /\ "groupMembers" \in Tab
    BY <1>1, <1>3, FetchedFacts
  <2>2. \A l \in List : listed'[l] = listed[l]
    BY <1>1, <2>1, NeedsFacts DEF Display, Lists
  <2>. QED BY <1>1, <1>12, <2>2 DEF IndInv, PagesFit
<1>19. FirstIsOld'
  BY <1>1, <1>8, <1>12 DEF IndInv, FirstIsOld
<1>20. FilterFits'
  BY <1>3, <1>12 DEF FilterFits
<1>21. CopiesOK'
  <2>1. y.get["accessApps"].st = "none"
    BY <1>4, <1>7, <1>9, IdleFacts
  <2>2. CopiesFresh(act, cache) => CopiesFresh(act', cache')
    BY <1>8, <1>10, <2>1 DEF CopiesFresh
  <2>. QED BY <1>1, <1>12, <2>2, CopiesNext DEF IndInv, CopiesOK, Under
<1>22. BoundIsWanted'
  <2>1. ~hurried => view.tab = "groupMembers"
    BY <1>1 DEF IndInv, OfTheTab
  <2>. QED BY <1>1, <2>1 DEF BoundIsWanted
<1>. QED BY <1>12, <1>13, <1>14, <1>17, <1>18, <1>19, <1>20, <1>21, <1>22 DEF IndInv

\* The slot of a load that is over holds a load of the page that was set back, or nothing.
LEMMA LoadedShape ==
    ASSUME IndInv, NEW s \in Slot, Loaded(s), view' \in View
    PROVE  /\ SlotsOK(act', cache', ahead') /\ (CopiesFresh(act, cache) => CopiesFresh(act', cache'))
           /\ \A t \in Slot : t # s => act'[t] = act[t] /\ ahead'[t] = ahead[t] \ {s}
           /\ \/ view' # view /\ act'[s].pc = "load" /\ act'[s].view = view' /\ Loads' = Loads
              \/ view' = view /\ act'[s].pc = "idle" /\ Loads' = Loads \ {s}
<1>. DEFINE a == [act EXCEPT ![s] = Idle]
            h == Without({s})
            n == Load([act |-> a, cache |-> cache, ahead |-> h], s, [Idle EXCEPT !.view = view'], FALSE)
<1>1. /\ TypeOK /\ History /\ SlotsOK(act, cache, ahead) /\ act \in [Slot -> Act] /\ cache \in [Cached -> Cache]
      /\ ahead \in [Slot -> SUBSET Slot]
  BY TypeFacts DEF IndInv, TypeOK
<1>2. Complete(s) /\ s \in Loads /\ \A r \in Cached : cache[r].inflight # s
  BY CompleteFacts DEF Loaded
<1>3. [Machine EXCEPT !.act[s] = Idle, !.ahead = Without({s})] = [act |-> a, cache |-> cache, ahead |-> h]
  <2>. DEFINE u == [Machine EXCEPT !.act[s] = Idle, !.ahead = h]
              R == [act : {act, a}, cache : {cache}, ahead : {ahead, h}]
  <2>1. Machine \in R /\ Machine.act = act /\ Machine.cache = cache
    BY MachineIs
  <2>2. u = [Machine EXCEPT !.act = a, !.ahead = h]
    BY <2>1
  <2>. HIDE DEF a, h
  <2>3. u \in R /\ u.act = a /\ u.ahead = h /\ u.cache = cache
    BY <2>1, <2>2
  <2>. HIDE DEF u
  <2>4. u = [act |-> u.act, cache |-> u.cache, ahead |-> u.ahead]
    BY <2>3
  <2>. QED BY <2>3, <2>4 DEF u, h
<1>4. Proceed(IF view' # view THEN n ELSE [act |-> a, cache |-> cache, ahead |-> h])
  BY <1>3 DEF Loaded, Changed
<1>5. a \in [Slot -> Act] /\ a[s] = Idle /\ \A t \in Slot : t # s => a[t] = act[t]
  BY <1>1, IdleFacts
<1>6. h \in [Slot -> SUBSET Slot] /\ \A t \in Slot : t # s => h[t] = ahead[t] \ {s}
  BY <1>1 DEF Without
<1>. HIDE DEF a, h
<1>7. Loading(a) = Loads \ {s} /\ s \notin Loading(a) /\ Loading(a) \subseteq Slot
  BY <1>5, IdleFacts DEF Loading, Loads
<1>8. SlotsOK(a, cache, h)
  <2>1. \A t \in Slot : ActOK(a[t], t)
    <3>1. ActOK(Idle, s)
      BY <1>1, Versions, IdleFacts DEF ActOK, Asks
    <3>. QED BY <1>1, <1>5, <3>1 DEF SlotsOK
  <2>2. \A r \in Cached :
          /\ cache[r].value # None => cache[r].value <= ver[r]
          /\ cache[r].inflight # None =>
                LET g == a[cache[r].inflight].get[r] IN g.st = "sent" /\ g.of = cache[r].inflight
    <3>1. \A r \in Cached : cache[r].inflight # None => a[cache[r].inflight] = act[cache[r].inflight]
      BY <1>1, <1>2, <1>5 DEF Cache
    <3>. QED BY <1>1, <3>1 DEF SlotsOK
  <2>3. \A t \in Loads : ahead[t] \subseteq Loads
    BY <1>1 DEF SlotsOK, Loads
  <2>4. \A t, u \in Loads : t # u => t \in ahead[u] \/ u \in ahead[t]
    BY <1>1 DEF SlotsOK, Loads
  <2>5. \A t \in Loading(a) : h[t] \subseteq Loading(a)
    BY <1>6, <1>7, <2>3
  <2>6. \A t, u \in Loading(a) : t # u => t \in h[u] \/ u \in h[t]
    BY <1>6, <1>7, <2>4
  <2>. QED BY <1>1, <1>5, <1>6, <2>1, <2>2, <2>5, <2>6 DEF SlotsOK
<1>9. CopiesFresh(act, cache) => CopiesFresh(a, cache)
  <2>1. Idle.get["accessApps"].st = "none"
    BY Names, IdleFacts
  <2>. QED BY <1>5, <2>1 DEF CopiesFresh
<1>10. CASE view' # view
  <2>1. act' = n.act /\ cache' = n.cache /\ ahead' = n.ahead
    BY <1>4, <1>10 DEF Proceed
  <2>2. a[s].pc = "idle"
    BY <1>5, IdleFacts
  <2>3. SlotsOK(n.act, n.cache, n.ahead) /\ Started(n, a, cache, h, s, view')
    BY <1>1, <1>8, <2>2, EffectOK
  <2>. HIDE DEF n
  <2>4. /\ \A t \in Slot : t # s => act'[t] = a[t] /\ ahead'[t] = h[t]
        /\ act'[s].pc = "load" /\ act'[s].view = view' /\ Loading(act') = Loading(a) \cup {s}
        /\ CopiesFresh(a, cache) => CopiesFresh(act', cache')
    BY <2>1, <2>3 DEF Started
  <2>5. Loads' = Loads
    BY <1>2, <1>7, <2>4 DEF Loads
  <2>. QED BY <1>5, <1>6, <1>9, <1>10, <2>1, <2>3, <2>4, <2>5
<1>11. CASE view' = view
  <2>1. act' = a /\ cache' = cache /\ ahead' = h
    BY <1>4, <1>11 DEF Proceed
  <2>2. Loads' = Loads \ {s} /\ act'[s].pc = "idle"
    BY <1>5, <1>7, <2>1, IdleFacts DEF Loads
  <2>. QED BY <1>5, <1>6, <1>8, <1>9, <1>11, <2>1, <2>2
<1>. QED BY <1>10, <1>11

LEMMA LoadedOK == ASSUME IndInv, NEW s \in Slot, Loaded(s) PROVE IndInv'
<1>. DEFINE own == act[s].view
            none == own.tab = "groupMembers" /\ own.filter = None
<1>1. /\ Complete(s) /\ ~(act[s].pc = "load" /\ own.tab = "groupMembers" /\ own.filter # None)
      /\ view' = SetBack(s)
      /\ failed' = (failed /\ own.tab # view.tab) /\ disorder' = (disorder \/ ahead[s] # {})
      /\ UNCHANGED <<ver, bindings, late, chosen, turns, ops, fails, hurried, wanted, belated>>
  BY DEF Loaded
<1>2. /\ IF none THEN /\ shown' = [r \in Resource |-> IF r = "users" THEN None
                                                      ELSE IF r \in Got(s) THEN act[s].get[r].v ELSE shown[r]]
                      /\ listed' = [listed EXCEPT !["users"] = None]
                      /\ bound' = Bound(s)
         ELSE Display(s)
  BY DEF Loaded
<1>3. /\ TypeOK /\ History /\ SlotsOK(act, cache, ahead) /\ act \in [Slot -> Act]
      /\ view \in View /\ {failed, disorder} \subseteq BOOLEAN
      /\ listed \in [List -> [page : Page, filter : Filter \cup {None}] \cup {None}]
  BY TypeFacts DEF IndInv, TypeOK
<1>4. /\ act[s].pc \in {"load", "members"} /\ s \in Loads /\ own \in View
      /\ act[s].pc = "load" => Got(s) = Needs[own.tab]
      /\ act[s].pc = "members" => Got(s) = {"users"} /\ own.tab = "groupMembers" /\ own.filter # None
      /\ Bound(s) \in SUBSET Group
  BY <1>1, CompleteFacts
<1>5. "users" \in Resource /\ "users" \in List /\ "accessApps" \in Resource /\ "accessApps" # "users"
  BY Names
<1>6. /\ view' \in View /\ view'.tab = view.tab /\ view'.filter = view.filter
      /\ \A l \in List : view'.page[l] = IF l \in Lists(s) THEN own.page[l] ELSE view.page[l]
  BY <1>1, <1>3, <1>4 DEF SetBack, View
<1>7. Fetched(view') = Fetched(view)
  BY <1>6 DEF Fetched
<1>8. /\ SlotsOK(act', cache', ahead') /\ (CopiesFresh(act, cache) => CopiesFresh(act', cache'))
      /\ \A t \in Slot : t # s => act'[t] = act[t] /\ ahead'[t] = ahead[t] \ {s}
      /\ \/ view' # view /\ act'[s].pc = "load" /\ act'[s].view = view' /\ Loads' = Loads
         \/ view' = view /\ act'[s].pc = "idle" /\ Loads' = Loads \ {s}
  BY <1>6, LoadedShape
<1>9. ASSUME NEW t \in Loads, t # s
      PROVE  t \in Loads' /\ act'[t] = act[t] /\ ahead'[t] = ahead[t] \ {s}
  BY <1>8, <1>9 DEF Loads, Loading
\* The lists the load shows are those of its tab and its filter.
<1>10. \A l \in List : l \in Fetched(own) => l \in Lists(s)
  <2>1. CASE act[s].pc = "load"
    BY <1>1, <1>4, <2>1, FetchedFacts DEF Lists
  <2>2. CASE act[s].pc = "members"
    <3>1. own.tab = "groupMembers" /\ "groupMembers" \in Tab /\ Got(s) = {"users"}
      BY <1>4, <2>2, FetchedFacts
    <3>2. \A l \in List : l \in Fetched(own) => l = "users"
      BY <1>4, <3>1, NeedsFacts, FetchedFacts
    <3>. QED BY <1>5, <3>1, <3>2 DEF Lists
  <2>. QED BY <1>4, <2>1, <2>2
<1>11. \A l \in List : listed'[l] = IF none /\ l = "users" THEN None
                                    ELSE IF ~none /\ l \in Lists(s) THEN [page |-> own.page[l], filter |-> own.filter]
                                    ELSE listed[l]
  BY <1>2, <1>3, <1>5 DEF Display
<1>12. none => Lists(s) = {}
  <2>1. ASSUME none PROVE act[s].pc = "load" /\ own.tab = "groupMembers" /\ own.tab \in Tab
    BY <1>4, <2>1, FetchedFacts
  <2>. QED BY <1>4, <2>1, NeedsFacts DEF Lists
<1>. HIDE DEF none
<1>13. \A l \in List : \/ listed'[l] = None
                       \/ l \in Lists(s) /\ listed'[l] = [page |-> view'.page[l], filter |-> own.filter]
                       \/ l \notin Lists(s) /\ listed'[l] = listed[l] /\ view'.page[l] = view.page[l]
  BY <1>6, <1>11, <1>12
<1>14. shown' \in [Resource -> 0..MaxOps \cup {None}] /\ DisplayOK'
  <2>1. \A r \in Resource : shown'[r] \in 0..MaxOps \cup {None} /\ (shown'[r] # None => shown'[r] <= ver[r])
    <3>1. \A r \in Resource : shown'[r] = None \/ shown'[r] = shown[r] \/ (r \in Got(s) /\ shown'[r] = act[s].get[r].v)
      BY <1>2 DEF Display
    <3>. QED BY <1>1, <3>1, ShownOK
  <2>2. shown' = [r \in Resource |-> shown'[r]]
    BY <1>2 DEF Display
  <2>3. shown' \in [Resource -> 0..MaxOps \cup {None}]
    BY <2>1, <2>2
  <2>. QED BY <1>1, <2>1, <2>3 DEF DisplayOK
<1>15. bound' = Bound(s)
  BY <1>2 DEF Display
<1>16. listed' \in [List -> [page : Page, filter : Filter \cup {None}] \cup {None}]
  <2>1. \A l \in List : listed'[l] \in [page : Page, filter : Filter \cup {None}] \cup {None}
    <3>1. \A l \in List : [page |-> view'.page[l], filter |-> own.filter] \in [page : Page, filter : Filter \cup {None}]
      BY <1>4, <1>6 DEF View
    <3>. QED BY <1>3, <1>13, <3>1
  <2>2. listed' = [l \in List |-> listed'[l]]
    BY <1>2, <1>3 DEF Display
  <2>. QED BY <2>1, <2>2
<1>17. TypeOK'
  <2>1. cache' \in [Cached -> Cache] /\ act' \in [Slot -> Act] /\ ahead' \in [Slot -> SUBSET Slot]
    BY <1>8 DEF SlotsOK
  <2>2. failed' \in BOOLEAN /\ disorder' \in BOOLEAN /\ bound' \subseteq Group
    BY <1>1, <1>4, <1>15
  <2>. QED BY <1>1, <1>3, <1>6, <1>14, <1>16, <2>1, <2>2 DEF TypeOK
<1>18. SlotsOK(act, cache, ahead)'
  BY <1>1, <1>8, SlotsNext
<1>19. Counted'
  <2>1. Unhandled' = Unhandled
    BY <1>4, <1>8 DEF Unhandled
  <2>. QED BY <1>1, <2>1 DEF IndInv, Counted
<1>20. PagesFit'
  <2>. SUFFICES ASSUME NEW l \in List, l \in Fetched(view), listed'[l] # None, listed'[l].page # view'.page[l]
                PROVE  failed' \/ \E t \in Loads' : l \in Fetched(act'[t].view)
    BY <1>7 DEF PagesFit
  <2>1. l \notin Lists(s) /\ listed'[l] = listed[l] /\ view'.page[l] = view.page[l]
    <3>1. listed'[l] # [page |-> view'.page[l], filter |-> own.filter]
      OBVIOUS
    <3>. QED BY <1>13, <3>1
  <2>2. l \notin Fetched(own)
    BY <1>10, <2>1
  <2>3. own.tab # view.tab
    <3>. SUFFICES ASSUME own.tab = view.tab
                  PROVE  FALSE
      OBVIOUS
    <3>1. l = "users" /\ own.tab = "groupMembers" /\ own.filter = None
      BY <1>3, <2>2 DEF Fetched
    <3>. QED BY <1>11, <3>1 DEF none
  <2>4. failed \/ \E t \in Loads : l \in Fetched(act[t].view)
    BY <2>1 DEF IndInv, PagesFit
  <2>5. CASE failed
    BY <1>1, <2>3, <2>5
  <2>6. CASE \E t \in Loads : l \in Fetched(act[t].view)
    <3>1. PICK t \in Loads : l \in Fetched(act[t].view)
      BY <2>6
    <3>2. t # s
      BY <2>2, <3>1
    <3>. QED BY <1>9, <3>1, <3>2
  <2>. QED BY <2>4, <2>5, <2>6
<1>21. ~hurried => own.tab = view.tab
  BY <1>4 DEF IndInv, OfTheTab
<1>22. OfTheTab'
  <2>1. \A t \in Slot : t = s \/ act'[t] = act[t]
    BY <1>8
  <2>2. act'[s].pc \in {"idle", "load"} /\ (act'[s].pc = "load" => act'[s].view.tab = view'.tab)
    BY <1>8
  <2>. QED BY <1>1, <1>6, <2>1, <2>2 DEF IndInv, OfTheTab, Under
<1>23. FirstIsOld'
  <2>. SUFFICES ASSUME ~hurried, ~disorder', NEW t \in Loads', act'[t].view.filter # view'.filter
                PROVE  FALSE
    BY <1>1 DEF FirstIsOld
  <2>1. ~disorder /\ ahead[s] = {}
    BY <1>1
  <2>2. t # s
    BY <1>8
  <2>3. t \in Loads /\ act[t].view.filter # view.filter
    BY <1>6, <1>8, <2>2 DEF Loads, Loading
  <2>4. ahead[t] = {}
    BY <2>1, <2>3 DEF IndInv, FirstIsOld
  <2>. QED BY <1>3, <1>4, <2>1, <2>2, <2>3, <2>4 DEF SlotsOK, Loads
<1>24. FilterFits'
  <2>. SUFFICES ASSUME ~hurried, ~disorder', Loads' = {}, "users" \in Fetched(view)
                PROVE  listed'["users"] # None /\ listed'["users"].filter = view'.filter
    BY <1>1, <1>7 DEF FilterFits
  <2>1. Loads = {s} /\ ~disorder /\ ahead[s] = {}
    BY <1>1, <1>4, <1>8
  <2>2. own.filter = view.filter
    BY <1>4, <2>1 DEF IndInv, FirstIsOld
  <2>3. Fetched(own) = Fetched(view) /\ ~none
    <3>1. own.tab = view.tab
      BY <1>21
    <3>2. Fetched(own) = Fetched(view)
      BY <2>2, <3>1 DEF Fetched
    <3>3. "groupMembers" \in Tab => "users" \notin Needs["groupMembers"]
      BY <1>5, NeedsFacts
    <3>4. ~none
      BY <1>3, <2>2, <3>1, <3>3, FetchedFacts DEF none, Fetched
    <3>. QED BY <3>2, <3>4
  <2>4. listed'["users"] = [page |-> own.page["users"], filter |-> own.filter]
    BY <1>5, <1>10, <1>11, <2>3
  <2>5. listed'["users"] # None
    BY <1>4, <1>5, <2>4, NoneAssumption DEF View
  <2>. QED BY <1>6, <2>2, <2>4, <2>5
<1>25. \A t \in Slot, pc \in SUBSET Under : Editing(t, pc)' <=> Editing(t, pc)
  <2>1. \A t \in Slot : t = s \/ act'[t] = act[t]
    BY <1>8
  <2>2. act'[s].pc \notin Under /\ act[s].pc \notin Under
    BY <1>4, <1>8 DEF Under
  <2>. QED BY <2>1, <2>2 DEF Editing, Rebinds
<1>26. ~hurried => \A t \in Slot, pc \in SUBSET Under : ~Editing(t, pc)
  <2>1. \A pc \in SUBSET Under : ~Editing(s, pc)
    BY <1>4 DEF Editing, Under
  <2>. QED BY <1>4, <2>1, OnlyEdit
<1>27. EditAlone'
  BY <1>1, <1>25, <1>26 DEF EditAlone
<1>28. StoredIsWanted'
  BY <1>1, <1>26 DEF IndInv, StoredIsWanted, Stored, Under
<1>29. ~hurried /\ ~belated => CopiesFresh(act, cache) /\ Stored = wanted
  BY <1>26 DEF IndInv, CopiesOK, StoredIsWanted, Under
<1>30. CopiesOK'
  BY <1>1, <1>8, <1>29, CopiesNext DEF CopiesOK
<1>31. BoundIsWanted'
  <2>. SUFFICES ASSUME ~hurried, ~belated, view.tab = "apps"
                PROVE  bound' = wanted
    BY <1>1, <1>6 DEF BoundIsWanted
  <2>1. own.tab = "apps" /\ own.tab \in Tab
    BY <1>4, <1>21, FetchedFacts
  <2>2. act[s].pc = "load" /\ "accessApps" \in Got(s)
    BY <1>4, <2>1, NeedsFacts
  <2>3. act[s].get["accessApps"].st = "done"
    BY <2>2 DEF Got
  <2>4. Fresh(act[s].get["accessApps"].v)
    BY <1>29, <2>3 DEF CopiesFresh
  <2>5. act[s].get["accessApps"].v \in act[s].get["accessApps"].v..ver["accessApps"]
    <3>1. act[s].get["accessApps"].v \in 0..MaxOps /\ act[s].get["accessApps"].v <= ver["accessApps"]
      BY <1>1, <2>2, CompleteFacts
    <3>2. ver["accessApps"] \in Nat
      BY <1>3, <1>5, Versions
    <3>. QED BY <3>1, <3>2, BoundsAssumption
  <2>6. bindings[act[s].get["accessApps"].v + 1] = Stored
    BY <2>4, <2>5 DEF Fresh
  <2>. QED BY <1>15, <1>29, <2>2, <2>6 DEF Bound
<1>. QED BY <1>14, <1>17, <1>18, <1>19, <1>20, <1>22, <1>23, <1>24, <1>27, <1>28, <1>30, <1>31 DEF IndInv

-----------------------------------------------------------------------------
(* The invariant *)

LEMMA InitOK == Init => IndInv
<1>. DEFINE o == CHOOSE s \in Slot : TRUE
            a == [s \in Slot |-> Idle]
            c == [r \in Cached |-> NothingCached]
            h == [s \in Slot |-> {}]
            n == Load([act |-> a, cache |-> c, ahead |-> h], o, Idle, FALSE)
<1>. SUFFICES ASSUME Init
              PROVE  IndInv
  OBVIOUS
<1>1. o \in Slot
  BY SlotAssumption
<1>. HIDE DEF o
<1>2. /\ ver = [r \in Resource |-> 0] /\ bindings = <<{}>> /\ view = FirstView
      /\ chosen = [t \in UserTab |-> None] /\ shown = [r \in Resource |-> None]
      /\ listed = [l \in List |-> None] /\ bound = {} /\ wanted = {} /\ late = {} /\ belated = FALSE
      /\ turns = 0 /\ ops = 0 /\ fails = 0 /\ failed = FALSE /\ hurried = FALSE /\ disorder = FALSE
      /\ act = n.act /\ cache = n.cache /\ ahead = n.ahead
  BY DEF Init, o
<1>3. MaxOps \in Nat /\ MaxTurns \in Nat /\ MaxFails \in Nat
  BY BoundsAssumption
<1>4. /\ ver \in [Resource -> 0..MaxOps] /\ \A r \in Resource : ver[r] = 0
      /\ bindings \in Seq(SUBSET Group) /\ Len(bindings) = 1 /\ bindings[1] = {} /\ ver["accessApps"] = 0
  BY <1>2, <1>3, Names
<1>5. History
  BY <1>4 DEF History
<1>6. /\ a \in [Slot -> Act] /\ c \in [Cached -> Cache] /\ h \in [Slot -> SUBSET Slot]
      /\ \A s \in Slot : a[s] = Idle /\ h[s] = {}
      /\ \A r \in Cached : c[r].value = None /\ c[r].inflight = None
  BY IdleFacts DEF NothingCached, Cache
<1>. HIDE DEF a, c, h
<1>7. Loading(a) = {}
  BY <1>6, IdleFacts DEF Loading
<1>8. SlotsOK(a, c, h)
  <2>1. \A s \in Slot : ActOK(a[s], s)
    BY <1>4, <1>6, IdleFacts DEF ActOK, Asks
  <2>. QED BY <1>6, <1>7, <2>1 DEF SlotsOK
<1>9. SlotsOK(n.act, n.cache, n.ahead) /\ Started(n, a, c, h, o, Idle.view)
  <2>1. o \notin Loading(a) /\ Idle \in Act /\ Idle.writes = {}
    BY <1>7, IdleFacts
  <2>2. \A r \in Resource : a[o].get[r].st = "none"
    BY <1>1, <1>6, IdleFacts
  <2>. QED BY <1>1, <1>5, <1>8, <2>1, <2>2, LoadOK
<1>. HIDE DEF n
<1>10. /\ \A s \in Slot : s # o => act[s] = Idle
       /\ act[o].pc = "load" /\ act[o].view = FirstView /\ Loads = {o}
  BY <1>2, <1>6, <1>7, <1>9, IdleFacts DEF Started, Loads
<1>11. SlotsOK(act, cache, ahead)
  BY <1>2, <1>9
<1>12. TypeOK
  <2>1. cache \in [Cached -> Cache] /\ act \in [Slot -> Act] /\ ahead \in [Slot -> SUBSET Slot]
    BY <1>11 DEF SlotsOK
  <2>2. /\ turns \in 0..MaxTurns /\ ops \in 0..MaxOps /\ fails \in 0..MaxFails
        /\ Len(bindings) = ver["accessApps"] + 1 /\ view \in View
    BY <1>2, <1>3, <1>4, IdleFacts
  <2>3. /\ chosen \in [UserTab -> Filter \cup {None}] /\ shown \in [Resource -> 0..MaxOps \cup {None}]
        /\ listed \in [List -> [page : Page, filter : Filter \cup {None}] \cup {None}]
    BY <1>2
  <2>4. {failed, hurried, disorder, belated} \subseteq BOOLEAN /\ late \subseteq Late /\ bound \subseteq Group /\ wanted \subseteq Group
    BY <1>2
  <2>. QED BY <1>4, <2>1, <2>2, <2>3, <2>4 DEF TypeOK
<1>13. Counted
  <2>1. Unhandled = {}
    BY <1>10, IdleFacts DEF Unhandled
  <2>2. IsFiniteSet(Unhandled) /\ Cardinality(Unhandled) = 0 /\ IsFiniteSet(late) /\ Cardinality(late) = 0
    BY <1>2, <2>1, FS_EmptySet
  <2>. QED BY <1>2, <1>4, <2>2 DEF Counted
<1>14. DisplayOK /\ PagesFit /\ BoundIsWanted
  BY <1>2, Names DEF DisplayOK, PagesFit, BoundIsWanted
<1>15. OfTheTab
  BY <1>2, <1>10, IdleFacts DEF OfTheTab, Under
<1>16. FirstIsOld /\ FilterFits
  BY <1>2, <1>10 DEF FirstIsOld, FilterFits
<1>17. EditAlone
  BY <1>10, IdleFacts DEF EditAlone, Editing, Under
<1>18. StoredIsWanted
  BY <1>2, <1>4 DEF StoredIsWanted, Stored
<1>19. CopiesOK
  <2>1. CopiesFresh(a, c)
    BY <1>6, Names, IdleFacts DEF CopiesFresh
  <2>. QED BY <1>2, <1>9, <2>1 DEF CopiesOK, Started
<1>. QED BY <1>11, <1>12, <1>13, <1>14, <1>15, <1>16, <1>17, <1>18, <1>19 DEF IndInv

LEMMA StutterOK == IndInv /\ UNCHANGED vars => IndInv'
<1>. SUFFICES ASSUME IndInv, UNCHANGED vars
              PROVE  IndInv'
  OBVIOUS
<1>. USE DEF vars
<1>1. TypeOK'
  BY DEF IndInv, TypeOK
<1>2. SlotsOK(act, cache, ahead)'
  BY SlotsNext DEF IndInv
<1>3. Loads' = Loads /\ Unhandled' = Unhandled /\ \A s \in Slot, pc \in SUBSET Under : Editing(s, pc)' <=> Editing(s, pc)
  BY DEF Loads, Loading, Unhandled, Editing, Rebinds
<1>4. Counted' /\ DisplayOK'
  BY <1>3 DEF IndInv, Counted, DisplayOK
<1>5. PagesFit' /\ FilterFits' /\ BoundIsWanted' /\ FirstIsOld'
  BY <1>3 DEF IndInv, PagesFit, FilterFits, BoundIsWanted, FirstIsOld
<1>6. OfTheTab' /\ EditAlone'
  BY <1>3 DEF IndInv, OfTheTab, EditAlone, Under
<1>7. StoredIsWanted'
  BY <1>3 DEF IndInv, StoredIsWanted, Stored, Under
<1>8. CopiesOK'
  BY <1>3, CopiesNext DEF IndInv, CopiesOK, Under
<1>. QED BY <1>1, <1>2, <1>4, <1>5, <1>6, <1>7, <1>8 DEF IndInv

LEMMA NextOK == IndInv /\ [Next]_vars => IndInv'
<1>. SUFFICES ASSUME IndInv, [Next]_vars
              PROVE  IndInv'
  OBVIOUS
<1>1. ASSUME NEW s \in Slot, Finish(s) PROVE IndInv'
  BY <1>1, LoadMembersOK, LoadedOK DEF Finish
<1>2. ASSUME NEW s \in Slot, NEW r \in Resource, Receive(s, r) PROVE IndInv'
  BY <1>2, AnswerOK, LoadFailsOK DEF Receive
<1>3. ASSUME NEW s \in Slot, Continue(s) PROVE IndInv'
  BY <1>3, HandleOK, ReloadOK, OperationFailsOK DEF Continue
<1>4. ASSUME NEW s \in Slot, Click(s) PROVE IndInv'
  BY <1>4, ChangePageOK, ChangeFilterOK, ChangeTabOK, OperateOK, UpdateAppBindingsOK DEF Click
<1>5. ASSUME NEW l \in late, HandleLate(l) PROVE IndInv'
  BY <1>5, HandleLateOK
<1>6. CASE UNCHANGED vars
  BY <1>6, StutterOK
<1>. QED BY <1>1, <1>2, <1>3, <1>4, <1>5, <1>6 DEF Next

-----------------------------------------------------------------------------
(* Theorems *)

\* Every reachable state satisfies the invariant.
THEOREM ConsoleInvariant == Spec => []IndInv
BY InitOK, NextOK, PTL DEF Spec

\* The state of the page, of its caches and of what runs keeps its type: no copy
\* is of a version the server does not have yet.
THEOREM ConsoleTypeCorrect == Spec => []TypeOK
<1>1. IndInv => TypeOK
  BY DEF IndInv
<1>. QED BY <1>1, ConsoleInvariant, PTL

\* At rest a pager names the page its list was fetched for, in whatever order
\* the answers of useDeveloperPageController's loads arrive, and the users are
\* those of the selected group.
THEOREM PagerFitsItsList == Spec => []ListsFit
<1>1. IndInv => ListsFit
  <2>. SUFFICES ASSUME IndInv, Quiet, ~failed
                PROVE  /\ \A l \in List \cap Fetched(view) : listed[l] # None => listed[l].page = view.page[l]
                       /\ ~hurried /\ ~disorder /\ "users" \in Fetched(view) =>
                              listed["users"] # None /\ listed["users"].filter = view.filter
    BY DEF ListsFit
  <2>1. Loads = {}
    BY AtRest
  <2>. QED BY <2>1 DEF IndInv, PagesFit, FilterFits
<1>. QED BY <1>1, ConsoleInvariant, PTL

\* What the server stores at rest is what the developer asked for, edit by edit,
\* also when edits fail, as long as none is handled after it was given up.
THEOREM BindingEditsAddUp == Spec => []EditsAddUp
<1>1. IndInv => EditsAddUp
  BY AtRest DEF IndInv, StoredIsWanted, EditsAddUp, Stored, Under
<1>. QED BY <1>1, ConsoleInvariant, PTL

\* The load after an operation shows what the operation wrote, or something newer.
THEOREM SavedChangesAreShown == Spec => SavedIsShown
<1>1. ASSUME IndInv, IndInv', [Next]_vars, NEW s \in Slot, Complete(s), act'[s] # act[s],
             act'[s].pc # "members", NEW r \in act[s].writes \cap Got(s)
      PROVE  shown'[r] >= act[s].wrote[r]
  <2>1. PICK t \in Slot : Finish(t)
    BY <1>1 DEF Next, Receive, Continue, Calm, vars
  <2>2. act \in [Slot -> Act] /\ view' \in View /\ act[s] \in Act /\ ActOK(act[s], s)
    BY <1>1 DEF IndInv, TypeOK, SlotsOK
  <2>3. ~LoadMembers(t)
    <3>. SUFFICES ASSUME LoadMembers(t)
                  PROVE  FALSE
      OBVIOUS
    <3>1. act' = [act EXCEPT ![t] = [act[t] EXCEPT !.pc = "members",
                                                   !.get = [NoGetOf EXCEPT !["users"] = FetchList(t, "users")]]]
      BY <1>1, LoadMembersShape
    <3>2. act[t] \in Act
      BY <2>2
    <3>. QED BY <1>1, <2>2, <3>1, <3>2 DEF Act
  <2>4. Loaded(t) /\ t = s
    BY <1>1, <2>1, <2>2, <2>3, LoadedShape DEF Finish
  <2>5. act[s].view.tab = "groupMembers" /\ act[s].view.filter = None => "users" \notin Got(s)
    BY <1>1, CompleteFacts, NeedsFacts, FetchedFacts, Names
  <2>6. r \in Resource /\ act[s].get[r].st = "done"
    BY <1>1 DEF Got
  <2>7. shown'[r] = act[s].get[r].v
    BY <1>1, <2>4, <2>5, <2>6 DEF Loaded, Display
  <2>8. act[s].get[r].v >= act[s].wrote[r]
    BY <1>1, <2>2, <2>6 DEF ActOK, Complete
  <2>. QED BY <2>7, <2>8
<1>2. IndInv /\ IndInv' /\ [Next]_vars =>
        [\A s \in Slot : Complete(s) /\ act'[s] # act[s] /\ act'[s].pc # "members" =>
             \A r \in act[s].writes \cap Got(s) : shown'[r] >= act[s].wrote[r]]_vars
  BY <1>1
<1>. QED BY <1>2, ConsoleInvariant, PTL DEF Spec, SavedIsShown
=============================================================================
