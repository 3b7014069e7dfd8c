------------------------- MODULE AdminConsole_proofs -------------------------
(***************************************************************************)
(* Theorems about AdminConsole, for any number of administrators, users,   *)
(* tabs, rows and operations at one time, and any bounds.                  *)
(*                                                                         *)
(* The three pages share the invariant's parts as they share the state:    *)
(* the lists (what the last load in flight is going to display), the       *)
(* drawer (what it can have been filled with) and the settings (what a     *)
(* save in its several statements is going to leave behind).               *)
(***************************************************************************)
EXTENDS AdminConsole, TLAPS

-----------------------------------------------------------------------------
(* The lists *)

\* q lists the members of S, each once.
Enumerates(q, S) ==
    /\ q \in Seq(Slot)
    /\ \A i, j \in 1..Len(q) : q[i] = q[j] => i = j
    /\ \A s \in Slot : s \in S <=> \E i \in 1..Len(q) : q[i] = s

Loading == {s \in Slot : act[s].pc = "load"}
Writing == {s \in Slot : act[s].pc \in {"write", "written"}}

\* Without haste an operation started on a page at rest and is still there.
WritingAlone ==
    /\ \A s \in Slot : act[s].reset => pageType = "riskLogs"
    /\ ~hurried /\ pageType # "users" => \A s \in Writing, t \in Slot : act[t].pc # "idle" => s = t
    /\ ~hurried => \A s \in Writing : act[s].page = page

\* The load that was started last asks for the selected page.
LastFits ==
    ~hurried /\ ~disorder /\ Len(order) > 0 => act[order[Len(order)]].page = page

\* Once no load is in flight, the last answer is that of the selected page.
ShownFits ==
    ~hurried /\ ~disorder /\ ~failed /\ Len(order) = 0 /\ shown # None =>
        /\ shown.page = page
        /\ pageType \in Corrected => shown.any \/ page <= LastPage(shown.total)

ListInv == Enumerates(order, Loading) /\ WritingAlone /\ LastFits /\ ShownFits

-----------------------------------------------------------------------------
(* The drawer *)

\* The policy in the drawer is one it may save.
Filled(d) == d.of = d.user /\ (d.base >= d.opened \/ d.missed)

\* Only the policy of the user shown is on its way, and a policy that is not may be saved.
DrawerInv ==
    /\ drawer.st \in {"closed"} \cup {"saving", "saved"} \cup Slot => asked = {}
    /\ drawer.st # "closed" =>
          /\ pageType = "users"
          /\ drawer.user \in User /\ drawer.of = drawer.user
          /\ \A q \in asked : q.user = drawer.user /\ q.low = drawer.opened
          /\ asked = {} => Filled(drawer)
    /\ \A u \in User : policies[u] + (IF drawer.st = "saving" /\ drawer.user = u THEN 1 ELSE 0) <= ops
    /\ \A d \in saved : Filled(d)

-----------------------------------------------------------------------------
(* The settings *)

\* A save enters a secret on the tab that has it, and sends no other.
SaveSound(save) ==
    /\ save.entered => save.tab = "email"
    /\ save.pc = "sent" /\ ~save.entered => save.body["secret"] = Blank

\* Only the load after a save is one the save waits for, and no page knows the secret.
Active == {"sent", "write"}
SiteSound(v) ==
    /\ v.copy["secret"] = Blank
    /\ \A l \in v.loads : l.of["secret"] = Blank /\ (l.ofSave => v.save.pc = "reload")
    /\ \A l, m \in v.loads : l.ofSave /\ m.ofSave => l = m
    /\ SaveSound(v.save)
LateSound(l) == l.pc \in Active /\ SaveSound(l)
SiteInv == (\A a \in Admin : SiteSound(site[a])) /\ (\A l \in late : LateSound(l))

\* Without overlap the server is at one save at most, of a page or given up, and
\* between its statements a save without a new secret carries the one stored.
CarriesSecret(save) == save.pc = "write" /\ ~save.entered => save.body["secret"] = db["secret"]
SecretInv ==
    ~overlap =>
        /\ \A a, b \in Admin : site[a].save.pc \in Active /\ site[b].save.pc \in Active => a = b
        /\ \A a \in Admin : site[a].save.pc \in Active => late = {}
        /\ \A l, k \in late : l = k
        /\ db["secret"] = accepted["secret"]
        /\ \A a \in Admin : CarriesSecret(site[a].save)
        /\ \A l \in late : CarriesSecret(l)

\* A save from a page that is up to date changes its own tab alone, and a page
\* that is up to date displays what is stored or is going to when it is answered.
Fits(save) ==
    /\ save.pc \in Active => \A t \in SettingsTab \ {save.tab} : save.body[t] = db[t]
    /\ save.pc = "write" /\ save.tab \notin save.left => save.body[save.tab] = db[save.tab]
Matches(v) ==
    /\ Fits(v.save)
    /\ v.save.pc = "written" /\ ~v.stale => \A t \in SettingsTab : v.save.body[t] = db[t]
    /\ v.save.pc \in {"idle", "reload"} /\ ~v.stale => \A t \in SettingsTab : v.copy[t] = db[t]
TabsInv ==
    ~overlap /\ ~blind =>
        /\ \A t \in SettingsTab : db[t] = accepted[t]
        /\ \A a \in Admin : Matches(site[a])
        /\ \A l \in late : Fits(l)

IndInv == TypeOK /\ ListInv /\ DrawerInv /\ SiteInv /\ SecretInv /\ TabsInv

-----------------------------------------------------------------------------
(* The parts of the invariant, by the page whose state they are about *)

ListOK ==
    /\ rows \in 0..MaxRows /\ page \in PageOf
    /\ shown \in Shown \cup {None}
    /\ act \in [Slot -> Act]
    /\ order \in Seq(Slot)
    /\ {failed, hurried, disorder} \subseteq BOOLEAN
    /\ ListInv

DrawerOK ==
    /\ drawer \in Drawer
    /\ asked \subseteq [user : User, low : Number]
    /\ policies \in [User -> Number]
    /\ saved \subseteq Drawer
    /\ DrawerInv

SiteOK ==
    /\ db \in Values /\ accepted \in Values
    /\ site \in [Admin -> Site] /\ late \subseteq Save
    /\ {overlap, blind} \subseteq BOOLEAN
    /\ SiteInv /\ SecretInv /\ TabsInv

VisitOK == pageType \in PageType /\ ops \in 0..MaxOps /\ turns \in 0..MaxTurns /\ fails \in 0..MaxFails

LEMMA Parts == IndInv <=> VisitOK /\ ListOK /\ DrawerOK /\ SiteOK
BY DEF IndInv, TypeOK, VisitOK, ListOK, DrawerOK, SiteOK

LEMMA PartsNext == IndInv' <=> VisitOK' /\ ListOK' /\ DrawerOK' /\ SiteOK'
BY DEF IndInv, TypeOK, VisitOK, ListOK, DrawerOK, SiteOK

\* A page's part of the invariant is about the state of that page.
LEMMA ListKept == ASSUME ListOK, UNCHANGED <<pageType, listVars>> PROVE ListOK'
BY DEF ListOK, listVars, ListInv, Enumerates, Loading, Writing, WritingAlone, LastFits, ShownFits

LEMMA DrawerKept ==
    ASSUME DrawerOK, UNCHANGED <<pageType, drawerVars>>, VisitOK, ops' \in Nat, ops <= ops'
    PROVE  DrawerOK'
<1>1. UNCHANGED <<drawer, asked, policies, saved, pageType>>
  BY DEF drawerVars
<1>2. \A u \in User : policies[u] + (IF drawer.st = "saving" /\ drawer.user = u THEN 1 ELSE 0) <= ops'
  <2>. SUFFICES ASSUME NEW u \in User
                PROVE  policies[u] + (IF drawer.st = "saving" /\ drawer.user = u THEN 1 ELSE 0) <= ops'
    OBVIOUS
  <2>1. policies[u] \in Int /\ ops \in Int
    BY BoundsAssumption DEF DrawerOK, Number, VisitOK
  <2>2. policies[u] + (IF drawer.st = "saving" /\ drawer.user = u THEN 1 ELSE 0) <= ops
    BY DEF DrawerOK, DrawerInv
  <2>. QED BY <2>1, <2>2
<1>. QED BY <1>1, <1>2 DEF DrawerOK, DrawerInv, Filled

LEMMA SiteKept == ASSUME SiteOK, UNCHANGED siteVars PROVE SiteOK'
BY DEF SiteOK, siteVars, SiteInv, SiteSound, SaveSound, LateSound, SecretInv, CarriesSecret, TabsInv, Matches, Fits

-----------------------------------------------------------------------------
(* The order of the loads in flight *)

\* A load that starts is the last one.
LEMMA EnumAppend ==
    ASSUME NEW q, NEW S, Enumerates(q, S), NEW s \in Slot, s \notin S
    PROVE  /\ Enumerates(Append(q, s), S \cup {s})
           /\ Len(Append(q, s)) = Len(q) + 1
           /\ Append(q, s)[Len(q) + 1] = s
<1>1. q \in Seq(Slot) /\ Len(q) \in Nat
  BY DEF Enumerates
<1>2. /\ Append(q, s) \in Seq(Slot) /\ Len(Append(q, s)) = Len(q) + 1
      /\ \A i \in 1..Len(q) : Append(q, s)[i] = q[i]
      /\ Append(q, s)[Len(q) + 1] = s
  BY <1>1
<1>. DEFINE r == Append(q, s)
<1>. HIDE DEF r
<1>3. \A i \in 1..Len(q) : q[i] # s
  BY DEF Enumerates
<1>4. \A i, j \in 1..Len(q) + 1 : r[i] = r[j] => i = j
  BY <1>1, <1>2, <1>3 DEF Enumerates, r
<1>5. ASSUME NEW t \in Slot
      PROVE  t \in S \cup {s} <=> \E i \in 1..Len(q) + 1 : r[i] = t
  BY <1>1, <1>2 DEF Enumerates, r
<1>. QED BY <1>2, <1>4, <1>5 DEF Enumerates, r

\* A load that ends leaves the others in their order; when it was the first one
\* and not the only one, the last one stays last.
LEMMA EnumWithout ==
    ASSUME NEW S, Enumerates(order, S), NEW s \in Slot, s \in S
    PROVE  /\ Enumerates(Without(s), S \ {s})
           /\ Len(Without(s)) = Len(order) - 1
           /\ Len(order) >= 1
           /\ order[1] = s /\ Len(order) > 1 =>
                 /\ Without(s)[Len(order) - 1] = order[Len(order)]
                 /\ order[Len(order)] # s /\ order[Len(order)] \in Slot
<1>1. order \in Seq(Slot) /\ Len(order) \in Nat
  BY DEF Enumerates
<1>2. PICK k : k = Position(s)
  OBVIOUS
<1>3. k \in 1..Len(order) /\ order[k] = s /\ Len(order) >= 1
  <2>1. \E i \in 1..Len(order) : order[i] = s
    BY DEF Enumerates
  <2>. QED BY <1>1, <1>2, <2>1 DEF Position
<1>4. PICK n \in Nat : n = Len(order) - 1
  BY <1>1, <1>3
<1>. DEFINE r == [i \in 1..n |-> order[IF i < k THEN i ELSE i + 1]]
<1>5. Without(s) = r
  BY <1>2, <1>4 DEF Without
<1>6. \A i \in 1..n : r[i] = order[IF i < k THEN i ELSE i + 1] /\ r[i] \in Slot
  BY <1>1, <1>3, <1>4
<1>7. r \in Seq(Slot) /\ Len(r) = n
  BY <1>4, <1>6
<1>. HIDE DEF r
<1>8. \A i, j \in 1..n : r[i] = r[j] => i = j
  <2>. SUFFICES ASSUME NEW i \in 1..n, NEW j \in 1..n, r[i] = r[j]
                PROVE  i = j
    OBVIOUS
  <2>. DEFINE at(x) == IF x < k THEN x ELSE x + 1
  <2>1. at(i) \in 1..Len(order) /\ at(j) \in 1..Len(order)
    BY <1>1, <1>3, <1>4
  <2>2. order[at(i)] = order[at(j)]
    BY <1>6
  <2>3. at(i) = at(j)
    BY <2>1, <2>2 DEF Enumerates
  <2>. QED BY <1>1, <1>3, <1>4, <2>3
<1>9. ASSUME NEW t \in Slot
      PROVE  t \in S \ {s} <=> \E i \in 1..n : r[i] = t
  <2>1. ASSUME t \in S, t # s PROVE \E i \in 1..n : r[i] = t
    <3>1. PICK j \in 1..Len(order) : order[j] = t
      BY <2>1 DEF Enumerates
    <3>2. CASE j < k
      BY <1>1, <1>3, <1>4, <1>6, <3>1, <3>2
    <3>3. CASE j > k
      <4>1. j - 1 \in 1..n /\ r[j - 1] = order[j]
        BY <1>1, <1>3, <1>4, <1>6, <3>3
      <4>. QED BY <3>1, <4>1
    <3>. QED BY <1>1, <1>3, <2>1, <3>1, <3>2, <3>3
  <2>2. ASSUME NEW i \in 1..n, r[i] = t PROVE t \in S \ {s}
    <3>0. /\ (IF i < k THEN i ELSE i + 1) \in 1..Len(order)
          /\ (IF i < k THEN i ELSE i + 1) # k
      BY <1>1, <1>3, <1>4
    <3>1. PICK j \in 1..Len(order) : r[i] = order[j] /\ j # k
      BY <1>6, <3>0
    <3>. QED BY <1>3, <2>2, <3>1 DEF Enumerates
  <2>. QED BY <2>1, <2>2
<1>10. ASSUME order[1] = s, Len(order) > 1
       PROVE  /\ r[Len(order) - 1] = order[Len(order)]
              /\ order[Len(order)] # s /\ order[Len(order)] \in Slot
  <2>1. k = 1
    BY <1>1, <1>3, <1>10 DEF Enumerates
  <2>. QED BY <1>1, <1>3, <1>4, <1>6, <1>10, <2>1 DEF Enumerates
<1>. QED BY <1>1, <1>3, <1>4, <1>5, <1>7, <1>8, <1>9, <1>10 DEF Enumerates

-----------------------------------------------------------------------------
(* What the lists do *)

LEMMA Bounds == MaxRows \in Nat /\ MaxRows >= 1 /\ 1 \in PageOf /\ PageOf \subseteq 0..MaxRows
BY BoundsAssumption DEF PageOf

LEMMA IdleAct == Idle \in Act /\ Idle.pc = "idle" /\ ~Idle.reset
BY Bounds DEF Idle, Act

LEMMA LoadAct ==
    ASSUME NEW a \in [Slot -> Act], NEW s \in Slot, NEW p \in PageOf, rows \in 0..MaxRows
    PROVE  /\ Load(a, s, p) \in [Slot -> Act]
           /\ Load(a, s, p)[s].pc = "load" /\ Load(a, s, p)[s].page = p /\ ~Load(a, s, p)[s].reset
           /\ \A t \in Slot \ {s} : Load(a, s, p)[t] = a[t]
<1>. DEFINE r == [Idle EXCEPT !.pc = "load", !.page = p, !.low = rows, !.high = rows]
<1>1. r \in Act /\ r.pc = "load" /\ r.page = p /\ ~r.reset
  BY Bounds DEF Idle, Act
<1>2. Load(a, s, p) = [a EXCEPT ![s] = r]
  BY DEF Load
<1>. HIDE DEF r
<1>. QED BY <1>1, <1>2

\* The last page there is.
LEMMA LastPageType == ASSUME NEW n \in 0..MaxRows PROVE LastPage(n) \in PageOf /\ LastPage(n) >= 1
BY Bounds DEF LastPage, Max2, PageOf

LEMMA Clamp == ASSUME NEW m \in Int PROVE Min2(MaxRows, Max2(0, m)) \in 0..MaxRows
BY Bounds DEF Min2, Max2

LEMMA MinMax ==
    ASSUME NEW n \in 0..MaxRows, NEW k \in 0..MaxRows
    PROVE  Min2(n, k) \in 0..MaxRows /\ Max2(n, k) \in 0..MaxRows
BY DEF Min2, Max2

LEMMA ChangedType == ASSUME rows \in 0..MaxRows, NEW k \in Int PROVE Changed(k) \in 0..MaxRows
<1>1. rows + k \in Int
  BY Bounds
<1>. QED BY <1>1, Clamp DEF Changed

\* What the loads under way may see says nothing of where they go.
LEMMA WidenedType ==
    ASSUME act \in [Slot -> Act], NEW n \in 0..MaxRows
    PROVE  /\ Widened(n) \in [Slot -> Act]
           /\ \A t \in Slot : /\ Widened(n)[t].pc = act[t].pc /\ Widened(n)[t].page = act[t].page
                              /\ Widened(n)[t].reset = act[t].reset
<1>1. ASSUME NEW t \in Slot
      PROVE  /\ Widened(n)[t] \in Act
             /\ Widened(n)[t].pc = act[t].pc /\ Widened(n)[t].page = act[t].page
             /\ Widened(n)[t].reset = act[t].reset
  <2>1. PICK low \in 0..MaxRows, high \in 0..MaxRows :
          low = Min2(act[t].low, n) /\ high = Max2(act[t].high, n)
    <3>1. act[t].low \in 0..MaxRows /\ act[t].high \in 0..MaxRows
      BY DEF Act
    <3>. QED BY <3>1, MinMax
  <2>2. Widened(n)[t] = IF act[t].pc = "load" THEN [act[t] EXCEPT !.low = low, !.high = high] ELSE act[t]
    BY <2>1 DEF Widened
  <2>3. act[t] \in Act
    OBVIOUS
  <2>. QED BY <2>2, <2>3 DEF Act
<1>2. Widened(n) = [t \in Slot |-> Widened(n)[t]]
  BY DEF Widened
<1>. QED BY <1>1, <1>2

\* Only the deletion of risk events goes back to page 1.
LEMMA OperationType ==
    ASSUME NEW op \in Operation
    PROVE  op.delta \in {-1, 0, 1} /\ op.reset \in BOOLEAN /\ (op.reset => op.on \subseteq {"riskLogs"})
<1>. USE DEF Operation, CreateApp, ReviewApp, DeleteApp, UpdateApp, ResetSecret, SetDisabled, BatchDeleteApps,
         CreateUser, FreezeUser, BatchFreezeUsers, BatchDeleteUsers, UpdateUser, UpdateUserAnnouncement,
         BatchDeleteAuditLogs, BatchDeleteDeveloperAccessLogs, ClearRiskProfile, MarkRiskFalsePositive,
         DeleteRiskEvents
<1>1. op.delta \in {-1, 0, 1}
  OBVIOUS
<1>2. op.reset = FALSE \/ op = DeleteRiskEvents
  OBVIOUS
<1>3. ASSUME op = DeleteRiskEvents PROVE op.reset = TRUE /\ op.on = {"riskLogs"}
  BY <1>3
<1>. QED BY <1>1, <1>2, <1>3

\* A page at rest has no load in flight.
LEMMA QuietEmpty == ASSUME ListOK, Quiet PROVE Writing = {} /\ Loading = {} /\ Len(order) = 0
<1>1. Loading = {} /\ Writing = {}
  BY DEF Quiet, Loading, Writing
<1>2. order \in Seq(Slot) /\ Len(order) \in Nat
  BY DEF ListOK
<1>3. ~ \E i \in 1..Len(order) : order[i] \in Slot
  BY <1>1 DEF ListOK, ListInv, Enumerates
<1>4. \A i \in 1..Len(order) : order[i] \in Slot
  BY <1>2
<1>. QED BY <1>1, <1>2, <1>3, <1>4

\* A load of page p starts in a slot that was not loading.
LEMMA LoadStarts ==
    ASSUME ListOK, NEW s \in Slot, act[s].pc # "load", NEW p \in PageOf,
           act' = Load(act, s, p), order' = Append(order, s), page' = p,
           UNCHANGED <<pageType, rows, shown, failed, disorder>>,
           hurried' \in BOOLEAN, hurried => hurried',
           hurried' \/ Writing \subseteq {s} \/ (pageType = "users" /\ page' = page)
    PROVE  ListOK'
<1>1. /\ act' \in [Slot -> Act] /\ act'[s].pc = "load" /\ act'[s].page = p /\ ~act'[s].reset
      /\ \A t \in Slot \ {s} : act'[t] = act[t]
  BY LoadAct DEF ListOK
<1>2. Loading' = Loading \cup {s} /\ s \notin Loading /\ Writing' = Writing \ {s}
  BY <1>1 DEF Loading, Writing
<1>3. /\ Enumerates(order', Loading') /\ Len(order') = Len(order) + 1 /\ order'[Len(order) + 1] = s
      /\ Len(order) \in Nat
  BY <1>2, EnumAppend DEF ListOK, ListInv
<1>4. WritingAlone'
  <2>1. \A t \in Slot : act'[t].reset => pageType = "riskLogs"
    BY <1>1 DEF ListOK, ListInv, WritingAlone
  <2>2. ASSUME ~hurried', pageType # "users", NEW t \in Writing', NEW r \in Slot, act'[r].pc # "idle"
        PROVE  t = r
    BY <1>2, <2>2
  <2>3. ASSUME ~hurried', NEW t \in Writing'
        PROVE  act'[t].page = page'
    BY <1>1, <1>2, <2>3 DEF ListOK, ListInv, WritingAlone, Writing
  <2>. QED BY <2>1, <2>2, <2>3 DEF WritingAlone
<1>. QED BY <1>1, <1>3, <1>4 DEF ListOK, ListInv, LastFits, ShownFits, PageOf, Enumerates

\* A load ends, and the page stays.  When it was not the first one, the answers
\* are out of order; when it was the only one, it asked for the selected page.
LEMMA LoadEnds ==
    ASSUME ListOK, NEW s \in Slot, act[s].pc = "load",
           act' = [act EXCEPT ![s] = Idle], order' = Without(s),
           UNCHANGED <<pageType, rows, page, hurried>>,
           shown' \in Shown \cup {None}, failed' \in BOOLEAN,
           disorder' = (disorder \/ Head(order) # s),
           ~failed' /\ shown' # None =>
              /\ shown'.page = act[s].page
              /\ pageType \in Corrected => shown'.any \/ page <= LastPage(shown'.total)
    PROVE  ListOK'
<1>0. act \in [Slot -> Act] /\ order \in Seq(Slot) /\ disorder \in BOOLEAN
  BY DEF ListOK
<1>1. /\ act' \in [Slot -> Act] /\ act'[s] = Idle
      /\ \A t \in Slot \ {s} : act'[t] = act[t]
  BY <1>0, IdleAct
<1>2. Loading' = Loading \ {s} /\ s \in Loading /\ Writing' = Writing
  BY <1>1, IdleAct DEF Loading, Writing
<1>3. /\ Enumerates(order', Loading') /\ Len(order') = Len(order) - 1 /\ Len(order) >= 1
      /\ order[1] = s /\ Len(order) > 1 =>
            /\ order'[Len(order) - 1] = order[Len(order)]
            /\ order[Len(order)] # s /\ order[Len(order)] \in Slot
      /\ Len(order) \in Nat
  <2>1. Len(order) \in Nat
    BY <1>0
  <2>2. Enumerates(order, Loading)
    BY DEF ListOK, ListInv
  <2>. QED BY <1>2, <2>1, <2>2, EnumWithout
<1>4. ~disorder' => ~disorder /\ order[1] = s
  <2>1. Head(order) = order[1]
    BY <1>0, <1>3
  <2>2. disorder' = (disorder \/ Head(order) # s)
    OBVIOUS
  <2>. QED BY <2>1, <2>2
<1>5. WritingAlone'
  <2>1. /\ \A t \in Slot : act'[t].reset => act[t].reset
        /\ \A t \in Slot : act'[t].pc # "idle" => act[t].pc # "idle"
        /\ \A t \in Writing' : t \in Slot /\ t # s /\ act'[t].page = act[t].page
    BY <1>1, <1>2, IdleAct DEF Writing
  <2>. QED BY <1>2, <2>1 DEF ListOK, ListInv, WritingAlone
<1>6. LastFits'
  BY <1>1, <1>3, <1>4 DEF ListOK, ListInv, LastFits
<1>7. ShownFits'
  <2>. SUFFICES ASSUME ~hurried', ~disorder', ~failed', Len(order') = 0, shown' # None
                PROVE  /\ shown'.page = page
                       /\ pageType \in Corrected => shown'.any \/ page <= LastPage(shown'.total)
    BY DEF ShownFits
  <2>1. act[order[Len(order)]].page = page
    BY <1>3, <1>4 DEF ListOK, ListInv, LastFits
  <2>2. order[Len(order)] = s
    <3>1. Len(order) = 1
      BY <1>3
    <3>. QED BY <1>4, <3>1
  <2>. QED BY <2>1, <2>2
<1>8. disorder' \in BOOLEAN
  BY <1>0
<1>. QED BY <1>1, <1>3, <1>5, <1>6, <1>7, <1>8 DEF ListOK, ListInv, Enumerates

\* A load ends on a page that has become empty, and the last page is loaded.
LEMMA LoadCorrects ==
    ASSUME ListOK, NEW s \in Slot, act[s].pc = "load", NEW p \in PageOf,
           act' = Load(act, s, p), order' = Append(Without(s), s), page' = p,
           pageType \in Corrected,
           UNCHANGED <<pageType, rows, hurried>>,
           shown' \in Shown \cup {None}, failed' \in BOOLEAN,
           disorder' = (disorder \/ Head(order) # s)
    PROVE  ListOK'
<1>0. act \in [Slot -> Act] /\ order \in Seq(Slot) /\ disorder \in BOOLEAN
  BY DEF ListOK
<1>1. /\ act' \in [Slot -> Act] /\ act'[s].pc = "load" /\ act'[s].page = p /\ ~act'[s].reset
      /\ \A t \in Slot \ {s} : act'[t] = act[t]
  BY LoadAct DEF ListOK
<1>2. Loading' = Loading /\ s \in Loading /\ Writing' = Writing
  BY <1>1 DEF Loading, Writing
<1>3. Enumerates(Without(s), Loading \ {s}) /\ Len(Without(s)) = Len(order) - 1 /\ Len(order) >= 1
  BY <1>2, EnumWithout DEF ListOK, ListInv
<1>4. /\ Enumerates(order', Loading') /\ Len(order') = Len(order) /\ order'[Len(order)] = s
      /\ Len(order) \in Nat
  <2>1. Len(order) \in Nat
    BY <1>0
  <2>2. /\ Enumerates(order', (Loading \ {s}) \cup {s})
        /\ Len(order') = Len(Without(s)) + 1
        /\ order'[Len(Without(s)) + 1] = s
    BY <1>3, EnumAppend
  <2>3. (Loading \ {s}) \cup {s} = Loading'
    BY <1>2
  <2>4. Len(Without(s)) + 1 = Len(order)
    BY <1>3, <2>1
  <2>. QED BY <2>1, <2>2, <2>3, <2>4
<1>5. pageType # "users"
  BY DEF Corrected
<1>6. WritingAlone'
  <2>1. ~hurried => Writing = {}
    BY <1>5 DEF ListOK, ListInv, WritingAlone, Writing
  <2>. QED BY <1>1, <1>2, <2>1 DEF ListOK, ListInv, WritingAlone
<1>7. disorder' \in BOOLEAN
  BY <1>0
<1>. QED BY <1>1, <1>3, <1>4, <1>6, <1>7 DEF ListOK, ListInv, LastFits, ShownFits, Enumerates

\* An operation that goes on or gives up leaves the loads alone.
LEMMA OperationStep ==
    ASSUME ListOK, NEW s \in Slot, act[s].pc # "load", act' \in [Slot -> Act],
           \A t \in Slot \ {s} : act'[t].pc = act[t].pc /\ act'[t].page = act[t].page
                                 /\ act'[t].reset = act[t].reset,
           act'[s].pc # "load", act'[s].reset => pageType = "riskLogs",
           UNCHANGED <<pageType, page, shown, order, failed, disorder>>,
           rows' \in 0..MaxRows, hurried' \in BOOLEAN, hurried => hurried',
           \/ hurried'
           \/ Quiet /\ act'[s].page = page
           \/ act'[s].pc = "idle"
           \/ s \in Writing /\ act'[s].page = act[s].page
    PROVE  ListOK'
<1>1. Loading' = Loading
  BY DEF Loading
<1>2. Writing' \ {s} = Writing \ {s}
  BY DEF Writing
<1>3. \A i \in 1..Len(order) : order[i] \in Slot /\ order[i] \in Loading
  BY DEF ListOK, ListInv, Enumerates
<1>4. \A i \in 1..Len(order) : order[i] \in Slot /\ act'[order[i]].page = act[order[i]].page
  BY <1>3 DEF Loading
<1>5. LastFits'
  <2>1. Len(order) \in Nat
    BY DEF ListOK
  <2>. QED BY <1>4, <2>1 DEF ListOK, ListInv, LastFits
<1>6. WritingAlone'
  <2>1. \A t \in Slot : act'[t].reset => pageType = "riskLogs"
    BY DEF ListOK, ListInv, WritingAlone
  <2>2. ASSUME ~hurried', Quiet
        PROVE  Writing' \subseteq {s} /\ \A t \in Slot \ {s} : act'[t].pc = "idle"
    BY <1>2, <2>2 DEF Quiet, Writing
  <2>3. ASSUME ~hurried', act'[s].pc = "idle"
        PROVE  s \notin Writing' /\ Writing' \subseteq Writing
    BY <1>2, <2>3 DEF Writing
  <2>4. CASE hurried'
    BY <2>1, <2>4 DEF WritingAlone
  <2>5. CASE ~hurried' /\ Quiet /\ act'[s].page = page
    BY <2>1, <2>2, <2>5 DEF WritingAlone
  <2>6. CASE ~hurried' /\ act'[s].pc = "idle"
    BY <2>1, <2>3, <2>6 DEF WritingAlone, ListOK, ListInv, Writing
  <2>7. CASE ~hurried' /\ s \in Writing /\ act'[s].page = act[s].page
    BY <1>2, <2>1, <2>7 DEF WritingAlone, ListOK, ListInv, Writing
  <2>. QED BY <2>4, <2>5, <2>6, <2>7
<1>7. ShownFits'
  BY DEF ListOK, ListInv, ShownFits
<1>. QED BY <1>1, <1>5, <1>6, <1>7 DEF ListOK, ListInv, Enumerates

\* Rows that change elsewhere leave the page as it is.
LEMMA ElsewhereIndInv == ASSUME IndInv, Elsewhere PROVE IndInv'
<1>0. VisitOK /\ ListOK /\ DrawerOK /\ SiteOK
  BY Parts
<1>1. PICK k \in {-1, 1} : HandleElsewhere(k)
  BY DEF Elsewhere
<1>2. act \in [Slot -> Act] /\ rows \in 0..MaxRows /\ ops \in 0..MaxOps /\ MaxOps \in Nat
  BY <1>0, BoundsAssumption DEF ListOK, VisitOK
<1>3. PICK n \in 0..MaxRows : n = Changed(k)
  BY <1>2, ChangedType
<1>4. /\ rows' = n /\ act' = Widened(n) /\ ops < MaxOps /\ ops' = ops + 1
      /\ UNCHANGED <<pageType, page, shown, order, failed, hurried, disorder, drawerVars, siteVars,
                     turns, fails>>
  BY <1>1, <1>3 DEF HandleElsewhere, MayOperate
<1>5. /\ act' \in [Slot -> Act]
      /\ \A t \in Slot : act'[t].pc = act[t].pc /\ act'[t].page = act[t].page /\ act'[t].reset = act[t].reset
  BY <1>2, <1>4, WidenedType
<1>6. Loading' = Loading /\ Writing' = Writing
  BY <1>5 DEF Loading, Writing
<1>7. LastFits'
  <2>1. Len(order) \in Nat /\ \A i \in 1..Len(order) : order[i] \in Slot
    BY <1>0 DEF ListOK
  <2>2. Len(order) > 0 => act'[order[Len(order)]].page = act[order[Len(order)]].page
    BY <1>5, <2>1
  <2>. QED BY <1>0, <1>4, <2>2 DEF ListOK, ListInv, LastFits
<1>8. WritingAlone' /\ ShownFits'
  BY <1>0, <1>4, <1>5, <1>6 DEF ListOK, ListInv, WritingAlone, ShownFits, Writing
<1>9. ListOK'
  BY <1>0, <1>4, <1>5, <1>6, <1>7, <1>8 DEF ListOK, ListInv, Enumerates
<1>10. ops' \in 0..MaxOps /\ ops' \in Nat /\ ops <= ops'
  BY <1>2, <1>4
<1>11. VisitOK' /\ DrawerOK' /\ SiteOK'
  BY <1>0, <1>4, <1>10, DrawerKept, SiteKept DEF VisitOK
<1>. QED BY <1>9, <1>11, PartsNext

LEMMA ListerIndInv == ASSUME IndInv, Lister PROVE IndInv'
<1>0. VisitOK /\ ListOK /\ DrawerOK /\ SiteOK
  BY Parts
<1>. USE DEF MayOperate, MayFail
\* What a list does changes neither the drawer nor the settings ...
<1>1. ASSUME UNCHANGED <<pageType, drawerVars, siteVars>>, ops' \in 0..MaxOps, ops <= ops',
             turns' \in 0..MaxTurns, fails' \in 0..MaxFails, ListOK'
      PROVE  IndInv'
  <2>1. VisitOK'
    BY <1>0, <1>1 DEF VisitOK
  <2>2. ops' \in Nat
    BY <1>1, BoundsAssumption
  <2>3. DrawerOK'
    BY <1>0, <1>1, <2>2, DrawerKept
  <2>4. SiteOK'
    BY <1>0, <1>1, SiteKept
  <2>. QED BY <1>1, <2>1, <2>3, <2>4, PartsNext
\* ... except the end of a load, which may close the drawer.
<1>2. ASSUME NEW s \in Slot, CloseAfter(s)
      PROVE  /\ drawer' \in Drawer /\ asked' \subseteq [user : User, low : Number]
             /\ UNCHANGED <<asked, policies, saved>>
             /\ drawer' = drawer \/ (drawer'.st = "closed" /\ asked = {})
  <2>1. NoDrawer \in Drawer /\ NoDrawer.st = "closed"
    BY BoundsAssumption DEF NoDrawer, Drawer, Number
  <2>2. drawer.st = s => asked = {}
    BY <1>0 DEF DrawerOK, DrawerInv
  <2>. QED BY <1>0, <1>2, <2>1, <2>2 DEF CloseAfter, DrawerOK
<1>3. ASSUME NEW s \in Slot, CloseAfter(s), UNCHANGED <<pageType, siteVars, ops, turns>>,
             fails' \in 0..MaxFails, ListOK'
      PROVE  IndInv'
  <2>1. VisitOK'
    BY <1>0, <1>3 DEF VisitOK
  <2>2. /\ drawer' \in Drawer /\ UNCHANGED <<asked, policies, saved>>
        /\ drawer' = drawer \/ (drawer'.st = "closed" /\ asked = {})
    BY <1>2, <1>3
  <2>3. DrawerOK'
    <3>1. CASE drawer' = drawer
      BY <1>0, <1>3, <2>2, <3>1 DEF DrawerOK, DrawerInv, Filled
    <3>2. CASE drawer'.st = "closed" /\ asked = {}
      <4>1. \A u \in User : policies[u] + 0 <= ops
        <5>. SUFFICES ASSUME NEW u \in User PROVE policies[u] + 0 <= ops
          OBVIOUS
        <5>1. policies[u] \in Int /\ ops \in Int
          BY <1>0, BoundsAssumption DEF DrawerOK, Number, VisitOK
        <5>2. policies[u] + (IF drawer.st = "saving" /\ drawer.user = u THEN 1 ELSE 0) <= ops
          BY <1>0 DEF DrawerOK, DrawerInv
        <5>. QED BY <5>1, <5>2
      <4>. QED BY <1>0, <1>3, <2>2, <3>2, <4>1 DEF DrawerOK, DrawerInv, Filled
    <3>. QED BY <2>2, <3>1, <3>2
  <2>4. SiteOK'
    BY <1>0, <1>3, SiteKept
  <2>. QED BY <1>3, <2>1, <2>3, <2>4, PartsNext
<1>4. /\ ops \in 0..MaxOps /\ turns \in 0..MaxTurns /\ fails \in 0..MaxFails
      /\ MaxOps \in Nat /\ MaxTurns \in Nat /\ MaxFails \in Nat
      /\ act \in [Slot -> Act] /\ order \in Seq(Slot) /\ rows \in 0..MaxRows /\ page \in PageOf
      /\ hurried \in BOOLEAN /\ failed \in BOOLEAN /\ disorder \in BOOLEAN
      /\ shown \in Shown \cup {None}
  BY <1>0, BoundsAssumption DEF VisitOK, ListOK
<1>5. ASSUME NEW s \in Slot, NEW p \in PageOf, ChangePage(s, p)
      PROVE  IndInv'
  <2>1. /\ act[s].pc # "load" /\ act' = Load(act, s, p) /\ order' = Append(order, s) /\ page' = p
        /\ UNCHANGED <<pageType, rows, shown, failed, disorder, drawerVars, siteVars, ops, fails>>
        /\ turns' \in 0..MaxTurns
    BY <1>4, <1>5 DEF ChangePage, Show
  <2>2. hurried' = (hurried \/ ~Quiet)
    BY <1>5 DEF ChangePage
  <2>3. hurried' \in BOOLEAN /\ (hurried => hurried') /\ (hurried' \/ Quiet)
    BY <1>4, <2>2
  <2>4. hurried' \/ Writing \subseteq {s}
    BY <1>0, <2>3, QuietEmpty
  <2>5. ListOK'
    BY <1>0, <2>1, <2>3, <2>4, LoadStarts
  <2>. QED BY <1>1, <1>4, <2>1, <2>5
<1>6. ASSUME NEW s \in Slot, NEW op \in Operation, Operate(s, op)
      PROVE  IndInv'
  <2>. DEFINE r == [Idle EXCEPT !.pc = "write", !.page = page, !.delta = op.delta, !.reset = op.reset]
  <2>1. r \in Act /\ r.pc = "write" /\ r.page = page /\ r.reset = op.reset
    <3>1. op.delta \in {-1, 0, 1} /\ op.reset \in BOOLEAN
      BY OperationType
    <3>. QED BY <1>4, <3>1, IdleAct DEF Act
  <2>2. /\ act[s].pc = "idle" /\ act' = [act EXCEPT ![s] = r]
        /\ UNCHANGED <<pageType, rows, page, shown, order, failed, disorder, drawerVars, siteVars,
                       turns, fails>>
        /\ ops' = ops + 1 /\ ops < MaxOps /\ pageType \in op.on
    BY <1>6 DEF Operate
  <2>. HIDE DEF r
  <2>3. op.reset => pageType = "riskLogs"
    BY <2>2, OperationType
  <2>4. hurried' = (hurried \/ ~Quiet)
    BY <1>6 DEF Operate
  <2>5. hurried' \in BOOLEAN /\ (hurried => hurried') /\ (hurried' \/ Quiet)
    BY <1>4, <2>4
  <2>6. /\ act' \in [Slot -> Act] /\ act'[s] = r /\ \A t \in Slot \ {s} : act'[t] = act[t]
    BY <1>4, <2>1, <2>2
  <2>7. ListOK'
    BY <1>0, <1>4, <2>1, <2>2, <2>3, <2>5, <2>6, OperationStep
  <2>8. ops' \in 0..MaxOps /\ ops <= ops'
    BY <1>4, <2>2
  <2>. QED BY <1>1, <1>4, <2>2, <2>7, <2>8
<1>7. ASSUME NEW s \in Slot, Handle(s)
      PROVE  IndInv'
  <2>1. PICK n \in 0..MaxRows : n = Changed(act[s].delta)
    <3>1. act[s].delta \in Int
      BY <1>4 DEF Act
    <3>. QED BY <1>4, <3>1, ChangedType
  <2>2. PICK a \in [Slot -> Act] : a = Widened(n)
    BY <1>4, WidenedType
  <2>3. /\ act[s].pc = "write" /\ rows' = n
        /\ act' = [a EXCEPT ![s].pc = "written"]
        /\ UNCHANGED <<pageType, page, shown, order, failed, hurried, disorder, drawerVars, siteVars,
                       ops, turns, fails>>
    BY <1>7, <2>1, <2>2 DEF Handle
  <2>4. \A t \in Slot : a[t].pc = act[t].pc /\ a[t].page = act[t].page /\ a[t].reset = act[t].reset
    BY <1>4, <2>2, WidenedType
  <2>5. PICK r \in Act : /\ r = [a[s] EXCEPT !.pc = "written"]
                         /\ r.pc = "written" /\ r.page = a[s].page /\ r.reset = a[s].reset
    <3>1. PICK v \in Act : v = a[s]
      BY <2>2
    <3>2. /\ [v EXCEPT !.pc = "written"] \in Act /\ [v EXCEPT !.pc = "written"].pc = "written"
          /\ [v EXCEPT !.pc = "written"].page = v.page /\ [v EXCEPT !.pc = "written"].reset = v.reset
      BY DEF Act
    <3>. QED BY <3>1, <3>2
  <2>6. act' \in [Slot -> Act] /\ act'[s] = r /\ \A t \in Slot \ {s} : act'[t] = a[t]
    <3>1. act' = [a EXCEPT ![s] = r]
      BY <2>3, <2>5
    <3>. QED BY <2>2, <3>1
  <2>7. s \in Writing /\ (act[s].reset => pageType = "riskLogs")
    BY <1>0, <2>3 DEF Writing, ListOK, ListInv, WritingAlone
  <2>8. /\ \A t \in Slot \ {s} : act'[t].pc = act[t].pc /\ act'[t].page = act[t].page
                                  /\ act'[t].reset = act[t].reset
        /\ act'[s].pc = "written" /\ act'[s].page = act[s].page /\ act'[s].reset = act[s].reset
    BY <2>4, <2>5, <2>6
  <2>9. ListOK'
    <3>1. act[s].pc # "load" /\ act'[s].pc # "load" /\ (act'[s].reset => pageType = "riskLogs")
      BY <2>3, <2>7, <2>8
    <3>2. UNCHANGED <<pageType, page, shown, order, failed, hurried, disorder>> /\ rows' \in 0..MaxRows
      BY <2>1, <2>3
    <3>3. hurried' \in BOOLEAN /\ (hurried => hurried')
      BY <1>4, <3>2
    <3>4. s \in Writing /\ act'[s].page = act[s].page
      BY <2>7, <2>8
    <3>. QED BY <1>0, <2>6, <2>8, <3>1, <3>2, <3>3, <3>4, OperationStep
  <2>10. UNCHANGED <<ops, turns, fails, pageType, drawerVars, siteVars>>
    BY <2>3
  <2>11. ops' \in 0..MaxOps /\ ops <= ops' /\ turns' \in 0..MaxTurns /\ fails' \in 0..MaxFails
    BY <1>4, <2>10
  <2>. QED BY <1>1, <2>9, <2>10, <2>11
<1>8. ASSUME NEW s \in Slot, NEW t \in Slot, Reload(s, t)
      PROVE  IndInv'
  <2>. DEFINE a == Load(act, s, act[s].page)
  <2>1. act[s].pc = "written" /\ act[s].page \in PageOf /\ s \in Writing
    BY <1>4, <1>8 DEF Reload, Act, Writing
  <2>2. UNCHANGED <<pageType, rows, shown, failed, hurried, disorder, drawerVars, siteVars, ops, turns,
                    fails>>
    BY <1>8 DEF Reload
  <2>3. /\ a \in [Slot -> Act] /\ a[s].pc = "load" /\ a[s].page = act[s].page /\ ~a[s].reset
        /\ \A r \in Slot \ {s} : a[r] = act[r]
    BY <1>4, <2>1, LoadAct
  <2>4. ~hurried => /\ act[s].page = page
                    /\ pageType # "users" => \A r \in Slot \ {s} : act[r].pc = "idle"
    BY <1>0, <2>1 DEF ListOK, ListInv, WritingAlone
  <2>5. CASE act[s].reset /\ page # 1
    <3>1. /\ s # t /\ act[t].pc = "idle" /\ page' = 1
          /\ act' = Load(a, t, 1) /\ order' = Append(Append(order, s), t)
      BY <1>8, <2>5 DEF Reload
    <3>2. pageType = "riskLogs"
      BY <1>0, <2>5 DEF ListOK, ListInv, WritingAlone
    <3>. HIDE DEF a
    <3>3. /\ act' \in [Slot -> Act] /\ act'[t].pc = "load" /\ act'[t].page = 1 /\ ~act'[t].reset
          /\ \A r \in Slot \ {t} : act'[r] = a[r]
      BY <1>4, <2>3, <3>1, Bounds, LoadAct
    <3>4. /\ act'[s].pc = "load" /\ ~act'[s].reset
          /\ \A r \in Slot \ {s, t} : act'[r] = act[r]
      BY <2>3, <3>1, <3>3
    <3>5. Loading' = (Loading \cup {s}) \cup {t} /\ s \notin Loading /\ t \notin Loading \cup {s}
      BY <2>1, <3>1, <3>3, <3>4 DEF Loading
    <3>6. /\ Enumerates(order', Loading')
          /\ Len(order') > 0 /\ order'[Len(order')] = t
      <4>1. order \in Seq(Slot) /\ Enumerates(order, Loading) /\ Len(order) \in Nat
        BY <1>0 DEF ListOK, ListInv
      <4>2. Enumerates(Append(order, s), Loading \cup {s}) /\ Len(Append(order, s)) = Len(order) + 1
        BY <3>5, <4>1, EnumAppend
      <4>3. PICK q : q = Append(order, s)
        OBVIOUS
      <4>4. /\ Enumerates(Append(q, t), (Loading \cup {s}) \cup {t})
            /\ Len(Append(q, t)) = Len(q) + 1 /\ Append(q, t)[Len(q) + 1] = t
        BY <3>5, <4>2, <4>3, EnumAppend
      <4>5. order' = Append(q, t) /\ Len(q) = Len(order) + 1
        BY <3>1, <4>2, <4>3
      <4>. QED BY <3>5, <4>1, <4>4, <4>5
    <3>7. WritingAlone'
      <4>1. ~hurried => Writing' = {}
        BY <2>4, <3>2, <3>3, <3>4 DEF Writing
      <4>. QED BY <1>0, <2>2, <3>2, <3>3, <3>4, <4>1 DEF ListOK, ListInv, WritingAlone
    <3>8. ListOK'
      BY <1>4, <2>2, <3>1, <3>3, <3>6, <3>7, Bounds
         DEF ListOK, ListInv, LastFits, ShownFits, Enumerates
    <3>. QED BY <1>1, <1>4, <2>2, <3>8
  <2>6. CASE ~(act[s].reset /\ page # 1)
    <3>1. act' = a /\ order' = Append(order, s) /\ page' = page
      BY <1>8, <2>6 DEF Reload
    <3>2. CASE hurried
      <4>1. /\ act' \in [Slot -> Act] /\ act'[s].pc = "load" /\ ~act'[s].reset
            /\ \A r \in Slot \ {s} : act'[r] = act[r]
        BY <2>3, <3>1
      <4>2. Loading' = Loading \cup {s} /\ s \notin Loading
        BY <2>1, <4>1 DEF Loading
      <4>3. Enumerates(order', Loading')
        BY <1>0, <3>1, <4>2, EnumAppend DEF ListOK, ListInv
      <4>4. ListOK'
        BY <1>0, <1>4, <2>2, <3>1, <3>2, <4>1, <4>3
           DEF ListOK, ListInv, WritingAlone, LastFits, ShownFits, Enumerates
      <4>. QED BY <1>1, <1>4, <2>2, <4>4
    <3>3. CASE ~hurried
      <4>1. act' = Load(act, s, page) /\ act[s].pc # "load"
        BY <2>1, <2>4, <3>1, <3>3
      <4>2. Writing \subseteq {s} \/ (pageType = "users" /\ page' = page)
        BY <2>4, <3>1, <3>3 DEF Writing
      <4>3. hurried' \in BOOLEAN /\ (hurried => hurried')
        BY <1>4, <2>2
      <4>4. UNCHANGED <<pageType, rows, shown, failed, disorder>>
        BY <2>2
      <4>. HIDE DEF a
      <4>5. ListOK'
        BY <1>0, <1>4, <3>1, <4>1, <4>2, <4>3, <4>4, LoadStarts
      <4>. QED BY <1>1, <1>4, <2>2, <4>5
    <3>. QED BY <1>4, <3>2, <3>3
  <2>. QED BY <2>5, <2>6
<1>9. ASSUME NEW s \in Slot, OperationFails(s)
      PROVE  IndInv'
  <2>1. /\ act[s].pc \in {"write", "written"} /\ act' = [act EXCEPT ![s] = Idle]
        /\ fails < MaxFails /\ fails' = fails + 1
        /\ UNCHANGED <<pageType, rows, page, shown, order, failed, hurried, disorder>>
    BY <1>9 DEF OperationFails
  <2>2. UNCHANGED <<pageType, drawerVars, siteVars, ops, turns>>
    BY <1>9 DEF OperationFails
  <2>3. act' \in [Slot -> Act] /\ act'[s] = Idle /\ \A t \in Slot \ {s} : act'[t] = act[t]
    BY <1>4, <2>1, IdleAct
  <2>4. hurried' \in BOOLEAN /\ (hurried => hurried')
    BY <1>4, <2>1
  <2>5. ListOK'
    BY <1>0, <1>4, <2>1, <2>3, <2>4, IdleAct, OperationStep
  <2>6. fails' \in 0..MaxFails
    BY <1>4, <2>1
  <2>. QED BY <1>1, <1>4, <2>2, <2>5, <2>6
<1>10. ASSUME NEW s \in Slot, NEW total \in act[s].low..act[s].high, NEW n \in act[s].low..act[s].high,
              Loaded(s, total, n)
       PROVE  IndInv'
  <2>1. /\ act[s].page \in PageOf /\ act[s].low \in 0..MaxRows /\ act[s].high \in 0..MaxRows
    BY <1>4 DEF Act
  <2>2. PICK v : v = [page |-> act[s].page, total |-> total, any |-> act[s].page <= n]
    OBVIOUS
  <2>3. v \in Shown /\ v.page = act[s].page /\ v.total \in 0..MaxRows
    <3>1. total \in 0..MaxRows
      BY <2>1, Bounds
    <3>2. (act[s].page <= n) \in BOOLEAN
      OBVIOUS
    <3>. QED BY <2>1, <2>2, <3>1, <3>2 DEF Shown
  <2>4. /\ act[s].pc = "load" /\ shown' = v /\ failed' = FALSE
        /\ disorder' = (disorder \/ Head(order) # s)
        /\ page' = CorrectPage(page, v)
        /\ IF page' # page THEN act' = Load(act, s, page') /\ order' = Append(Without(s), s)
           ELSE act' = [act EXCEPT ![s] = Idle] /\ order' = Without(s)
        /\ UNCHANGED <<pageType, rows, hurried>>
    BY <1>10, <2>2 DEF Loaded
  <2>5. CloseAfter(s) /\ UNCHANGED <<pageType, siteVars, ops, turns, fails>>
    BY <1>10 DEF Loaded
  <2>6. LastPage(v.total) \in PageOf /\ LastPage(v.total) >= 1
    BY <2>3, LastPageType
  <2>7. CASE page' = page
    <3>1. pageType \in Corrected => v.any \/ page <= LastPage(v.total)
      BY <1>4, <2>4, <2>6, <2>7 DEF CorrectPage, PageOf
    <3>2. ListOK'
      BY <1>0, <2>3, <2>4, <2>7, <3>1, LoadEnds
    <3>. QED BY <1>3, <1>4, <2>5, <3>2
  <2>8. CASE page' # page
    <3>1. pageType \in Corrected /\ page' \in PageOf
      BY <2>4, <2>6, <2>8 DEF CorrectPage
    <3>2. PICK p \in PageOf : p = page'
      BY <3>1
    <3>3. ListOK'
      BY <1>0, <2>3, <2>4, <2>8, <3>1, <3>2, LoadCorrects
    <3>. QED BY <1>3, <1>4, <2>5, <3>3
  <2>. QED BY <2>7, <2>8
<1>11. ASSUME NEW s \in Slot, LoadFails(s)
       PROVE  IndInv'
  <2>1. /\ act[s].pc = "load" /\ act' = [act EXCEPT ![s] = Idle] /\ order' = Without(s)
        /\ failed' = TRUE /\ disorder' = (disorder \/ Head(order) # s)
        /\ UNCHANGED <<pageType, rows, page, shown, hurried>>
        /\ fails < MaxFails /\ fails' = fails + 1
    BY <1>11 DEF LoadFails
  <2>2. CloseAfter(s) /\ UNCHANGED <<pageType, siteVars, ops, turns>>
    BY <1>11 DEF LoadFails
  <2>3. ListOK'
    BY <1>0, <1>4, <2>1, LoadEnds
  <2>4. fails' \in 0..MaxFails
    BY <1>4, <2>1
  <2>. QED BY <1>3, <2>2, <2>3, <2>4
<1>. QED BY <1>5, <1>6, <1>7, <1>8, <1>9, <1>10, <1>11 DEF Lister

-----------------------------------------------------------------------------
(* What the drawer does *)

LEMMA DrawerIndInv == ASSUME IndInv, PolicyDrawer PROVE IndInv'
<1>0. VisitOK /\ ListOK /\ DrawerOK /\ SiteOK
  BY Parts
<1>. USE DEF MayOperate, MayFail
<1>1. /\ ops \in 0..MaxOps /\ turns \in 0..MaxTurns /\ fails \in 0..MaxFails
      /\ MaxOps \in Nat /\ MaxTurns \in Nat /\ MaxFails \in Nat
      /\ Number = 0..MaxOps + 1
      /\ drawer \in Drawer /\ asked \subseteq [user : User, low : Number]
      /\ policies \in [User -> Number] /\ saved \subseteq Drawer
  BY <1>0, BoundsAssumption DEF VisitOK, DrawerOK, Number
<1>2. /\ drawer.st \in {"closed"} \cup {"saving", "saved"} \cup Slot => asked = {}
      /\ drawer.st # "closed" =>
            /\ pageType = "users"
            /\ drawer.user \in User /\ drawer.of = drawer.user
            /\ \A q \in asked : q.user = drawer.user /\ q.low = drawer.opened
            /\ asked = {} => Filled(drawer)
      /\ \A u \in User : policies[u] + (IF drawer.st = "saving" /\ drawer.user = u THEN 1 ELSE 0) <= ops
      /\ \A d \in saved : Filled(d)
  BY <1>0 DEF DrawerOK, DrawerInv
<1>3. \A u \in User : policies[u] \in Number /\ policies[u] <= ops
  <2>. SUFFICES ASSUME NEW u \in User PROVE policies[u] \in Number /\ policies[u] <= ops
    OBVIOUS
  <2>1. policies[u] + (IF drawer.st = "saving" /\ drawer.user = u THEN 1 ELSE 0) <= ops
    BY <1>2
  <2>. QED BY <1>1, <2>1
<1>4. NoDrawer \in Drawer /\ NoDrawer.st = "closed"
  BY <1>1 DEF NoDrawer, Drawer
\* The drawer changes, the list and the settings do not.
<1>5. ASSUME UNCHANGED <<pageType, listVars, siteVars>>, ops' \in 0..MaxOps, turns' \in 0..MaxTurns,
             fails' \in 0..MaxFails, DrawerOK'
      PROVE  IndInv'
  <2>1. VisitOK' /\ ListOK' /\ SiteOK'
    BY <1>0, <1>5, ListKept, SiteKept DEF VisitOK
  <2>. QED BY <1>5, <2>1, PartsNext
<1>6. ASSUME NEW u \in User, OpenSecurityPolicy(u)
      PROVE  IndInv'
  <2>. DEFINE d == [NoDrawer EXCEPT !.user = u, !.of = u, !.opened = policies[u], !.st = "ready"]
              q == [user |-> u, low |-> policies[u]]
  <2>1. d \in Drawer /\ d.st = "ready" /\ d.user = u /\ d.of = u /\ d.opened = policies[u]
    BY <1>1, <1>3, <1>4 DEF NoDrawer, Drawer
  <2>2. q \in [user : User, low : Number] /\ q.user = u /\ q.low = policies[u]
    BY <1>3
  <2>3. /\ pageType = "users" /\ drawer.st = "closed" /\ turns < MaxTurns /\ turns' = turns + 1
        /\ drawer' = d /\ asked' = asked \cup {q}
        /\ UNCHANGED <<pageType, listVars, policies, saved, siteVars, ops, fails>>
    BY <1>6 DEF OpenSecurityPolicy
  <2>. HIDE DEF d, q
  <2>4. asked' = {q}
    BY <1>2, <2>3
  <2>5. DrawerInv'
    <3>1. drawer'.st = "ready" /\ "ready" \notin {"closed"} \cup {"saving", "saved"} \cup Slot
      BY <2>1, <2>3, SlotAssumption
    <3>2. \A v \in User : policies'[v] + 0 <= ops'
      BY <1>1, <1>3, <2>3
    <3>. QED BY <1>2, <2>1, <2>2, <2>3, <2>4, <3>1, <3>2 DEF DrawerInv, Filled
  <2>6. DrawerOK'
    BY <1>1, <2>1, <2>2, <2>3, <2>4, <2>5 DEF DrawerOK
  <2>. QED BY <1>1, <1>5, <2>3, <2>6
<1>7. ASSUME NEW u \in User, OtherSavesPolicy(u)
      PROVE  IndInv'
  <2>1. /\ ops < MaxOps /\ ops' = ops + 1
        /\ policies' = [policies EXCEPT ![u] = policies[u] + 1]
        /\ UNCHANGED <<pageType, listVars, drawer, asked, saved, siteVars, turns, fails>>
    BY <1>7 DEF OtherSavesPolicy
  <2>2. policies' \in [User -> Number]
    BY <1>1, <1>3, <2>1
  <2>3. ASSUME NEW v \in User
        PROVE  policies'[v] + (IF drawer.st = "saving" /\ drawer.user = v THEN 1 ELSE 0) <= ops'
    <3>1. policies[v] + (IF drawer.st = "saving" /\ drawer.user = v THEN 1 ELSE 0) <= ops
      BY <1>2
    <3>2. policies[v] \in Int /\ (policies'[v] = policies[v] \/ policies'[v] = policies[v] + 1)
      BY <1>1, <1>3, <2>1
    <3>. QED BY <1>1, <2>1, <3>1, <3>2
  <2>4. DrawerOK'
    BY <1>1, <1>2, <2>1, <2>2, <2>3 DEF DrawerOK, DrawerInv, Filled
  <2>5. ops' \in 0..MaxOps
    BY <1>1, <2>1
  <2>. QED BY <1>1, <1>5, <2>1, <2>4, <2>5
\* A policy arrives: the drawer is open, and it is the one it waits for.
<1>8. ASSUME NEW q \in asked
      PROVE  /\ drawer.st = "ready" /\ drawer.user \in User /\ drawer.of = drawer.user
             /\ pageType = "users" /\ q.user = drawer.user /\ q.low = drawer.opened
             /\ q.low \in Number
  <2>1. drawer.st \notin {"closed"} \cup {"saving", "saved"} \cup Slot
    BY <1>2
  <2>2. drawer.st = "ready"
    BY <1>1, <2>1 DEF Drawer
  <2>. QED BY <1>1, <1>2, <2>2
<1>9. ASSUME NEW q \in asked, PolicyFails(q)
      PROVE  IndInv'
  <2>. DEFINE d == [drawer EXCEPT !.missed = TRUE]
  <2>1. /\ d \in Drawer /\ d.st = drawer.st /\ d.user = drawer.user /\ d.of = drawer.of
        /\ d.opened = drawer.opened /\ d.missed
    BY <1>1 DEF Drawer
  <2>2. /\ fails < MaxFails /\ fails' = fails + 1
        /\ asked' = asked \ {q} /\ drawer' = d
        /\ UNCHANGED <<pageType, listVars, policies, saved, siteVars, ops, turns>>
    BY <1>9 DEF PolicyFails
  <2>. HIDE DEF d
  <2>3. DrawerOK'
    BY <1>1, <1>2, <1>8, <2>1, <2>2, SlotAssumption DEF DrawerOK, DrawerInv, Filled
  <2>4. fails' \in 0..MaxFails
    BY <1>1, <2>2
  <2>. QED BY <1>1, <1>5, <2>2, <2>3, <2>4
<1>10. ASSUME NEW q \in asked, NEW v \in q.low..policies[q.user], PolicyLoaded(q, v)
       PROVE  IndInv'
  <2>. DEFINE d == [drawer EXCEPT !.of = q.user, !.base = v, !.missed = FALSE]
  <2>1. v \in Number /\ v >= q.low
    BY <1>1, <1>3, <1>8
  <2>2. /\ d \in Drawer /\ d.st = drawer.st /\ d.user = drawer.user /\ d.of = q.user
        /\ d.opened = drawer.opened /\ d.base = v
    BY <1>1, <1>8, <2>1 DEF Drawer
  <2>3. /\ asked' = asked \ {q} /\ drawer' = d
        /\ UNCHANGED <<pageType, listVars, policies, saved, siteVars, ops, turns, fails>>
    BY <1>8, <1>10 DEF PolicyLoaded
  <2>. HIDE DEF d
  <2>4. DrawerOK'
    BY <1>1, <1>2, <1>8, <2>1, <2>2, <2>3, SlotAssumption DEF DrawerOK, DrawerInv, Filled
  <2>. QED BY <1>1, <1>5, <2>3, <2>4
<1>11. CASE CloseSecurityPolicy
  <2>1. /\ asked = {} /\ drawer' = NoDrawer
        /\ UNCHANGED <<pageType, listVars, asked, policies, saved, siteVars, ops, turns, fails>>
    BY <1>11 DEF CloseSecurityPolicy, Closable
  <2>2. \A v \in User : policies[v] + 0 <= ops
    BY <1>1, <1>3
  <2>3. DrawerOK'
    BY <1>1, <1>2, <1>4, <2>1, <2>2 DEF DrawerOK, DrawerInv, Filled
  <2>. QED BY <1>1, <1>5, <2>1, <2>3
<1>12. CASE UpdateUserSecurityPolicy
  <2>. DEFINE d == [drawer EXCEPT !.st = "saving"]
  <2>1. /\ d \in Drawer /\ d.st = "saving" /\ d.user = drawer.user /\ d.of = drawer.of
        /\ d.opened = drawer.opened /\ d.base = drawer.base /\ d.missed = drawer.missed
    BY <1>1 DEF Drawer
  <2>2. /\ drawer.st = "ready" /\ asked = {} /\ ops < MaxOps /\ ops' = ops + 1 /\ drawer' = d
        /\ saved' = saved \cup {drawer}
        /\ UNCHANGED <<pageType, listVars, asked, policies, siteVars, turns, fails>>
    BY <1>12 DEF UpdateUserSecurityPolicy
  <2>. HIDE DEF d
  <2>3. ASSUME NEW v \in User
        PROVE  policies[v] + (IF d.st = "saving" /\ d.user = v THEN 1 ELSE 0) <= ops'
    BY <1>1, <1>3, <2>2
  <2>4. DrawerOK'
    BY <1>1, <1>2, <2>1, <2>2, <2>3 DEF DrawerOK, DrawerInv, Filled
  <2>5. ops' \in 0..MaxOps
    BY <1>1, <2>2
  <2>. QED BY <1>1, <1>5, <2>2, <2>4, <2>5
<1>13. CASE HandlePolicy
  <2>. DEFINE d == [drawer EXCEPT !.st = "saved"]
  <2>1. /\ d \in Drawer /\ d.st = "saved" /\ d.user = drawer.user /\ d.of = drawer.of
        /\ d.opened = drawer.opened /\ d.base = drawer.base /\ d.missed = drawer.missed
    BY <1>1 DEF Drawer
  <2>2. /\ drawer.st = "saving" /\ drawer' = d
        /\ policies' = [policies EXCEPT ![drawer.user] = policies[drawer.user] + 1]
        /\ UNCHANGED <<pageType, listVars, asked, saved, siteVars, ops, turns, fails>>
    BY <1>13 DEF HandlePolicy
  <2>. HIDE DEF d
  <2>3. drawer.user \in User /\ Filled(drawer) /\ asked = {}
    BY <1>2, <2>2
  <2>4. ASSUME NEW v \in User
        PROVE  policies'[v] \in Number /\ policies'[v] + 0 <= ops
    <3>1. policies[v] + (IF drawer.st = "saving" /\ drawer.user = v THEN 1 ELSE 0) <= ops
      BY <1>2
    <3>2. policies'[v] = IF drawer.user = v THEN policies[v] + 1 ELSE policies[v]
      BY <1>1, <2>2, <2>3
    <3>. QED BY <1>1, <1>3, <2>2, <3>1, <3>2
  <2>5. policies' \in [User -> Number]
    BY <1>1, <2>2, <2>3, <2>4
  <2>6. DrawerOK'
    BY <1>1, <1>2, <2>1, <2>2, <2>3, <2>4, <2>5 DEF DrawerOK, DrawerInv, Filled
  <2>. QED BY <1>1, <1>5, <2>2, <2>6
\* The answer: the list is loaded again, and the drawer waits for it.
<1>14. ASSUME NEW s \in Slot, PolicySaved(s)
       PROVE  IndInv'
  <2>. DEFINE d == [drawer EXCEPT !.st = s]
  <2>1. /\ d \in Drawer /\ d.st = s /\ d.user = drawer.user /\ d.of = drawer.of
        /\ d.opened = drawer.opened /\ d.base = drawer.base /\ d.missed = drawer.missed
    BY <1>1 DEF Drawer
  <2>2. /\ drawer.st = "saved" /\ act[s].pc = "idle" /\ drawer' = d
        /\ act' = Load(act, s, page) /\ order' = Append(order, s)
        /\ UNCHANGED <<pageType, rows, page, shown, failed, hurried, disorder>>
    BY <1>14 DEF PolicySaved
  <2>3. UNCHANGED <<pageType, asked, policies, saved, siteVars, ops, turns, fails>>
    BY <1>14 DEF PolicySaved
  <2>. HIDE DEF d
  <2>4. pageType = "users"
    BY <1>2, <2>2
  <2>5. ListOK'
    <3>1. page \in PageOf /\ page' = page /\ hurried' \in BOOLEAN /\ (hurried => hurried')
      BY <1>0, <2>2 DEF ListOK
    <3>. QED BY <1>0, <2>2, <2>4, <3>1, LoadStarts
  <2>6. d.st # "saving" /\ d.st # "closed"
    BY <2>1, SlotAssumption
  <2>7. \A v \in User : policies[v] + 0 <= ops
    BY <1>1, <1>3
  <2>8. DrawerOK'
    BY <1>1, <1>2, <2>1, <2>2, <2>3, <2>6, <2>7 DEF DrawerOK, DrawerInv, Filled
  <2>9. VisitOK' /\ SiteOK'
    BY <1>0, <2>3, SiteKept DEF VisitOK
  <2>. QED BY <2>5, <2>8, <2>9, PartsNext
<1>15. CASE PolicySaveFails
  <2>. DEFINE d == [drawer EXCEPT !.st = "ready"]
  <2>1. /\ d \in Drawer /\ d.st = "ready" /\ d.user = drawer.user /\ d.of = drawer.of
        /\ d.opened = drawer.opened /\ d.base = drawer.base /\ d.missed = drawer.missed
    BY <1>1 DEF Drawer
  <2>2. /\ drawer.st \in {"saving", "saved"} /\ fails < MaxFails /\ fails' = fails + 1 /\ drawer' = d
        /\ UNCHANGED <<pageType, listVars, asked, policies, saved, siteVars, ops, turns>>
    BY <1>15 DEF PolicySaveFails
  <2>. HIDE DEF d
  <2>3. \A v \in User : policies[v] + 0 <= ops
    BY <1>1, <1>3
  <2>4. DrawerOK'
    BY <1>1, <1>2, <2>1, <2>2, <2>3 DEF DrawerOK, DrawerInv, Filled
  <2>5. fails' \in 0..MaxFails
    BY <1>1, <2>2
  <2>. QED BY <1>1, <1>5, <2>2, <2>4, <2>5
<1>. QED BY <1>6, <1>7, <1>9, <1>10, <1>11, <1>12, <1>13, <1>14, <1>15 DEF PolicyDrawer

-----------------------------------------------------------------------------
(* What the settings do *)

\* The server is at no save but that of a.
NoneElse(a) == late = {} /\ \A b \in Others(a) : site[b].save.pc \notin Active

\* A step of one administrator that leaves what is stored alone.
LEMMA SiteStep ==
    ASSUME SiteOK, NEW a \in Admin, NEW w \in Site,
           site' = [site EXCEPT ![a] = w], UNCHANGED <<db, late, accepted>>,
           overlap' \in BOOLEAN, blind' \in BOOLEAN, overlap => overlap', blind => blind',
           SiteSound(w),
           ~overlap' => /\ CarriesSecret(w.save)
                        /\ w.save.pc \in Active => NoneElse(a),
           ~overlap' /\ ~blind' => Matches(w)
    PROVE  SiteOK'
<1>0. site \in [Admin -> Site] /\ db \in Values /\ accepted \in Values
  BY DEF SiteOK
<1>1. site' \in [Admin -> Site] /\ site'[a] = w /\ \A b \in Admin \ {a} : site'[b] = site[b]
  BY <1>0
<1>2. SiteInv'
  <2>1. (\A b \in Admin : SiteSound(site'[b])) /\ \A l \in late : LateSound(l)
    BY <1>1 DEF SiteOK, SiteInv
  <2>. QED BY <2>1 DEF SiteInv, SiteSound, LateSound
<1>3. SecretInv'
  <2>. SUFFICES ASSUME ~overlap' PROVE SecretInv'
    BY DEF SecretInv
  <2>1. \A b \in Admin : CarriesSecret(site'[b].save)
    BY <1>1 DEF SiteOK, SecretInv
  <2>2. ASSUME NEW b \in Admin, NEW c \in Admin, site'[b].save.pc \in Active, site'[c].save.pc \in Active
        PROVE  b = c
    BY <1>1, <2>2 DEF SiteOK, SecretInv, NoneElse, Others
  <2>3. \A b \in Admin : site'[b].save.pc \in Active => late = {}
    BY <1>1 DEF SiteOK, SecretInv, NoneElse
  <2>4. /\ db["secret"] = accepted["secret"]
        /\ \A l, k \in late : l = k
        /\ \A l \in late : CarriesSecret(l)
    BY DEF SiteOK, SecretInv
  <2>. QED BY <2>1, <2>2, <2>3, <2>4 DEF SecretInv, CarriesSecret
<1>4. TabsInv'
  <2>. SUFFICES ASSUME ~overlap', ~blind' PROVE TabsInv'
    BY DEF TabsInv
  <2>1. \A b \in Admin : Matches(site'[b])
    BY <1>1 DEF SiteOK, TabsInv
  <2>2. (\A t \in SettingsTab : db[t] = accepted[t]) /\ \A l \in late : Fits(l)
    BY DEF SiteOK, TabsInv
  <2>. QED BY <2>1, <2>2 DEF TabsInv, Matches, Fits
<1>. QED BY <1>0, <1>1, <1>2, <1>3, <1>4 DEF SiteOK

\* A step that takes nothing of the save away or forward.
LEMMA SaveWaits ==
    ASSUME SiteOK, NEW a \in Admin, NEW w \in Site, w.save = site[a].save,
           site' = [site EXCEPT ![a] = w], UNCHANGED <<db, late, accepted, overlap, blind>>,
           SiteSound(w),
           ~w.stale => ~site[a].stale \/ w.save.pc \in {"idle", "reload"},
           ~w.stale /\ w.save.pc \in {"idle", "reload"} =>
              \/ \A t \in SettingsTab : w.copy[t] = db[t]
              \/ ~site[a].stale /\ w.copy = site[a].copy
    PROVE  SiteOK'
<1>1. ~overlap => /\ CarriesSecret(w.save)
                  /\ w.save.pc \in Active => NoneElse(a)
  BY DEF SiteOK, SecretInv, NoneElse, Others
<1>2. ~overlap /\ ~blind => Matches(w)
  BY DEF SiteOK, TabsInv, Matches, Fits, Active
<1>3. overlap' \in BOOLEAN /\ blind' \in BOOLEAN /\ (overlap => overlap') /\ (blind => blind')
  BY DEF SiteOK
<1>. QED BY <1>1, <1>2, <1>3, SiteStep

\* What a page is shown of the settings: no secret.
LEMMA Hidden ==
    ASSUME NEW f \in Values
    PROVE  /\ [f EXCEPT !["secret"] = Blank] \in Values
           /\ [f EXCEPT !["secret"] = Blank]["secret"] = Blank
           /\ \A t \in SettingsTab : [f EXCEPT !["secret"] = Blank][t] = f[t]
<1>1. "secret" \in Row /\ SettingsTab \subseteq Row \ {"secret"} /\ Blank \in Number
  BY TabAssumption, BoundsAssumption DEF Row, Blank, Number
<1>. QED BY <1>1 DEF Values

LEMMA DefaultsType == Defaults \in Values /\ Defaults["secret"] = Blank /\ Blank \in Number
BY TabAssumption, BoundsAssumption DEF Defaults, Values, Row, Blank, Number

LEMMA NoSaveType == NoSave \in Save /\ NoSave.pc = "idle" /\ ~NoSave.entered /\ NoSave.left = {}
                    /\ NoSave.body = Defaults
BY DefaultsType, TabAssumption DEF NoSave, Save

\* UpdateSystemSettings reads the secret: the save carries it unless it has its own.
LEMMA ReadSave ==
    ASSUME db \in Values, NEW old \in Save, SaveSound(old), old.pc = "sent"
    PROVE  /\ Read(old) \in Save /\ Read(old).pc = "write"
           /\ SaveSound(Read(old)) /\ CarriesSecret(Read(old))
           /\ Fits(old) => Fits(Read(old))
<1>. DEFINE body == KeepSecret(old.body, db["secret"])
            save == [old EXCEPT !.pc = "write", !.left = SettingsTab, !.body = body]
<1>1. old.body \in Values /\ old.tab \in SettingsTab
  BY DEF Save
<1>2. /\ body \in Values
      /\ \A r \in SettingsTab : body[r] = old.body[r]
      /\ old.body["secret"] = Blank => body["secret"] = db["secret"]
  <2>1. /\ "secret" \in Row /\ "secret" \notin SettingsTab /\ SettingsTab \subseteq Row
        /\ db["secret"] \in Number
    BY TabAssumption DEF Row, Values
  <2>. QED BY <1>1, <2>1 DEF KeepSecret, Values
<1>3. Read(old) = save
  BY DEF Read, Save
<1>. HIDE DEF body
<1>4. /\ save \in Save /\ save.pc = "write" /\ save.left = SettingsTab /\ save.body = body
      /\ save.tab = old.tab /\ save.entered = old.entered
  BY <1>2 DEF Save
<1>. HIDE DEF save
<1>. QED BY <1>1, <1>2, <1>3, <1>4 DEF SaveSound, CarriesSecret, Fits, Active

\* UpsertSettings writes the rows of a tab: what is stored and what was accepted
\* stay the same, and the save goes on to carry what is stored.
RowsWritten(old, t) ==
    /\ db' \in Values /\ accepted' \in Values
    /\ db["secret"] = accepted["secret"] /\ CarriesSecret(old) =>
          /\ db'["secret"] = accepted'["secret"]
          /\ ~old.entered => old.body["secret"] = db'["secret"]
    /\ Fits(old) /\ (\A r \in SettingsTab : db[r] = accepted[r]) =>
          /\ \A r \in SettingsTab : db'[r] = accepted'[r]
          /\ \A r \in SettingsTab \ {old.tab} : old.body[r] = db'[r]
          /\ old.tab \notin old.left \ {t} => old.body[old.tab] = db'[old.tab]

LEMMA UpsertWrites ==
    ASSUME db \in Values, accepted \in Values, NEW old \in Save, SaveSound(old),
           NEW t \in SettingsTab, Upsert(old, t)
    PROVE  RowsWritten(old, t)
<1>1. /\ old.body \in Values /\ old.tab \in SettingsTab /\ old.entered \in BOOLEAN
      /\ "secret" \in Row /\ "secret" \notin SettingsTab /\ SettingsTab \subseteq Row
      /\ \A r \in Row : r \in SettingsTab \/ r = "secret"
  BY TabAssumption DEF Save, Row
<1>2. /\ old.pc = "write" /\ t \in old.left
      /\ db' = [r \in Row |-> IF r \in RowsOf(t) THEN old.body[r] ELSE db[r]]
  BY DEF Upsert
<1>3. \A r \in SettingsTab : r \in RowsOf(t) <=> r = t
  BY <1>1 DEF RowsOf
<1>4. "secret" \in RowsOf(t) <=> t = "email"
  BY <1>1 DEF RowsOf
\* what is stored ...
<1>5. /\ db' \in Values
      /\ \A r \in SettingsTab : db'[r] = IF r = t THEN old.body[r] ELSE db[r]
      /\ db'["secret"] = IF t = "email" THEN old.body["secret"] ELSE db["secret"]
  BY <1>1, <1>2, <1>3, <1>4 DEF Values
\* ... and what was accepted
<1>6. /\ accepted' \in Values
      /\ \A r \in SettingsTab : accepted'[r] = IF r = t /\ t = old.tab THEN old.body[r] ELSE accepted[r]
      /\ accepted'["secret"] = IF t = "email" /\ t = old.tab /\ old.entered THEN old.body["secret"]
                               ELSE accepted["secret"]
  <2>1. CASE t # old.tab
    BY <2>1 DEF Upsert
  <2>2. CASE t = old.tab
    <3>1. accepted' = [r \in Row |-> IF r = t THEN old.body[r]
                                     ELSE IF r \in RowsOf(t) /\ old.entered THEN old.body[r]
                                     ELSE accepted[r]]
      BY <2>2 DEF Upsert
    <3>2. accepted' \in Values
      BY <1>1, <3>1 DEF Values
    <3>3. \A r \in SettingsTab : accepted'[r] = IF r = t THEN old.body[r] ELSE accepted[r]
      BY <1>1, <1>3, <3>1
    <3>4. accepted'["secret"] = IF t = "email" /\ old.entered THEN old.body["secret"]
                                ELSE accepted["secret"]
      BY <1>1, <1>4, <3>1
    <3>. QED BY <2>2, <3>2, <3>3, <3>4
  <2>. QED BY <2>1, <2>2
<1>7. ASSUME db["secret"] = accepted["secret"], CarriesSecret(old)
      PROVE  /\ db'["secret"] = accepted'["secret"]
             /\ ~old.entered => old.body["secret"] = db'["secret"]
  <2>1. ~old.entered => old.body["secret"] = db["secret"]
    BY <1>2, <1>7 DEF CarriesSecret
  <2>2. old.entered => old.tab = "email"
    BY DEF SaveSound
  <2>. QED BY <1>1, <1>5, <1>6, <1>7, <2>1, <2>2
<1>8. ASSUME Fits(old), \A r \in SettingsTab : db[r] = accepted[r]
      PROVE  /\ \A r \in SettingsTab : db'[r] = accepted'[r]
             /\ \A r \in SettingsTab \ {old.tab} : old.body[r] = db'[r]
             /\ old.tab \notin old.left \ {t} => old.body[old.tab] = db'[old.tab]
  <2>1. /\ \A r \in SettingsTab \ {old.tab} : old.body[r] = db[r]
        /\ old.tab \notin old.left => old.body[old.tab] = db[old.tab]
    BY <1>2, <1>8 DEF Fits, Active
  <2>. QED BY <1>1, <1>5, <1>6, <1>8, <2>1
<1>. QED BY <1>5, <1>6, <1>7, <1>8 DEF RowsWritten

\* A page that is up to date stays so only when nothing changes.
LEMMA PageWarned ==
    ASSUME NEW v \in Site
    PROVE  LET w == [v EXCEPT !.stale = @ \/ db' # db]
           IN  /\ w \in Site /\ w.save = v.save /\ w.copy = v.copy /\ w.loads = v.loads
               /\ ~w.stale => ~v.stale /\ db' = db
<1>1. PICK stale \in BOOLEAN : stale <=> v.stale \/ db' # db
  OBVIOUS
<1>2. stale = (v.stale \/ db' # db)
  BY <1>1
<1>3. [v EXCEPT !.stale = @ \/ db' # db] = [v EXCEPT !.stale = stale]
  BY <1>2
<1>. QED BY <1>1, <1>3 DEF Site

LEMMA SettingsIndInv == ASSUME IndInv, Settings PROVE IndInv'
<1>0. VisitOK /\ ListOK /\ DrawerOK /\ SiteOK
  BY Parts
<1>. USE DEF MayOperate, MayFail
<1>1. /\ ops \in 0..MaxOps /\ turns \in 0..MaxTurns /\ fails \in 0..MaxFails
      /\ MaxOps \in Nat /\ MaxTurns \in Nat /\ MaxFails \in Nat
      /\ Number = 0..MaxOps + 1
      /\ site \in [Admin -> Site] /\ db \in Values /\ accepted \in Values
      /\ overlap \in BOOLEAN /\ blind \in BOOLEAN
  BY <1>0, BoundsAssumption DEF VisitOK, SiteOK, Number
\* The settings change, the list and the drawer do not.
<1>2. ASSUME UNCHANGED <<pageType, listVars, drawerVars>>, ops' \in 0..MaxOps, ops <= ops',
             turns' \in 0..MaxTurns, fails' \in 0..MaxFails, SiteOK'
      PROVE  IndInv'
  <2>1. ops' \in Nat
    BY <1>1, <1>2
  <2>2. VisitOK' /\ ListOK' /\ DrawerOK'
    BY <1>0, <1>2, <2>1, ListKept, DrawerKept DEF VisitOK
  <2>. QED BY <1>2, <2>2, PartsNext
<1>3. PICK shownDb \in Values : /\ shownDb = [db EXCEPT !["secret"] = Blank]
                                /\ shownDb["secret"] = Blank
                                /\ \A t \in SettingsTab : shownDb[t] = db[t]
  BY <1>1, Hidden
<1>4. ASSUME NEW a \in Admin
      PROVE  /\ site[a] \in Site /\ SiteSound(site[a])
             /\ ~overlap => CarriesSecret(site[a].save)
             /\ ~overlap /\ ~blind => Matches(site[a])
  BY <1>0 DEF SiteOK, SiteInv, SecretInv, TabsInv
<1>5. ASSUME NEW a \in Admin, NEW l \in site[a].loads, HandleSettingsLoad(a, l)
      PROVE  IndInv'
  <2>. DEFINE m == [l EXCEPT !.of = shownDb]
              loads == (site[a].loads \ {l}) \cup {m}
              w == [site[a] EXCEPT !.loads = loads]
  <2>1. /\ m.of = shownDb /\ m.ofSave = l.ofSave
        /\ m \in [of : Values, ofSave : BOOLEAN]
    BY <1>4 DEF Site
  <2>. HIDE DEF m
  <2>2. loads \in SUBSET [of : Values, ofSave : BOOLEAN]
    BY <1>4, <2>1 DEF Site
  <2>3. /\ \A k \in loads : k.of["secret"] = Blank /\ (k.ofSave => site[a].save.pc = "reload")
        /\ \A k, j \in loads : k.ofSave /\ j.ofSave => k = j
    BY <1>3, <1>4, <2>1 DEF SiteSound, SaveSound
  <2>. HIDE DEF loads
  <2>4. /\ w \in Site /\ w.loads = loads /\ w.save = site[a].save /\ w.copy = site[a].copy
        /\ w.stale = site[a].stale
    BY <1>4, <2>2 DEF Site
  <2>5. /\ site' = [site EXCEPT ![a] = w]
        /\ UNCHANGED <<db, late, accepted, overlap, blind>>
        /\ UNCHANGED <<pageType, listVars, drawerVars, ops, turns, fails>>
    BY <1>1, <1>3, <1>5 DEF HandleSettingsLoad, m, loads
  <2>. HIDE DEF w
  <2>6. SiteSound(w)
    BY <1>4, <2>3, <2>4 DEF SiteSound, SaveSound
  <2>7. SiteOK'
    BY <1>0, <2>4, <2>5, <2>6, SaveWaits
  <2>. QED BY <1>1, <1>2, <2>5, <2>7
\* A load that has ended, with a success (copy, stale) or a failure.
<1>6. ASSUME NEW a \in Admin, NEW l \in site[a].loads,
             NEW w \in Site, w.loads = site[a].loads \ {l}, w.save = AfterLoad(site[a].save, l),
             w.copy["secret"] = Blank,
             \/ w.copy = site[a].copy /\ w.stale = site[a].stale
             \/ /\ ~w.stale => \A t \in SettingsTab : w.copy[t] = db[t]
                /\ ~w.stale => ~site[a].stale \/ site[a].save.pc \in {"idle", "reload"},
             site' = [site EXCEPT ![a] = w], UNCHANGED <<db, late, accepted, overlap, blind>>
      PROVE  SiteOK'
  <2>1. CASE ~l.ofSave
    <3>1. w.save = site[a].save
      BY <1>6, <2>1 DEF AfterLoad
    <3>2. SiteSound(w)
      BY <1>4, <1>6, <3>1 DEF SiteSound, SaveSound
    <3>. QED BY <1>0, <1>6, <3>1, <3>2, SaveWaits
  <2>2. CASE l.ofSave
    <3>1. w.save = NoSave /\ site[a].save.pc = "reload"
      BY <1>4, <1>6, <2>2 DEF AfterLoad, SiteSound, SaveSound
    <3>2. SiteSound(w)
      BY <1>4, <1>6, <2>2, <3>1, NoSaveType DEF SiteSound, SaveSound
    <3>3. ~overlap /\ ~blind => Matches(w)
      BY <1>4, <1>6, <3>1, NoSaveType DEF Matches, Fits, Active
    <3>4. CarriesSecret(w.save) /\ w.save.pc \notin Active
      BY <3>1, NoSaveType DEF CarriesSecret, Active
    <3>5. overlap' \in BOOLEAN /\ blind' \in BOOLEAN /\ (overlap => overlap') /\ (blind => blind')
      BY <1>1, <1>6
    <3>6. ~overlap' /\ ~blind' => Matches(w)
      BY <1>6, <3>3
    <3>. QED BY <1>0, <1>6, <3>2, <3>4, <3>5, <3>6, SiteStep
  <2>. QED BY <2>1, <2>2
<1>7. ASSUME NEW a \in Admin, NEW l \in site[a].loads, SettingsLoaded(a, l)
      PROVE  IndInv'
  <2>1. PICK stale \in BOOLEAN : stale <=> (site[a].stale /\ UnderWay(a)) \/ l.of # shownDb
    OBVIOUS
  <2>. DEFINE w == [site[a] EXCEPT !.copy = l.of, !.cached = TRUE, !.stale = stale,
                                   !.loads = site[a].loads \ {l},
                                   !.save = AfterLoad(site[a].save, l)]
  <2>2. l.of \in Values /\ l.of["secret"] = Blank /\ AfterLoad(site[a].save, l) \in Save
    BY <1>4, NoSaveType DEF Site, SiteSound, SaveSound, AfterLoad
  <2>3. /\ w \in Site /\ w.copy = l.of /\ w.stale = stale /\ w.loads = site[a].loads \ {l}
        /\ w.save = AfterLoad(site[a].save, l)
    BY <1>4, <2>1, <2>2 DEF Site
  <2>4. site' = [site EXCEPT ![a] = w]
    <3>1. stale = ((site[a].stale /\ UnderWay(a)) \/ l.of # [db EXCEPT !["secret"] = Blank])
      BY <1>3, <2>1
    <3>. QED BY <1>1, <1>7, <3>1 DEF SettingsLoaded
  <2>5. /\ UNCHANGED <<db, late, accepted, overlap, blind>>
        /\ UNCHANGED <<pageType, listVars, drawerVars, ops, turns, fails>>
    BY <1>7 DEF SettingsLoaded
  <2>. HIDE DEF w
  <2>6. ~w.stale => ~site[a].stale \/ site[a].save.pc \in {"idle", "reload"}
    BY <1>4, <2>1, <2>3 DEF UnderWay, Site, Save
  <2>7. ~w.stale => \A t \in SettingsTab : w.copy[t] = db[t]
    BY <1>3, <2>1, <2>3
  <2>8. SiteOK'
    BY <1>6, <2>2, <2>3, <2>4, <2>5, <2>6, <2>7
  <2>. QED BY <1>1, <1>2, <2>5, <2>8
<1>8. ASSUME NEW a \in Admin, NEW l \in site[a].loads, SettingsFail(a, l)
      PROVE  IndInv'
  <2>. DEFINE w == [site[a] EXCEPT !.loads = site[a].loads \ {l}, !.save = AfterLoad(site[a].save, l)]
  <2>1. AfterLoad(site[a].save, l) \in Save /\ site[a].copy["secret"] = Blank
    BY <1>4, NoSaveType DEF Site, SiteSound, SaveSound, AfterLoad
  <2>2. /\ w \in Site /\ w.copy = site[a].copy /\ w.stale = site[a].stale
        /\ w.loads = site[a].loads \ {l} /\ w.save = AfterLoad(site[a].save, l)
    BY <1>4, <2>1 DEF Site
  <2>3. /\ site' = [site EXCEPT ![a] = w] /\ fails < MaxFails /\ fails' = fails + 1
        /\ UNCHANGED <<db, late, accepted, overlap, blind>>
        /\ UNCHANGED <<pageType, listVars, drawerVars, ops, turns>>
    BY <1>1, <1>8 DEF SettingsFail
  <2>. HIDE DEF w
  <2>4. SiteOK'
    BY <1>6, <2>1, <2>2, <2>3
  <2>5. fails' \in 0..MaxFails
    BY <1>1, <2>3
  <2>. QED BY <1>1, <1>2, <2>3, <2>4, <2>5
<1>9. ASSUME NEW a \in Admin, OpenSettingsTab(a)
      PROVE  IndInv'
  <2>. DEFINE w == [site[a] EXCEPT !.loads = {NewLoad(FALSE)}]
  <2>1. /\ NewLoad(FALSE) \in [of : Values, ofSave : BOOLEAN]
        /\ NewLoad(FALSE).of = Defaults /\ ~NewLoad(FALSE).ofSave
    BY DefaultsType DEF NewLoad
  <2>2. /\ w \in Site /\ w.copy = site[a].copy /\ w.stale = site[a].stale
        /\ w.loads = {NewLoad(FALSE)} /\ w.save = site[a].save
    BY <1>4, <2>1 DEF Site
  <2>3. /\ site' = [site EXCEPT ![a] = w]
        /\ UNCHANGED <<db, late, accepted, overlap, blind>>
        /\ UNCHANGED <<pageType, listVars, drawerVars, ops, turns, fails>>
    BY <1>1, <1>9 DEF OpenSettingsTab
  <2>. HIDE DEF w
  <2>4. SiteSound(w)
    BY <1>4, <2>1, <2>2, DefaultsType DEF SiteSound, SaveSound
  <2>5. SiteOK'
    BY <1>0, <2>2, <2>3, <2>4, SaveWaits
  <2>. QED BY <1>1, <1>2, <2>3, <2>5
<1>10. ASSUME NEW a \in Admin, NEW t \in SettingsTab, NEW secret \in BOOLEAN,
              SaveSystemSettings(a, t, secret)
       PROVE  IndInv'
  <2>1. PICK n \in Number : n = ops + 2
    <3>1. ops < MaxOps
      BY <1>10 DEF SaveSystemSettings
    <3>. QED BY <1>1, <3>1
  <2>. DEFINE body == [site[a].copy EXCEPT ![t] = n, !["secret"] = IF secret THEN n ELSE @]
              save == [NoSave EXCEPT !.pc = "sent", !.tab = t, !.body = body, !.entered = secret]
              w == [site[a] EXCEPT !.save = save]
  <2>2. /\ body \in Values
        /\ \A r \in SettingsTab \ {t} : body[r] = site[a].copy[r]
        /\ ~secret => body["secret"] = site[a].copy["secret"]
    <3>1. site[a].copy \in Values /\ t \in Row /\ "secret" \in Row /\ t # "secret"
          /\ SettingsTab \subseteq Row \ {"secret"}
      BY <1>4, TabAssumption DEF Site, Row
    <3>. QED BY <2>1, <3>1 DEF Values
  <2>. HIDE DEF body
  <2>3. /\ save \in Save /\ save.pc = "sent" /\ save.tab = t /\ save.body = body
        /\ save.entered = secret
    BY <2>2, NoSaveType DEF Save
  <2>. HIDE DEF save
  <2>4. /\ w \in Site /\ w.save = save /\ w.copy = site[a].copy /\ w.loads = site[a].loads
        /\ w.stale = site[a].stale
    BY <1>4, <2>3 DEF Site
  <2>5. /\ site[a].save.pc = "idle" /\ (secret => t = "email") /\ ops < MaxOps /\ ops' = ops + 1
        /\ UNCHANGED <<pageType, listVars, drawerVars, turns, fails>> /\ UNCHANGED <<db, late, accepted>>
    BY <1>10 DEF SaveSystemSettings
  <2>6. site' = [site EXCEPT ![a] = w]
    BY <1>1, <1>10, <2>1 DEF SaveSystemSettings, save, body
  <2>. HIDE DEF w
  <2>7. blind' = (blind \/ site[a].stale)
        /\ overlap' = (overlap \/ late # {} \/ \E b \in Others(a) : site[b].save.pc \in Active)
    BY <1>10 DEF SaveSystemSettings, Active
  <2>8. site[a].stale \in BOOLEAN
    BY <1>4 DEF Site
  <2>9. /\ blind' \in BOOLEAN /\ (blind => blind') /\ (site[a].stale => blind')
    BY <1>1, <2>7, <2>8
  <2>10. /\ overlap' \in BOOLEAN /\ (overlap => overlap')
         /\ ~overlap' => NoneElse(a)
    BY <1>1, <2>7 DEF NoneElse
  <2>11. SiteSound(w)
    BY <1>4, <2>2, <2>3, <2>4, <2>5 DEF SiteSound, SaveSound
  <2>12. ~overlap' /\ ~blind' => Matches(w)
    BY <1>4, <2>2, <2>3, <2>4, <2>5, <2>9, <2>10 DEF Matches, Fits, Active
  <2>13. CarriesSecret(w.save)
    BY <2>3, <2>4 DEF CarriesSecret
  <2>14. SiteOK'
    BY <1>0, <2>4, <2>5, <2>6, <2>9, <2>10, <2>11, <2>12, <2>13, SiteStep
  <2>15. ops' \in 0..MaxOps /\ ops <= ops'
    BY <1>1, <2>5
  <2>. QED BY <1>1, <1>2, <2>5, <2>14, <2>15
\* The server fills in the secret it has read.
<1>11. ASSUME NEW a \in Admin, UpdateSystemSettings(a)
       PROVE  IndInv'
  <2>1. PICK old \in Save : old = site[a].save
    BY <1>4 DEF Site
  <2>2. PICK save \in Save : save = Read(old)
    <3>1. old.pc = "sent" /\ SaveSound(old)
      BY <1>4, <1>11, <2>1 DEF UpdateSystemSettings, SiteSound
    <3>. QED BY <1>1, <3>1, ReadSave
  <2>. DEFINE w == [site[a] EXCEPT !.save = save]
  <2>3. /\ w \in Site /\ w.save = save /\ w.copy = site[a].copy /\ w.loads = site[a].loads
        /\ w.stale = site[a].stale
    BY <1>4 DEF Site
  <2>4. site' = [site EXCEPT ![a] = w] /\ old.pc = "sent" /\ SaveSound(old)
        /\ UNCHANGED <<db, late, accepted, overlap, blind>>
        /\ UNCHANGED <<pageType, listVars, drawerVars, ops, turns, fails>>
    BY <1>1, <1>4, <1>11, <2>1, <2>2 DEF UpdateSystemSettings, SiteSound
  <2>. HIDE DEF w
  <2>5. save.pc = "write" /\ SaveSound(save) /\ CarriesSecret(save) /\ (Fits(old) => Fits(save))
    BY <1>1, <2>2, <2>4, ReadSave
  <2>6. ~overlap => NoneElse(a)
    BY <1>0, <2>1, <2>4 DEF SiteOK, SecretInv, Active, NoneElse, Others
  <2>7. SiteSound(w)
    BY <1>4, <2>1, <2>3, <2>4, <2>5 DEF SiteSound
  <2>8. ~overlap /\ ~blind => Matches(w)
    BY <1>4, <2>1, <2>3, <2>5 DEF Matches
  <2>9. SiteOK'
    <3>1. overlap' \in BOOLEAN /\ blind' \in BOOLEAN /\ (overlap => overlap') /\ (blind => blind')
      BY <1>1, <2>4
    <3>2. (~overlap' => NoneElse(a)) /\ (~overlap' /\ ~blind' => Matches(w))
      BY <2>4, <2>6, <2>8
    <3>. QED BY <1>0, <2>3, <2>4, <2>5, <2>7, <3>1, <3>2, SiteStep
  <2>. QED BY <1>1, <1>2, <2>4, <2>9
<1>12. ASSUME NEW a \in Admin, SettingsSaved(a)
       PROVE  IndInv'
  <2>. DEFINE old == site[a].save
              copy == Sanitized(old)
              load == NewLoad(TRUE)
              save == [NoSave EXCEPT !.pc = "reload"]
              w == [site[a] EXCEPT !.copy = copy, !.cached = FALSE,
                                   !.loads = site[a].loads \cup {load}, !.save = save]
  <2>1. old \in Save /\ old.body \in Values /\ site[a] \in Site /\ SiteSound(site[a])
    BY <1>4 DEF Site, Save
  <2>2. copy \in Values /\ copy["secret"] = Blank /\ \A t \in SettingsTab : copy[t] = old.body[t]
    BY <2>1, Hidden DEF Sanitized
  <2>3. load \in [of : Values, ofSave : BOOLEAN] /\ load.of["secret"] = Blank
    BY DefaultsType DEF NewLoad
  <2>4. save \in Save /\ save.pc = "reload" /\ ~save.entered
    BY NoSaveType DEF Save
  <2>5. /\ site' = [site EXCEPT ![a] = w] /\ old.pc = "written"
        /\ UNCHANGED <<db, late, accepted, overlap, blind>>
        /\ UNCHANGED <<pageType, listVars, drawerVars, ops, turns, fails>>
    BY <1>1, <1>12 DEF SettingsSaved
  <2>. HIDE DEF copy, load, save
  <2>6. /\ w \in Site /\ w.copy = copy /\ w.loads = site[a].loads \cup {load} /\ w.save = save
        /\ w.stale = site[a].stale
    <3>. HIDE DEF old
    <3>. QED BY <2>1, <2>2, <2>3, <2>4 DEF Site
  <2>. HIDE DEF w
  <2>7. \A l \in site[a].loads : ~l.ofSave /\ l.of["secret"] = Blank
    BY <2>1, <2>5 DEF SiteSound, SaveSound
  <2>8. SiteSound(w)
    BY <2>2, <2>3, <2>4, <2>6, <2>7 DEF SiteSound, SaveSound
  <2>9. ~overlap /\ ~blind => Matches(w)
    BY <1>4, <2>2, <2>4, <2>5, <2>6 DEF Matches, Fits, Active
  <2>10. CarriesSecret(w.save) /\ w.save.pc \notin Active
    BY <2>4, <2>6 DEF CarriesSecret, Active
  <2>11. SiteOK'
    <3>1. overlap' \in BOOLEAN /\ blind' \in BOOLEAN /\ (overlap => overlap') /\ (blind => blind')
      BY <1>1, <2>5
    <3>2. ~overlap' /\ ~blind' => Matches(w)
      BY <2>5, <2>9
    <3>. QED BY <1>0, <2>5, <2>6, <2>8, <2>10, <3>1, <3>2, SiteStep
  <2>. QED BY <1>1, <1>2, <2>5, <2>11
\* The page gives up; what the server had not finished is a late save now.
<1>13. ASSUME NEW a \in Admin, SettingsSaveFails(a)
       PROVE  IndInv'
  <2>0. PICK old \in Save : old = site[a].save
    BY <1>4 DEF Site
  <2>. DEFINE w == [site[a] EXCEPT !.save = NoSave, !.stale = TRUE]
  <2>1. /\ w \in Site /\ w.save = NoSave /\ w.stale /\ w.copy = site[a].copy /\ w.loads = site[a].loads
    BY <1>4, NoSaveType DEF Site
  <2>2. /\ site' = [site EXCEPT ![a] = w] /\ old.pc \in {"sent", "write", "written"}
        /\ late' = IF old.pc = "written" THEN late ELSE late \cup {old}
        /\ fails < MaxFails /\ fails' = fails + 1
        /\ UNCHANGED <<db, accepted, overlap, blind>>
        /\ UNCHANGED <<pageType, listVars, drawerVars, ops, turns>>
    BY <1>1, <1>13, <2>0 DEF SettingsSaveFails, UnderWay
  <2>. HIDE DEF w
  <2>3. SiteSound(w)
    BY <1>4, <2>0, <2>1, <2>2, NoSaveType DEF SiteSound, SaveSound
  <2>4. CarriesSecret(w.save) /\ w.save.pc \notin Active /\ Matches(w)
    BY <2>1, NoSaveType DEF CarriesSecret, Active, Matches, Fits
  <2>5. ASSUME old.pc = "written" PROVE SiteOK'
    <3>1. overlap' \in BOOLEAN /\ blind' \in BOOLEAN /\ (overlap => overlap') /\ (blind => blind')
      BY <1>1, <2>2
    <3>2. UNCHANGED <<db, late, accepted>> /\ (~overlap' /\ ~blind' => Matches(w))
      BY <2>2, <2>4, <2>5
    <3>. QED BY <1>0, <2>1, <2>2, <2>3, <2>4, <3>1, <3>2, SiteStep
  <2>6. ASSUME old.pc # "written" PROVE SiteOK'
    <3>1. late' = late \cup {old} /\ old.pc \in Active /\ LateSound(old)
      BY <1>4, <2>0, <2>2, <2>6 DEF LateSound, SiteSound, Active
    <3>2. site' \in [Admin -> Site] /\ site'[a] = w /\ \A b \in Admin \ {a} : site'[b] = site[b]
      BY <1>1, <2>1, <2>2
    <3>3. SiteInv'
      <4>1. (\A b \in Admin : SiteSound(site'[b])) /\ \A l \in late' : LateSound(l)
        BY <1>0, <2>3, <3>1, <3>2 DEF SiteOK, SiteInv
      <4>. QED BY <4>1 DEF SiteInv, SiteSound, LateSound
    <3>4. SecretInv'
      <4>. SUFFICES ASSUME ~overlap PROVE SecretInv'
        BY <2>2 DEF SecretInv
      <4>1. /\ late = {} /\ \A b \in Admin \ {a} : site[b].save.pc \notin Active
            /\ db["secret"] = accepted["secret"] /\ CarriesSecret(old)
            /\ \A b \in Admin : CarriesSecret(site[b].save)
        BY <1>0, <2>0, <3>1 DEF SiteOK, SecretInv
      <4>2. late' = {old} /\ \A b \in Admin : site'[b].save.pc \notin Active
        BY <2>4, <3>1, <3>2, <4>1
      <4>3. \A b \in Admin : CarriesSecret(site'[b].save)
        BY <2>4, <3>2, <4>1
      <4>. QED BY <2>2, <4>1, <4>2, <4>3 DEF SecretInv, CarriesSecret
    <3>5. TabsInv'
      <4>. SUFFICES ASSUME ~overlap, ~blind PROVE TabsInv'
        BY <2>2 DEF TabsInv
      <4>1. /\ \A t \in SettingsTab : db[t] = accepted[t]
            /\ \A b \in Admin : Matches(site[b])
            /\ \A l \in late : Fits(l)
        BY <1>0 DEF SiteOK, TabsInv
      <4>2. \A b \in Admin : Matches(site'[b])
        BY <2>4, <3>2, <4>1
      <4>3. \A l \in late' : Fits(l)
        BY <2>0, <3>1, <4>1 DEF Matches
      <4>. QED BY <2>2, <4>1, <4>2, <4>3 DEF TabsInv, Matches, Fits
    <3>6. late' \subseteq Save /\ {overlap, blind}' \subseteq BOOLEAN
      BY <1>0, <2>2, <3>1 DEF SiteOK
    <3>7. db' \in Values /\ accepted' \in Values
      BY <1>1, <2>2
    <3>. QED BY <3>2, <3>3, <3>4, <3>5, <3>6, <3>7 DEF SiteOK
  <2>7. fails' \in 0..MaxFails
    BY <1>1, <2>2
  <2>. QED BY <1>1, <1>2, <2>2, <2>5, <2>6, <2>7
\* A row is written: without overlap only this save is between its statements.
<1>14. ASSUME NEW a \in Admin, NEW t \in SettingsTab, UpsertSettings(a, t)
       PROVE  IndInv'
  <2>1. PICK old \in Save : old = site[a].save
    BY <1>4 DEF Site
  <2>2. /\ site[a] \in Site /\ SaveSound(old) /\ old.pc = "write" /\ t \in old.left
        /\ UNCHANGED <<pageType, listVars, drawerVars, ops, turns, fails>>
        /\ UNCHANGED <<overlap, blind, late>>
    BY <1>4, <1>14, <2>1 DEF UpsertSettings, Upsert, SiteSound
  <2>3. RowsWritten(old, t)
    BY <1>1, <1>14, <2>1, <2>2, UpsertWrites DEF UpsertSettings
  \* the save goes on, and the other pages may have become out of date
  <2>4. PICK pc \in {"write", "written"} : pc = IF old.left = {t} THEN "written" ELSE "write"
    OBVIOUS
  <2>. DEFINE left == old.left \ {t}
              save == [old EXCEPT !.left = left, !.pc = pc]
              w == [site[a] EXCEPT !.save = save]
  <2>5. /\ save \in Save /\ save.pc = pc /\ save.left = left /\ save.body = old.body
        /\ save.tab = old.tab /\ save.entered = old.entered
    BY <2>4 DEF Save
  <2>6. site'[a] = w
    <3>1. site'[a] = [site[a] EXCEPT !.save.left = old.left \ {t},
                                     !.save.pc = IF old.left = {t} THEN "written" ELSE site[a].save.pc]
      BY <1>14, <2>1 DEF UpsertSettings
    <3>. QED BY <2>1, <2>2, <2>4, <3>1 DEF Site, Save
  <2>. HIDE DEF save
  <2>7. /\ w \in Site /\ w.save = save /\ w.copy = site[a].copy /\ w.loads = site[a].loads
        /\ w.stale = site[a].stale
    BY <2>2, <2>5 DEF Site
  <2>. HIDE DEF w
  <2>8. ASSUME NEW b \in Admin, b # a
        PROVE  /\ site'[b] \in Site /\ site'[b].save = site[b].save /\ site'[b].copy = site[b].copy
               /\ site'[b].loads = site[b].loads
               /\ ~site'[b].stale => ~site[b].stale /\ db' = db
    <3>1. site'[b] = [site[b] EXCEPT !.stale = @ \/ db' # db]
      BY <1>14, <2>8 DEF UpsertSettings
    <3>. QED BY <1>4, <3>1, PageWarned
  <2>9. site' \in [Admin -> Site]
    <3>1. site' = [b \in Admin |-> site'[b]]
      BY <1>14 DEF UpsertSettings
    <3>. QED BY <2>6, <2>7, <2>8, <3>1
  <2>10. SiteInv'
    <3>1. SiteSound(w)
      BY <1>4, <2>1, <2>2, <2>4, <2>5, <2>7 DEF SiteSound, SaveSound
    <3>2. ASSUME NEW b \in Admin, b # a PROVE SiteSound(site'[b])
      BY <1>4, <2>8, <3>2 DEF SiteSound
    <3>3. (\A b \in Admin : SiteSound(site'[b])) /\ \A l \in late : LateSound(l)
      BY <1>0, <2>6, <3>1, <3>2 DEF SiteOK, SiteInv
    <3>. QED BY <2>2, <3>3 DEF SiteInv, SiteSound, LateSound
  <2>11. ASSUME ~overlap
         PROVE  /\ \A b \in Admin \ {a} : site[b].save.pc \notin Active
                /\ late = {}
                /\ db["secret"] = accepted["secret"] /\ CarriesSecret(old)
    BY <1>0, <2>1, <2>2, <2>11 DEF SiteOK, SecretInv, Active
  <2>12. SecretInv'
    <3>. SUFFICES ASSUME ~overlap PROVE SecretInv'
      BY <2>2 DEF SecretInv
    <3>1. late' = {} /\ \A b \in Admin \ {a} : site'[b].save.pc \notin Active
      BY <2>2, <2>8, <2>11
    <3>2. db'["secret"] = accepted'["secret"] /\ (~old.entered => old.body["secret"] = db'["secret"])
      BY <2>3, <2>11 DEF RowsWritten
    <3>3. \A b \in Admin : CarriesSecret(site[b].save)'
      <4>1. ASSUME NEW b \in Admin, site'[b].save.pc = "write", ~site'[b].save.entered
            PROVE  site'[b].save.body["secret"] = db'["secret"]
        <5>1. b = a
          BY <3>1, <4>1 DEF Active
        <5>. QED BY <2>5, <2>6, <2>7, <3>2, <4>1, <5>1
      <4>. QED BY <4>1 DEF CarriesSecret
    <3>. QED BY <3>1, <3>2, <3>3 DEF SecretInv
  <2>13. TabsInv'
    <3>. SUFFICES ASSUME ~overlap, ~blind PROVE TabsInv'
      BY <2>2 DEF TabsInv
    <3>1. (\A r \in SettingsTab : db[r] = accepted[r]) /\ Fits(old)
      BY <1>0, <2>1 DEF SiteOK, TabsInv, Matches
    <3>2. /\ \A r \in SettingsTab : db'[r] = accepted'[r]
          /\ \A r \in SettingsTab \ {old.tab} : old.body[r] = db'[r]
          /\ old.tab \notin left => old.body[old.tab] = db'[old.tab]
      BY <2>3, <3>1 DEF RowsWritten
    <3>3. pc = "written" => left = {}
      BY <2>4
    <3>4. old.tab \in SettingsTab
      BY DEF Save
    <3>5. Matches(site[a])'
      <4>. HIDE DEF left
      <4>. QED BY <2>4, <2>5, <2>6, <2>7, <3>2, <3>3, <3>4 DEF Matches, Fits, Active
    <3>6. ASSUME NEW b \in Admin, b # a
          PROVE  Matches(site[b])'
      <4>1. site'[b].save = site[b].save /\ site[b].save.pc \notin Active /\ Matches(site[b])
        BY <1>4, <2>8, <2>11, <3>6
      <4>2. ~site'[b].stale => ~site[b].stale /\ db' = db /\ site'[b].copy = site[b].copy
        BY <2>8, <3>6
      <4>. QED BY <4>1, <4>2 DEF Matches, Fits, Active
    <3>7. late' = {}
      BY <2>2, <2>11
    <3>. QED BY <3>2, <3>5, <3>6, <3>7 DEF TabsInv
  <2>14. SiteOK'
    BY <1>0, <1>1, <2>2, <2>3, <2>9, <2>10, <2>12, <2>13 DEF SiteOK, RowsWritten
  <2>. QED BY <1>1, <1>2, <2>2, <2>14
<1>. QED BY <1>5, <1>7, <1>8, <1>9, <1>10, <1>11, <1>12, <1>13, <1>14 DEF Settings

-----------------------------------------------------------------------------
(* What the saves do that a page has given up *)

\* The server goes on with l, of which n is left (one save, or none).
LEMMA LateStep ==
    ASSUME SiteOK, NEW l \in late, NEW n \in SUBSET Save,
           late' = (late \ {l}) \cup n, UNCHANGED <<overlap, blind>>,
           db' \in Values, accepted' \in Values, site' \in [Admin -> Site],
           \A b \in Admin : /\ site'[b].save = site[b].save /\ site'[b].copy = site[b].copy
                            /\ site'[b].loads = site[b].loads
                            /\ ~site'[b].stale => ~site[b].stale /\ db' = db,
           \A k \in n : LateSound(k), \A j, k \in n : j = k,
           ~overlap => db'["secret"] = accepted'["secret"] /\ \A k \in n : CarriesSecret(k)',
           ~overlap /\ ~blind => (\A t \in SettingsTab : db'[t] = accepted'[t]) /\ \A k \in n : Fits(k)'
    PROVE  SiteOK'
<1>1. SiteInv'
  <2>1. (\A b \in Admin : SiteSound(site[b])) /\ \A k \in late' : LateSound(k)
    BY DEF SiteOK, SiteInv
  <2>2. \A b \in Admin : SiteSound(site'[b])
    BY <2>1 DEF SiteSound
  <2>. QED BY <2>1, <2>2 DEF SiteInv, SiteSound, LateSound
<1>2. ASSUME ~overlap PROVE late' = n /\ \A b \in Admin : site'[b].save.pc \notin Active
  BY <1>2 DEF SiteOK, SecretInv
<1>3. SecretInv'
  <2>. SUFFICES ASSUME ~overlap PROVE SecretInv'
    BY DEF SecretInv
  <2>1. \A b \in Admin : CarriesSecret(site[b].save)'
    BY <1>2 DEF CarriesSecret, Active
  <2>. QED BY <1>2, <2>1 DEF SecretInv
<1>4. TabsInv'
  <2>. SUFFICES ASSUME ~overlap, ~blind PROVE TabsInv'
    BY DEF TabsInv
  <2>1. ASSUME NEW b \in Admin PROVE Matches(site[b])'
    <3>1. Matches(site[b])
      BY DEF SiteOK, TabsInv
    <3>. QED BY <1>2, <3>1 DEF Matches, Fits, Active
  <2>. QED BY <1>2, <2>1 DEF TabsInv
<1>. QED BY <1>1, <1>3, <1>4 DEF SiteOK

LEMMA LateIndInv == ASSUME IndInv, LateSaves PROVE IndInv'
<1>0. VisitOK /\ ListOK /\ DrawerOK /\ SiteOK
  BY Parts
<1>1. /\ ops \in Nat /\ site \in [Admin -> Site] /\ db \in Values /\ accepted \in Values
      /\ late \subseteq Save
  BY <1>0, BoundsAssumption DEF VisitOK, SiteOK
<1>2. PICK l \in late : ReadLate(l) \/ StopLate(l) \/ \E t \in SettingsTab : UpsertLate(l, t)
  BY DEF LateSaves
<1>3. /\ l \in Save /\ SaveSound(l)
      /\ ~overlap => CarriesSecret(l) /\ db["secret"] = accepted["secret"]
      /\ ~overlap /\ ~blind => Fits(l) /\ \A t \in SettingsTab : db[t] = accepted[t]
  BY <1>0, <1>1 DEF SiteOK, SiteInv, LateSound, SecretInv, TabsInv
<1>4. UNCHANGED <<pageType, listVars, drawerVars, ops, turns, fails>> /\ UNCHANGED <<overlap, blind>>
  BY <1>2 DEF ReadLate, StopLate, UpsertLate
<1>5. ASSUME ReadLate(l) PROVE SiteOK'
  <2>1. l.pc = "sent" /\ late' = (late \ {l}) \cup {Read(l)} /\ UNCHANGED <<db, accepted, site>>
    BY <1>5 DEF ReadLate
  <2>2. PICK m \in Save : m = Read(l)
    BY <1>1, <1>3, <2>1, ReadSave
  <2>3. m.pc = "write" /\ SaveSound(m) /\ CarriesSecret(m) /\ (Fits(l) => Fits(m))
    BY <1>1, <1>3, <2>1, <2>2, ReadSave
  <2>4. \A k \in {m} : LateSound(k) /\ CarriesSecret(k)' /\ (Fits(l) => Fits(k)')
    BY <2>1, <2>3 DEF LateSound, CarriesSecret, Fits, Active
  <2>5. late' = (late \ {l}) \cup {m} /\ {m} \in SUBSET Save
    BY <2>1, <2>2
  <2>6. \A b \in Admin : /\ site'[b].save = site[b].save /\ site'[b].copy = site[b].copy
                         /\ site'[b].loads = site[b].loads
                         /\ ~site'[b].stale => ~site[b].stale /\ db' = db
    BY <2>1
  <2>7. db' \in Values /\ accepted' \in Values /\ site' \in [Admin -> Site]
    BY <1>1, <2>1
  <2>8. /\ ~overlap => db'["secret"] = accepted'["secret"] /\ \A k \in {m} : CarriesSecret(k)'
        /\ ~overlap /\ ~blind => (\A t \in SettingsTab : db'[t] = accepted'[t]) /\ \A k \in {m} : Fits(k)'
    BY <1>3, <2>1, <2>4
  <2>9. (\A k \in {m} : LateSound(k)) /\ \A j, k \in {m} : j = k
    BY <2>4
  <2>. QED BY <1>0, <1>4, <2>5, <2>6, <2>7, <2>8, <2>9, LateStep
<1>6. ASSUME StopLate(l) PROVE SiteOK'
  <2>0. PICK n \in SUBSET Save : n = {}
    OBVIOUS
  <2>1. late' = (late \ {l}) \cup n /\ UNCHANGED <<db, accepted, site>>
    BY <1>6, <2>0 DEF StopLate
  <2>2. \A b \in Admin : /\ site'[b].save = site[b].save /\ site'[b].copy = site[b].copy
                         /\ site'[b].loads = site[b].loads
                         /\ ~site'[b].stale => ~site[b].stale /\ db' = db
    BY <2>1
  <2>3. db' \in Values /\ accepted' \in Values /\ site' \in [Admin -> Site]
    BY <1>1, <2>1
  <2>4. /\ ~overlap => db'["secret"] = accepted'["secret"]
        /\ ~overlap /\ ~blind => \A t \in SettingsTab : db'[t] = accepted'[t]
    BY <1>3, <2>1
  <2>5. /\ \A k \in n : LateSound(k) /\ CarriesSecret(k)' /\ Fits(k)'
        /\ \A j, k \in n : j = k
    BY <2>0
  <2>. QED BY <1>0, <1>4, <2>1, <2>2, <2>3, <2>4, <2>5, LateStep
<1>7. ASSUME NEW t \in SettingsTab, UpsertLate(l, t)
      PROVE  SiteOK'
  <2>1. RowsWritten(l, t) /\ l.pc = "write" /\ t \in l.left
    BY <1>1, <1>3, <1>7, UpsertWrites DEF UpsertLate, Upsert
  <2>2. PICK m \in Save : m = [l EXCEPT !.left = @ \ {t}]
    BY <1>3 DEF Save
  <2>3. m.pc = "write" /\ m.left = l.left \ {t} /\ m.body = l.body /\ m.tab = l.tab /\ m.entered = l.entered
    BY <1>3, <2>1, <2>2 DEF Save
  <2>4. PICK n \in SUBSET {m} : late' = (late \ {l}) \cup n
    BY <1>7, <2>2 DEF UpsertLate
  <2>5. \A k \in n : LateSound(k)
    BY <1>3, <2>3 DEF LateSound, SaveSound, Active
  <2>6. ASSUME NEW b \in Admin
        PROVE  /\ site'[b] \in Site /\ site'[b].save = site[b].save /\ site'[b].copy = site[b].copy
               /\ site'[b].loads = site[b].loads
               /\ ~site'[b].stale => ~site[b].stale /\ db' = db
    <3>1. site'[b] = [site[b] EXCEPT !.stale = @ \/ db' # db] /\ site[b] \in Site
      BY <1>1, <1>7 DEF UpsertLate
    <3>. QED BY <3>1, PageWarned
  <2>7. site' \in [Admin -> Site]
    <3>1. site' = [b \in Admin |-> site'[b]]
      BY <1>7 DEF UpsertLate
    <3>. QED BY <2>6, <3>1
  <2>8. ~overlap => db'["secret"] = accepted'["secret"] /\ \A k \in n : CarriesSecret(k)'
    <3>1. ~overlap => /\ db'["secret"] = accepted'["secret"]
                      /\ ~l.entered => l.body["secret"] = db'["secret"]
      BY <1>3, <2>1 DEF RowsWritten
    <3>. QED BY <2>3, <3>1 DEF CarriesSecret
  <2>9. ~overlap /\ ~blind => (\A r \in SettingsTab : db'[r] = accepted'[r]) /\ \A k \in n : Fits(k)'
    <3>1. ~overlap /\ ~blind => /\ \A r \in SettingsTab : db'[r] = accepted'[r]
                                /\ \A r \in SettingsTab \ {l.tab} : l.body[r] = db'[r]
                                /\ l.tab \notin l.left \ {t} => l.body[l.tab] = db'[l.tab]
      BY <1>3, <2>1 DEF RowsWritten
    <3>. QED BY <2>3, <3>1 DEF Fits, Active
  <2>10. n \in SUBSET Save /\ (\A j, k \in n : j = k) /\ db' \in Values /\ accepted' \in Values
    BY <2>1, <2>4 DEF RowsWritten
  <2>. QED BY <1>0, <1>4, <2>4, <2>5, <2>6, <2>7, <2>8, <2>9, <2>10, LateStep
<1>8. SiteOK'
  BY <1>2, <1>5, <1>6, <1>7
<1>. QED BY <1>0, <1>1, <1>4, <1>8, ListKept, DrawerKept, PartsNext DEF VisitOK

-----------------------------------------------------------------------------
LEMMA InitIndInv == Init => IndInv
<1>. SUFFICES ASSUME Init PROVE IndInv
  OBVIOUS
<1>1. VisitOK
  BY BoundsAssumption DEF Init, VisitOK
<1>2. PICK s \in Slot : s = CHOOSE t \in Slot : TRUE
  BY SlotAssumption
<1>3. ListOK
  <2>. DEFINE first == [Idle EXCEPT !.pc = "load", !.low = MaxRows, !.high = MaxRows]
  <2>1. first \in Act /\ first.pc = "load" /\ first.page = 1 /\ ~first.reset
    <3>1. Idle.page = 1
      BY DEF Idle
    <3>2. MaxRows \in 0..MaxRows
      BY Bounds
    <3>3. first \in Act
      BY <3>2, IdleAct DEF Act
    <3>4. first.pc = "load" /\ first.page = Idle.page /\ first.reset = Idle.reset
      BY IdleAct DEF Act
    <3>. QED BY <3>1, <3>3, <3>4, IdleAct
  <2>2. /\ act = [t \in Slot |-> IF t = s THEN first ELSE Idle] /\ order = <<s>>
        /\ rows = MaxRows /\ page = 1 /\ shown = None
        /\ failed = FALSE /\ hurried = FALSE /\ disorder = FALSE
    BY <1>2 DEF Init
  <2>. HIDE DEF first
  <2>3. /\ act \in [Slot -> Act] /\ act[s] = first /\ \A t \in Slot \ {s} : act[t] = Idle
    BY <2>1, <2>2, IdleAct
  <2>4. Loading = {s} /\ Writing = {}
    BY <2>1, <2>3, IdleAct DEF Loading, Writing
  <2>5. order \in Seq(Slot) /\ Len(order) = 1 /\ order[1] = s
    BY <2>2
  <2>6. ListInv
    BY <2>1, <2>2, <2>3, <2>4, <2>5, IdleAct
       DEF ListInv, Enumerates, WritingAlone, LastFits, ShownFits
  <2>7. rows \in 0..MaxRows /\ page \in PageOf /\ shown \in Shown \cup {None}
    BY <2>2, Bounds
  <2>8. {failed, hurried, disorder} \subseteq BOOLEAN
    BY <2>2
  <2>. QED BY <2>3, <2>5, <2>6, <2>7, <2>8 DEF ListOK
<1>4. DrawerOK
  <2>1. 0 \in Number /\ Number \subseteq Int
    BY BoundsAssumption DEF Number
  <2>2. /\ drawer = NoDrawer /\ asked = {} /\ policies = [u \in User |-> 0] /\ saved = {} /\ ops = 0
    BY DEF Init
  <2>. QED BY <2>1, <2>2 DEF DrawerOK, DrawerInv, NoDrawer, Drawer
<1>5. SiteOK
  <2>1. FirstSite \in Site /\ FirstSite.stale /\ FirstSite.save = NoSave /\ FirstSite.copy = Defaults
        /\ FirstSite.loads = {NewLoad(FALSE)}
    BY DefaultsType, NoSaveType DEF FirstSite, Site, NewLoad
  <2>2. NewLoad(FALSE).of = Defaults /\ ~NewLoad(FALSE).ofSave
    BY DEF NewLoad
  <2>3. 1 \in Number
    BY BoundsAssumption DEF Number
  <2>4. /\ db = [r \in Row |-> 1] /\ accepted = db /\ site = [a \in Admin |-> FirstSite] /\ late = {}
        /\ overlap = FALSE /\ blind = FALSE
    BY DEF Init
  <2>5. db \in Values /\ site \in [Admin -> Site] /\ \A a \in Admin : site[a] = FirstSite
    BY <2>1, <2>3, <2>4 DEF Values
  <2>6. SiteSound(FirstSite)
    BY <2>1, <2>2, DefaultsType, NoSaveType DEF SiteSound, SaveSound
  <2>7. CarriesSecret(FirstSite.save) /\ FirstSite.save.pc \notin Active /\ Matches(FirstSite)
    BY <2>1, NoSaveType DEF CarriesSecret, Active, Matches, Fits
  <2>. QED BY <2>4, <2>5, <2>6, <2>7 DEF SiteOK, SiteInv, SecretInv, TabsInv
<1>. QED BY <1>1, <1>3, <1>4, <1>5, Parts

LEMMA NextIndInv == IndInv /\ [Next]_vars => IndInv'
<1>. SUFFICES ASSUME IndInv, [Next]_vars PROVE IndInv'
  OBVIOUS
<1>1. CASE Lister
  BY <1>1, ListerIndInv
<1>2. CASE PolicyDrawer
  BY <1>2, DrawerIndInv
<1>3. CASE Settings
  BY <1>3, SettingsIndInv
<1>4. CASE LateSaves
  BY <1>4, LateIndInv
<1>5. CASE Elsewhere
  BY <1>5, ElsewhereIndInv
<1>6. CASE UNCHANGED vars
  <2>1. VisitOK /\ ListOK /\ DrawerOK /\ SiteOK
    BY Parts
  <2>2. UNCHANGED <<pageType, listVars, drawerVars, siteVars, ops, turns, fails>>
    BY <1>6 DEF vars
  <2>3. ops \in Nat /\ ops' \in Nat /\ ops <= ops'
    BY <2>1, <2>2, BoundsAssumption DEF VisitOK
  <2>4. VisitOK' /\ ListOK' /\ DrawerOK' /\ SiteOK'
    BY <2>1, <2>2, <2>3, ListKept, DrawerKept, SiteKept DEF VisitOK
  <2>. QED BY <2>4, PartsNext
<1>. QED BY <1>1, <1>2, <1>3, <1>4, <1>5, <1>6 DEF Next

-----------------------------------------------------------------------------
(* Theorems *)

\* The strengthening holds in every reachable state of every visit.
THEOREM AdminInvariant == Spec => []IndInv
<1>. QED BY InitIndInv, NextIndInv, PTL DEF Spec

\* Lists, drawer and settings keep their shape; the selected page is a page.
THEOREM AdminTypeCorrect == Spec => []TypeOK
<1>1. IndInv => TypeOK
  BY DEF IndInv
<1>. QED BY <1>1, AdminInvariant, PTL

\* useAdminData: at rest the rows displayed are those of the selected page, unless
\* a load failed, a click came too early or answers came out of order.
THEOREM RowsAreOfPage == Spec => []RowsFit
<1>1. IndInv => RowsFit
  <2>1. ASSUME IndInv, Quiet PROVE Len(order) = 0
    BY <2>1, Parts, QuietEmpty
  <2>. QED BY <2>1 DEF IndInv, ListInv, ShownFits, RowsFit
<1>. QED BY <1>1, AdminInvariant, PTL

\* The effects of index.tsx: no list is left on an empty page past its end.
THEOREM EmptyPagesAreLeft == Spec => []NoEmptyPageLeft
<1>1. IndInv => NoEmptyPageLeft
  <2>1. ASSUME IndInv, Quiet PROVE Len(order) = 0
    BY <2>1, Parts, QuietEmpty
  <2>. QED BY <2>1 DEF IndInv, ListInv, ShownFits, NoEmptyPageLeft
<1>. QED BY <1>1, AdminInvariant, PTL

\* The drawer of useBatchUserActions saves only a policy it has read for that user.
THEOREM PolicyWasRead == Spec => []SavedPolicyWasRead
<1>1. IndInv => SavedPolicyWasRead
  BY DEF IndInv, DrawerInv, Filled, SavedPolicyWasRead
<1>. QED BY <1>1, AdminInvariant, PTL

\* UpdateSystemSettings: each tab holds what was saved on it last, although every
\* save writes all of them, when no save is sent from a page out of date or while
\* the server is at another one, be it one its page has given up.
THEOREM TabsKeepTheirValues == Spec => []AcceptedIsStored
<1>1. IndInv => AcceptedIsStored
  <2>. SUFFICES ASSUME IndInv, ~overlap, ~blind PROVE db = accepted
    BY DEF AcceptedIsStored
  <2>1. \A r \in Row : db[r] = accepted[r]
    BY DEF IndInv, SecretInv, TabsInv, Row
  <2>2. db \in Values /\ accepted \in Values
    BY DEF IndInv, TypeOK
  <2>. QED BY <2>1, <2>2 DEF Values
<1>. QED BY <1>1, AdminInvariant, PTL

\* The stored secret survives every save that enters none, completed, ended half
\* way or given up by its page, as long as no save is sent while the server is at
\* another one.
THEOREM SecretSurvives == Spec => []SecretKept
<1>1. IndInv => SecretKept
  BY DEF IndInv, SecretInv, SecretKept
<1>. QED BY <1>1, AdminInvariant, PTL
=============================================================================
