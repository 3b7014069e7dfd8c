-------------------------- MODULE AccountPage_proofs --------------------------
(***************************************************************************)
(* Proofs about the account page, for any number of accounts, identities,  *)
(* visits, entries and operations at a time.                               *)
(*                                                                         *)
(* The invariant has four parts: what the state is made of, whose contents *)
(* are where, where an identity that has ended its sessions can still be,  *)
(* and how what is displayed, cached and on its way differs from the       *)
(* server as long as nothing the properties except has taken place.        *)
(***************************************************************************)
EXTENDS AccountPage, FiniteSetTheorems, TLAPS

Identities == 1..Len(owner)
Busy(s) == act[s].pc # "idle"
UnderWay(v, r) == load[v][r].st # "no"

-----------------------------------------------------------------------------
(* What the state is made of *)

Act == [pc : {"sent", "handled"}, op : Operation, xs : SUBSET Entry, of : Account,
        token : Identity, visit : Visit, got : Shown]

\* Entries that operations have added so far, and those of the start.
Numbered(S) == S \subseteq Item \cup 1..ops
Entries ==
    /\ \A a \in Account, r \in Resource : Numbered(srv[a][r])
    /\ \A r \in Resource : /\ shown[r] # Nothing => Numbered(shown[r].has)
                           /\ cache[r].value # Nothing => Numbered(cache[r].value.has)
    /\ \A v \in Visit, r \in Resource : load[v][r].got # Nothing => Numbered(load[v][r].got.has)
    /\ \A s \in Slot : Busy(s) => Numbered(act[s].xs) /\ (act[s].got # Nothing => Numbered(act[s].got.has))

\* Each operation under way may still schedule one redirect.
Scheduled == IsFiniteSet({s \in Slot : Busy(s)}) /\ timers + Cardinality({s \in Slot : Busy(s)}) <= ops

Typed == TypeOK /\ act \in [Slot -> Act \cup {NoOp}] /\ Entries /\ Scheduled

-----------------------------------------------------------------------------
(* Whose contents are where *)

\* A content that the identity of the tab asked for is of its account.
Own(c) == c.asked \in Identities /\ (c.asked = token => c.of = owner[token] \/ foreign)

LoadsOwn ==
    \A v \in Visit, r \in Resource : UnderWay(v, r) =>
        /\ v <= visit
        /\ load[v][r].token \in Identities
        /\ load[v][r].by \in Visit /\ UnderWay(load[v][r].by, r)
        /\ load[load[v][r].by][r].by = load[v][r].by
        /\ load[load[v][r].by][r].token = load[v][r].token
        /\ load[v][r].st # "sent" => load[v][r].by = v
        /\ load[v][r].st = "handled" =>
              load[v][r].got # Nothing /\ load[v][r].got.asked = load[v][r].token /\ Own(load[v][r].got)

CachesOwn ==
    \A r \in Resource :
        /\ cache[r].token <= Len(owner)
        /\ cache[r].value # Nothing => cache[r].value.asked = cache[r].token /\ Own(cache[r].value)
        /\ cache[r].inflight # 0 =>
              /\ UnderWay(cache[r].inflight, r)
              /\ load[cache[r].inflight][r].by = cache[r].inflight
              /\ load[cache[r].inflight][r].token = cache[r].token

PageOwn ==
    up => /\ token # 0 /\ visit # 0
          /\ \A r \in Resource : /\ shown[r] # Nothing => shown[r].asked = token /\ Own(shown[r])
                                 /\ UnderWay(visit, r) => load[visit][r].token = token

ActsOwn ==
    \A s \in Slot : Busy(s) =>
        /\ act[s].token \in Identities /\ act[s].visit \in 1..visit
        /\ Mounted(act[s]) => act[s].token = token /\ shown[act[s].op.on] # Nothing
        /\ act[s].pc = "handled" =>
              act[s].got # Nothing /\ act[s].got.asked = act[s].token /\ Own(act[s].got)

\* Sign-ins elsewhere are of the same account, or foreign.
SameAccount ==
    token # 0 /\ ~foreign => /\ cookie \in {None, owner[token]}
                             /\ browser # 0 => owner[browser] = owner[token]

Contents == LoadsOwn /\ CachesOwn /\ PageOwn /\ ActsOwn /\ SameAccount

-----------------------------------------------------------------------------
(* Where an identity that has ended its sessions can still be *)

\* Neither the identities that have ended their sessions nor those of the operations
\* under way are before the one the tab may change to.
Behind ==
    browser # 0 =>
        /\ token <= browser
        /\ browser # token => /\ \A i \in ended : i < browser
                              /\ \A s \in Slot : Busy(s) => act[s].token < browser

\* It is about to leave.
Leaving ==
    fails = 0 /\ token \in ended =>
        \/ timers > 0
        \/ \E s \in Slot : act[s].pc = "handled" /\ act[s].op.ends

Endings == Behind /\ Leaving

-----------------------------------------------------------------------------
(* How what is displayed, cached and on its way differs from the server *)

Undisturbed == ~left /\ ~crossed /\ ~foreign

Handled(s, r, what) == act[s].pc = "handled" /\ act[s].op.on = r /\ act[s].op.does = what
Removed(x, r) == \E s \in Slot : Handled(s, r, "remove") /\ x \in act[s].xs
Added(x, r) == \E s \in Slot : Handled(s, r, "edit") /\ x \in act[s].xs

\* The server has done what was asked and not answered, and nothing else.
Matches(S, r) ==
    \A x \in Entry : x \in srv[owner[token]][r] <=> (x \in S /\ ~Removed(x, r)) \/ Added(x, r)

AllMounted == \A s \in Slot : Busy(s) => Mounted(act[s])

\* One request at a time for each resource of an identity, and none for what it has.
OneRequest ==
    \A r \in Resource, v \in Visit : UnderWay(v, r) =>
        /\ \A w \in Visit : UnderWay(w, r) /\ load[w][r].token = load[v][r].token
                               => load[w][r].by = load[v][r].by
        /\ cache[r].value # Nothing => load[v][r].token # cache[r].token
        /\ up /\ shown[r] # Nothing => load[v][r].token # token

UpTo ==
    token # 0 => \A r \in Resource :
        /\ up /\ shown[r] # Nothing => Matches(shown[r].has, r)
        /\ cache[r].value # Nothing /\ cache[r].token = token => Matches(cache[r].value.has, r)
        /\ \A v \in Visit : load[v][r].st = "handled" /\ load[v][r].token = token
                               => load[v][r].got.has = srv[owner[token]][r]

\* Changes of the overview come one by one, so that a whole answer is the last word.
OneEdit ==
    \A s \in Slot : Busy(s) /\ act[s].op.on = "overview" /\ act[s].op.does = "edit" =>
        /\ \A t \in Slot : Busy(t) /\ act[t].op.on = "overview" /\ act[t].op.does = "edit" => t = s
        /\ act[s].pc = "handled" => act[s].got.has = srv[owner[token]]["overview"]

\* What is being added is not displayed yet, nor what another operation is about.
NewEntries ==
    \A s \in Slot : Busy(s) /\ act[s].op.does = "edit" =>
        \A x \in act[s].xs :
            /\ x \notin shown[act[s].op.on].has
            /\ \A t \in Slot : Busy(t) /\ t # s /\ act[t].op.on = act[s].op.on => x \notin act[t].xs

Fresh == Undisturbed => AllMounted /\ OneRequest /\ UpTo /\ OneEdit /\ NewEntries

IndInv == Typed /\ Contents /\ Endings /\ Fresh

-----------------------------------------------------------------------------
(* Contents, operations, caches and loads *)

LEMMA NothingFacts ==
    ASSUME NEW c \in Shown
    PROVE  /\ Nothing \in Shown /\ Nothing \notin Content
           /\ c # Nothing => /\ c \in Content /\ c.of \in Account
                            /\ c.has \subseteq Entry /\ c.asked \in Identity
<1>1. Nothing.of = None
  BY DEF Nothing
<1>2. \A d \in Content : d.of \in Account /\ d.has \subseteq Entry /\ d.asked \in Identity
  BY DEF Content
<1>3. Nothing \notin Content
  BY <1>1, <1>2, NoneAssumption
<1>. QED BY <1>2, <1>3 DEF Shown

\* The tables of the operations.
LEMMA OpFacts ==
    ASSUME NEW op \in Operation
    PROVE  /\ op.on \in Resource /\ op.ends \in BOOLEAN /\ op.whole \in BOOLEAN
           /\ op.does \in {"edit", "remove", "none"}
           /\ op.whole => op.on = "overview" /\ op.does = "edit"
           /\ op.does = "remove" => op.on # "overview"
           /\ op.does = "none" => op.on = "overview"
<1>. USE DEF Operation, SaveDisplayName, SaveGender, SavePreferredLocale, SaveEmail, SavePhone, UploadUserAvatar,
         SaveMFA, SavePassword, RequestAccountDeletion, RevokeConsent, RevokeSelectedConsents, AddPasskey, RemovePasskey
<1>1. op.on \in Resource
  OBVIOUS
<1>2. /\ op.does \in {"edit", "remove", "none"}
      /\ op.does = "remove" => op.on # "overview"
      /\ op.does = "none" => op.on = "overview"
  OBVIOUS
<1>3. op.whole = FALSE \/ op.whole = TRUE
  OBVIOUS
<1>4. op.ends = FALSE \/ op.ends = TRUE
  OBVIOUS
<1>5. op.whole = FALSE \/ (op.on = "overview" /\ op.does = "edit")
  OBVIOUS
<1>. QED BY <1>1, <1>2, <1>3, <1>4, <1>5

LEMMA Zeros ==
    /\ 0 \in 0..MaxSigns /\ 0 \in 0..MaxVisits /\ NoLoad \in Load /\ EmptyCache \in Cache
    /\ Identity \subseteq Nat /\ Visit \subseteq Nat
<1>1. 0 \in 0..MaxSigns /\ 0 \in 0..MaxVisits /\ Identity \subseteq Nat /\ Visit \subseteq Nat
  BY BoundsAssumption DEF Identity, Visit
<1>2. Nothing \in Shown
  BY DEF Shown
<1>. QED BY <1>1, <1>2 DEF NoLoad, Load, EmptyCache, Cache

LEMMA ScopedIs ==
    ASSUME NEW c \in Cache, NEW t
    PROVE  Scoped(c, t) = [value |-> IF c.token = t THEN c.value ELSE Nothing,
                           inflight |-> IF c.token = t THEN c.inflight ELSE 0, token |-> t]
BY DEF Scoped, EmptyCache, Cache

LEMMA UpdateCacheIs ==
    ASSUME NEW c \in Cache, NEW t, NEW value
    PROVE  UpdateCache(c, t, value) =
               [value |-> value, inflight |-> IF c.token = t THEN c.inflight ELSE 0, token |-> t]
BY ScopedIs DEF UpdateCache

LEMMA StoreAnswerIs ==
    ASSUME NEW c \in Cache, NEW t, NEW value \in Shown
    PROVE  StoreAnswer(c, t, value) = [value |-> value, inflight |-> 0, token |-> t]
<1>. DEFINE d == [c EXCEPT !.value = value, !.inflight = 0]
<1>1. d \in Cache /\ d.inflight = 0
  <2>1. 0 \in 0..MaxVisits
    BY Zeros
  <2>. QED BY <2>1 DEF Cache
<1>2. StoreAnswer(c, t, value) = UpdateCache(d, t, value)
  BY DEF StoreAnswer
<1>. HIDE DEF d
<1>. QED BY <1>1, <1>2, UpdateCacheIs

\* A load that starts: what it wants is cached, is on its way, or is asked for.
Cached(v, r, t) ==
    cache[r].token = t /\ cache[r].value # Nothing /\ load'[v][r] = NoLoad /\ cache'[r] = cache[r]
Joins(v, r, t) ==
    /\ cache[r].token = t /\ cache[r].value = Nothing /\ cache[r].inflight # 0
    /\ load'[v][r] = [st |-> "sent", token |-> t, by |-> cache[r].inflight, got |-> Nothing]
    /\ cache'[r] = cache[r]
Asks(v, r, t) ==
    /\ cache[r].token = t => cache[r].value = Nothing /\ cache[r].inflight = 0
    /\ load'[v][r] = [st |-> "sent", token |-> t, by |-> v, got |-> Nothing]
    /\ cache'[r] = [value |-> Nothing, inflight |-> v, token |-> t]
    /\ crossed' \/ \A w \in Visit : UnderWay(w, r) => load[w][r].token # t

LEMMA StartLoadsIs ==
    ASSUME TypeOK, NEW v \in Visit, NEW t \in Identity, NEW rs \in SUBSET Resource, StartLoads(v, t, rs)
    PROVE  /\ load' \in [Visit -> [Resource -> Load]] /\ cache' \in [Resource -> Cache]
           /\ crossed' \in BOOLEAN /\ (crossed => crossed')
           /\ \A w \in Visit, r \in Resource :
                  w # v \/ r \notin rs \/ UnderWay(v, r) => load'[w][r] = load[w][r]
           /\ \A r \in Resource : r \notin rs \/ UnderWay(v, r) => cache'[r] = cache[r]
           /\ \A r \in Resource : r \in rs /\ ~UnderWay(v, r) =>
                  Cached(v, r, t) \/ Joins(v, r, t) \/ Asks(v, r, t)
<1>. DEFINE c(r) == Scoped(cache[r], t)
            new == {r \in rs : load[v][r].st = "no"}
            fetched(r) == FetchLoad(c(r), v, t)
<1>0. v # 0 /\ v \in 0..MaxVisits /\ t \in 0..MaxSigns /\ NoLoad \in Load
  BY Zeros DEF Identity, Visit
<1>1. \A r \in Resource : cache[r] \in Cache /\ load[v][r] \in Load
  BY DEF TypeOK
<1>2. /\ load' = [load EXCEPT ![v] = [r \in Resource |-> IF r \in new THEN fetched(r) ELSE load[v][r]]]
      /\ cache' = [r \in Resource |-> IF r \in new THEN FetchCache(c(r), v) ELSE cache[r]]
      /\ crossed' = (crossed \/ \E r \in new, w \in Visit : /\ fetched(r).by = v
                                                         /\ load[w][r].st # "no" /\ load[w][r].token = t)
  <2>1. \A r \in Resource : [r2 \in Resource |-> Scoped(cache[r2], t)][r] = c(r)
    OBVIOUS
  <2>. QED BY <2>1 DEF StartLoads
<1>3. ASSUME NEW r \in Resource
      PROVE  \/ /\ cache[r].token = t /\ cache[r].value # Nothing
                /\ fetched(r) = NoLoad /\ FetchCache(c(r), v) = cache[r]
             \/ /\ cache[r].token = t /\ cache[r].value = Nothing /\ cache[r].inflight # 0
                /\ fetched(r) = [st |-> "sent", token |-> t, by |-> cache[r].inflight, got |-> Nothing]
                /\ FetchCache(c(r), v) = cache[r]
             \/ /\ cache[r].token = t => cache[r].value = Nothing /\ cache[r].inflight = 0
                /\ fetched(r) = [st |-> "sent", token |-> t, by |-> v, got |-> Nothing]
                /\ FetchCache(c(r), v) = [value |-> Nothing, inflight |-> v, token |-> t]
  <2>1. CASE cache[r].token = t
    <3>1. c(r) = cache[r]
      BY <2>1 DEF Scoped
    <3>. QED BY <1>1, <2>1, <3>1 DEF FetchLoad, FetchCache, NoLoad, Cache
  <2>2. CASE cache[r].token # t
    <3>1. c(r) = [value |-> Nothing, inflight |-> 0, token |-> t]
      BY <2>2 DEF Scoped, EmptyCache
    <3>2. c(r).value = Nothing /\ c(r).inflight = 0
      BY <3>1
    <3>3. fetched(r) = [NoLoad EXCEPT !.st = "sent", !.token = t, !.by = v]
      BY <3>2 DEF FetchLoad
    <3>4. FetchCache(c(r), v) = [c(r) EXCEPT !.inflight = v]
      BY <3>2 DEF FetchCache
    <3>5. fetched(r) = [st |-> "sent", token |-> t, by |-> v, got |-> Nothing]
      BY <3>3 DEF NoLoad
    <3>6. FetchCache(c(r), v) = [value |-> Nothing, inflight |-> v, token |-> t]
      BY <3>1, <3>4
    <3>. QED BY <2>2, <3>5, <3>6
  <2>. QED BY <2>1, <2>2
<1>4. ASSUME NEW r \in Resource
      PROVE  fetched(r) \in Load /\ FetchCache(c(r), v) \in Cache
  <2>1. cache[r] \in Cache /\ cache[r].inflight \in 0..MaxVisits /\ Nothing \in Shown
    BY <1>1 DEF Cache, Shown
  <2>2. [st |-> "sent", token |-> t, by |-> v, got |-> Nothing] \in Load
    BY <1>0, <2>1 DEF Load
  <2>3. [st |-> "sent", token |-> t, by |-> cache[r].inflight, got |-> Nothing] \in Load
    BY <1>0, <2>1 DEF Load
  <2>4. [value |-> Nothing, inflight |-> v, token |-> t] \in Cache
    BY <1>0, <2>1 DEF Cache
  <2>. HIDE DEF fetched, c
  <2>. QED BY <1>0, <1>3, <2>1, <2>2, <2>3, <2>4
<1>. HIDE DEF fetched, c
<1>5. /\ load' \in [Visit -> [Resource -> Load]] /\ cache' \in [Resource -> Cache]
      /\ crossed' \in BOOLEAN /\ (crossed => crossed')
  BY <1>1, <1>2, <1>4 DEF TypeOK
<1>6. \A w \in Visit, r \in Resource : w # v \/ r \notin rs \/ UnderWay(v, r) => load'[w][r] = load[w][r]
  BY <1>2 DEF TypeOK, UnderWay
<1>7. \A r \in Resource : r \notin rs \/ UnderWay(v, r) => cache'[r] = cache[r]
  BY <1>2 DEF TypeOK, UnderWay
<1>8. ASSUME NEW r \in Resource, r \in rs, ~UnderWay(v, r)
      PROVE  Cached(v, r, t) \/ Joins(v, r, t) \/ Asks(v, r, t)
  <2>1. r \in new /\ load'[v][r] = fetched(r) /\ cache'[r] = FetchCache(c(r), v)
    BY <1>2, <1>8 DEF TypeOK, UnderWay
  <2>2. fetched(r).by = v => crossed' \/ \A w \in Visit : UnderWay(w, r) => load[w][r].token # t
    BY <1>2, <2>1 DEF UnderWay
  <2>. QED BY <1>3, <2>1, <2>2 DEF Cached, Joins, Asks
<1>. QED BY <1>5, <1>6, <1>7, <1>8

\* The loads that wait for a request end with it.
LEMMA EndedIs ==
    ASSUME TypeOK, NEW v \in Visit, NEW r \in Resource
    PROVE  /\ Ended(v, r) \in [Visit -> [Resource -> Load]]
           /\ \A w \in Visit, q \in Resource :
                  Ended(v, r)[w][q] = IF q = r /\ UnderWay(w, r) /\ load[w][r].by = v THEN NoLoad ELSE load[w][q]
<1>1. load \in [Visit -> [Resource -> Load]] /\ NoLoad \in Load
  BY Zeros DEF TypeOK
<1>2. \A w \in Visit : w \in Waiting(v, r) <=> UnderWay(w, r) /\ load[w][r].by = v
  BY DEF Waiting, UnderWay
<1>3. \A w \in Visit : Ended(v, r)[w] = IF w \in Waiting(v, r) THEN [load[w] EXCEPT ![r] = NoLoad] ELSE load[w]
  BY DEF Ended
<1>4. \A w \in Visit : Ended(v, r)[w] \in [Resource -> Load]
  BY <1>1, <1>3
<1>5. Ended(v, r) \in [Visit -> [Resource -> Load]]
  BY <1>4 DEF Ended
<1>. QED BY <1>1, <1>2, <1>3, <1>5

-----------------------------------------------------------------------------
(* The page is opened, or one of its sections *)

Opens(rs) ==
    /\ up' = TRUE /\ token # 0
    /\ visit' \in Visit /\ visit' = (IF up THEN visit ELSE visit + 1)
    /\ section' \in Section /\ turns' \in 0..MaxTurns
    /\ rs \subseteq Resource
    /\ \A r \in rs : up => shown[r] = Nothing
    /\ StartLoads(visit', token, rs)
    /\ shown' \in [Resource -> Shown]
    /\ \A r \in Resource :
          shown'[r] = IF r \in rs /\ ~UnderWay(visit', r) THEN FromCache(r, token)
                      ELSE IF up THEN shown[r] ELSE Nothing
    /\ UNCHANGED <<srv, sessionVars, act, timers, ops, fails, ended, left, foreign>>

LEMMA FromCacheIs ==
    ASSUME TypeOK, NEW r \in Resource, NEW t \in 0..MaxSigns
    PROVE  FromCache(r, t) = (IF cache[r].token = t THEN cache[r].value ELSE Nothing) /\ FromCache(r, t) \in Shown
<1>1. cache[r] \in Cache
  BY DEF TypeOK
<1>. QED BY <1>1, ScopedIs, NothingFacts DEF FromCache, Cache

LEMMA TypeFacts ==
    ASSUME TypeOK
    PROVE  /\ Len(owner) \in Identity /\ Identities \subseteq Identity /\ Identities \subseteq Nat
           /\ token \in 0..Len(owner) /\ browser \in 0..Len(owner) /\ Len(owner) \in Nat
           /\ \A i \in Identities : owner[i] \in Account
           /\ 0..Len(owner) \subseteq 0..MaxSigns /\ visit \in Nat /\ timers \in Nat /\ ops \in Nat
           /\ MaxSigns \in Nat /\ MaxVisits \in Nat /\ MaxOps \in Nat /\ MaxTurns \in Nat /\ MaxFails \in Nat
BY BoundsAssumption DEF TypeOK, Identities, Identity

LEMMA PageOpens ==
    ASSUME TypeOK, LoadsOwn, NEW sec \in Section, OpenPage(sec)
    PROVE  \E rs \in SUBSET Resource : Opens(rs)
<1>. DEFINE rs == {"overview"} \cup Needs[sec]
<1>1. rs \in SUBSET Resource
  BY DEF Resource, Lists
<1>2. visit + 1 \in Visit /\ token \in 0..MaxSigns /\ token # 0
  BY TypeFacts DEF OpenPage, Visit, Admitted
<1>3. \A r \in Resource : ~UnderWay(visit + 1, r)
  BY <1>2, TypeFacts DEF LoadsOwn
<1>4. \A r \in Resource : shown'[r] = IF r \in rs THEN FromCache(r, token) ELSE Nothing
  BY DEF OpenPage
<1>5. shown' \in [Resource -> Shown]
  <2>1. Nothing \in Shown
    BY DEF Shown
  <2>2. \A r \in Resource : FromCache(r, token) \in Shown
    BY <1>2, FromCacheIs
  <2>. QED BY <2>1, <2>2 DEF OpenPage
<1>6. turns' \in 0..MaxTurns
  BY DEF OpenPage, counters, TypeOK
<1>7. Opens(rs)
  BY <1>1, <1>2, <1>3, <1>4, <1>5, <1>6 DEF OpenPage, Opens, counters
<1>. QED BY <1>1, <1>7

LEMMA SectionOpens ==
    ASSUME TypeOK, PageOwn, NEW sec \in Section, OpenSection(sec), Admitted
    PROVE  \E rs \in SUBSET Resource : Opens(rs)
<1>. DEFINE rs == {r \in Needs[sec] : shown[r] = Nothing}
<1>1. rs \in SUBSET Resource
  BY DEF Resource, Lists
<1>2. up /\ visit \in Visit /\ token \in 0..MaxSigns /\ token # 0
  BY TypeFacts DEF OpenSection, PageOwn, Visit, TypeOK
<1>3. \A r \in Resource :
          shown'[r] = IF r \in rs /\ ~UnderWay(visit, r) THEN FromCache(r, token) ELSE shown[r]
  BY DEF OpenSection, UnderWay
<1>4. shown' \in [Resource -> Shown]
  <2>1. \A r \in Resource : FromCache(r, token) \in Shown /\ shown[r] \in Shown
    BY <1>2, FromCacheIs DEF TypeOK
  <2>. QED BY <2>1 DEF OpenSection
<1>5. turns' \in 0..MaxTurns
  BY TypeFacts DEF OpenSection, Turn, TypeOK
<1>6. Opens(rs)
  BY <1>1, <1>2, <1>3, <1>4, <1>5 DEF OpenSection, Opens, TypeOK
<1>. QED BY <1>1, <1>6

\* What Opens does to each cache and each load.
LEMMA Opened ==
    ASSUME TypeOK, NEW rs \in SUBSET Resource, Opens(rs)
    PROVE  /\ token \in Identity /\ token \in Identities
           /\ load' \in [Visit -> [Resource -> Load]] /\ cache' \in [Resource -> Cache]
           /\ crossed' \in BOOLEAN /\ (crossed => crossed')
           /\ \A r \in Resource : shown'[r] =
                  IF r \in rs /\ ~UnderWay(visit', r)
                  THEN IF cache[r].token = token THEN cache[r].value ELSE Nothing
                  ELSE IF up THEN shown[r] ELSE Nothing
           /\ \A r \in Resource :
                  \/ cache'[r] = cache[r] /\ \A w \in Visit : load'[w][r] = load[w][r]
                  \/ /\ r \in rs /\ ~UnderWay(visit', r)
                     /\ \A w \in Visit \ {visit'} : load'[w][r] = load[w][r]
                     /\ Cached(visit', r, token) \/ Joins(visit', r, token) \/ Asks(visit', r, token)
           /\ \A r \in rs : UnderWay(visit', r) \/
                     Cached(visit', r, token) \/ Joins(visit', r, token) \/ Asks(visit', r, token)
<1>1. token \in Identity /\ token \in Identities /\ token \in 0..MaxSigns
  BY TypeFacts DEF Opens, Identities
<1>2. visit' \in Visit /\ StartLoads(visit', token, rs)
  BY DEF Opens
<1>3. /\ load' \in [Visit -> [Resource -> Load]] /\ cache' \in [Resource -> Cache]
      /\ crossed' \in BOOLEAN /\ (crossed => crossed')
      /\ \A w \in Visit, r \in Resource :
             w # visit' \/ r \notin rs \/ UnderWay(visit', r) => load'[w][r] = load[w][r]
      /\ \A r \in Resource : r \notin rs \/ UnderWay(visit', r) => cache'[r] = cache[r]
      /\ \A r \in Resource : r \in rs /\ ~UnderWay(visit', r) =>
             Cached(visit', r, token) \/ Joins(visit', r, token) \/ Asks(visit', r, token)
  BY <1>1, <1>2, StartLoadsIs
<1>4. \A r \in Resource : FromCache(r, token) = IF cache[r].token = token THEN cache[r].value ELSE Nothing
  BY <1>1, FromCacheIs
<1>5. \A r \in Resource : shown'[r] = IF r \in rs /\ ~UnderWay(visit', r) THEN FromCache(r, token)
                                      ELSE IF up THEN shown[r] ELSE Nothing
  BY DEF Opens
<1>. QED BY <1>1, <1>3, <1>4, <1>5

LEMMA OpensTyped == ASSUME Typed, Contents, NEW rs \in SUBSET Resource, Opens(rs) PROVE Typed'
<1>0. TypeOK /\ act \in [Slot -> Act \cup {NoOp}] /\ Entries /\ Scheduled
  BY DEF Typed
<1>. USE <1>0
<1>p. load' \in [Visit -> [Resource -> Load]] /\ cache' \in [Resource -> Cache] /\ crossed' \in BOOLEAN
  BY Opened
<1>o. \A r \in Resource :
         \/ cache'[r] = cache[r] /\ \A w \in Visit : load'[w][r] = load[w][r]
         \/ /\ r \in rs /\ ~UnderWay(visit', r)
            /\ \A w \in Visit \ {visit'} : load'[w][r] = load[w][r]
            /\ Cached(visit', r, token) \/ Joins(visit', r, token) \/ Asks(visit', r, token)
  BY Opened
<1>1. TypeOK'
  <2>1. visit' \in 0..MaxVisits /\ visit \in Nat /\ visit <= visit'
    BY TypeFacts DEF Opens, Visit
  <2>2. \A s \in Slot : act[s].pc # "idle" => act[s].visit \in 1..visit' /\ act[s].token \in 1..Len(owner)
    BY <2>1 DEF TypeOK
  <2>3. /\ load' \in [Visit -> [Resource -> Load]] /\ cache' \in [Resource -> Cache] /\ crossed' \in BOOLEAN
        /\ shown' \in [Resource -> Shown] /\ section' \in Section /\ turns' \in 0..MaxTurns /\ up' \in BOOLEAN
    BY <1>p DEF Opens
  <2>4. UNCHANGED <<srv, cookie, owner, token, browser, act, timers, ops, fails, ended, left, foreign>>
    BY DEF Opens, sessionVars
  <2>. QED BY <2>1, <2>2, <2>3, <2>4 DEF TypeOK
<1>2. Entries'
  <2>1. \A r \in Resource : shown'[r] # Nothing => Numbered(shown'[r].has)
    BY Opened DEF Entries
  <2>2. \A r \in Resource : cache'[r].value # Nothing => Numbered(cache'[r].value.has)
    <3>1. ASSUME NEW r \in Resource
          PROVE  cache'[r] = cache[r] \/ cache'[r].value = Nothing
      <4>1. CASE cache'[r] = cache[r]
        BY <4>1
      <4>2. CASE Cached(visit', r, token) \/ Joins(visit', r, token) \/ Asks(visit', r, token)
        BY <4>2 DEF Cached, Joins, Asks
      <4>. QED BY <4>1, <4>2, <1>o
    <3>. QED BY <3>1 DEF Entries
  <2>3. \A v \in Visit, r \in Resource : load'[v][r].got # Nothing => Numbered(load'[v][r].got.has)
    <3>1. ASSUME NEW v \in Visit, NEW r \in Resource
          PROVE  load'[v][r] = load[v][r] \/ load'[v][r].got = Nothing
      <4>1. CASE \A w \in Visit : load'[w][r] = load[w][r]
        BY <4>1
      <4>2. CASE /\ \A w \in Visit \ {visit'} : load'[w][r] = load[w][r]
                 /\ Cached(visit', r, token) \/ Joins(visit', r, token) \/ Asks(visit', r, token)
        BY <4>2 DEF Cached, Joins, Asks, NoLoad
      <4>. QED BY <4>1, <4>2, <1>o
    <3>. QED BY <3>1 DEF Entries
  <2>4. ops' = ops /\ act' = act /\ srv' = srv
    BY DEF Opens
  <2>. QED BY <2>1, <2>2, <2>3, <2>4 DEF Entries, Numbered, Busy
<1>3. Scheduled'
  BY DEF Opens, Scheduled, Busy
<1>. QED BY <1>1, <1>2, <1>3 DEF Typed, Opens

LEMMA OpensContents == ASSUME Typed, Contents, NEW rs \in SUBSET Resource, Opens(rs) PROVE Contents'
<1>0. TypeOK /\ LoadsOwn /\ CachesOwn /\ PageOwn /\ ActsOwn /\ SameAccount
  BY DEF Typed, Contents
<1>1. owner' = owner /\ token' = token /\ foreign' = foreign /\ cookie' = cookie /\ browser' = browser
  BY DEF Opens, sessionVars
<1>2. /\ visit' \in Visit /\ visit \in Nat /\ visit <= visit' /\ visit' # 0
      /\ up => visit' = visit
      /\ ~up => visit' = visit + 1
  BY <1>0, TypeFacts DEF Opens, Visit
<1>3. LoadsOwn'
  <2>0. \A c : Own(c) => Own(c)'
    BY <1>1 DEF Own, Identities
  <2>1. ASSUME NEW v \in Visit, NEW r \in Resource, load'[v][r].st # "no"
        PROVE  /\ v <= visit' /\ load'[v][r].token \in Identities
               /\ load'[v][r].by \in Visit /\ load'[load'[v][r].by][r].st # "no"
               /\ load'[load'[v][r].by][r].by = load'[v][r].by
               /\ load'[load'[v][r].by][r].token = load'[v][r].token
               /\ load'[v][r].st # "sent" => load'[v][r].by = v
               /\ load'[v][r].st = "handled" => /\ load'[v][r].got # Nothing
                                                /\ load'[v][r].got.asked = load'[v][r].token
                                                /\ Own(load'[v][r].got)
    <3>1. CASE cache'[r] = cache[r] /\ \A w \in Visit : load'[w][r] = load[w][r]
      <4>1. UnderWay(v, r) /\ load'[v][r] = load[v][r]
        BY <2>1, <3>1 DEF UnderWay
      <4>2. /\ v <= visit /\ load[v][r].token \in Identities
            /\ load[v][r].by \in Visit /\ UnderWay(load[v][r].by, r)
            /\ load[load[v][r].by][r].by = load[v][r].by
            /\ load[load[v][r].by][r].token = load[v][r].token
            /\ load[v][r].st # "sent" => load[v][r].by = v
            /\ load[v][r].st = "handled" =>
                  load[v][r].got # Nothing /\ load[v][r].got.asked = load[v][r].token /\ Own(load[v][r].got)
        BY <1>0, <4>1 DEF LoadsOwn
      <4>3. load'[load[v][r].by][r] = load[load[v][r].by][r] /\ v \in Nat
        BY <3>1, <4>2, Zeros
      <4>4. v <= visit'
        BY <1>2, <4>2, <4>3
      <4>. QED BY <4>1, <4>2, <4>3, <4>4 DEF UnderWay
    <3>2. CASE /\ r \in rs /\ ~UnderWay(visit', r)
               /\ \A w \in Visit \ {visit'} : load'[w][r] = load[w][r]
               /\ Cached(visit', r, token) \/ Joins(visit', r, token) \/ Asks(visit', r, token)
      <4>1. CASE v # visit'
        <5>1. load'[v][r] = load[v][r] /\ UnderWay(v, r)
          BY <2>1, <3>2, <4>1 DEF UnderWay
        <5>2. load[v][r].by # visit'
          BY <1>0, <3>2, <5>1 DEF LoadsOwn
        <5>. QED BY <1>0, <1>2, <3>2, <5>1, <5>2 DEF LoadsOwn, UnderWay, Visit
      <4>2. CASE v = visit' /\ Cached(visit', r, token)
        BY <2>1, <4>2 DEF Cached, NoLoad
      <4>3. CASE v = visit' /\ Asks(visit', r, token)
        BY <1>0, <1>2, <2>1, <4>3, Opened DEF Asks, Visit
      <4>4. CASE v = visit' /\ Joins(visit', r, token)
        <5>1. /\ UnderWay(cache[r].inflight, r) /\ load[cache[r].inflight][r].by = cache[r].inflight
              /\ load[cache[r].inflight][r].token = token
          BY <1>0, <4>4 DEF Joins, CachesOwn
        <5>2. cache[r].inflight \in Visit /\ cache[r].inflight # visit'
          <6>1. cache[r].inflight \in 0..MaxVisits /\ cache[r].inflight # 0 /\ MaxVisits \in Nat
            BY <1>0, <4>4, TypeFacts DEF Joins, TypeOK, Cache
          <6>2. cache[r].inflight # visit'
            BY <3>2, <4>4, <5>1
          <6>. QED BY <6>1, <6>2 DEF Visit
        <5>. QED BY <1>0, <1>2, <3>2, <4>4, <5>1, <5>2, Opened DEF Joins, UnderWay, Visit
      <4>. QED BY <3>2, <4>1, <4>2, <4>3, <4>4
    <3>. QED BY <1>0, <3>1, <3>2, Opened
  <2>. QED BY <1>1, <2>0, <2>1 DEF LoadsOwn, UnderWay, Identities
<1>4. CachesOwn'
  <2>1. ASSUME NEW r \in Resource
        PROVE  /\ cache'[r].token <= Len(owner)
               /\ cache'[r].value # Nothing => cache'[r].value.asked = cache'[r].token /\ Own(cache'[r].value)
               /\ cache'[r].inflight # 0 =>
                     /\ load'[cache'[r].inflight][r].st # "no"
                     /\ load'[cache'[r].inflight][r].by = cache'[r].inflight
                     /\ load'[cache'[r].inflight][r].token = cache'[r].token
    <3>0. cache[r].inflight # 0 => cache[r].inflight \in Visit
      BY <1>0, TypeFacts DEF TypeOK, Cache, Visit
    <3>1. CASE cache'[r] = cache[r] /\ \A w \in Visit : load'[w][r] = load[w][r]
      BY <1>0, <3>0, <3>1 DEF CachesOwn, UnderWay
    <3>2. CASE /\ r \in rs /\ ~UnderWay(visit', r)
               /\ \A w \in Visit \ {visit'} : load'[w][r] = load[w][r]
               /\ Cached(visit', r, token) \/ Joins(visit', r, token) \/ Asks(visit', r, token)
      <4>1. CASE Cached(visit', r, token) \/ Joins(visit', r, token)
        BY <1>0, <3>0, <3>2, <4>1 DEF CachesOwn, UnderWay, Cached, Joins
      <4>2. CASE Asks(visit', r, token)
        BY <1>0, <1>2, <4>2, Opened, TypeFacts DEF Asks
      <4>. QED BY <3>2, <4>1, <4>2
    <3>. QED BY <1>0, <3>1, <3>2, Opened
  <2>. QED BY <1>1, <2>1 DEF CachesOwn, UnderWay, Own, Identities
<1>5. PageOwn'
  <2>1. ASSUME NEW r \in Resource, shown'[r] # Nothing
        PROVE  shown'[r].asked = token /\ Own(shown'[r])
    BY <1>0, <2>1, Opened DEF CachesOwn, PageOwn
  <2>2. ASSUME NEW r \in Resource, load'[visit'][r].st # "no"
        PROVE  load'[visit'][r].token = token
    <3>1. CASE \A w \in Visit : load'[w][r] = load[w][r]
      <4>1. UnderWay(visit', r) /\ load'[visit'][r] = load[visit'][r]
        BY <1>2, <2>2, <3>1 DEF UnderWay
      <4>2. up /\ visit' = visit
        BY <1>0, <1>2, <4>1 DEF LoadsOwn
      <4>. QED BY <1>0, <4>1, <4>2 DEF PageOwn
    <3>2. CASE Cached(visit', r, token) \/ Joins(visit', r, token) \/ Asks(visit', r, token)
      BY <2>2, <3>2 DEF Cached, Joins, Asks, NoLoad
    <3>. QED BY <1>0, <3>1, <3>2, Opened
  <2>. QED BY <1>1, <1>2, <2>1, <2>2 DEF PageOwn, Opens, Own, Identities, UnderWay
<1>6. ActsOwn'
  <2>1. ASSUME NEW s \in Slot, Busy(s)
        PROVE  /\ act[s].token \in Identities /\ act[s].visit \in 1..visit'
               /\ visit' = act[s].visit => act[s].token = token /\ shown'[act[s].op.on] # Nothing
    <3>1. act[s].token \in Identities /\ act[s].visit \in 1..visit'
      BY <1>0, <1>2, <2>1 DEF ActsOwn
    <3>2. ASSUME visit' = act[s].visit PROVE Mounted(act[s])
      BY <1>0, <1>2, <2>1, <3>2 DEF ActsOwn, Mounted, TypeOK
    <3>3. ASSUME up, NEW r \in Resource, shown[r] # Nothing PROVE shown'[r] # Nothing
      BY <1>0, <3>3, Opened DEF Opens
    <3>4. act[s].op.on \in Resource
      BY <2>1, OpFacts DEF Typed, Act, Busy, NoOp
    <3>. QED BY <1>0, <2>1, <3>1, <3>2, <3>3, <3>4 DEF ActsOwn, Mounted
  <2>2. act' = act
    BY DEF Opens
  <2>. QED BY <1>0, <1>1, <2>1, <2>2 DEF ActsOwn, Busy, Own, Identities, Mounted
<1>7. SameAccount'
  BY <1>0, <1>1 DEF SameAccount
<1>. QED BY <1>3, <1>4, <1>5, <1>6, <1>7 DEF Contents

LEMMA OpensEndings == ASSUME Endings, NEW rs \in SUBSET Resource, Opens(rs) PROVE Endings'
<1>1. UNCHANGED <<browser, token, ended, act, fails, timers>>
  BY DEF Opens, sessionVars
<1>2. Behind'
  BY <1>1 DEF Endings, Behind, Busy
<1>3. Leaving'
  BY <1>1 DEF Endings, Leaving
<1>. QED BY <1>2, <1>3 DEF Endings

LEMMA OpensFresh ==
    ASSUME Typed, Contents, Fresh, NEW rs \in SUBSET Resource, Opens(rs)
    PROVE  Fresh'
<1>. SUFFICES ASSUME Undisturbed'
              PROVE  (AllMounted /\ OneRequest /\ UpTo /\ OneEdit /\ NewEntries)'
  BY DEF Fresh
<1>0. TypeOK /\ LoadsOwn /\ CachesOwn /\ PageOwn /\ ActsOwn
  BY DEF Typed, Contents
<1>1. AllMounted /\ OneRequest /\ UpTo /\ OneEdit /\ NewEntries /\ ~crossed'
  BY <1>0, Opened DEF Undisturbed, Opens, Fresh
<1>2. UNCHANGED <<srv, owner, token, act, foreign, left>> /\ up' /\ token # 0 /\ (up => visit' = visit)
      /\ visit' \in Visit
  BY DEF Opens, sessionVars
<1>3. ASSUME NEW s \in Slot, Busy(s)
      PROVE  /\ up /\ visit' = act[s].visit
             /\ act[s].op.on \in Resource /\ act[s].op.on \notin rs /\ shown'[act[s].op.on] = shown[act[s].op.on]
  <2>1. Mounted(act[s]) /\ shown[act[s].op.on] # Nothing
    BY <1>0, <1>1, <1>3 DEF AllMounted, ActsOwn
  <2>2. act[s].op.on \in Resource
    BY <1>3, OpFacts DEF Typed, Act, Busy, NoOp
  <2>3. act[s].op.on \notin rs
    BY <2>1 DEF Opens, Mounted
  <2>. QED BY <1>0, <1>2, <2>1, <2>2, <2>3, Opened DEF Mounted
<1>4. AllMounted'
  BY <1>2, <1>3 DEF AllMounted, Busy, Mounted
<1>5. OneEdit' /\ NewEntries'
  BY <1>1, <1>2, <1>3 DEF OneEdit, NewEntries, Busy
<1>6. ASSUME NEW r \in Resource
      PROVE  \/ /\ cache'[r] = cache[r] /\ \A w \in Visit : load'[w][r].st # "no" => load'[w][r] = load[w][r]
                /\ shown'[r] # Nothing => \/ up /\ shown'[r] = shown[r]
                                          \/ cache[r].token = token /\ shown'[r] = cache[r].value
             \/ /\ cache'[r] = cache[r] /\ cache[r].value = Nothing /\ shown'[r] = Nothing
                /\ \A w \in Visit \ {visit'} : load'[w][r] = load[w][r]
                /\ load'[visit'][r].st = "sent" /\ load'[visit'][r].token = token
                /\ load'[visit'][r].by = cache[r].inflight
                /\ cache[r].inflight \in Visit /\ UnderWay(cache[r].inflight, r)
                /\ load[cache[r].inflight][r].token = token /\ load[cache[r].inflight][r].by = cache[r].inflight
             \/ /\ cache'[r].value = Nothing /\ shown'[r] = Nothing
                /\ \A w \in Visit \ {visit'} : load'[w][r] = load[w][r]
                /\ load'[visit'][r].st = "sent" /\ load'[visit'][r].token = token
                /\ \A w \in Visit : UnderWay(w, r) => load[w][r].token # token
  <2>1. CASE r \in rs /\ ~UnderWay(visit', r)
    <3>1. \A w \in Visit \ {visit'} : load'[w][r] = load[w][r]
      BY <1>0, <2>1, Opened
    <3>2. shown'[r] = IF cache[r].token = token THEN cache[r].value ELSE Nothing
      BY <1>0, <2>1, Opened
    <3>3. CASE Cached(visit', r, token)
      <4>1. \A w \in Visit : load'[w][r].st # "no" => load'[w][r] = load[w][r]
        BY <3>1, <3>3 DEF Cached, NoLoad
      <4>. QED BY <3>2, <3>3, <4>1 DEF Cached
    <3>4. CASE Joins(visit', r, token)
      <4>1. cache[r].inflight \in Visit
        BY <1>0, <3>4, TypeFacts DEF Joins, TypeOK, Cache, Visit
      <4>. QED BY <1>0, <3>1, <3>2, <3>4, <4>1 DEF Joins, CachesOwn
    <3>5. CASE Asks(visit', r, token)
      BY <1>1, <3>1, <3>2, <3>5 DEF Asks
    <3>. QED BY <1>0, <2>1, <3>3, <3>4, <3>5, Opened
  <2>2. CASE ~(r \in rs /\ ~UnderWay(visit', r))
    <3>1. cache'[r] = cache[r] /\ \A w \in Visit : load'[w][r] = load[w][r]
      BY <1>0, <2>2, Opened
    <3>2. shown'[r] = IF up THEN shown[r] ELSE Nothing
      BY <1>0, <2>2, Opened
    <3>. QED BY <3>1, <3>2
  <2>. QED BY <2>1, <2>2
<1>7. OneRequest'
  <2>1. ASSUME NEW r \in Resource, NEW v \in Visit, load'[v][r].st # "no"
        PROVE  /\ \A w \in Visit : load'[w][r].st # "no" /\ load'[w][r].token = load'[v][r].token
                                      => load'[w][r].by = load'[v][r].by
               /\ cache'[r].value # Nothing => load'[v][r].token # cache'[r].token
               /\ shown'[r] # Nothing => load'[v][r].token # token
    <3>1. CASE /\ cache'[r] = cache[r] /\ \A w \in Visit : load'[w][r].st # "no" => load'[w][r] = load[w][r]
               /\ shown'[r] # Nothing => \/ up /\ shown'[r] = shown[r]
                                         \/ cache[r].token = token /\ shown'[r] = cache[r].value
      BY <1>1, <2>1, <3>1 DEF OneRequest, UnderWay
    <3>2. CASE /\ cache'[r] = cache[r] /\ cache[r].value = Nothing /\ shown'[r] = Nothing
               /\ \A w \in Visit \ {visit'} : load'[w][r] = load[w][r]
               /\ load'[visit'][r].st = "sent" /\ load'[visit'][r].token = token
               /\ load'[visit'][r].by = cache[r].inflight
               /\ cache[r].inflight \in Visit /\ UnderWay(cache[r].inflight, r)
               /\ load[cache[r].inflight][r].token = token /\ load[cache[r].inflight][r].by = cache[r].inflight
      <4>1. \A w \in Visit : load'[w][r].st # "no" =>
               \E u \in Visit : /\ UnderWay(u, r) /\ load[u][r].token = load'[w][r].token
                               /\ load[u][r].by = load'[w][r].by
        BY <3>2 DEF UnderWay
      <4>2. \A u, w \in Visit : UnderWay(u, r) /\ UnderWay(w, r) /\ load[w][r].token = load[u][r].token
                                   => load[w][r].by = load[u][r].by
        BY <1>1 DEF OneRequest
      <4>. QED BY <2>1, <3>2, <4>1, <4>2
    <3>3. CASE /\ cache'[r].value = Nothing /\ shown'[r] = Nothing
               /\ \A w \in Visit \ {visit'} : load'[w][r] = load[w][r]
               /\ load'[visit'][r].st = "sent" /\ load'[visit'][r].token = token
               /\ \A w \in Visit : UnderWay(w, r) => load[w][r].token # token
      BY <1>1, <2>1, <3>3 DEF OneRequest, UnderWay
    <3>. QED BY <1>6, <3>1, <3>2, <3>3
  <2>. QED BY <1>2, <2>1 DEF OneRequest, UnderWay
<1>8. UpTo'
  <2>1. \A S, r : Matches(S, r)' <=> Matches(S, r)
    BY <1>2 DEF Matches, Removed, Added, Handled
  <2>2. ASSUME NEW r \in Resource
        PROVE  /\ shown'[r] # Nothing => Matches(shown'[r].has, r)
               /\ cache'[r].value # Nothing /\ cache'[r].token = token => Matches(cache'[r].value.has, r)
               /\ \A v \in Visit : load'[v][r].st = "handled" /\ load'[v][r].token = token
                                      => load'[v][r].got.has = srv[owner[token]][r]
    BY <1>1, <1>2, <1>6 DEF UpTo
  <2>. QED BY <1>2, <2>2 DEF UpTo, Matches, Removed, Added, Handled
<1>. QED BY <1>4, <1>5, <1>7, <1>8

-----------------------------------------------------------------------------
(* The page is left, requests end without an answer, sessions end *)

\* Some loads are over, with everyone that waited for them.
Fewer ==
    /\ load' \in [Visit -> [Resource -> Load]] /\ cache' \in [Resource -> Cache]
    /\ \A w \in Visit, r \in Resource : load'[w][r] = load[w][r] \/ load'[w][r] = NoLoad
    /\ \A w \in Visit, r \in Resource :
          load'[w][r].st # "no" => load'[load[w][r].by][r] = load[load[w][r].by][r]
    /\ \A r \in Resource :
          /\ cache'[r].value = cache[r].value /\ cache'[r].token = cache[r].token
          /\ cache'[r].inflight # 0 => /\ cache'[r].inflight = cache[r].inflight
                                       /\ load'[cache[r].inflight][r] = load[cache[r].inflight][r]

Recedes ==
    /\ Fewer
    /\ \/ up' = FALSE /\ shown' = [r \in Resource |-> Nothing] /\ left' = (left \/ (up /\ OperationUnderWay))
       \/ UNCHANGED <<up, shown, left>>
    /\ \/ UNCHANGED <<token, browser>>
       \/ token' = 0 /\ browser' = 0 /\ up' = FALSE
    /\ cookie' \in {cookie, None}
    /\ timers' = timers \/ (timers > 0 /\ timers' = timers - 1 /\ token' = 0)
    /\ turns' \in 0..MaxTurns /\ fails' \in 0..MaxFails /\ fails <= fails'
    /\ UNCHANGED <<srv, owner, visit, section, act, ops, ended, foreign, crossed>>

LEMMA NoFewer == ASSUME TypeOK, UNCHANGED <<load, cache>> PROVE Fewer
BY DEF TypeOK, Fewer

LEMMA EndedFewer ==
    ASSUME TypeOK, LoadsOwn, CachesOwn, NEW v \in Visit, NEW r \in Resource,
           load' = Ended(v, r), cache' = [cache EXCEPT ![r].inflight = 0]
    PROVE  Fewer
<1>1. /\ load' \in [Visit -> [Resource -> Load]]
      /\ \A w \in Visit, q \in Resource :
             load'[w][q] = IF q = r /\ UnderWay(w, r) /\ load[w][r].by = v THEN NoLoad ELSE load[w][q]
  BY EndedIs
<1>2. cache' \in [Resource -> Cache] /\ cache'[r] = [cache[r] EXCEPT !.inflight = 0]
      /\ \A q \in Resource : q # r => cache'[q] = cache[q]
  BY Zeros DEF TypeOK, Cache
<1>3. \A q \in Resource : cache[q].inflight # 0 => cache[q].inflight \in Visit
  BY TypeFacts DEF TypeOK, Cache, Visit
<1>4. ASSUME NEW w \in Visit, NEW q \in Resource, load'[w][q].st # "no"
      PROVE  load'[load[w][q].by][q] = load[load[w][q].by][q]
  <2>1. UnderWay(w, q) /\ load'[w][q] = load[w][q]
    BY <1>1, <1>4 DEF NoLoad, UnderWay
  <2>2. load[w][q].by \in Visit /\ load[load[w][q].by][q].by = load[w][q].by
    BY <2>1 DEF LoadsOwn
  <2>3. q = r => load[w][q].by # v
    BY <1>1, <1>4, <2>1 DEF NoLoad
  <2>. QED BY <1>1, <2>2, <2>3
<1>5. ASSUME NEW q \in Resource
      PROVE  /\ cache'[q].value = cache[q].value /\ cache'[q].token = cache[q].token
             /\ cache'[q].inflight # 0 => /\ cache'[q].inflight = cache[q].inflight
                                          /\ load'[cache[q].inflight][q] = load[cache[q].inflight][q]
  <2>1. cache[q] \in Cache
    BY DEF TypeOK
  <2>2. CASE q = r
    BY <1>2, <2>1, <2>2 DEF Cache
  <2>3. CASE q # r
    BY <1>1, <1>2, <1>3, <2>3
  <2>. QED BY <2>2, <2>3
<1>. QED BY <1>1, <1>2, <1>4, <1>5 DEF Fewer

LEMMA RecedesTyped == ASSUME Typed, Recedes PROVE Typed'
<1>0. TypeOK /\ act \in [Slot -> Act \cup {NoOp}] /\ Entries /\ Scheduled
  BY DEF Typed
<1>1. Nothing \in Shown /\ shown' \in [Resource -> Shown]
  BY <1>0 DEF Shown, Recedes, TypeOK
<1>2. timers' \in 0..ops /\ timers' <= timers
  <2>1. timers \in 0..ops /\ ops \in Nat
    BY <1>0, TypeFacts DEF TypeOK
  <2>2. timers' = timers \/ (timers > 0 /\ timers' = timers - 1)
    BY DEF Recedes
  <2>. QED BY <2>1, <2>2
<1>3. TypeOK'
  <2>1. cookie' \in Account \cup {None} /\ up' \in BOOLEAN /\ left' \in BOOLEAN
    BY <1>0 DEF Recedes, TypeOK, OperationUnderWay
  <2>2. {token', browser'} \subseteq 0..Len(owner)
    BY <1>0, TypeFacts DEF Recedes
  <2>3. /\ cache' \in [Resource -> Cache] /\ load' \in [Visit -> [Resource -> Load]]
        /\ turns' \in 0..MaxTurns /\ fails' \in 0..MaxFails
        /\ UNCHANGED <<srv, owner, visit, section, act, ops, ended, foreign, crossed>>
    BY DEF Recedes, Fewer
  <2>. QED BY <1>0, <1>1, <1>2, <2>1, <2>2, <2>3 DEF TypeOK
<1>4. Entries'
  <2>1. \A r \in Resource : shown'[r] = shown[r] \/ shown'[r] = Nothing
    BY <1>0 DEF Recedes
  <2>2. \A r \in Resource : cache'[r].value = cache[r].value
    BY DEF Recedes, Fewer
  <2>3. \A v \in Visit, r \in Resource : load'[v][r] = load[v][r] \/ load'[v][r].got = Nothing
    BY DEF Recedes, Fewer, NoLoad
  <2>4. UNCHANGED <<ops, act, srv>>
    BY DEF Recedes
  <2>. QED BY <1>0, <2>1, <2>2, <2>3, <2>4 DEF Entries, Numbered, Busy
<1>5. Scheduled'
  <2>1. UNCHANGED <<act, ops>>
    BY DEF Recedes
  <2>2. timers \in Nat /\ timers' \in Nat /\ ops \in Nat
    BY <1>0, <1>2, TypeFacts
  <2>. DEFINE S == {s \in Slot : Busy(s)}
  <2>3. IsFiniteSet(S) /\ timers + Cardinality(S) <= ops /\ Cardinality(S) \in Nat /\ S' = S
    BY <1>0, <2>1, FS_CardinalityType DEF Scheduled, Busy
  <2>. HIDE DEF S
  <2>4. IsFiniteSet(S') /\ timers' + Cardinality(S') <= ops'
    BY <1>2, <2>1, <2>2, <2>3
  <2>. QED BY <2>4 DEF S, Scheduled
<1>. QED BY <1>0, <1>3, <1>4, <1>5 DEF Typed, Recedes

LEMMA RecedesContents == ASSUME Typed, Contents, Recedes PROVE Contents'
<1>0. TypeOK /\ LoadsOwn /\ CachesOwn /\ PageOwn /\ ActsOwn /\ SameAccount
  BY DEF Typed, Contents
<1>1. /\ UNCHANGED <<owner, foreign, visit, act>> /\ cookie' \in {cookie, None}
      /\ (token' = token /\ browser' = browser) \/ (token' = 0 /\ browser' = 0)
      /\ up' => up /\ shown' = shown /\ token' = token
  BY <1>0 DEF Recedes, TypeOK
<1>3. LoadsOwn'
  <2>0. \A c : Own(c) => c.asked \in Identities /\ (c.asked = token' => c.of = owner[token] \/ foreign)
    BY <1>0, <1>1 DEF Own, Identities
  <2>00. \A c : Own(c) => Own(c)'
    BY <1>1, <2>0 DEF Own, Identities
  <2>1. ASSUME NEW v \in Visit, NEW r \in Resource, load'[v][r].st # "no"
        PROVE  /\ load'[v][r] = load[v][r] /\ UnderWay(v, r)
               /\ load'[load[v][r].by][r] = load[load[v][r].by][r]
    BY <2>1 DEF Recedes, Fewer, NoLoad, UnderWay
  <2>2. ASSUME NEW v \in Visit, NEW r \in Resource, load'[v][r].st # "no"
        PROVE  /\ v <= visit /\ load'[v][r].token \in Identities
               /\ load'[v][r].by \in Visit /\ load'[load'[v][r].by][r].st # "no"
               /\ load'[load'[v][r].by][r].by = load'[v][r].by
               /\ load'[load'[v][r].by][r].token = load'[v][r].token
               /\ load'[v][r].st # "sent" => load'[v][r].by = v
               /\ load'[v][r].st = "handled" =>
                     /\ load'[v][r].got # Nothing /\ load'[v][r].got.asked = load'[v][r].token
                     /\ Own(load'[v][r].got)
    <3>1. /\ load'[v][r] = load[v][r] /\ UnderWay(v, r)
          /\ load'[load'[v][r].by][r] = load[load[v][r].by][r]
      BY <2>1, <2>2
    <3>2. /\ v <= visit /\ load[v][r].token \in Identities
          /\ load[v][r].by \in Visit /\ load[load[v][r].by][r].st # "no"
          /\ load[load[v][r].by][r].by = load[v][r].by
          /\ load[load[v][r].by][r].token = load[v][r].token
          /\ load[v][r].st # "sent" => load[v][r].by = v
          /\ load[v][r].st = "handled" =>
                /\ load[v][r].got # Nothing /\ load[v][r].got.asked = load[v][r].token
                /\ Own(load[v][r].got)
      BY <1>0, <3>1 DEF LoadsOwn, UnderWay
    <3>. QED BY <3>1, <3>2
  <2>. QED BY <1>1, <2>00, <2>2 DEF LoadsOwn, UnderWay, Identities
<1>4. CachesOwn'
  <2>1. ASSUME NEW r \in Resource
        PROVE  /\ cache'[r].token <= Len(owner)
               /\ cache'[r].value # Nothing =>
                     /\ cache'[r].value.asked = cache'[r].token
                     /\ cache'[r].value.asked \in Identities
                     /\ cache'[r].value.asked = token => cache'[r].value.of = owner[token] \/ foreign
               /\ cache'[r].inflight # 0 =>
                     /\ load'[cache'[r].inflight][r].st # "no"
                     /\ load'[cache'[r].inflight][r].by = cache'[r].inflight
                     /\ load'[cache'[r].inflight][r].token = cache'[r].token
    BY <1>0 DEF Recedes, Fewer, CachesOwn, Own, UnderWay
  <2>. QED BY <1>1, <2>1 DEF CachesOwn, Own, UnderWay, Identities
<1>5. PageOwn'
  <2>1. ASSUME up', NEW r \in Resource, load'[visit][r].st # "no"
        PROVE  load'[visit][r].token = token
    <3>1. visit \in Visit
      BY <1>0, <1>1, <2>1, TypeFacts DEF PageOwn, Visit, TypeOK
    <3>. QED BY <1>0, <1>1, <2>1, <3>1 DEF Recedes, Fewer, NoLoad, PageOwn, UnderWay
  <2>. QED BY <1>0, <1>1, <2>1 DEF PageOwn, Own, Identities, UnderWay
<1>6. ActsOwn'
  <2>1. ASSUME NEW s \in Slot, Busy(s), up', visit = act[s].visit
        PROVE  act[s].token = token' /\ shown'[act[s].op.on] # Nothing
    BY <1>0, <1>1, <2>1 DEF ActsOwn, Mounted
  <2>2. ASSUME NEW s \in Slot, Busy(s), act[s].pc = "handled"
        PROVE  Own(act[s].got)'
    BY <1>0, <1>1, <2>2 DEF ActsOwn, Own, Identities
  <2>. QED BY <1>0, <1>1, <2>1, <2>2 DEF ActsOwn, Busy, Mounted, Identities
<1>7. SameAccount'
  BY <1>0, <1>1 DEF SameAccount
<1>. QED BY <1>3, <1>4, <1>5, <1>6, <1>7 DEF Contents

LEMMA RecedesEndings == ASSUME Typed, Endings, Recedes PROVE Endings'
<1>1. /\ UNCHANGED <<ended, act>> /\ fails <= fails' /\ fails \in Nat /\ fails' \in Nat /\ 0 \notin ended
      /\ \/ token' = token /\ browser' = browser /\ (timers' = timers \/ token' = 0)
         \/ token' = 0 /\ browser' = 0
  BY DEF Recedes, Typed, TypeOK
<1>2. Behind'
  BY <1>1 DEF Endings, Behind, Busy
<1>3. Leaving'
  BY <1>1 DEF Endings, Leaving
<1>. QED BY <1>2, <1>3 DEF Endings

LEMMA RecedesFresh == ASSUME Typed, Contents, Fresh, Recedes PROVE Fresh'
<1>. SUFFICES ASSUME Undisturbed'
              PROVE  (AllMounted /\ OneRequest /\ UpTo /\ OneEdit /\ NewEntries)'
  BY DEF Fresh
<1>0. TypeOK /\ LoadsOwn /\ ActsOwn /\ PageOwn
  BY DEF Typed, Contents
<1>1. AllMounted /\ OneRequest /\ UpTo /\ OneEdit /\ NewEntries
  <2>1. ~left /\ ~crossed /\ ~foreign
    BY <1>0 DEF Undisturbed, Recedes, TypeOK
  <2>. QED BY <2>1 DEF Fresh, Undisturbed
<1>2. UNCHANGED <<srv, owner, visit, act>> /\ Fewer
      /\ (token' = token \/ (token' = 0 /\ up' = FALSE))
      /\ \/ up' = FALSE /\ ~(up /\ OperationUnderWay) /\ shown' = [r \in Resource |-> Nothing]
         \/ up' = up /\ shown' = shown
  BY DEF Recedes, Undisturbed
<1>3. ASSUME NEW s \in Slot, Busy(s)
      PROVE  up' /\ up' = up /\ shown' = shown /\ token' = token
  BY <1>0, <1>1, <1>2, <1>3 DEF AllMounted, Mounted, OperationUnderWay, Busy
<1>4. AllMounted'
  BY <1>1, <1>2, <1>3 DEF AllMounted, Busy, Mounted
<1>5. OneEdit' /\ NewEntries'
  BY <1>1, <1>2, <1>3 DEF OneEdit, NewEntries, Busy
<1>6. \A r \in Resource : shown'[r] # Nothing /\ up' => up /\ shown'[r] = shown[r] /\ token' = token
  BY <1>2
<1>7. OneRequest'
  <2>1. \A v \in Visit, r \in Resource : load'[v][r].st # "no" => load'[v][r] = load[v][r]
    BY <1>2 DEF Fewer, NoLoad
  <2>2. \A r \in Resource : cache'[r].value = cache[r].value /\ cache'[r].token = cache[r].token
    BY <1>2 DEF Fewer
  <2>. QED BY <1>1, <1>6, <2>1, <2>2 DEF OneRequest, UnderWay
<1>8. UpTo'
  <2>. SUFFICES ASSUME token' # 0, token' = token PROVE UpTo'
    BY <1>2 DEF UpTo
  <2>1. ASSUME NEW r \in Resource
        PROVE  /\ up' /\ shown'[r] # Nothing => Matches(shown'[r].has, r)
               /\ cache'[r].value # Nothing /\ cache'[r].token = token => Matches(cache'[r].value.has, r)
               /\ \A v \in Visit : load'[v][r].st = "handled" /\ load'[v][r].token = token
                                      => load'[v][r].got.has = srv[owner[token]][r]
    BY <1>1, <1>2, <1>6 DEF UpTo, Fewer, NoLoad
  <2>. QED BY <1>2, <2>1 DEF UpTo, Matches, Removed, Added, Handled
<1>. QED BY <1>4, <1>5, <1>7, <1>8

-----------------------------------------------------------------------------
(* A load is handled by the server *)

LEMMA HandleLoadIndInv ==
    ASSUME IndInv, NEW v \in Visit, NEW r \in Resource, HandleLoad(v, r)
    PROVE  IndInv'
<1>. DEFINE l == load[v][r]
            g == [of |-> cookie, has |-> srv[cookie][r], asked |-> l.token]
<1>0. /\ TypeOK /\ act \in [Slot -> Act \cup {NoOp}] /\ Entries /\ Scheduled
      /\ LoadsOwn /\ CachesOwn /\ PageOwn /\ ActsOwn /\ SameAccount /\ Endings /\ Fresh
  BY DEF IndInv, Typed, Contents
<1>1. UNCHANGED <<srv, cookie, owner, token, browser, visit, up, section, shown, cache, act, timers,
                  ops, turns, fails, ended, left, crossed, foreign>>
  BY DEF HandleLoad, pageVars, counters, history, sessionVars
<1>2. l.st = "sent" /\ l.by = v /\ UnderWay(v, r) /\ l.token \in Identities /\ l \in Load
  BY <1>0 DEF HandleLoad, UnderWay, LoadsOwn, TypeOK
<1>3. \/ load' = [load EXCEPT ![v][r] = [l EXCEPT !.st = "refused"]]
      \/ cookie # None /\ load' = [load EXCEPT ![v][r] = [l EXCEPT !.st = "handled", !.got = g]]
  BY DEF HandleLoad
<1>4. cookie # None => g \in Shown /\ Numbered(g.has) /\ g # Nothing
  <2>. SUFFICES ASSUME cookie # None PROVE g \in Shown /\ Numbered(g.has) /\ g # Nothing
    OBVIOUS
  <2>1. cookie \in Account /\ srv[cookie][r] \subseteq Entry /\ Numbered(srv[cookie][r])
    BY <1>0 DEF TypeOK, Entries
  <2>2. l.token \in Identity
    BY <1>0, <1>2, TypeFacts
  <2>3. g \in Content
    BY <2>1, <2>2 DEF Content
  <2>. QED BY <2>1, <2>3, NothingFacts DEF Shown
<1>5. /\ load' \in [Visit -> [Resource -> Load]]
      /\ \A w \in Visit, q \in Resource : w # v \/ q # r => load'[w][q] = load[w][q]
      /\ load'[v][r].by = v /\ load'[v][r].token = l.token
      /\ \/ load'[v][r].st = "refused" /\ load'[v][r].got = l.got
         \/ load'[v][r].st = "handled" /\ cookie # None /\ load'[v][r].got = g
  <2>. HIDE DEF g
  <2>1. CASE load' = [load EXCEPT ![v][r] = [l EXCEPT !.st = "refused"]]
    <3>1. [l EXCEPT !.st = "refused"] \in Load
      BY <1>2 DEF Load
    <3>. QED BY <1>0, <1>2, <2>1, <3>1 DEF TypeOK, Load
  <2>2. CASE cookie # None /\ load' = [load EXCEPT ![v][r] = [l EXCEPT !.st = "handled", !.got = g]]
    <3>1. [l EXCEPT !.st = "handled", !.got = g] \in Load
      BY <1>2, <1>4, <2>2 DEF Load
    <3>. QED BY <1>0, <1>2, <2>2, <3>1 DEF TypeOK, Load
  <2>. QED BY <1>3, <2>1, <2>2
<1>6. \A w \in Visit, q \in Resource :
          /\ load'[w][q].by = load[w][q].by /\ load'[w][q].token = load[w][q].token
          /\ load'[w][q].st # "no" <=> load[w][q].st # "no"
  BY <1>2, <1>5 DEF UnderWay
<1>. HIDE DEF g
<1>7. Typed'
  <2>1. TypeOK'
    BY <1>0, <1>1, <1>5 DEF TypeOK
  <2>2. Entries'
    <3>1. \A w \in Visit, q \in Resource : load'[w][q].got # Nothing => Numbered(load'[w][q].got.has)
      BY <1>0, <1>4, <1>5 DEF Entries
    <3>. QED BY <1>0, <1>1, <3>1 DEF Entries, Numbered, Busy
  <2>3. Scheduled'
    BY <1>0, <1>1 DEF Scheduled, Busy
  <2>. QED BY <1>0, <1>1, <2>1, <2>2, <2>3 DEF Typed
<1>8. Contents'
  <2>1. cookie # None => g.asked = l.token /\ Own(g)
    BY <1>0, <1>2 DEF g, Own, SameAccount, Identities
  <2>2. LoadsOwn'
    <3>0. \A c : Own(c) => Own(c)'
      BY <1>1 DEF Own, Identities
    <3>1. ASSUME NEW w \in Visit, NEW q \in Resource, load'[w][q].st # "no"
          PROVE  /\ w <= visit /\ load'[w][q].token \in Identities
                 /\ load'[w][q].by \in Visit /\ load'[load'[w][q].by][q].st # "no"
                 /\ load'[load'[w][q].by][q].by = load'[w][q].by
                 /\ load'[load'[w][q].by][q].token = load'[w][q].token
                 /\ load'[w][q].st # "sent" => load'[w][q].by = w
                 /\ load'[w][q].st = "handled" =>
                       /\ load'[w][q].got # Nothing /\ load'[w][q].got.asked = load'[w][q].token
                       /\ Own(load'[w][q].got)
      <4>1. /\ w <= visit /\ load'[w][q].token \in Identities
            /\ load'[w][q].by \in Visit /\ load'[load'[w][q].by][q].st # "no"
            /\ load'[load'[w][q].by][q].by = load'[w][q].by
            /\ load'[load'[w][q].by][q].token = load'[w][q].token
        BY <1>0, <1>6, <3>1 DEF LoadsOwn, UnderWay
      <4>2. CASE w = v /\ q = r
        BY <1>4, <1>5, <2>1, <4>1, <4>2
      <4>3. CASE w # v \/ q # r
        <5>1. load'[w][q] = load[w][q] /\ UnderWay(w, q)
          BY <1>5, <3>1, <4>3 DEF UnderWay
        <5>2. /\ load[w][q].st # "sent" => load[w][q].by = w
              /\ load[w][q].st = "handled" =>
                    load[w][q].got # Nothing /\ load[w][q].got.asked = load[w][q].token /\ Own(load[w][q].got)
          BY <1>0, <5>1 DEF LoadsOwn
        <5>. QED BY <4>1, <5>1, <5>2
      <4>. QED BY <4>1, <4>2, <4>3
    <3>. QED BY <1>1, <3>0, <3>1 DEF LoadsOwn, UnderWay, Identities
  <2>3. CachesOwn'
    <3>1. \A q \in Resource : cache[q].inflight # 0 => cache[q].inflight \in Visit
      BY <1>0, TypeFacts DEF TypeOK, Cache, Visit
    <3>. QED BY <1>0, <1>1, <1>6, <3>1 DEF CachesOwn, UnderWay, Own, Identities
  <2>4. PageOwn'
    <3>1. up => visit \in Visit
      BY <1>0, TypeFacts DEF PageOwn, TypeOK, Visit
    <3>. QED BY <1>0, <1>1, <1>6, <3>1 DEF PageOwn, UnderWay, Own, Identities
  <2>5. ActsOwn' /\ SameAccount'
    BY <1>0, <1>1 DEF ActsOwn, SameAccount, Busy, Mounted, Own, Identities
  <2>. QED BY <2>2, <2>3, <2>4, <2>5 DEF Contents
<1>9. Endings'
  BY <1>0, <1>1 DEF Endings, Behind, Leaving, Busy
<1>10. Fresh'
  <2>. SUFFICES ASSUME Undisturbed'
                PROVE  (AllMounted /\ OneRequest /\ UpTo /\ OneEdit /\ NewEntries)'
    BY DEF Fresh
  <2>1. AllMounted /\ OneRequest /\ UpTo /\ OneEdit /\ NewEntries /\ ~foreign
    BY <1>0, <1>1 DEF Fresh, Undisturbed
  <2>2. AllMounted' /\ OneEdit' /\ NewEntries'
    BY <1>1, <2>1 DEF AllMounted, OneEdit, NewEntries, Busy, Mounted
  <2>3. OneRequest'
    BY <1>1, <1>6, <2>1 DEF OneRequest, UnderWay
  <2>4. UpTo'
    <3>1. ASSUME token # 0, NEW w \in Visit, NEW q \in Resource,
                 load'[w][q].st = "handled", load'[w][q].token = token
          PROVE  load'[w][q].got.has = srv[owner[token]][q]
      <4>1. CASE w = v /\ q = r
        BY <1>0, <1>5, <2>1, <3>1, <4>1 DEF g, SameAccount
      <4>2. CASE w # v \/ q # r
        BY <1>5, <2>1, <3>1, <4>2 DEF UpTo
      <4>. QED BY <4>1, <4>2
    <3>. QED BY <1>1, <2>1, <3>1 DEF UpTo, Matches, Removed, Added, Handled
  <2>. QED BY <2>2, <2>3, <2>4
<1>. QED BY <1>7, <1>8, <1>9, <1>10 DEF IndInv

-----------------------------------------------------------------------------
(* The answer of a load arrives *)

LEMMA LoadAnsweredIndInv ==
    ASSUME IndInv, NEW v \in Visit, NEW r \in Resource, LoadAnswered(v, r)
    PROVE  IndInv'
<1>. DEFINE l == load[v][r]
            Here == up /\ UnderWay(visit, r) /\ load[visit][r].by = v
<1>0. /\ TypeOK /\ act \in [Slot -> Act \cup {NoOp}] /\ Entries /\ Scheduled
      /\ LoadsOwn /\ CachesOwn /\ PageOwn /\ ActsOwn /\ SameAccount /\ Endings /\ Fresh
  BY DEF IndInv, Typed, Contents
<1>1. UNCHANGED <<srv, cookie, owner, token, browser, visit, up, section, act, timers,
                  ops, turns, fails, ended, left, crossed, foreign>>
  BY DEF LoadAnswered, counters, history, sessionVars
<1>2. /\ l.st = "handled" /\ UnderWay(v, r) /\ l.by = v /\ l.token \in Identities /\ l \in Load
      /\ l.got \in Shown /\ l.got # Nothing /\ l.got.asked = l.token /\ Own(l.got) /\ Numbered(l.got.has)
  <2>1. l.st = "handled" /\ UnderWay(v, r) /\ l \in Load
    BY <1>0 DEF LoadAnswered, UnderWay, TypeOK
  <2>2. l.got \in Shown
    BY <2>1 DEF Load
  <2>. QED BY <1>0, <2>1, <2>2 DEF LoadsOwn, Entries
<1>3. /\ load' \in [Visit -> [Resource -> Load]]
      /\ \A w \in Visit, q \in Resource :
             load'[w][q] = IF q = r /\ UnderWay(w, r) /\ load[w][r].by = v THEN NoLoad ELSE load[w][q]
  BY <1>0, EndedIs DEF LoadAnswered
<1>4. /\ cache' \in [Resource -> Cache]
      /\ \A q \in Resource : q # r => cache'[q] = cache[q]
      /\ cache'[r] = [value |-> l.got, inflight |-> 0, token |-> l.token]
  <2>1. cache' = [cache EXCEPT ![r] = StoreAnswer(cache[r], l.token, l.got)]
    BY DEF LoadAnswered
  <2>2. cache[r] \in Cache
    BY <1>0 DEF TypeOK
  <2>3. StoreAnswer(cache[r], l.token, l.got) = [value |-> l.got, inflight |-> 0, token |-> l.token]
    BY <1>2, <2>2, StoreAnswerIs
  <2>4. [value |-> l.got, inflight |-> 0, token |-> l.token] \in Cache
    BY <1>2, Zeros DEF Cache, Load
  <2>. QED BY <1>0, <2>1, <2>3, <2>4 DEF TypeOK
<1>5. visit \in Visit \/ ~up
  BY <1>0, TypeFacts DEF PageOwn, TypeOK, Visit
<1>6. /\ Here => load[visit][r].token = l.token /\ l.token = token
      /\ shown' = IF Here THEN [shown EXCEPT ![r] = l.got] ELSE shown
  <2>1. Here <=> up /\ visit \in Waiting(v, r)
    BY <1>5 DEF Waiting, UnderWay
  <2>2. Here => load[visit][r].token = l.token
    BY <1>0, <1>5 DEF LoadsOwn
  <2>3. Here => load[visit][r].token = token
    BY <1>0 DEF PageOwn
  <2>. QED BY <2>1, <2>2, <2>3 DEF LoadAnswered
<1>7. \A q \in Resource : shown'[q] = IF Here /\ q = r THEN l.got ELSE shown[q]
  BY <1>0, <1>6 DEF TypeOK
<1>8. \A w \in Visit, q \in Resource :
          load'[w][q].st # "no" => load'[w][q] = load[w][q] /\ UnderWay(w, q) /\ (q = r => load[w][q].by # v)
  BY <1>3 DEF NoLoad, UnderWay
<1>9. Typed'
  <2>1. TypeOK'
    <3>1. shown' \in [Resource -> Shown]
      BY <1>0, <1>2, <1>6 DEF TypeOK
    <3>. QED BY <1>0, <1>1, <1>3, <1>4, <3>1 DEF TypeOK
  <2>2. Entries'
    <3>1. \A w \in Visit, q \in Resource : load'[w][q].got # Nothing => Numbered(load'[w][q].got.has)
      BY <1>0, <1>3 DEF Entries, NoLoad
    <3>2. \A q \in Resource : /\ shown'[q] # Nothing => Numbered(shown'[q].has)
                              /\ cache'[q].value # Nothing => Numbered(cache'[q].value.has)
      BY <1>0, <1>2, <1>4, <1>7 DEF Entries
    <3>. QED BY <1>0, <1>1, <3>1, <3>2 DEF Entries, Numbered, Busy
  <2>3. Scheduled'
    BY <1>0, <1>1 DEF Scheduled, Busy
  <2>. QED BY <1>0, <1>1, <2>1, <2>2, <2>3 DEF Typed
<1>10. Contents'
  <2>1. LoadsOwn'
    <3>0. \A c : Own(c) => Own(c)'
      BY <1>1 DEF Own, Identities
    <3>1. ASSUME NEW w \in Visit, NEW q \in Resource, load'[w][q].st # "no"
          PROVE  /\ w <= visit /\ load'[w][q].token \in Identities
                 /\ load'[w][q].by \in Visit /\ load'[load'[w][q].by][q].st # "no"
                 /\ load'[load'[w][q].by][q].by = load'[w][q].by
                 /\ load'[load'[w][q].by][q].token = load'[w][q].token
                 /\ load'[w][q].st # "sent" => load'[w][q].by = w
                 /\ load'[w][q].st = "handled" =>
                       /\ load'[w][q].got # Nothing /\ load'[w][q].got.asked = load'[w][q].token
                       /\ Own(load'[w][q].got)
      <4>1. load'[w][q] = load[w][q] /\ UnderWay(w, q) /\ (q = r => load[w][q].by # v)
        BY <1>8, <3>1
      <4>2. /\ w <= visit /\ load[w][q].token \in Identities
            /\ load[w][q].by \in Visit /\ UnderWay(load[w][q].by, q)
            /\ load[load[w][q].by][q].by = load[w][q].by
            /\ load[load[w][q].by][q].token = load[w][q].token
            /\ load[w][q].st # "sent" => load[w][q].by = w
            /\ load[w][q].st = "handled" =>
                  load[w][q].got # Nothing /\ load[w][q].got.asked = load[w][q].token /\ Own(load[w][q].got)
        BY <1>0, <4>1 DEF LoadsOwn
      <4>3. load'[load[w][q].by][q] = load[load[w][q].by][q]
        BY <1>3, <4>1, <4>2
      <4>. QED BY <4>1, <4>2, <4>3 DEF UnderWay
    <3>. QED BY <1>1, <3>0, <3>1 DEF LoadsOwn, UnderWay, Identities
  <2>2. CachesOwn'
    <3>1. \A q \in Resource : cache[q].inflight # 0 => cache[q].inflight \in Visit
      BY <1>0, TypeFacts DEF TypeOK, Cache, Visit
    <3>2. ASSUME NEW q \in Resource
          PROVE  /\ cache'[q].token <= Len(owner)
                 /\ cache'[q].value # Nothing => cache'[q].value.asked = cache'[q].token /\ Own(cache'[q].value)
                 /\ cache'[q].inflight # 0 =>
                       /\ load'[cache'[q].inflight][q].st # "no"
                       /\ load'[cache'[q].inflight][q].by = cache'[q].inflight
                       /\ load'[cache'[q].inflight][q].token = cache'[q].token
      <4>1. CASE q = r
        <5>1. l.token <= Len(owner)
          BY <1>2 DEF Identities
        <5>. QED BY <1>2, <1>4, <4>1, <5>1
      <4>2. CASE q # r
        BY <1>0, <1>3, <1>4, <3>1, <4>2 DEF CachesOwn, UnderWay
      <4>. QED BY <4>1, <4>2
    <3>. QED BY <1>1, <3>2 DEF CachesOwn, UnderWay, Own, Identities
  <2>3. PageOwn'
    <3>1. ASSUME up, NEW q \in Resource
          PROVE  /\ shown'[q] # Nothing => shown'[q].asked = token /\ Own(shown'[q])
                 /\ load'[visit][q].st # "no" => load'[visit][q].token = token
      <4>1. shown'[q] # Nothing => shown'[q].asked = token /\ Own(shown'[q])
        BY <1>0, <1>2, <1>6, <1>7, <3>1 DEF PageOwn
      <4>2. load'[visit][q].st # "no" => load'[visit][q].token = token
        BY <1>0, <1>5, <1>8, <3>1 DEF PageOwn
      <4>. QED BY <4>1, <4>2
    <3>. QED BY <1>0, <1>1, <3>1 DEF PageOwn, UnderWay, Own, Identities
  <2>4. ActsOwn'
    <3>1. \A q \in Resource : shown[q] # Nothing => shown'[q] # Nothing
      BY <1>2, <1>7
    <3>2. \A s \in Slot : Busy(s) => act[s].op.on \in Resource
      BY <1>0, OpFacts DEF Act, Busy, NoOp
    <3>. QED BY <1>0, <1>1, <3>1, <3>2 DEF ActsOwn, Busy, Mounted, Own, Identities
  <2>5. SameAccount'
    BY <1>0, <1>1 DEF SameAccount
  <2>. QED BY <2>1, <2>2, <2>3, <2>4, <2>5 DEF Contents
<1>11. Endings'
  BY <1>0, <1>1 DEF Endings, Behind, Leaving, Busy
<1>12. Fresh'
  <2>. SUFFICES ASSUME Undisturbed'
                PROVE  (AllMounted /\ OneRequest /\ UpTo /\ OneEdit /\ NewEntries)'
    BY DEF Fresh
  <2>1. AllMounted /\ OneRequest /\ UpTo /\ OneEdit /\ NewEntries /\ ~foreign
    BY <1>0, <1>1 DEF Fresh, Undisturbed
  \* What is about to be stored for the identity of the tab is news: nothing is displayed yet.
  <2>2. l.token = token => /\ ~(up /\ shown[r] # Nothing)
                           /\ \A s \in Slot : Busy(s) => act[s].op.on # r
    BY <1>0, <1>2, <2>1 DEF OneRequest, AllMounted, ActsOwn, Mounted
  <2>3. AllMounted' /\ OneEdit'
    BY <1>1, <2>1 DEF AllMounted, OneEdit, Busy, Mounted
  <2>4. NewEntries'
    <3>1. \A s \in Slot : Busy(s) => act[s].op.on \in Resource /\ shown'[act[s].op.on] = shown[act[s].op.on]
      BY <1>0, <1>6, <1>7, <2>2, OpFacts DEF Act, Busy, NoOp
    <3>. QED BY <1>1, <2>1, <3>1 DEF NewEntries, Busy
  <2>5. OneRequest'
    <3>1. ASSUME NEW q \in Resource, NEW w \in Visit, load'[w][q].st # "no"
          PROVE  /\ \A x \in Visit : load'[x][q].st # "no" /\ load'[x][q].token = load'[w][q].token
                                        => load'[x][q].by = load'[w][q].by
                 /\ cache'[q].value # Nothing => load'[w][q].token # cache'[q].token
                 /\ up /\ shown'[q] # Nothing => load'[w][q].token # token
      <4>1. \A x \in Visit : load'[x][q].st # "no" /\ load'[x][q].token = load'[w][q].token
                                => load'[x][q].by = load'[w][q].by
        BY <1>8, <2>1, <3>1 DEF OneRequest
      <4>2. q = r => load'[w][q].token # l.token
        BY <1>2, <1>8, <2>1, <3>1 DEF OneRequest
      <4>3. CASE q = r
        BY <1>4, <1>6, <1>7, <1>8, <2>1, <3>1, <4>1, <4>2, <4>3 DEF OneRequest
      <4>4. CASE q # r
        BY <1>4, <1>7, <1>8, <2>1, <3>1, <4>1, <4>4 DEF OneRequest
      <4>. QED BY <4>3, <4>4
    <3>. QED BY <1>1, <3>1 DEF OneRequest, UnderWay
  <2>6. UpTo'
    <3>. SUFFICES ASSUME token # 0 PROVE UpTo'
      BY <1>1 DEF UpTo
    <3>1. l.token = token => Matches(l.got.has, r)
      <4>. SUFFICES ASSUME l.token = token PROVE Matches(l.got.has, r)
        OBVIOUS
      <4>1. l.got.has = srv[owner[token]][r]
        BY <1>2, <2>1 DEF UpTo
      <4>2. \A x : ~Removed(x, r) /\ ~Added(x, r)
        BY <2>2 DEF Removed, Added, Handled, Busy
      <4>. QED BY <4>1, <4>2 DEF Matches
    <3>2. ASSUME NEW q \in Resource
          PROVE  /\ up /\ shown'[q] # Nothing => Matches(shown'[q].has, q)
                 /\ cache'[q].value # Nothing /\ cache'[q].token = token => Matches(cache'[q].value.has, q)
                 /\ \A w \in Visit : load'[w][q].st = "handled" /\ load'[w][q].token = token
                                        => load'[w][q].got.has = srv[owner[token]][q]
      BY <1>4, <1>6, <1>7, <1>8, <2>1, <3>1 DEF UpTo
    <3>. QED BY <1>1, <3>2 DEF UpTo, Matches, Removed, Added, Handled
  <2>. QED BY <2>3, <2>4, <2>5, <2>6
<1>. QED BY <1>9, <1>10, <1>11, <1>12 DEF IndInv

-----------------------------------------------------------------------------
(* An operation is sent, handled and answered *)

\* What is known of an operation under way.
LEMMA ActFacts ==
    ASSUME act \in [Slot -> Act \cup {NoOp}], NEW s \in Slot
    PROVE  /\ Busy(s) <=> act[s].pc \in {"sent", "handled"}
           /\ Busy(s) => /\ act[s] \in Act /\ act[s].op \in Operation /\ act[s].op.on \in Resource
                         /\ act[s].op.does \in {"edit", "remove", "none"}
                         /\ act[s].xs \subseteq Entry /\ act[s].got \in Shown /\ act[s].token \in Identity
                         /\ act[s].op.ends \in BOOLEAN
           /\ ~Busy(s) => act[s] = NoOp
BY OpFacts DEF Act, NoOp, Busy

\* Only the slots that are busy matter to what the server has done.
LEMMA OperateIndInv ==
    ASSUME IndInv, NEW s \in Slot, NEW op \in Operation, Operate(s, op)
    PROVE  IndInv'
<1>0. /\ TypeOK /\ act \in [Slot -> Act \cup {NoOp}] /\ Entries /\ Scheduled
      /\ LoadsOwn /\ CachesOwn /\ PageOwn /\ ActsOwn /\ SameAccount /\ Behind /\ Leaving /\ Fresh
  BY DEF IndInv, Typed, Contents, Endings
<1>1. /\ UNCHANGED <<srv, cookie, owner, token, browser, visit, up, section, shown, cache, load, timers,
                     turns, fails, ended, left, foreign>>
      /\ ops' = ops + 1 /\ ops' \in 1..MaxOps /\ ops \in Nat
  BY <1>0, TypeFacts DEF Operate, pageVars, sessionVars
<1>2. up /\ shown[op.on] # Nothing /\ ~Busy(s) /\ op.on \in Resource
  BY OpFacts DEF Operate, Offered, Busy
<1>3. PICK xs \in Operands(op) :
          act' = [act EXCEPT ![s] = [pc |-> "sent", op |-> op, xs |-> xs, of |-> shown[op.on].of,
                                    token |-> token, visit |-> visit, got |-> Nothing]]
  BY DEF Operate
<1>. DEFINE a == [pc |-> "sent", op |-> op, xs |-> xs, of |-> shown[op.on].of,
                  token |-> token, visit |-> visit, got |-> Nothing]
<1>4. /\ shown[op.on] \in Content /\ shown[op.on].of \in Account /\ shown[op.on].has \subseteq Entry
      /\ Numbered(shown[op.on].has)
  <2>1. shown[op.on] \in Shown
    BY <1>0, <1>2 DEF TypeOK
  <2>. QED BY <1>0, <1>2, <2>1, NothingFacts DEF Entries
<1>5. /\ op.does = "remove" => xs \subseteq shown[op.on].has
      /\ op.does # "remove" => xs = {ops'}
      /\ xs \subseteq Entry /\ xs \subseteq Item \cup 1..ops'
  <2>1. CASE op.does = "remove"
    <3>1. xs \subseteq shown[op.on].has
      BY <2>1 DEF Operands
    <3>. QED BY <1>1, <1>4, <2>1, <3>1 DEF Numbered
  <2>2. CASE op.does # "remove"
    BY <1>1, <2>2 DEF Operands, Entry
  <2>. QED BY <2>1, <2>2
<1>6. /\ token \in Identity /\ token \in Identities /\ visit \in Visit /\ visit \in 1..visit
  BY <1>0, <1>2, TypeFacts DEF PageOwn, Visit, TypeOK, Identities
<1>7. a \in Act
  <2>1. Nothing \in Shown
    BY DEF Shown
  <2>. QED BY <1>4, <1>5, <1>6, <2>1 DEF Act
<1>8. /\ act' \in [Slot -> Act \cup {NoOp}]
      /\ \A t \in Slot : t # s => act'[t] = act[t]
      /\ act'[s].pc = "sent" /\ act'[s].op = op /\ act'[s].xs = xs /\ act'[s].token = token
      /\ act'[s].visit = visit /\ act'[s].got = Nothing
  <2>1. act'[s] = a /\ act' \in [Slot -> Act \cup {NoOp}] /\ \A t \in Slot : t # s => act'[t] = act[t]
    BY <1>0, <1>3, <1>7
  <2>. QED BY <2>1
<1>9. crossed' \in BOOLEAN /\ (crossed => crossed')
      /\ (op.on = "overview" /\ op.does = "edit" /\ ~crossed' =>
             \A t \in Slot : Busy(t) => act[t].op.on # "overview")
  BY <1>0 DEF Operate, Overview, TypeOK, Busy
<1>10. Typed'
  <2>1. TypeOK'
    <3>1. \A t \in Slot : act'[t].pc # "idle" => act'[t].visit \in 1..visit /\ act'[t].token \in 1..Len(owner)
      BY <1>0, <1>6, <1>8 DEF TypeOK, Identities
    <3>2. timers \in 0..ops' /\ ops' \in 0..MaxOps
      BY <1>0, <1>1, TypeFacts DEF TypeOK
    <3>. QED BY <1>0, <1>1, <1>9, <3>1, <3>2 DEF TypeOK
  <2>2. Entries'
    <3>1. \A S : S \subseteq Item \cup 1..ops => S \subseteq Item \cup 1..ops'
      BY <1>1
    <3>2. ASSUME NEW t \in Slot, act'[t].pc # "idle"
          PROVE  /\ act'[t].xs \subseteq Item \cup 1..ops'
                 /\ act'[t].got # Nothing => act'[t].got.has \subseteq Item \cup 1..ops'
      BY <1>0, <1>5, <1>8, <3>1, <3>2 DEF Entries, Busy, Numbered
    <3>. QED BY <1>0, <1>1, <3>1, <3>2 DEF Entries, Numbered, Busy
  <2>3. Scheduled'
    <3>. DEFINE S == {t \in Slot : Busy(t)}
                T == {t \in Slot : act'[t].pc # "idle"}
    <3>1. T = S \cup {s} /\ s \notin S
      BY <1>2, <1>8 DEF Busy
    <3>2. IsFiniteSet(S) /\ timers + Cardinality(S) <= ops
      BY <1>0 DEF Scheduled
    <3>. HIDE DEF S
    <3>3. IsFiniteSet(T) /\ Cardinality(T) = Cardinality(S) + 1 /\ Cardinality(S) \in Nat
      BY <3>1, <3>2, FS_AddElement, FS_CardinalityType
    <3>. HIDE DEF T
    <3>4. timers \in Nat /\ ops \in Nat
      BY <1>0, TypeFacts
    <3>5. IsFiniteSet(T) /\ timers' + Cardinality(T) <= ops'
      BY <1>1, <3>2, <3>3, <3>4
    <3>. QED BY <3>5 DEF T, Scheduled, Busy
  <2>. QED BY <1>8, <2>1, <2>2, <2>3 DEF Typed
<1>11. Contents'
  <2>1. LoadsOwn' /\ CachesOwn' /\ PageOwn' /\ SameAccount'
    <3>1. \A c : Own(c) => Own(c)'
      BY <1>1 DEF Own, Identities
    <3>2. LoadsOwn'
      BY <1>0, <1>1, <3>1 DEF LoadsOwn, UnderWay, Identities
    <3>3. CachesOwn' /\ PageOwn' /\ SameAccount'
      BY <1>0, <1>1, <3>1 DEF CachesOwn, PageOwn, SameAccount, UnderWay
    <3>. QED BY <3>2, <3>3
  <2>2. ActsOwn'
    <3>1. ASSUME NEW t \in Slot, act'[t].pc # "idle"
          PROVE  /\ act'[t].token \in Identities /\ act'[t].visit \in 1..visit
                 /\ up /\ visit = act'[t].visit => act'[t].token = token /\ shown[act'[t].op.on] # Nothing
                 /\ act'[t].pc = "handled" =>
                       act'[t].got # Nothing /\ act'[t].got.asked = act'[t].token /\ Own(act'[t].got)
      <4>1. CASE t = s
        BY <1>2, <1>6, <1>8, <4>1
      <4>2. CASE t # s
        BY <1>0, <1>8, <3>1, <4>2 DEF ActsOwn, Busy, Mounted
      <4>. QED BY <4>1, <4>2
    <3>. QED BY <1>1, <3>1 DEF ActsOwn, Busy, Mounted, Own, Identities
  <2>. QED BY <2>1, <2>2 DEF Contents
<1>12. Endings'
  <2>1. Behind'
    <3>1. ASSUME browser # 0, browser # token, NEW t \in Slot, act'[t].pc # "idle"
          PROVE  act'[t].token < browser
      BY <1>0, <1>8, <3>1, TypeFacts DEF Behind, Busy
    <3>. QED BY <1>0, <1>1, <3>1 DEF Behind, Busy
  <2>2. Leaving'
    BY <1>0, <1>1, <1>2, <1>8 DEF Leaving, Busy
  <2>. QED BY <2>1, <2>2 DEF Endings
<1>13. Fresh'
  <2>. SUFFICES ASSUME Undisturbed'
                PROVE  (AllMounted /\ OneRequest /\ UpTo /\ OneEdit /\ NewEntries)'
    BY DEF Fresh
  <2>1. AllMounted /\ OneRequest /\ UpTo /\ OneEdit /\ NewEntries /\ ~crossed'
    BY <1>0, <1>1, <1>9 DEF Fresh, Undisturbed
  <2>2. AllMounted'
    BY <1>1, <1>2, <1>8, <2>1 DEF AllMounted, Busy, Mounted
  <2>3. OneRequest'
    BY <1>1, <2>1 DEF OneRequest, UnderWay
  <2>4. UpTo'
    <3>1. \A t \in Slot : act'[t].pc = "handled" <=> act[t].pc = "handled"
      BY <1>2, <1>8 DEF Busy
    <3>2. \A t \in Slot : act[t].pc = "handled" => act'[t] = act[t]
      BY <1>2, <1>8, <3>1 DEF Busy
    <3>3. \A x, r : (Removed(x, r)' <=> Removed(x, r)) /\ (Added(x, r)' <=> Added(x, r))
      BY <3>1, <3>2 DEF Removed, Added, Handled
    <3>. QED BY <1>1, <2>1, <3>3 DEF UpTo, Matches
  <2>5. OneEdit'
    BY <1>1, <1>2, <1>8, <1>9, <2>1 DEF OneEdit, Busy
  <2>6. NewEntries'
    <3>1. ASSUME NEW t \in Slot, act'[t].pc # "idle", act'[t].op.does = "edit", NEW x \in act'[t].xs
          PROVE  /\ x \notin shown[act'[t].op.on].has
                 /\ \A u \in Slot : act'[u].pc # "idle" /\ u # t /\ act'[u].op.on = act'[t].op.on
                                       => x \notin act'[u].xs
      <4>1. CASE t = s
        <5>1. x = ops + 1 /\ x \notin Item \cup 1..ops /\ op.does = "edit"
          BY <1>1, <1>5, <1>8, <3>1, <4>1, ItemAssumption
        <5>2. x \notin shown[op.on].has
          BY <1>4, <5>1 DEF Numbered
        <5>3. \A u \in Slot : Busy(u) => x \notin act[u].xs
          BY <1>0, <5>1 DEF Entries, Numbered
        <5>. QED BY <1>8, <4>1, <5>1, <5>2, <5>3 DEF Busy
      <4>2. CASE t # s
        <5>1. act'[t] = act[t] /\ Busy(t)
          BY <1>8, <3>1, <4>2 DEF Busy
        <5>2. x \notin shown[act[t].op.on].has
          BY <2>1, <3>1, <5>1 DEF NewEntries
        <5>3. ASSUME NEW u \in Slot, act'[u].pc # "idle", u # t, act'[u].op.on = act[t].op.on
              PROVE  x \notin act'[u].xs
          <6>1. CASE u = s
            <7>1. CASE op.does = "remove"
              BY <1>5, <1>8, <5>2, <5>3, <6>1, <7>1
            <7>2. CASE op.does # "remove"
              <8>1. x \in Item \cup 1..ops /\ ops + 1 \notin Item
                BY <1>0, <1>1, <3>1, <5>1, ItemAssumption DEF Entries, Numbered
              <8>. QED BY <1>1, <1>5, <1>8, <6>1, <7>2, <8>1
            <7>. QED BY <7>1, <7>2
          <6>2. CASE u # s
            BY <1>8, <2>1, <3>1, <5>1, <5>3, <6>2 DEF NewEntries, Busy
          <6>. QED BY <6>1, <6>2
        <5>. QED BY <5>1, <5>2, <5>3
      <4>. QED BY <4>1, <4>2
    <3>. QED BY <1>1, <3>1 DEF NewEntries, Busy
  <2>. QED BY <2>2, <2>3, <2>4, <2>5, <2>6
<1>. QED BY <1>10, <1>11, <1>12, <1>13 DEF IndInv

LEMMA HandleIndInv ==
    ASSUME IndInv, NEW s \in Slot, Handle(s)
    PROVE  IndInv'
<1>. DEFINE a == act[s]
<1>0. /\ TypeOK /\ act \in [Slot -> Act \cup {NoOp}] /\ Entries /\ Scheduled
      /\ LoadsOwn /\ CachesOwn /\ PageOwn /\ ActsOwn /\ SameAccount /\ Behind /\ Leaving /\ Fresh
  BY DEF IndInv, Typed, Contents, Endings
<1>1. UNCHANGED <<owner, token, browser, visit, up, section, shown, cache, load, timers,
                  ops, turns, fails, left, crossed, foreign>>
  BY DEF Handle, pageVars, counters
<1>2. /\ a.pc = "sent" /\ Busy(s) /\ a \in Act /\ a.op.on \in Resource /\ a.xs \subseteq Entry
      /\ a.op.does \in {"edit", "remove", "none"} /\ Numbered(a.xs)
      /\ a.token \in Identity /\ a.token \in Identities
      /\ cookie # None /\ cookie \in Account
  <2>1. a.pc = "sent" /\ Busy(s) /\ cookie # None
    BY DEF Handle, Busy, Accepted
  <2>. QED BY <1>0, <2>1, ActFacts DEF Entries, ActsOwn, TypeOK
<1>. DEFINE on == a.op.on
            S == srv[cookie][on]
            N == Change(S, a)
            g == [of |-> cookie, has |-> N, asked |-> a.token]
<1>3. /\ srv' = [srv EXCEPT ![cookie][on] = N]
      /\ act' = [act EXCEPT ![s].pc = "handled",
                            ![s].got = [of |-> cookie, has |-> srv'[cookie][on], asked |-> a.token]]
      /\ cookie' = (IF a.op.ends THEN None ELSE cookie)
      /\ ended' = (IF a.op.ends THEN ended \cup {a.token} ELSE ended)
  BY DEF Handle
<1>4. /\ S \subseteq Entry /\ N \subseteq Entry /\ Numbered(N)
      /\ a.op.does = "edit" => N = S \cup a.xs
      /\ a.op.does = "remove" => N = S \ a.xs
      /\ a.op.does = "none" => N = S
  <2>1. S \subseteq Entry /\ Numbered(S)
    BY <1>0, <1>2 DEF TypeOK, Entries
  <2>. QED BY <1>2, <2>1 DEF Change, Numbered
<1>. HIDE DEF N
<1>5. /\ srv' \in [Account -> [Resource -> SUBSET Entry]] /\ srv'[cookie][on] = N
      /\ \A u \in Account, r \in Resource : u # cookie \/ r # on => srv'[u][r] = srv[u][r]
  BY <1>0, <1>2, <1>3, <1>4 DEF TypeOK
<1>6. g \in Shown /\ g # Nothing /\ g.of = cookie /\ g.has = N /\ g.asked = a.token
  <2>1. g \in Content
    BY <1>2, <1>4 DEF Content
  <2>. QED BY <2>1, NothingFacts DEF Shown
<1>7. /\ act' \in [Slot -> Act \cup {NoOp}]
      /\ \A t \in Slot : t # s => act'[t] = act[t]
      /\ act'[s].pc = "handled" /\ act'[s].op = a.op /\ act'[s].xs = a.xs /\ act'[s].of = a.of
      /\ act'[s].token = a.token /\ act'[s].visit = a.visit /\ act'[s].got = g
  <2>. HIDE DEF g
  <2>1. act' = [act EXCEPT ![s].pc = "handled", ![s].got = g]
    BY <1>3, <1>5 DEF g
  <2>2. act'[s] = [a EXCEPT !.pc = "handled", !.got = g]
    BY <1>0, <2>1
  <2>3. act'[s] \in Act
    BY <1>2, <1>6, <2>2 DEF Act
  <2>4. /\ act'[s].pc = "handled" /\ act'[s].op = a.op /\ act'[s].xs = a.xs /\ act'[s].of = a.of
        /\ act'[s].token = a.token /\ act'[s].visit = a.visit /\ act'[s].got = g
    BY <1>2, <2>2 DEF Act
  <2>. QED BY <1>0, <2>1, <2>3, <2>4
<1>8. \A t \in Slot : /\ act'[t].pc # "idle" <=> Busy(t)
                      /\ Busy(t) => /\ act'[t].op = act[t].op /\ act'[t].xs = act[t].xs
                                    /\ act'[t].token = act[t].token /\ act'[t].visit = act[t].visit
                      /\ t # s => act'[t] = act[t]
  BY <1>2, <1>7 DEF Busy
<1>. HIDE DEF g
<1>9. Typed'
  <2>1. TypeOK'
    <3>1. cookie' \in Account \cup {None} /\ ended' \subseteq 1..Len(owner)
      BY <1>0, <1>2, <1>3 DEF TypeOK, Identities
    <3>2. \A t \in Slot : act'[t].pc # "idle" => act'[t].visit \in 1..visit /\ act'[t].token \in 1..Len(owner)
      BY <1>0, <1>8 DEF TypeOK, Busy
    <3>. QED BY <1>0, <1>1, <1>5, <3>1, <3>2 DEF TypeOK
  <2>2. Entries'
    <3>1. \A u \in Account, r \in Resource : Numbered(srv'[u][r])
      BY <1>0, <1>4, <1>5 DEF Entries
    <3>2. \A t \in Slot : act'[t].pc # "idle" =>
             Numbered(act'[t].xs) /\ (act'[t].got # Nothing => Numbered(act'[t].got.has))
      BY <1>0, <1>2, <1>4, <1>6, <1>7, <1>8 DEF Entries
    <3>. QED BY <1>0, <1>1, <3>1, <3>2 DEF Entries, Numbered, Busy
  <2>3. Scheduled'
    <3>1. {t \in Slot : act'[t].pc # "idle"} = {t \in Slot : Busy(t)}
      BY <1>8
    <3>. QED BY <1>0, <1>1, <3>1 DEF Scheduled, Busy
  <2>. QED BY <1>7, <2>1, <2>2, <2>3 DEF Typed
<1>10. Contents'
  <2>1. LoadsOwn' /\ CachesOwn' /\ PageOwn'
    <3>1. \A c : Own(c) => Own(c)'
      BY <1>1 DEF Own, Identities
    <3>2. LoadsOwn'
      BY <1>0, <1>1, <3>1 DEF LoadsOwn, UnderWay, Identities
    <3>3. CachesOwn' /\ PageOwn'
      BY <1>0, <1>1, <3>1 DEF CachesOwn, PageOwn, UnderWay
    <3>. QED BY <3>2, <3>3
  <2>2. SameAccount'
    BY <1>0, <1>1, <1>3 DEF SameAccount
  <2>3. Own(g)
    <3>1. a.token # 0
      BY <1>2 DEF Identities
    <3>2. a.token = token /\ ~foreign => cookie = owner[token]
      BY <1>0, <1>2, <3>1 DEF SameAccount
    <3>3. foreign \in BOOLEAN
      BY <1>0 DEF TypeOK
    <3>. QED BY <1>2, <1>6, <3>2, <3>3 DEF Own
  <2>4. ActsOwn'
    <3>1. ASSUME NEW t \in Slot, act'[t].pc = "handled"
          PROVE  act'[t].got # Nothing /\ act'[t].got.asked = act'[t].token /\ Own(act'[t].got)
      BY <1>0, <1>6, <1>7, <2>3, <3>1 DEF ActsOwn, Busy
    <3>. QED BY <1>0, <1>1, <1>8, <3>1 DEF ActsOwn, Busy, Mounted, Own, Identities
  <2>. QED BY <2>1, <2>2, <2>4 DEF Contents
<1>11. Endings'
  <2>1. Behind'
    BY <1>0, <1>1, <1>2, <1>3, <1>8 DEF Behind, Busy
  <2>2. Leaving'
    <3>1. ASSUME fails = 0, token \in ended', timers = 0
          PROVE  \E t \in Slot : act'[t].pc = "handled" /\ act'[t].op.ends
      <4>1. CASE a.op.ends
        BY <1>7, <4>1
      <4>2. CASE ~a.op.ends
        <5>1. PICK t \in Slot : act[t].pc = "handled" /\ act[t].op.ends
          BY <1>0, <1>3, <3>1, <4>2 DEF Leaving
        <5>. QED BY <1>2, <1>8, <5>1
      <4>. QED BY <4>1, <4>2
    <3>. QED BY <1>0, <1>1, <3>1, TypeFacts DEF Leaving
  <2>. QED BY <2>1, <2>2 DEF Endings
<1>12. Fresh'
  <2>. SUFFICES ASSUME Undisturbed'
                PROVE  (AllMounted /\ OneRequest /\ UpTo /\ OneEdit /\ NewEntries)'
    BY DEF Fresh
  <2>1. AllMounted /\ OneRequest /\ UpTo /\ OneEdit /\ NewEntries /\ ~foreign
    BY <1>0, <1>1 DEF Fresh, Undisturbed
  <2>2. /\ up /\ token # 0 /\ a.token = token /\ cookie = owner[token] /\ shown[on] # Nothing
        /\ \A w \in Visit : UnderWay(w, on) => load[w][on].token # token
    BY <1>0, <1>2, <2>1 DEF AllMounted, ActsOwn, PageOwn, SameAccount, OneRequest, Mounted
  <2>3. AllMounted' /\ NewEntries'
    BY <1>1, <1>8, <2>1 DEF AllMounted, NewEntries, Busy, Mounted
  <2>4. OneRequest'
    BY <1>1, <2>1 DEF OneRequest, UnderWay
  <2>5. OneEdit'
    <3>1. ASSUME NEW t \in Slot, act'[t].pc # "idle", act'[t].op.on = "overview", act'[t].op.does = "edit"
          PROVE  /\ \A u \in Slot : act'[u].pc # "idle" /\ act'[u].op.on = "overview" /\ act'[u].op.does = "edit"
                                       => u = t
                 /\ act'[t].pc = "handled" => act'[t].got.has = srv'[owner[token]]["overview"]
      <4>1. \A u \in Slot : act'[u].pc # "idle" /\ act'[u].op.on = "overview" /\ act'[u].op.does = "edit" => u = t
        BY <1>8, <2>1, <3>1 DEF OneEdit
      <4>2. CASE t = s
        BY <1>5, <1>6, <1>7, <1>8, <2>2, <3>1, <4>1, <4>2
      <4>3. CASE t # s /\ act'[t].pc = "handled"
        <5>1. act[t] = act'[t] /\ act[t].got.has = srv[owner[token]]["overview"]
          BY <1>8, <2>1, <3>1, <4>3 DEF OneEdit
        <5>2. on = "overview" => a.op.does = "none"
          <6>1. on = "overview" => a.op.does # "edit"
            BY <1>2, <1>8, <2>1, <3>1, <4>3 DEF OneEdit
          <6>2. on = "overview" => a.op.does # "remove"
            BY <1>2, OpFacts DEF Act
          <6>. QED BY <1>2, <6>1, <6>2
        <5>3. owner[token] \in Account /\ "overview" \in Resource
          BY <1>2, <2>2 DEF Resource
        <5>4. srv'[owner[token]]["overview"] = srv[owner[token]]["overview"]
          BY <1>4, <1>5, <2>2, <5>2, <5>3
        <5>. QED BY <4>1, <5>1, <5>4
      <4>. QED BY <4>1, <4>2, <4>3
    <3>. QED BY <1>1, <3>1 DEF OneEdit, Busy
  <2>6. UpTo'
    <3>. DEFINE R(x, r) == \E t \in Slot : act'[t].pc = "handled" /\ act'[t].op.on = r /\ act'[t].op.does = "remove"
                                           /\ x \in act'[t].xs
                A(x, r) == \E t \in Slot : act'[t].pc = "handled" /\ act'[t].op.on = r /\ act'[t].op.does = "edit"
                                           /\ x \in act'[t].xs
                M(T, r) == \A x \in Entry : x \in srv'[owner[token]][r] <=> (x \in T /\ ~R(x, r)) \/ A(x, r)
    <3>1. \A x, r : /\ R(x, r) <=> Removed(x, r) \/ (r = on /\ a.op.does = "remove" /\ x \in a.xs)
                    /\ A(x, r) <=> Added(x, r) \/ (r = on /\ a.op.does = "edit" /\ x \in a.xs)
      BY <1>2, <1>7 DEF Removed, Added, Handled
    <3>2. \A x : a.op.does = "remove" /\ x \in a.xs => ~Added(x, on)
      BY <1>2, <2>1 DEF NewEntries, Added, Handled, Busy
    <3>3. ASSUME NEW r \in Resource, NEW T, Matches(T, r)
          PROVE  M(T, r)
      <4>. HIDE DEF R, A
      <4>1. CASE r = on
        BY <1>2, <1>4, <1>5, <2>2, <3>1, <3>2, <3>3, <4>1 DEF Matches
      <4>2. CASE r # on
        BY <1>2, <1>5, <2>2, <3>1, <3>3, <4>2 DEF Matches
      <4>. QED BY <4>1, <4>2
    <3>4. ASSUME NEW r \in Resource
          PROVE  /\ shown[r] # Nothing => M(shown[r].has, r)
                 /\ cache[r].value # Nothing /\ cache[r].token = token => M(cache[r].value.has, r)
                 /\ \A w \in Visit : load[w][r].st = "handled" /\ load[w][r].token = token
                                        => load[w][r].got.has = srv'[owner[token]][r]
      <4>. HIDE DEF M
      <4>1. \A w \in Visit : load[w][r].st = "handled" /\ load[w][r].token = token
                                => r # on /\ load[w][r].got.has = srv[owner[token]][r]
        BY <2>1, <2>2 DEF UpTo, UnderWay
      <4>2. r # on => srv'[owner[token]][r] = srv[owner[token]][r]
        BY <1>2, <1>5, <2>2
      <4>. QED BY <2>1, <2>2, <3>3, <4>1, <4>2 DEF UpTo
    <3>. QED BY <1>1, <3>4 DEF UpTo, Matches, Removed, Added, Handled
  <2>. QED BY <2>3, <2>4, <2>5, <2>6
<1>. QED BY <1>9, <1>10, <1>11, <1>12 DEF IndInv

\* A slot that is free again.
LEMMA FreeAgain ==
    ASSUME TypeOK, act \in [Slot -> Act \cup {NoOp}], Scheduled, NEW s \in Slot, Busy(s),
           act' = [act EXCEPT ![s] = NoOp], timers' \in {timers, timers + 1}, ops' = ops
    PROVE  /\ Scheduled' /\ timers' \in 0..ops
           /\ act' \in [Slot -> Act \cup {NoOp}] /\ act'[s].pc = "idle"
           /\ \A t \in Slot : t # s => act'[t] = act[t]
<1>1. /\ act' \in [Slot -> Act \cup {NoOp}] /\ act'[s].pc = "idle"
      /\ \A t \in Slot : t # s => act'[t] = act[t]
  BY DEF NoOp
<1>. DEFINE S == {t \in Slot : Busy(t)}
            T == {t \in Slot : act'[t].pc # "idle"}
<1>2. T = S \ {s} /\ s \in S
  BY <1>1 DEF Busy
<1>3. IsFiniteSet(S) /\ timers + Cardinality(S) <= ops
  BY DEF Scheduled
<1>. HIDE DEF S
<1>4. IsFiniteSet(T) /\ Cardinality(T) = Cardinality(S) - 1 /\ Cardinality(S) \in Nat /\ Cardinality(T) \in Nat
  BY <1>2, <1>3, FS_RemoveElement, FS_CardinalityType
<1>. HIDE DEF T
<1>5. IsFiniteSet(T) /\ timers' + Cardinality(T) <= ops' /\ timers' \in 0..ops
  <2>1. timers \in Nat /\ ops \in Nat
    BY TypeFacts
  <2>. QED BY <1>3, <1>4, <2>1
<1>. QED BY <1>1, <1>5 DEF T, Scheduled, Busy

\* What an answer stores, in the cache and on the page if it is still there.
Stores(s, c) ==
    /\ c \in Content /\ c.asked = act[s].token /\ Own(c) /\ Numbered(c.has)
    /\ cache' \in [Resource -> Cache]
    /\ \A r \in Resource : r # act[s].op.on => cache'[r] = cache[r]
    /\ cache'[act[s].op.on].value = c /\ cache'[act[s].op.on].token = act[s].token
    /\ cache'[act[s].op.on].inflight # 0 =>
          /\ cache[act[s].op.on].token = act[s].token
          /\ cache'[act[s].op.on].inflight = cache[act[s].op.on].inflight
    /\ shown' = IF Mounted(act[s]) THEN [shown EXCEPT ![act[s].op.on] = c] ELSE shown
    /\ \/ act[s].op.whole /\ c = act[s].got
       \/ ~act[s].op.whole /\ act[s].op.does = "edit" /\ c.has = shown[act[s].op.on].has \cup act[s].xs
       \/ act[s].op.does = "remove" /\ c.has = shown[act[s].op.on].has \ act[s].xs

LEMMA AnswerStores ==
    ASSUME Typed, Contents, NEW s \in Slot, Answered(s)
    PROVE  \/ \E c : Stores(s, c)
           \/ UNCHANGED <<cache, shown>> /\ (act[s].op.does = "none" \/ ~Mounted(act[s]))
<1>. DEFINE a == act[s]
            on == a.op.on
<1>0. /\ TypeOK /\ act \in [Slot -> Act \cup {NoOp}] /\ Entries /\ CachesOwn /\ PageOwn /\ ActsOwn
  BY DEF Typed, Contents
<1>1. /\ a.pc = "handled" /\ Busy(s) /\ a \in Act /\ on \in Resource /\ a.op.does \in {"edit", "remove", "none"}
      /\ a.token \in Identity /\ a.got \in Content /\ a.got.asked = a.token /\ Own(a.got) /\ Numbered(a.got.has)
      /\ Numbered(a.xs) /\ a.xs \subseteq Entry
  <2>1. a.pc = "handled" /\ Busy(s)
    BY DEF Answered, Busy
  <2>. QED BY <1>0, <2>1, ActFacts, NothingFacts DEF Entries, ActsOwn
<1>2. cache[on] \in Cache
  BY <1>0, <1>1 DEF TypeOK
<1>3. ASSUME NEW c \in Content
      PROVE  LET u == UpdateCache(cache[on], a.token, c)
             IN  /\ u \in Cache /\ u.value = c /\ u.token = a.token
                 /\ u.inflight # 0 => cache[on].token = a.token /\ u.inflight = cache[on].inflight
  <2>1. UpdateCache(cache[on], a.token, c) =
            [value |-> c, inflight |-> IF cache[on].token = a.token THEN cache[on].inflight ELSE 0, token |-> a.token]
    BY <1>2, UpdateCacheIs
  <2>2. c \in Shown /\ a.token \in 0..MaxSigns /\ 0 \in 0..MaxVisits /\ cache[on].inflight \in 0..MaxVisits
    BY <1>1, <1>2, Zeros DEF Shown, Identity, Cache
  <2>. QED BY <2>1, <2>2 DEF Cache
<1>4. CASE a.op.whole
  <2>1. on = "overview"
    BY <1>1, <1>4, OpFacts DEF Act
  <2>2. cache' = [cache EXCEPT ![on] = UpdateCache(cache[on], a.token, a.got)]
    BY <1>4, <2>1 DEF Answered
  <2>3. shown' = IF Mounted(a) THEN [shown EXCEPT ![on] = a.got] ELSE shown
    BY <1>4, <2>1 DEF Answered
  <2>4. Stores(s, a.got)
    BY <1>0, <1>1, <1>3, <1>4, <2>2, <2>3 DEF Stores, TypeOK
  <2>. QED BY <2>4
<1>5. CASE ~a.op.whole /\ a.op.does # "none" /\ Mounted(a)
  <2>. DEFINE c == [shown[on] EXCEPT !.has = Change(shown[on].has, a)]
  <2>1. /\ shown[on] \in Content /\ shown[on].asked = token /\ Own(shown[on]) /\ Numbered(shown[on].has)
        /\ token = a.token
    <3>1. shown[on] # Nothing /\ shown[on] \in Shown
      BY <1>0, <1>1, <1>5 DEF ActsOwn, TypeOK
    <3>. QED BY <1>0, <1>1, <1>5, <3>1, NothingFacts DEF PageOwn, ActsOwn, Mounted, Entries
  <2>2. /\ a.op.does = "edit" => Change(shown[on].has, a) = shown[on].has \cup a.xs
        /\ a.op.does = "remove" => Change(shown[on].has, a) = shown[on].has \ a.xs
    BY DEF Change
  <2>3. Change(shown[on].has, a) \subseteq Entry /\ Numbered(Change(shown[on].has, a))
    BY <1>1, <1>5, <2>1, <2>2 DEF Content, Numbered
  <2>4. c \in Content /\ c.has = Change(shown[on].has, a) /\ c.of = shown[on].of /\ c.asked = token
    BY <2>1, <2>3 DEF Content
  <2>5. cache' = [cache EXCEPT ![on] = UpdateCache(cache[on], a.token, c)]
    BY <1>5 DEF Answered, AfterChange
  <2>6. shown' = [shown EXCEPT ![on] = c]
    BY <1>5 DEF Answered, AfterChange
  <2>. HIDE DEF c
  <2>7. c.asked = a.token /\ Own(c) /\ Numbered(c.has)
    BY <2>1, <2>3, <2>4 DEF Own
  <2>8. /\ cache' \in [Resource -> Cache] /\ \A r \in Resource : r # on => cache'[r] = cache[r]
        /\ cache'[on].value = c /\ cache'[on].token = a.token
        /\ cache'[on].inflight # 0 => cache[on].token = a.token /\ cache'[on].inflight = cache[on].inflight
    BY <1>0, <1>1, <1>3, <2>4, <2>5 DEF TypeOK
  <2>9. \/ ~a.op.whole /\ a.op.does = "edit" /\ c.has = shown[on].has \cup a.xs
        \/ a.op.does = "remove" /\ c.has = shown[on].has \ a.xs
    BY <1>1, <1>5, <2>2, <2>4
  <2>10. Stores(s, c)
    BY <1>5, <2>4, <2>6, <2>7, <2>8, <2>9 DEF Stores
  <2>. QED BY <2>10
<1>6. CASE ~a.op.whole /\ ~(a.op.does # "none" /\ Mounted(a))
  BY <1>6 DEF Answered
<1>. QED BY <1>4, <1>5, <1>6

LEMMA AnsweredIndInv ==
    ASSUME IndInv, NEW s \in Slot, Answered(s)
    PROVE  IndInv'
<1>. DEFINE a == act[s]
            on == a.op.on
<1>0. /\ TypeOK /\ act \in [Slot -> Act \cup {NoOp}] /\ Entries /\ Scheduled /\ Typed /\ Contents
      /\ LoadsOwn /\ CachesOwn /\ PageOwn /\ ActsOwn /\ SameAccount /\ Behind /\ Leaving /\ Fresh
  BY DEF IndInv, Typed, Contents, Endings
<1>1. UNCHANGED <<srv, cookie, owner, token, browser, visit, up, section, load,
                  ops, turns, fails, ended, left, crossed, foreign>>
  BY DEF Answered, sessionVars, counters, history
<1>2. /\ a.pc = "handled" /\ Busy(s) /\ a \in Act /\ on \in Resource /\ a.op \in Operation
      /\ a.op.does \in {"edit", "remove", "none"} /\ a.token \in Identities /\ a.op.ends \in BOOLEAN
  <2>1. a.pc = "handled" /\ Busy(s)
    BY DEF Answered, Busy
  <2>. QED BY <1>0, <2>1, ActFacts DEF ActsOwn
<1>3. act' = [act EXCEPT ![s] = NoOp] /\ timers' = (IF a.op.ends THEN timers + 1 ELSE timers)
  BY DEF Answered, Timer
<1>4. /\ Scheduled' /\ timers' \in 0..ops /\ act' \in [Slot -> Act \cup {NoOp}] /\ act'[s].pc = "idle"
      /\ \A t \in Slot : t # s => act'[t] = act[t]
  BY <1>0, <1>1, <1>2, <1>3, FreeAgain
<1>5. \A t \in Slot : act'[t].pc # "idle" => t # s /\ act'[t] = act[t] /\ Busy(t)
  BY <1>4 DEF Busy
<1>6. PICK c : Stores(s, c) \/ (UNCHANGED <<cache, shown>> /\ (a.op.does = "none" \/ ~Mounted(a)))
  BY <1>0, AnswerStores
<1>7. Mounted(a) => a.token = token /\ shown[on] # Nothing
  BY <1>0, <1>2 DEF ActsOwn
<1>8. /\ cache' \in [Resource -> Cache] /\ shown' \in [Resource -> Shown]
      /\ \A r \in Resource : \/ shown'[r] = shown[r]
                             \/ /\ Stores(s, c) /\ Mounted(a) /\ r = on /\ shown'[r] = c
      /\ \A r \in Resource : \/ cache'[r] = cache[r]
                             \/ /\ Stores(s, c) /\ r = on /\ cache'[r].value = c /\ cache'[r].token = a.token
                                /\ cache'[r].inflight # 0 => /\ cache[r].token = a.token
                                                             /\ cache'[r].inflight = cache[r].inflight
  <2>1. CASE Stores(s, c)
    <3>1. c \in Shown
      BY <2>1 DEF Stores, Shown
    <3>2. shown' = IF Mounted(a) THEN [shown EXCEPT ![on] = c] ELSE shown
      BY <2>1 DEF Stores
    <3>3. shown' \in [Resource -> Shown] /\ \A r \in Resource : shown'[r] = IF Mounted(a) /\ r = on THEN c ELSE shown[r]
      BY <1>0, <1>2, <3>1, <3>2 DEF TypeOK
    <3>. QED BY <2>1, <3>3 DEF Stores
  <2>2. CASE UNCHANGED <<cache, shown>>
    BY <1>0, <2>2 DEF TypeOK
  <2>. QED BY <1>6, <2>1, <2>2
<1>9. Stores(s, c) => /\ c # Nothing /\ c.asked = a.token /\ Own(c) /\ Numbered(c.has) /\ c.has \subseteq Entry
  <2>1. Stores(s, c) => c \in Content /\ c \in Shown
    BY DEF Stores, Shown
  <2>. QED BY <2>1, NothingFacts DEF Stores
<1>10. Typed'
  <2>1. TypeOK'
    <3>1. \A t \in Slot : act'[t].pc # "idle" => act'[t].visit \in 1..visit /\ act'[t].token \in 1..Len(owner)
      BY <1>0, <1>5 DEF TypeOK
    <3>. QED BY <1>0, <1>1, <1>4, <1>8, <3>1 DEF TypeOK
  <2>2. Entries'
    <3>1. \A r \in Resource : /\ shown'[r] # Nothing => Numbered(shown'[r].has)
                              /\ cache'[r].value # Nothing => Numbered(cache'[r].value.has)
      BY <1>0, <1>8, <1>9 DEF Entries
    <3>2. \A t \in Slot : act'[t].pc # "idle" =>
             Numbered(act'[t].xs) /\ (act'[t].got # Nothing => Numbered(act'[t].got.has))
      BY <1>0, <1>5 DEF Entries
    <3>. QED BY <1>0, <1>1, <3>1, <3>2 DEF Entries, Numbered, Busy
  <2>. QED BY <1>4, <2>1, <2>2 DEF Typed
<1>11. Contents'
  <2>1. LoadsOwn' /\ SameAccount'
    <3>1. \A x : Own(x) => Own(x)'
      BY <1>1 DEF Own, Identities
    <3>2. LoadsOwn'
      BY <1>0, <1>1, <3>1 DEF LoadsOwn, UnderWay, Identities
    <3>3. SameAccount'
      BY <1>0, <1>1 DEF SameAccount
    <3>. QED BY <3>2, <3>3
  <2>2. CachesOwn'
    <3>1. ASSUME NEW r \in Resource
          PROVE  /\ cache'[r].token <= Len(owner)
                 /\ cache'[r].value # Nothing => cache'[r].value.asked = cache'[r].token /\ Own(cache'[r].value)
                 /\ cache'[r].inflight # 0 =>
                       /\ load[cache'[r].inflight][r].st # "no"
                       /\ load[cache'[r].inflight][r].by = cache'[r].inflight
                       /\ load[cache'[r].inflight][r].token = cache'[r].token
      <4>1. CASE cache'[r] = cache[r]
        BY <1>0, <4>1 DEF CachesOwn, UnderWay
      <4>2. CASE /\ Stores(s, c) /\ r = on /\ cache'[r].value = c /\ cache'[r].token = a.token
                 /\ cache'[r].inflight # 0 => /\ cache[r].token = a.token
                                              /\ cache'[r].inflight = cache[r].inflight
        <5>1. a.token <= Len(owner)
          BY <1>2 DEF Identities
        <5>2. cache[r].inflight # 0 => /\ load[cache[r].inflight][r].st # "no"
                                       /\ load[cache[r].inflight][r].by = cache[r].inflight
                                       /\ load[cache[r].inflight][r].token = cache[r].token
          BY <1>0 DEF CachesOwn, UnderWay
        <5>. QED BY <1>9, <4>2, <5>1, <5>2
      <4>. QED BY <1>8, <4>1, <4>2
    <3>. QED BY <1>1, <3>1 DEF CachesOwn, UnderWay, Own, Identities
  <2>3. PageOwn'
    <3>1. \A r \in Resource : up /\ shown'[r] # Nothing => shown'[r].asked = token /\ Own(shown'[r])
      BY <1>0, <1>7, <1>8, <1>9 DEF PageOwn
    <3>. QED BY <1>0, <1>1, <3>1 DEF PageOwn, UnderWay, Own, Identities
  <2>4. ActsOwn'
    <3>1. \A r \in Resource : shown[r] # Nothing => shown'[r] # Nothing
      BY <1>8, <1>9
    <3>2. \A t \in Slot : Busy(t) => act[t].op.on \in Resource
      BY <1>0, ActFacts
    <3>. QED BY <1>0, <1>1, <1>5, <3>1, <3>2 DEF ActsOwn, Busy, Mounted, Own, Identities
  <2>. QED BY <2>1, <2>2, <2>3, <2>4 DEF Contents
<1>12. Endings'
  <2>1. Behind'
    BY <1>0, <1>1, <1>5 DEF Behind, Busy
  <2>2. Leaving'
    <3>1. ASSUME fails = 0, token \in ended, ~(timers' > 0)
          PROVE  \E t \in Slot : act'[t].pc = "handled" /\ act'[t].op.ends
      <4>1. timers = 0 /\ ~a.op.ends
        BY <1>0, <1>3, <3>1, TypeFacts
      <4>2. PICK t \in Slot : act[t].pc = "handled" /\ act[t].op.ends
        BY <1>0, <3>1, <4>1 DEF Leaving
      <4>. QED BY <1>4, <4>1, <4>2
    <3>. QED BY <1>1, <3>1 DEF Leaving
  <2>. QED BY <2>1, <2>2 DEF Endings
<1>13. Fresh'
  <2>. SUFFICES ASSUME Undisturbed'
                PROVE  (AllMounted /\ OneRequest /\ UpTo /\ OneEdit /\ NewEntries)'
    BY DEF Fresh
  <2>1. AllMounted /\ OneRequest /\ UpTo /\ OneEdit /\ NewEntries /\ ~foreign
    BY <1>0, <1>1 DEF Fresh, Undisturbed
  <2>2. /\ Mounted(a) /\ up /\ token # 0 /\ a.token = token /\ shown[on] # Nothing
        /\ \A w \in Visit : UnderWay(w, on) => load[w][on].token # token
    BY <1>0, <1>2, <1>7, <2>1 DEF AllMounted, PageOwn, OneRequest, Mounted
  <2>3. AllMounted' /\ OneEdit'
    BY <1>1, <1>5, <2>1 DEF AllMounted, OneEdit, Busy, Mounted
  <2>4. OneRequest'
    <3>1. ASSUME NEW r \in Resource, NEW w \in Visit, UnderWay(w, r)
          PROVE  /\ cache'[r].value # Nothing => load[w][r].token # cache'[r].token
                 /\ shown'[r] # Nothing => load[w][r].token # token
      BY <1>8, <2>1, <2>2, <3>1 DEF OneRequest
    <3>. QED BY <1>1, <2>1, <3>1 DEF OneRequest, UnderWay
  <2>5. NewEntries'
    <3>1. ASSUME NEW t \in Slot, act'[t].pc # "idle", act'[t].op.does = "edit", NEW x \in act'[t].xs
          PROVE  /\ x \notin shown'[act'[t].op.on].has
                 /\ \A u \in Slot : act'[u].pc # "idle" /\ u # t /\ act'[u].op.on = act'[t].op.on => x \notin act'[u].xs
      <4>1. t # s /\ act'[t] = act[t] /\ Busy(t) /\ act[t].op.on \in Resource
        BY <1>0, <1>5, <3>1, ActFacts
      <4>2. /\ x \notin shown[act[t].op.on].has /\ (act[t].op.on = on => x \notin a.xs)
            /\ \A u \in Slot : act'[u].pc # "idle" /\ u # t /\ act'[u].op.on = act'[t].op.on => x \notin act'[u].xs
        BY <1>2, <1>5, <2>1, <3>1, <4>1 DEF NewEntries
      <4>3. CASE shown'[act[t].op.on] = shown[act[t].op.on]
        BY <4>1, <4>2, <4>3
      <4>4. CASE Stores(s, c) /\ act[t].op.on = on /\ shown'[on] = c
        <5>1. ~a.op.whole
          BY <1>2, <2>1, <3>1, <4>1, <4>4, OpFacts DEF OneEdit
        <5>2. x \notin c.has
          BY <4>2, <4>4, <5>1 DEF Stores
        <5>. QED BY <4>1, <4>2, <4>4, <5>2
      <4>. QED BY <1>8, <4>1, <4>3, <4>4
    <3>. QED BY <1>1, <3>1 DEF NewEntries, Busy
  <2>6. UpTo'
    <3>. DEFINE R(x, r) == \E t \in Slot : act'[t].pc = "handled" /\ act'[t].op.on = r /\ act'[t].op.does = "remove"
                                           /\ x \in act'[t].xs
                A(x, r) == \E t \in Slot : act'[t].pc = "handled" /\ act'[t].op.on = r /\ act'[t].op.does = "edit"
                                           /\ x \in act'[t].xs
                M(T, r) == \A x \in Entry : x \in srv[owner[token]][r] <=> (x \in T /\ ~R(x, r)) \/ A(x, r)
    <3>0. \A t \in Slot : /\ act'[t].pc = "handled" => t # s /\ act'[t] = act[t]
                          /\ t # s => act'[t] = act[t]
      BY <1>4
    <3>1. \A x, r : /\ Removed(x, r) <=> R(x, r) \/ (r = on /\ a.op.does = "remove" /\ x \in a.xs)
                    /\ Added(x, r) <=> A(x, r) \/ (r = on /\ a.op.does = "edit" /\ x \in a.xs)
      BY <1>2, <3>0 DEF Removed, Added, Handled
    <3>2. \A x : a.op.does = "edit" /\ x \in a.xs => ~R(x, on)
      BY <1>2, <2>1, <3>0 DEF NewEntries, Busy
    <3>3. a.op.whole => \A x : ~R(x, on) /\ ~A(x, on)
      <4>. SUFFICES ASSUME a.op.whole, NEW t \in Slot, act'[t].pc = "handled", act'[t].op.on = on
                    PROVE  act'[t].op.does = "none"
        OBVIOUS
      <4>1. t # s /\ act'[t] = act[t] /\ Busy(t) /\ act[t].op \in Operation /\ on = "overview" /\ a.op.does = "edit"
        BY <1>0, <1>2, <1>5, OpFacts, ActFacts
      <4>2. act[t].op.does # "edit"
        BY <1>2, <2>1, <4>1 DEF OneEdit
      <4>. QED BY <4>1, <4>2, OpFacts
    <3>. HIDE DEF R, A
    <3>4. ASSUME NEW r \in Resource, NEW T, Matches(T, r), r # on \/ a.op.does = "none"
          PROVE  M(T, r)
      BY <3>1, <3>4 DEF Matches
    <3>5. ASSUME Stores(s, c)
          PROVE  M(c.has, on)
      <4>1. Matches(shown[on].has, on)
        BY <1>2, <2>1, <2>2 DEF UpTo
      <4>2. CASE a.op.whole /\ c = a.got
        <5>1. a.got.has = srv[owner[token]][on]
          BY <1>2, <2>1, <4>2, OpFacts DEF OneEdit
        <5>. QED BY <3>3, <4>2, <5>1
      <4>3. CASE a.op.does = "edit" /\ c.has = shown[on].has \cup a.xs
        BY <3>1, <3>2, <4>1, <4>3 DEF Matches
      <4>4. CASE a.op.does = "remove" /\ c.has = shown[on].has \ a.xs
        BY <3>1, <4>1, <4>4 DEF Matches
      <4>. QED BY <3>5, <4>2, <4>3, <4>4 DEF Stores
    <3>6. ASSUME NEW r \in Resource
          PROVE  /\ shown'[r] # Nothing => M(shown'[r].has, r)
                 /\ cache'[r].value # Nothing /\ cache'[r].token = token => M(cache'[r].value.has, r)
      <4>. HIDE DEF M
      <4>0. /\ shown[r] # Nothing => Matches(shown[r].has, r)
            /\ cache[r].value # Nothing /\ cache[r].token = token => Matches(cache[r].value.has, r)
        BY <2>1, <2>2 DEF UpTo
      <4>1. CASE r # on
        BY <1>8, <3>4, <4>0, <4>1
      <4>2. CASE r = on /\ Stores(s, c)
        <5>1. shown'[r] = c /\ cache'[r].value = c
          BY <1>0, <1>2, <2>2, <4>2 DEF Stores, TypeOK
        <5>. QED BY <3>5, <4>2, <5>1
      <4>3. CASE r = on /\ UNCHANGED <<cache, shown>> /\ a.op.does = "none"
        BY <3>4, <4>0, <4>3
      <4>. QED BY <1>6, <2>2, <4>1, <4>2, <4>3
    <3>. QED BY <1>1, <2>1, <3>6 DEF UpTo, Matches, Removed, Added, Handled, R, A
  <2>. QED BY <2>3, <2>4, <2>5, <2>6
<1>. QED BY <1>10, <1>11, <1>12, <1>13 DEF IndInv

-----------------------------------------------------------------------------
(* An operation is refused, or its answer is lost *)

LEMMA DroppedIndInv ==
    ASSUME IndInv, NEW s \in Slot, Refused(s) \/ OperationFails(s)
    PROVE  IndInv'
<1>0. /\ TypeOK /\ act \in [Slot -> Act \cup {NoOp}] /\ Entries /\ Scheduled
      /\ LoadsOwn /\ CachesOwn /\ PageOwn /\ ActsOwn /\ SameAccount /\ Behind /\ Leaving /\ Fresh
  BY DEF IndInv, Typed, Contents, Endings
<1>1. UNCHANGED <<srv, cookie, owner, token, browser, visit, up, section, shown, cache, load,
                  timers, ops, turns, ended, crossed, foreign>>
  BY DEF Refused, OperationFails, sessionVars, pageVars, counters, history
<1>2. Busy(s) /\ act' = [act EXCEPT ![s] = NoOp]
  BY DEF Refused, OperationFails, Busy
<1>3. \/ act[s].pc = "sent" /\ UNCHANGED <<left, fails>>
      \/ left' = TRUE /\ fails' = fails + 1 /\ fails < MaxFails
  BY DEF Refused, OperationFails, MayFail, counters, history
<1>4. /\ Scheduled' /\ timers' \in 0..ops /\ act' \in [Slot -> Act \cup {NoOp}] /\ act'[s].pc = "idle"
      /\ \A t \in Slot : t # s => act'[t] = act[t]
  BY <1>0, <1>1, <1>2, FreeAgain
<1>5. \A t \in Slot : act'[t].pc # "idle" => t # s /\ act'[t] = act[t] /\ Busy(t)
  BY <1>4 DEF Busy
<1>6. left' \in BOOLEAN /\ fails' \in 0..MaxFails /\ (fails' = 0 => act[s].pc = "sent" /\ fails = 0)
  <2>1. left \in BOOLEAN /\ fails \in 0..MaxFails /\ MaxFails \in Nat
    BY <1>0, TypeFacts DEF TypeOK
  <2>2. CASE act[s].pc = "sent" /\ UNCHANGED <<left, fails>>
    BY <2>1, <2>2
  <2>3. CASE left' = TRUE /\ fails' = fails + 1 /\ fails < MaxFails
    BY <2>1, <2>3
  <2>. QED BY <1>3, <2>2, <2>3
<1>7. Typed'
  <2>1. TypeOK'
    <3>1. \A t \in Slot : act'[t].pc # "idle" => act'[t].visit \in 1..visit /\ act'[t].token \in 1..Len(owner)
      BY <1>0, <1>5 DEF TypeOK
    <3>. QED BY <1>0, <1>1, <1>4, <1>6, <3>1 DEF TypeOK
  <2>2. Entries'
    <3>1. \A t \in Slot : act'[t].pc # "idle" =>
             Numbered(act'[t].xs) /\ (act'[t].got # Nothing => Numbered(act'[t].got.has))
      BY <1>0, <1>5 DEF Entries
    <3>. QED BY <1>0, <1>1, <3>1 DEF Entries, Numbered, Busy
  <2>. QED BY <1>4, <2>1, <2>2 DEF Typed
<1>8. Contents'
  <2>1. LoadsOwn' /\ CachesOwn' /\ PageOwn' /\ SameAccount'
    <3>1. \A c : Own(c) => Own(c)'
      BY <1>1 DEF Own, Identities
    <3>2. LoadsOwn'
      BY <1>0, <1>1, <3>1 DEF LoadsOwn, UnderWay, Identities
    <3>3. CachesOwn' /\ PageOwn' /\ SameAccount'
      BY <1>0, <1>1, <3>1 DEF CachesOwn, PageOwn, SameAccount, UnderWay
    <3>. QED BY <3>2, <3>3
  <2>2. ActsOwn'
    BY <1>0, <1>1, <1>5 DEF ActsOwn, Busy, Mounted, Own, Identities
  <2>. QED BY <2>1, <2>2 DEF Contents
<1>9. Endings'
  <2>1. Behind'
    BY <1>0, <1>1, <1>5 DEF Behind, Busy
  <2>2. Leaving'
    <3>1. ASSUME fails' = 0, token \in ended, ~(timers > 0)
          PROVE  \E t \in Slot : act'[t].pc = "handled" /\ act'[t].op.ends
      <4>1. PICK t \in Slot : act[t].pc = "handled" /\ act[t].op.ends
        BY <1>0, <1>6, <3>1 DEF Leaving
      <4>. QED BY <1>4, <1>6, <3>1, <4>1
    <3>. QED BY <1>1, <3>1 DEF Leaving
  <2>. QED BY <2>1, <2>2 DEF Endings
<1>10. Fresh'
  <2>. SUFFICES ASSUME Undisturbed'
                PROVE  (AllMounted /\ OneRequest /\ UpTo /\ OneEdit /\ NewEntries)'
    BY DEF Fresh
  <2>1. AllMounted /\ OneRequest /\ UpTo /\ OneEdit /\ NewEntries /\ act[s].pc = "sent"
    BY <1>0, <1>1, <1>3 DEF Fresh, Undisturbed
  <2>2. AllMounted' /\ OneEdit'
    BY <1>1, <1>5, <2>1 DEF AllMounted, OneEdit, Busy, Mounted
  <2>3. OneRequest'
    BY <1>1, <2>1 DEF OneRequest, UnderWay
  <2>4. NewEntries'
    BY <1>1, <1>5, <2>1 DEF NewEntries, Busy
  <2>5. UpTo'
    <3>1. \A t \in Slot : \/ act'[t] = act[t]
                          \/ act'[t].pc # "handled" /\ act[t].pc # "handled"
      BY <1>4, <2>1
    <3>2. \A x, r : /\ Removed(x, r)' <=> Removed(x, r)
                    /\ Added(x, r)' <=> Added(x, r)
      BY <3>1 DEF Removed, Added, Handled
    <3>3. \A S, r : Matches(S, r)' <=> Matches(S, r)
      BY <1>1, <3>2 DEF Matches
    <3>. QED BY <1>1, <2>1, <3>3 DEF UpTo
  <2>. QED BY <2>2, <2>3, <2>4, <2>5
<1>. QED BY <1>7, <1>8, <1>9, <1>10 DEF IndInv

-----------------------------------------------------------------------------
(* Sign-ins *)

\* A new identity is none of those that are about.
LEMMA SignInIndInv ==
    ASSUME IndInv, NEW u \in Account, SignInHere(u) \/ SignInInAnotherTab(u)
    PROVE  IndInv'
<1>. DEFINE n == Len(owner) + 1
<1>0. /\ TypeOK /\ act \in [Slot -> Act \cup {NoOp}] /\ Entries /\ Scheduled
      /\ LoadsOwn /\ CachesOwn /\ PageOwn /\ ActsOwn /\ SameAccount /\ Behind /\ Leaving /\ Fresh
  BY DEF IndInv, Typed, Contents, Endings
<1>1. UNCHANGED <<srv, visit, up, section, shown, cache, load, act, timers, ops, turns, fails,
                  ended, left, crossed>>
  BY DEF SignInHere, SignInInAnotherTab, pageVars, counters, history
<1>2. /\ owner \in Seq(Account) /\ Len(owner) \in Nat /\ Len(owner) # 0 /\ Len(owner) < MaxSigns
      /\ owner' = Append(owner, u) /\ Len(owner') = n /\ cookie' = u /\ browser' = n
  <2>1. owner \in Seq(Account) /\ Len(owner) \in Nat /\ Len(owner) # 0
    BY <1>0, TypeFacts DEF TypeOK, Identity
  <2>2. Len(owner) < MaxSigns /\ owner' = Append(owner, u) /\ cookie' = u /\ browser' = Len(owner')
    BY DEF SignInHere, SignInInAnotherTab, SignIn
  <2>. QED BY <2>1, <2>2
<1>3. /\ owner' \in Seq(Account) /\ owner'[n] = u
      /\ \A i \in Identities : owner'[i] = owner[i] /\ i # n /\ i < n
  BY <1>2 DEF Identities
<1>4. \/ token = 0 /\ token' = n /\ foreign' = foreign
      \/ token' = token /\ foreign' = (foreign \/ (token # 0 /\ owner[token] # u))
  BY <1>2 DEF SignInHere, SignInInAnotherTab, history
<1>5. token \in 0..Len(owner) /\ token' \in 0..n /\ foreign \in BOOLEAN /\ foreign' \in BOOLEAN /\ (foreign => foreign')
  <2>1. token \in 0..Len(owner) /\ foreign \in BOOLEAN
    BY <1>0 DEF TypeOK
  <2>2. token' \in 0..n
    BY <1>2, <1>4, <2>1
  <2>3. foreign' \in BOOLEAN /\ (foreign => foreign')
    BY <1>4, <2>1
  <2>. QED BY <2>1, <2>2, <2>3
<1>6. up => token' = token /\ token # 0
  BY <1>0, <1>4 DEF PageOwn
<1>7. \A i \in Identities : i = token' => i = token /\ owner'[token'] = owner[token]
  BY <1>3, <1>4
<1>8. \A c : Own(c) => c.asked \in 1..n /\ (c.asked = token' => c.of = owner'[token'] \/ foreign')
  BY <1>2, <1>5, <1>7 DEF Own, Identities
<1>9. \A c : Own(c) => Own(c)'
  BY <1>2, <1>8 DEF Own, Identities
<1>10. \A i \in Identities : i \in 1..n
  BY <1>2 DEF Identities
<1>11. Typed'
  <2>1. TypeOK'
    <3>1. Len(owner') \in Identity /\ {token', browser'} \subseteq 0..Len(owner') /\ ended \subseteq 1..Len(owner')
      <4>1. n \in Identity /\ {token', browser'} \subseteq 0..n
        BY <1>2, <1>5, BoundsAssumption DEF Identity
      <4>2. ended \subseteq 1..n
        BY <1>0, <1>2 DEF TypeOK
      <4>. QED BY <1>2, <4>1, <4>2
    <3>2. \A t \in Slot : act[t].pc # "idle" => act[t].visit \in 1..visit /\ act[t].token \in 1..Len(owner')
      BY <1>0, <1>2 DEF TypeOK
    <3>. QED BY <1>0, <1>1, <1>2, <1>3, <1>5, <3>1, <3>2 DEF TypeOK
  <2>2. Entries' /\ Scheduled'
    BY <1>0, <1>1 DEF Entries, Scheduled, Numbered, Busy
  <2>. QED BY <1>0, <1>1, <2>1, <2>2 DEF Typed
<1>12. Contents'
  <2>1. LoadsOwn'
    <3>1. \A i \in Identities : i \in Identities'
      BY <1>2, <1>10 DEF Identities
    <3>. QED BY <1>0, <1>1, <1>9, <3>1 DEF LoadsOwn, UnderWay
  <2>2. CachesOwn'
    <3>1. \A r \in Resource : cache[r].token <= n
      BY <1>0, <1>2, TypeFacts DEF CachesOwn, TypeOK, Cache
    <3>. QED BY <1>0, <1>1, <1>2, <1>9, <3>1 DEF CachesOwn, UnderWay
  <2>3. PageOwn'
    BY <1>0, <1>1, <1>6, <1>9 DEF PageOwn, UnderWay
  <2>4. ActsOwn'
    <3>1. \A t \in Slot : Busy(t) /\ Mounted(act[t]) => act[t].token = token' /\ shown[act[t].op.on] # Nothing
      BY <1>0, <1>6 DEF ActsOwn, Mounted
    <3>. QED BY <1>0, <1>1, <1>2, <1>9, <1>10, <3>1 DEF ActsOwn, Busy, Mounted, Identities
  <2>5. SameAccount'
    BY <1>2, <1>3, <1>4, <1>5 DEF SameAccount, Identities
  <2>. QED BY <2>1, <2>2, <2>3, <2>4, <2>5 DEF Contents
<1>13. Endings'
  <2>1. Behind'
    <3>1. \A i \in ended : i < n
      BY <1>0, <1>2 DEF TypeOK
    <3>2. \A t \in Slot : Busy(t) => act[t].token < n
      BY <1>0, <1>3 DEF ActsOwn
    <3>. QED BY <1>1, <1>2, <1>5, <3>1, <3>2 DEF Behind, Busy
  <2>2. Leaving'
    <3>1. n \notin ended
      BY <1>0, <1>2 DEF TypeOK
    <3>. QED BY <1>0, <1>1, <1>4, <3>1 DEF Leaving
  <2>. QED BY <2>1, <2>2 DEF Endings
<1>14. Fresh'
  <2>. SUFFICES ASSUME Undisturbed'
                PROVE  (AllMounted /\ OneRequest /\ UpTo /\ OneEdit /\ NewEntries)'
    BY DEF Fresh
  <2>1. AllMounted /\ OneRequest /\ UpTo /\ OneEdit /\ NewEntries
    BY <1>0, <1>1, <1>5 DEF Fresh, Undisturbed
  <2>2. AllMounted'
    BY <1>1, <2>1 DEF AllMounted, Busy, Mounted
  <2>3. OneRequest'
    <3>1. \A r \in Resource, v \in Visit : up /\ shown[r] # Nothing /\ UnderWay(v, r) => load[v][r].token # token'
      BY <1>6, <2>1 DEF OneRequest
    <3>. QED BY <1>1, <2>1, <3>1 DEF OneRequest, UnderWay
  <2>4. CASE token = 0 /\ token' = n
    <3>1. ~up
      BY <1>6, <2>4
    <3>2. \A t \in Slot : ~Busy(t)
      BY <2>1, <3>1 DEF AllMounted, Mounted
    <3>3. \A r \in Resource : cache[r].token # n
      BY <1>0, <1>2, TypeFacts DEF CachesOwn, TypeOK, Cache
    <3>4. \A r \in Resource, v \in Visit : UnderWay(v, r) => load[v][r].token # n
      BY <1>0, <1>3 DEF LoadsOwn
    <3>5. UpTo'
      BY <1>1, <2>4, <3>1, <3>3, <3>4 DEF UpTo, UnderWay
    <3>6. OneEdit' /\ NewEntries'
      BY <1>1, <3>2 DEF OneEdit, NewEntries, Busy
    <3>. QED BY <2>2, <2>3, <3>5, <3>6
  <2>5. CASE token' = token
    <3>1. token # 0 => owner'[token] = owner[token]
      BY <1>3, <1>5 DEF Identities
    <3>2. UpTo'
      <4>. SUFFICES ASSUME token # 0 PROVE UpTo'
        BY <2>5 DEF UpTo
      <4>1. owner'[token'] = owner[token]
        BY <2>5, <3>1
      <4>2. \A S, r : Matches(S, r)' <=> Matches(S, r)
        BY <1>1, <4>1 DEF Matches, Removed, Added, Handled
      <4>. QED BY <1>1, <2>1, <2>5, <4>1, <4>2 DEF UpTo
    <3>3. OneEdit'
      <4>1. \A t \in Slot : Busy(t) => token # 0
        BY <1>0, <2>1 DEF AllMounted, PageOwn, Mounted
      <4>. QED BY <1>1, <2>1, <2>5, <3>1, <4>1 DEF OneEdit, Busy
    <3>4. NewEntries'
      BY <1>1, <2>1 DEF NewEntries, Busy
    <3>. QED BY <2>2, <2>3, <3>2, <3>3, <3>4
  <2>. QED BY <1>4, <2>4, <2>5
<1>. QED BY <1>11, <1>12, <1>13, <1>14 DEF IndInv

\* The tab changes to an account it did not sign in with: that one is foreign.
LEMMA UseBrowserAccountIndInv == ASSUME IndInv, UseBrowserAccount PROVE IndInv'
<1>0. /\ TypeOK /\ act \in [Slot -> Act \cup {NoOp}] /\ Entries /\ Scheduled
      /\ LoadsOwn /\ CachesOwn /\ PageOwn /\ ActsOwn /\ SameAccount /\ Behind /\ Leaving
  BY DEF IndInv, Typed, Contents, Endings
<1>1. UNCHANGED <<srv, cookie, owner, browser, visit, up, section, shown, cache, load, act, timers,
                  ops, turns, fails, ended, left, crossed, foreign>>
  BY DEF UseBrowserAccount, pageVars, counters, history
<1>2. ~up /\ token # 0 /\ browser # 0 /\ browser # token /\ token' = browser /\ foreign
  BY <1>0 DEF UseBrowserAccount, Admitted, SameAccount
<1>3. Typed'
  <2>1. TypeOK'
    BY <1>0, <1>1, <1>2 DEF TypeOK
  <2>2. Entries' /\ Scheduled'
    BY <1>0, <1>1 DEF Entries, Scheduled, Numbered, Busy
  <2>. QED BY <1>0, <1>1, <2>1, <2>2 DEF Typed
<1>4. Contents'
  <2>1. \A c : Own(c) => Own(c)'
    BY <1>1, <1>2 DEF Own, Identities
  <2>2. LoadsOwn'
    BY <1>0, <1>1, <2>1 DEF LoadsOwn, UnderWay, Identities
  <2>5. CachesOwn'
    BY <1>0, <1>1, <2>1 DEF CachesOwn, UnderWay
  <2>3. ActsOwn'
    BY <1>0, <1>1, <1>2, <2>1 DEF ActsOwn, Busy, Mounted, Identities
  <2>4. PageOwn' /\ SameAccount'
    BY <1>1, <1>2 DEF PageOwn, SameAccount
  <2>. QED BY <2>2, <2>3, <2>4, <2>5 DEF Contents
<1>5. Endings'
  <2>1. token' \notin ended
    BY <1>0, <1>2, TypeFacts DEF Behind
  <2>2. Behind' /\ Leaving'
    BY <1>1, <1>2, <2>1, <1>0, TypeFacts DEF Behind, Leaving
  <2>. QED BY <2>2 DEF Endings
<1>6. Fresh'
  BY <1>1, <1>2 DEF Fresh, Undisturbed
<1>. QED BY <1>3, <1>4, <1>5, <1>6 DEF IndInv

-----------------------------------------------------------------------------
(* Every step *)

LEMMA OpensIndInv ==
    ASSUME IndInv, NEW rs \in SUBSET Resource, Opens(rs)
    PROVE  IndInv'
BY OpensTyped, OpensContents, OpensEndings, OpensFresh DEF IndInv

LEMMA RecedesIndInv == ASSUME IndInv, Recedes PROVE IndInv'
BY RecedesTyped, RecedesContents, RecedesEndings, RecedesFresh DEF IndInv

LEMMA PageIndInv ==
    ASSUME IndInv, NEW sec \in Section, OpenPage(sec) \/ OpenSection(sec)
    PROVE  IndInv'
<1>0. TypeOK /\ LoadsOwn /\ PageOwn
  BY DEF IndInv, Typed, Contents
<1>1. CASE OpenPage(sec)
  BY <1>0, <1>1, PageOpens, OpensIndInv
<1>2. CASE OpenSection(sec) /\ Admitted
  BY <1>0, <1>2, SectionOpens, OpensIndInv
<1>3. CASE OpenSection(sec) /\ ~Admitted
  <2>1. /\ Leave /\ turns < MaxTurns /\ turns' = turns + 1
        /\ UNCHANGED <<srv, cookie, owner, token, browser, cache, load, act, timers, ops, fails, ended,
                       crossed, foreign>>
    BY <1>3 DEF OpenSection, Turn, sessionVars
  <2>2. turns \in 0..MaxTurns /\ fails \in 0..MaxFails /\ MaxTurns \in Nat /\ Fewer
    BY <1>0, <2>1, NoFewer, TypeFacts DEF TypeOK
  <2>3. Recedes
    BY <2>1, <2>2 DEF Recedes, Leave, Unmount
  <2>. QED BY <2>3, RecedesIndInv
<1>. QED BY <1>1, <1>2, <1>3

LEMMA GoneIndInv ==
    ASSUME IndInv, LeavePage \/ TimerFires \/ SessionEnds
    PROVE  IndInv'
<1>0. TypeOK
  BY DEF IndInv, Typed
<1>01. /\ turns \in 0..MaxTurns /\ fails \in 0..MaxFails /\ MaxTurns \in Nat /\ MaxFails \in Nat
       /\ (UNCHANGED <<load, cache>> => Fewer)
  BY <1>0, NoFewer, TypeFacts DEF TypeOK
<1>1. CASE LeavePage
  <2>1. /\ Leave /\ turns < MaxTurns /\ turns' = turns + 1
        /\ UNCHANGED <<srv, cookie, owner, token, browser, cache, load, act, timers, ops, fails, ended,
                       crossed, foreign>>
    BY <1>1 DEF LeavePage, Turn, sessionVars
  <2>2. Recedes
    BY <1>01, <2>1 DEF Recedes, Leave, Unmount
  <2>. QED BY <2>2, RecedesIndInv
<1>2. CASE TimerFires
  <2>1. /\ timers > 0 /\ timers' = timers - 1 /\ token' = 0 /\ browser' = 0 /\ Leave
        /\ UNCHANGED <<srv, cookie, owner, cache, load, act, ops, turns, fails, ended, crossed, foreign>>
    BY <1>2 DEF TimerFires, RedirectToLogin, counters
  <2>2. Recedes
    BY <1>01, <2>1 DEF Recedes, Leave, Unmount
  <2>. QED BY <2>2, RecedesIndInv
<1>3. CASE SessionEnds
  <2>1. /\ cookie' = None /\ turns < MaxTurns /\ turns' = turns + 1
        /\ UNCHANGED <<srv, owner, token, browser, visit, up, section, shown, cache, load, act, timers, ops,
                       fails, ended, left, crossed, foreign>>
    BY <1>3 DEF SessionEnds, Turn, pageVars, history
  <2>2. Recedes
    BY <1>01, <2>1 DEF Recedes
  <2>. QED BY <2>2, RecedesIndInv
<1>. QED BY <1>1, <1>2, <1>3

LEMMA LoadEndsIndInv ==
    ASSUME IndInv, NEW v \in Visit, NEW r \in Resource, LoadRefused(v, r) \/ LoadFails(v, r)
    PROVE  IndInv'
<1>0. TypeOK /\ LoadsOwn /\ CachesOwn
  BY DEF IndInv, Typed, Contents
<1>1. Fewer
  BY <1>0, EndedFewer DEF LoadRefused, LoadFails
<1>2. CASE LoadRefused(v, r)
  <2>1. /\ token' = 0 /\ browser' = 0 /\ Leave
        /\ UNCHANGED <<srv, cookie, owner, act, timers, ops, turns, fails, ended, crossed, foreign>>
    BY <1>2 DEF LoadRefused, RedirectToLogin, counters
  <2>2. turns \in 0..MaxTurns /\ fails \in 0..MaxFails
    BY <1>0 DEF TypeOK
  <2>3. Recedes
    BY <1>1, <2>1, <2>2 DEF Recedes, Leave, Unmount
  <2>. QED BY <2>3, RecedesIndInv
<1>3. CASE LoadFails(v, r)
  <2>1. /\ fails < MaxFails /\ fails' = fails + 1
        /\ UNCHANGED <<srv, cookie, owner, token, browser, visit, up, section, shown, act, timers, ops, turns,
                       ended, left, crossed, foreign>>
    BY <1>3 DEF LoadFails, MayFail, sessionVars, pageVars, history
  <2>2. turns \in 0..MaxTurns /\ fails \in 0..MaxFails /\ MaxFails \in Nat
    BY <1>0, TypeFacts DEF TypeOK
  <2>3. Recedes
    BY <1>1, <2>1, <2>2 DEF Recedes
  <2>. QED BY <2>3, RecedesIndInv
<1>. QED BY <1>2, <1>3

LEMMA NextIndInv == ASSUME IndInv, [Next]_vars PROVE IndInv'
<1>1. ASSUME NEW sec \in Section, OpenPage(sec) \/ OpenSection(sec) PROVE IndInv'
  BY <1>1, PageIndInv
<1>2. CASE LeavePage \/ TimerFires \/ SessionEnds
  BY <1>2, GoneIndInv
<1>3. ASSUME NEW v \in Visit, NEW r \in Resource,
             HandleLoad(v, r) \/ LoadAnswered(v, r) \/ LoadRefused(v, r) \/ LoadFails(v, r)
      PROVE  IndInv'
  BY <1>3, HandleLoadIndInv, LoadAnsweredIndInv, LoadEndsIndInv
<1>4. ASSUME NEW s \in Slot, NEW op \in Operation, Operate(s, op) PROVE IndInv'
  BY <1>4, OperateIndInv
<1>5. ASSUME NEW s \in Slot, Handle(s) \/ Receive(s) PROVE IndInv'
  BY <1>5, HandleIndInv, AnsweredIndInv, DroppedIndInv DEF Receive
<1>6. ASSUME NEW u \in Account, SignInHere(u) \/ SignInInAnotherTab(u) PROVE IndInv'
  BY <1>6, SignInIndInv
<1>7. CASE UseBrowserAccount
  BY <1>7, UseBrowserAccountIndInv
<1>8. CASE UNCHANGED vars
  <2>1. TypeOK
    BY DEF IndInv, Typed
  <2>2. Recedes
    BY <1>8, <2>1, NoFewer, TypeFacts DEF vars, sessionVars, pageVars, counters, history, Recedes, TypeOK
  <2>. QED BY <2>2, RecedesIndInv
<1>. QED BY <1>1, <1>2, <1>3, <1>4, <1>5, <1>6, <1>7, <1>8 DEF Next

LEMMA InitIndInv == Init => IndInv
<1>. SUFFICES ASSUME Init PROVE IndInv
  OBVIOUS
<1>1. cookie \in Account /\ section \in Section
  <2>1. (CHOOSE a \in Account : TRUE) \in Account
    BY AccountAssumption
  <2>2. (CHOOSE sec \in Section : TRUE) \in Section
    BY SectionAssumption
  <2>. QED BY <2>1, <2>2 DEF Init
<1>2. owner = <<cookie>> /\ Len(owner) = 1 /\ owner \in Seq(Account) /\ owner[1] = cookie
  BY <1>1 DEF Init
<1>3. /\ \A r \in Resource : shown[r] = Nothing /\ cache[r] = EmptyCache
      /\ \A v \in Visit, r \in Resource : load[v][r] = NoLoad
      /\ \A s \in Slot : act[s] = NoOp /\ ~Busy(s)
      /\ \A a \in Account, r \in Resource : srv[a][r] \subseteq Item
  BY DEF Init, Busy, NoOp
<1>4. Typed
  <2>1. TypeOK
    <3>1. /\ shown \in [Resource -> Shown] /\ cache \in [Resource -> Cache] /\ load \in [Visit -> [Resource -> Load]]
      BY Zeros DEF Init, Shown
    <3>2. srv \in [Account -> [Resource -> SUBSET Entry]]
      BY DEF Init, Entry
    <3>3. /\ Len(owner) \in Identity /\ {token, browser} \subseteq 0..Len(owner)
          /\ visit \in 0..MaxVisits /\ timers \in 0..ops /\ ops \in 0..MaxOps /\ turns \in 0..MaxTurns
          /\ fails \in 0..MaxFails
      BY <1>2, BoundsAssumption DEF Init, Identity
    <3>4. \A s \in Slot : act[s].pc = "idle"
      BY <1>3 DEF Busy
    <3>5. up \in BOOLEAN /\ ended \subseteq 1..Len(owner) /\ {left, crossed, foreign} \subseteq BOOLEAN
      BY DEF Init
    <3>. QED BY <1>1, <1>2, <3>1, <3>2, <3>3, <3>4, <3>5 DEF TypeOK
  <2>2. act \in [Slot -> Act \cup {NoOp}]
    BY DEF Init
  <2>3. Entries
    BY <1>3 DEF Entries, Numbered, EmptyCache, NoLoad
  <2>4. Scheduled
    <3>1. {s \in Slot : Busy(s)} = {}
      BY <1>3
    <3>2. timers = 0 /\ ops = 0
      BY DEF Init
    <3>. QED BY <3>1, <3>2, FS_EmptySet DEF Scheduled
  <2>. QED BY <2>1, <2>2, <2>3, <2>4 DEF Typed
<1>5. Contents
  <2>1. ~up /\ token = 1 /\ browser = 1
    BY DEF Init
  <2>2. LoadsOwn /\ CachesOwn
    BY <1>2, <1>3 DEF LoadsOwn, CachesOwn, UnderWay, NoLoad, EmptyCache
  <2>3. PageOwn /\ ActsOwn
    BY <1>3, <2>1 DEF PageOwn, ActsOwn
  <2>4. SameAccount
    BY <1>2, <2>1 DEF SameAccount
  <2>. QED BY <2>2, <2>3, <2>4 DEF Contents
<1>6. Endings
  BY DEF Init, Endings, Behind, Leaving
<1>7. Fresh
  <2>1. AllMounted /\ OneEdit /\ NewEntries
    BY <1>3 DEF AllMounted, OneEdit, NewEntries
  <2>2. OneRequest /\ UpTo
    BY <1>3 DEF OneRequest, UpTo, UnderWay, NoLoad, EmptyCache, Init
  <2>. QED BY <2>1, <2>2 DEF Fresh
<1>. QED BY <1>4, <1>5, <1>6, <1>7 DEF IndInv

-----------------------------------------------------------------------------
\* In every reachable state what the page, the caches, the loads and the operations hold
\* agrees as the parts of IndInv say (useUserPageController.ts, userApi.ts).
THEOREM AccountPageInvariant == Spec => []IndInv
BY InitIndInv, NextIndInv, PTL DEF Spec

\* Server, session, page, caches, loads and operations keep their types, and there are
\* never more redirects to come than operations were begun.
THEOREM AccountPageTypeCorrect == Spec => []TypeOK
BY AccountPageInvariant, PTL DEF IndInv, Typed

\* A cache and the page hold only what their own identity asked for, and the page data of
\* its own account unless another account has signed in meanwhile (readSessionScopedCache,
\* updateUserOverviewCache, loadUser).
THEOREM ContentIsOwn == Spec => []OwnContent
<1>1. IndInv => OwnContent
  <2>. SUFFICES ASSUME IndInv PROVE OwnContent
    OBVIOUS
  <2>1. CachesOwn /\ PageOwn /\ foreign \in BOOLEAN
    BY DEF IndInv, Contents, Typed, TypeOK
  <2>. QED BY <2>1 DEF CachesOwn, PageOwn, Own, OwnContent
<1>. QED BY <1>1, AccountPageInvariant, PTL

\* At rest the page shows what the server holds, over any number of visits, sign-ins and
\* operations, unless the page was left with an operation under way, requests crossed or
\* another account signed in (revokeConsent, addPasskey, saveDisplayName and the others).
THEOREM PageUpToDate == Spec => []UpToDate
<1>1. IndInv => UpToDate
  <2>. SUFFICES ASSUME IndInv, Quiet, up, Undisturbed, NEW r \in Resource, shown[r] # Nothing
                PROVE  shown[r].has = srv[owner[token]][r]
    BY DEF UpToDate, Undisturbed
  <2>1. TypeOK /\ PageOwn /\ UpTo
    BY DEF IndInv, Typed, Contents, Fresh
  <2>2. token # 0 /\ owner[token] \in Account
    BY <2>1, TypeFacts DEF PageOwn, Identities
  <2>3. shown[r].has \subseteq Entry /\ srv[owner[token]][r] \subseteq Entry
    BY <2>1, <2>2, NothingFacts DEF TypeOK
  <2>4. \A x : ~Removed(x, r) /\ ~Added(x, r)
    BY DEF Quiet, OperationUnderWay, Removed, Added, Handled
  <2>5. Matches(shown[r].has, r)
    BY <2>1, <2>2 DEF UpTo
  <2>. QED BY <2>3, <2>4, <2>5 DEF Matches
<1>. QED BY <1>1, AccountPageInvariant, PTL

\* With nothing under way and no redirect to come, the page is not that of an identity
\* whose sessions it has ended, unless an answer was lost (redirectToLogin, savePassword,
\* saveMFA, requestAccountDeletion).
THEOREM EndedIdentityIsLeft == Spec => []EndedIsLeft
<1>1. IndInv => EndedIsLeft
  BY DEF IndInv, Endings, Leaving, EndedIsLeft, Quiet, OperationUnderWay
<1>. QED BY <1>1, AccountPageInvariant, PTL
=============================================================================
