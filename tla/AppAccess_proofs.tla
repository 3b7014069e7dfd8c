--------------------------- MODULE AppAccess_proofs ---------------------------
(***************************************************************************)
(* Proofs about the access rules of a developer's applications, for any    *)
(* number of accounts, applications, groups, token families and requests.  *)
(***************************************************************************)
EXTENDS AppAccess, TLAPS

\* At most one request of the console at a time, or no instance in which group bindings
\* and memberships are both written.
Alone == (\A d, e \in Dev : d = e) \/ ~({"bindings", "groups"} \subseteq Ops)

PairOf(b) == <<b.app, b.user>>
FamilyPair(f) == <<family[f].app, family[f].user>>

-----------------------------------------------------------------------------
(* What holds with any number of requests *)

\* What a request of the console holds in each of its states.
DevSound(r) ==
    /\ r.pc \in {"ban.write", "unban.write", "bindings.write", "bindings.users", "revoke"} => r.app \in App
    /\ r.pc \in {"groups.members", "groups.write"} => r.group \in Group
    /\ r.pc = "groups.write" => r.writes \subseteq r.users
    /\ r.pc \in {"groups.apps", "groups.members", "groups.write"} => "groups" \in Ops
    /\ r.pc \in {"bindings.write", "bindings.users"} => "bindings" \in Ops

\* Tokens are issued to a user who has consented, with a version that was the current
\* one, and both only grow.
Consented(p) == p \in Pair /\ consent[p] # "none"

ReqSound(r) ==
    r.pc # "idle" => Consented(<<r.app, r.user>>) /\ r.ver <= version[<<r.app, r.user>>]

Issued ==
    /\ \A b \in bearer : Consented(PairOf(b)) /\ b.ver <= version[PairOf(b)]
    /\ \A f \in Family : family[f].st # "absent" => Consented(FamilyPair(f))
    /\ \A w \in Worker : ReqSound(req[w])

IndInv == TypeOK /\ (\A d \in Dev : DevSound(dev[d])) /\ Issued

-----------------------------------------------------------------------------
(* What holds when Alone does *)

\* The pairs a request is still going to bump, and the one it has bumped last.
Due(r) == IF r.pc = "bindings.users" THEN {r.app} \X ManagedUsers(r.app) ELSE r.affected
Bumped(r) == IF r.pc = "revoke" THEN {r.app} \X r.writes ELSE {}

\* The applications bound to the group the loop is at are going to be bumped.
Listed(r) == r.pc \in {"groups.members", "groups.write"} => AppsOf(r.group) \X r.users \subseteq r.affected

\* Each token the rules written had let out has ended or is going to be ended.
Owes(r) ==
    /\ \A b \in r.before \cap AccessToken :
          /\ b.ver <= version[PairOf(b)]
          /\ b.ver = version[PairOf(b)] => PairOf(b) \in Due(r)
    /\ \A f \in r.before \cap Family :
          /\ family[f].st # "absent"
          /\ family[f].st = "live" => FamilyPair(f) \in Due(r) \cup Bumped(r)

\* What a complete change had to end has ended.
Over ==
    /\ \A b \in ended \cap AccessToken : b.ver < version[PairOf(b)]
    /\ \A f \in ended \cap Family : family[f].st = "revoked"

RuleInv == (\A d \in Dev : Listed(dev[d]) /\ Owes(dev[d])) /\ Over

-----------------------------------------------------------------------------
(* Frames of the invariant: steps of the console, and steps of the token endpoint *)

\* Nobody loses a consent row, and no version goes back.
Grows ==
    /\ version' \in [Pair -> 1..MaxVersion]
    /\ consent' \in [Pair -> {"none", "live", "revoked"}]
    /\ \A p \in Pair : version[p] <= version'[p] /\ (consent[p] # "none" => consent'[p] # "none")

\* Families are left alone or revoked.
Revoking ==
    /\ family' \in [Family -> [st: {"absent", "live", "revoked"}, app: App \cup {None},
                               user: User \cup {None}]]
    /\ \A f \in Family : /\ family'[f].st = family[f].st \/ family'[f].st = "revoked"
                         /\ family'[f].app = family[f].app /\ family'[f].user = family[f].user
                         /\ family[f].st = "absent" => family'[f].st = "absent"

LEMMA NothingGrows ==
    ASSUME TypeOK, UNCHANGED <<version, consent>>
    PROVE  Grows
<1>1. \A p \in Pair : version[p] \in Nat
  BY MaxVersionAssumption DEF TypeOK
<1>. QED BY <1>1 DEF TypeOK, Grows

LEMMA NothingRevoked ==
    ASSUME TypeOK, UNCHANGED family
    PROVE  Revoking
BY DEF TypeOK, Revoking

LEMMA ConsentKept ==
    ASSUME Grows, NEW p, Consented(p)
    PROVE  Consented(p)'
BY DEF Grows, Consented

\* The parts that a step of the console leaves to the token endpoint.
LEMMA IssuedKept ==
    ASSUME TypeOK, Issued, Grows, Revoking, UNCHANGED <<bearer, req>>
    PROVE  Issued'
<1>1. \A p \in Pair : version[p] \in Nat /\ version'[p] \in Nat
  BY MaxVersionAssumption DEF TypeOK, Grows
<1>2. ASSUME NEW b \in bearer
      PROVE  Consented(PairOf(b))' /\ b.ver <= version'[PairOf(b)]
  <2>1. Consented(PairOf(b)) /\ b.ver <= version[PairOf(b)] /\ b.ver \in Nat
    BY MaxVersionAssumption DEF Issued, TypeOK, AccessToken
  <2>. QED BY <1>1, <2>1, ConsentKept DEF Consented, Grows
<1>3. ASSUME NEW f \in Family, family'[f].st # "absent"
      PROVE  Consented(FamilyPair(f))'
  <2>1. family[f].st # "absent" /\ FamilyPair(f)' = FamilyPair(f)
    BY <1>3 DEF Revoking, FamilyPair
  <2>. QED BY <2>1, ConsentKept DEF Issued, Consented
<1>4. ASSUME NEW w \in Worker
      PROVE  ReqSound(req[w])'
  <2>1. req[w].ver \in Nat /\ req'[w] = req[w]
    BY MaxVersionAssumption DEF TypeOK, TokenRequest
  <2>. QED BY <1>1, <2>1, ConsentKept DEF Issued, ReqSound, Consented, Grows
<1>. QED BY <1>2, <1>3, <1>4 DEF Issued, PairOf

\* The rules keep their types.
RulesTyped ==
    /\ groups' \in [Group -> {"new", "open", "deleted"}]
    /\ members' \subseteq Group \X User
    /\ bindings' \subseteq App \X Group
    /\ ban' \in [Pair -> {"none", "timed", "forever", "over"}]

LEMMA RulesKept == TypeOK /\ UNCHANGED rules => RulesTyped
BY DEF TypeOK, RulesTyped, rules

\* The request of one developer changes.
LEMMA ConsoleStep ==
    ASSUME IndInv, NEW d \in Dev, NEW r \in DevRequest, DevSound(r),
           dev' = [dev EXCEPT ![d] = r],
           RulesTyped, Grows, Revoking, UNCHANGED <<bearer, req>>,
           ended' \subseteq AccessToken \cup Family
    PROVE  IndInv'
<1>1. TypeOK'
  BY DEF IndInv, TypeOK, RulesTyped, Grows, Revoking
<1>2. \A e \in Dev : DevSound(dev'[e])
  BY DEF IndInv, TypeOK
<1>3. Issued'
  BY IssuedKept DEF IndInv
<1>. QED BY <1>1, <1>2, <1>3 DEF IndInv, DevSound

\* The request of one worker changes, and the tokens.
LEMMA TokenStep ==
    ASSUME IndInv, NEW w \in Worker, NEW r \in TokenRequest, ReqSound(r),
           req' = [req EXCEPT ![w] = r],
           UNCHANGED <<groups, members, bindings, ban, version, consent, dev, ended>>,
           family' \in [Family -> [st: {"absent", "live", "revoked"}, app: App \cup {None},
                                   user: User \cup {None}]],
           \A f \in Family : family'[f] = family[f] \/ Consented(FamilyPair(f))',
           bearer' \subseteq AccessToken,
           \A b \in bearer' \ bearer : Consented(PairOf(b)) /\ b.ver <= version[PairOf(b)]
    PROVE  IndInv'
<1>1. TypeOK'
  BY DEF IndInv, TypeOK
<1>2. \A b \in bearer' : Consented(PairOf(b))' /\ b.ver <= version'[PairOf(b)]
  BY DEF IndInv, Issued, Consented
<1>3. ASSUME NEW f \in Family, family'[f].st # "absent"
      PROVE  Consented(FamilyPair(f))'
  <2>1. CASE family'[f] = family[f]
    BY <1>3, <2>1 DEF IndInv, Issued, Consented, FamilyPair
  <2>. QED BY <2>1
<1>4. ASSUME NEW v \in Worker
      PROVE  ReqSound(req[v])'
  <2>1. req'[v] = r \/ req'[v] = req[v]
    BY DEF IndInv, TypeOK
  <2>. QED BY <2>1 DEF IndInv, Issued, ReqSound, Consented
<1>5. \A e \in Dev : DevSound(dev[e])'
  BY DEF IndInv, DevSound
<1>. QED BY <1>1, <1>2, <1>3, <1>4, <1>5 DEF IndInv, Issued, PairOf

-----------------------------------------------------------------------------
(* The requests *)

LEMMA DevIdleRequest ==
    /\ DevIdle \in DevRequest /\ DevSound(DevIdle)
    /\ DevIdle.pc = "idle" /\ DevIdle.before = {} /\ DevIdle.affected = {}
BY DEF DevIdle, DevRequest, DevPC, DevSound

LEMMA IdleRequest == Idle \in TokenRequest /\ ReqSound(Idle)
BY MaxVersionAssumption DEF Idle, TokenRequest, PC, ReqSound

LEMMA Parts ==
    ASSUME IndInv
    PROVE  /\ TypeOK
           /\ \A d \in Dev : dev[d] \in DevRequest /\ DevSound(dev[d])
           /\ \A w \in Worker : req[w] \in TokenRequest /\ ReqSound(req[w])
BY DEF IndInv, TypeOK, Issued

LEMMA OutTokens ==
    ASSUME TypeOK, NEW S
    PROVE  /\ Out(S) \subseteq AccessToken \cup Family
           /\ \A b \in Out(S) \cap AccessToken : b \in bearer /\ PairOf(b) \in S
           /\ \A f \in Out(S) \cap Family : family[f].st = "live" /\ FamilyPair(f) \in S
BY FamilyAssumption DEF TypeOK, Out, PairOf, FamilyPair

LEMMA BumpRequest ==
    ASSUME NEW q \in DevRequest,
           NEW affected \in SUBSET Pair, NEW before \in SUBSET (AccessToken \cup Family)
    PROVE  LET r == [DevIdle EXCEPT !.pc = "bump", !.mode = q.mode, !.affected = affected, !.before = before]
           IN  /\ r \in DevRequest /\ DevSound(r)
               /\ r.pc = "bump" /\ r.affected = affected /\ r.before = before
BY DevIdleRequest DEF DevRequest, DevPC, DevSound

-----------------------------------------------------------------------------
LEMMA InitIndInv == Init => IndInv
<1>. SUFFICES ASSUME Init PROVE IndInv
  OBVIOUS
<1>1. TypeOK
  <2>1. 1 \in 1..MaxVersion
    BY MaxVersionAssumption
  <2>2. dev \in [Dev -> DevRequest] /\ req \in [Worker -> TokenRequest]
    BY DevIdleRequest, IdleRequest DEF Init
  <2>. QED BY <2>1, <2>2 DEF Init, TypeOK
<1>2. \A d \in Dev : DevSound(dev[d])
  BY DevIdleRequest DEF Init
<1>3. Issued
  BY IdleRequest DEF Init, Issued
<1>. QED BY <1>1, <1>2, <1>3 DEF IndInv

LEMMA ConsoleIndInv ==
    ASSUME IndInv, NEW d \in Dev, DevBegins(d) \/ DevStep(d) \/ AbortDev(d)
    PROVE  IndInv'
<1>. DEFINE q == dev[d]
<1>0. /\ TypeOK /\ q \in DevRequest /\ DevSound(q)
      /\ ended \cup q.before \subseteq AccessToken \cup Family
  BY Parts DEF TypeOK, DevRequest
<1>1. ASSUME NEW r \in DevRequest, DevSound(r), Begin(d, r)
      PROVE  IndInv'
  <2>1. RulesTyped /\ Grows /\ Revoking /\ ended' \subseteq AccessToken \cup Family
    BY <1>0, <1>1, RulesKept, NothingGrows, NothingRevoked DEF Begin, tokens, TypeOK
  <2>. QED BY <1>1, <2>1, ConsoleStep DEF Begin, tokens
<1>2. ASSUME NEW a \in App, NEW u \in User, BanAppUser(d, a, u)
      PROVE  IndInv'
  <2>. DEFINE r == [DevIdle EXCEPT !.pc = "ban.write", !.app = a, !.users = {u}]
  <2>1. r \in DevRequest /\ DevSound(r)
    BY DevIdleRequest DEF DevRequest, DevPC, DevSound
  <2>. QED BY <1>1, <1>2, <2>1 DEF BanAppUser
<1>3. ASSUME NEW a \in App, NEW u \in User, UnbanAppUser(d, a, u)
      PROVE  IndInv'
  <2>. DEFINE r == [DevIdle EXCEPT !.pc = "unban.write", !.app = a, !.users = {u}]
  <2>1. r \in DevRequest /\ DevSound(r)
    BY DevIdleRequest DEF DevRequest, DevPC, DevSound
  <2>. QED BY <1>1, <1>3, <2>1 DEF UnbanAppUser
<1>4. ASSUME NEW a \in App, NEW G \in SUBSET Group, UpdateAppBindings(d, a, G)
      PROVE  IndInv'
  <2>. DEFINE r == [DevIdle EXCEPT !.pc = "bindings.write", !.app = a, !.sel = G]
  <2>1. r \in DevRequest /\ DevSound(r)
    BY <1>4, DevIdleRequest DEF UpdateAppBindings, DevRequest, DevPC, DevSound
  <2>. QED BY <1>1, <1>4, <2>1 DEF UpdateAppBindings
<1>5. ASSUME NEW U \in (SUBSET User) \ {{}}, NEW G \in SUBSET Group,
             NEW m \in {"append", "replace", "remove"}, BatchUpdateManagedUserGroups(d, U, G, m)
      PROVE  IndInv'
  <2>. DEFINE todo == IF m = "replace" THEN {g \in Group : groups[g] = "open"} ELSE G
              r == [DevIdle EXCEPT !.pc = "groups.apps", !.users = U, !.sel = G, !.mode = m,
                                   !.todo = todo]
  <2>1. todo \subseteq Group
    OBVIOUS
  <2>2. r \in DevRequest /\ DevSound(r)
    <3>. HIDE DEF todo
    <3>. QED BY <1>5, <2>1, DevIdleRequest DEF BatchUpdateManagedUserGroups, DevRequest, DevPC, DevSound
  <2>. QED BY <1>1, <1>5, <2>2 DEF BatchUpdateManagedUserGroups
<1>6. ASSUME NEW g \in Group, DeleteDeveloperGroup(d, g)
      PROVE  IndInv'
  <2>. DEFINE r == [DevIdle EXCEPT !.pc = "delete.write", !.group = g]
  <2>1. r \in DevRequest /\ DevSound(r)
    BY DevIdleRequest DEF DevRequest, DevPC, DevSound
  <2>. QED BY <1>1, <1>6, <2>1 DEF DeleteDeveloperGroup
<1>7. ASSUME WriteBan(d)
      PROVE  IndInv'
  <2>. DEFINE hit == {q.app} \X q.users
  <2>1. hit \subseteq Pair
    BY <1>0, <1>7 DEF WriteBan, DevSound, DevRequest, Pair
  <2>2. RulesTyped
    BY <1>0, <1>7 DEF WriteBan, TypeOK, RulesTyped
  <2>3. Grows /\ Revoking /\ ended' \subseteq AccessToken \cup Family
    BY <1>0, <1>7, NothingGrows, NothingRevoked DEF WriteBan, tokens, TypeOK
  <2>4. Out(hit) \subseteq AccessToken \cup Family
    BY <1>0, OutTokens
  <2>5. /\ dev' = [dev EXCEPT ![d] = [DevIdle EXCEPT !.pc = "bump", !.mode = q.mode, !.affected = hit, !.before = Out(hit)]]
        /\ UNCHANGED <<bearer, req>>
    BY <1>7 DEF WriteBan, BumpAll, tokens
  <2>. DEFINE b == [DevIdle EXCEPT !.pc = "bump", !.mode = q.mode, !.affected = hit, !.before = Out(hit)]
  <2>. HIDE DEF hit
  <2>6. b \in DevRequest /\ DevSound(b)
    <3>. HIDE DEF q
    <3>. QED BY <1>0, <2>1, <2>4, BumpRequest
  <2>7. dev' = [dev EXCEPT ![d] = b]
    BY <2>5
  <2>. HIDE DEF b
  <2>. QED BY <2>2, <2>3, <2>5, <2>6, <2>7, ConsoleStep
<1>8. ASSUME WriteBindings(d)
      PROVE  IndInv'
  <2>. DEFINE r == [q EXCEPT !.pc = "bindings.users", !.sel = {}, !.before = Out({q.app} \X User)]
  <2>1. q.app \in App /\ "bindings" \in Ops
    BY <1>0, <1>8 DEF WriteBindings, DevSound
  <2>2. Out({q.app} \X User) \subseteq AccessToken \cup Family
    BY <1>0, OutTokens
  <2>3. r \in DevRequest /\ DevSound(r)
    <3>. HIDE DEF q
    <3>. QED BY <1>0, <2>1, <2>2 DEF DevRequest, DevPC, DevSound
  <2>4. RulesTyped
    BY <1>0, <1>8, <2>1 DEF WriteBindings, TypeOK, RulesTyped, DevRequest
  <2>5. Grows /\ Revoking /\ ended' \subseteq AccessToken \cup Family
    BY <1>0, <1>8, NothingGrows, NothingRevoked DEF WriteBindings, tokens, TypeOK
  <2>6. dev' = [dev EXCEPT ![d] = r] /\ UNCHANGED <<bearer, req>>
    BY <1>0, <1>8 DEF WriteBindings, tokens, TypeOK
  <2>. HIDE DEF r
  <2>. QED BY <2>3, <2>4, <2>5, <2>6, ConsoleStep
<1>9. ASSUME ListManagedUsers(d)
      PROVE  IndInv'
  <2>. DEFINE hit == {q.app} \X ManagedUsers(q.app)
              r == [DevIdle EXCEPT !.pc = "bump", !.mode = q.mode, !.affected = hit, !.before = q.before]
  <2>1. RulesTyped /\ Grows /\ Revoking /\ UNCHANGED <<bearer, req>>
    BY <1>0, <1>9, RulesKept, NothingGrows, NothingRevoked DEF ListManagedUsers, tokens
  <2>2. hit \subseteq Pair
    BY <1>0, <1>9 DEF ListManagedUsers, DevSound, Pair, ManagedUsers
  <2>3. r \in DevRequest /\ DevSound(r)
    <3>1. q.before \in SUBSET (AccessToken \cup Family)
      BY <1>0 DEF DevRequest
    <3>. HIDE DEF q, hit
    <3>. QED BY <1>0, <2>2, <3>1, BumpRequest
  <2>4. \/ dev' = [dev EXCEPT ![d] = DevIdle] /\ ended' = ended \cup q.before
        \/ dev' = [dev EXCEPT ![d] = r] /\ ended' = ended
    BY <1>9 DEF ListManagedUsers, Return, BumpAll
  <2>. HIDE DEF r, q
  <2>. QED BY <1>0, <2>1, <2>3, <2>4, DevIdleRequest, ConsoleStep
<1>10. ASSUME WriteDelete(d)
       PROVE  IndInv'
  <2>1. RulesTyped
    BY <1>0, <1>10 DEF WriteDelete, TypeOK, RulesTyped
  <2>2. Grows /\ Revoking /\ ended' \subseteq AccessToken \cup Family
    BY <1>0, <1>10, NothingGrows, NothingRevoked DEF WriteDelete, tokens, TypeOK
  <2>3. dev' = [dev EXCEPT ![d] = DevIdle] /\ UNCHANGED <<bearer, req>>
    BY <1>10 DEF WriteDelete, tokens
  <2>. QED BY <2>1, <2>2, <2>3, DevIdleRequest, ConsoleStep
<1>11. ASSUME ListGroupApps(d)
       PROVE  IndInv'
  <2>. DEFINE b == [DevIdle EXCEPT !.pc = "bump", !.mode = q.mode, !.affected = q.affected, !.before = q.before]
  <2>1. RulesTyped /\ Grows /\ Revoking /\ UNCHANGED <<bearer, req>>
    BY <1>0, <1>11, RulesKept, NothingGrows, NothingRevoked DEF ListGroupApps, tokens
  <2>2. CASE dev' = [dev EXCEPT ![d] = DevIdle] /\ ended' = ended \cup q.before
    BY <1>0, <2>1, <2>2, DevIdleRequest, ConsoleStep
  <2>3. CASE dev' = [dev EXCEPT ![d] = b] /\ ended' = ended
    <3>1. b \in DevRequest /\ DevSound(b)
      BY <1>0, BumpRequest DEF DevRequest
    <3>. HIDE DEF b
    <3>. QED BY <1>0, <2>1, <2>3, <3>1, ConsoleStep DEF TypeOK
  <2>4. ASSUME NEW g \in q.todo, ended' = ended,
               dev' = [dev EXCEPT ![d].pc = "groups.members", ![d].group = g, ![d].todo = q.todo \ {g},
                                  ![d].affected = q.affected \cup (AppsOf(g) \X q.users)]
        PROVE  IndInv'
    <3>. DEFINE todo == q.todo \ {g}
                affected == q.affected \cup (AppsOf(g) \X q.users)
                r == [q EXCEPT !.pc = "groups.members", !.group = g, !.todo = todo, !.affected = affected]
    <3>1. g \in Group /\ "groups" \in Ops
      BY <1>0, <1>11 DEF ListGroupApps, DevSound, DevRequest
    <3>2. todo \in SUBSET Group /\ affected \in SUBSET Pair
      BY <1>0 DEF DevRequest, AppsOf, Pair
    <3>3. dev' = [dev EXCEPT ![d] = r]
      BY <1>0, <2>4 DEF TypeOK
    <3>. HIDE DEF todo, affected
    <3>4. r \in DevRequest /\ DevSound(r)
      <4>. HIDE DEF q
      <4>. QED BY <1>0, <3>1, <3>2 DEF DevRequest, DevPC, DevSound
    <3>. HIDE DEF r
    <3>. QED BY <1>0, <2>1, <2>4, <3>3, <3>4, ConsoleStep DEF TypeOK
  <2>5. \/ dev' = [dev EXCEPT ![d] = DevIdle] /\ ended' = ended \cup q.before
        \/ dev' = [dev EXCEPT ![d] = b] /\ ended' = ended
        \/ \E g \in q.todo :
             /\ dev' = [dev EXCEPT ![d].pc = "groups.members", ![d].group = g, ![d].todo = q.todo \ {g},
                                   ![d].affected = q.affected \cup (AppsOf(g) \X q.users)]
             /\ ended' = ended
    BY <1>11 DEF ListGroupApps, Return, BumpAll
  <2>. HIDE DEF b
  <2>. QED BY <2>2, <2>3, <2>4, <2>5
<1>12. ASSUME ListGroupMembers(d)
       PROVE  IndInv'
  <2>. DEFINE in == {u \in q.users : <<q.group, u>> \in members}
              change == CASE q.mode = "remove" -> in
                          [] q.group \in q.sel -> q.users \ in
                          [] OTHER -> in
              group == IF change = {} THEN None ELSE q.group
              pc == IF change = {} THEN "groups.apps" ELSE "groups.write"
              r == [q EXCEPT !.writes = change, !.group = group, !.pc = pc]
  <2>1. RulesTyped /\ Grows /\ Revoking /\ UNCHANGED <<bearer, req, ended>>
    BY <1>0, <1>12, RulesKept, NothingGrows, NothingRevoked DEF ListGroupMembers, tokens
  <2>2. q.group \in Group /\ "groups" \in Ops /\ q.users \in SUBSET User
    BY <1>0, <1>12 DEF ListGroupMembers, DevSound, DevRequest
  <2>3. change \subseteq q.users
    OBVIOUS
  <2>4. dev' = [dev EXCEPT ![d] = r]
    <3>1. dev' = [dev EXCEPT ![d].writes = change, ![d].group = group, ![d].pc = pc]
      BY <1>12 DEF ListGroupMembers
    <3>. HIDE DEF group, pc, change
    <3>. QED BY <1>0, <3>1 DEF TypeOK
  <2>5. r \in DevRequest /\ DevSound(r)
    <3>. HIDE DEF change, q
    <3>1. /\ group \in Group \cup {None} /\ pc \in {"groups.apps", "groups.write"}
          /\ pc = "groups.write" => group \in Group
      BY <2>2
    <3>. HIDE DEF group, pc
    <3>. QED BY <1>0, <2>2, <2>3, <3>1 DEF DevRequest, DevPC, DevSound
  <2>. HIDE DEF r
  <2>. QED BY <1>0, <2>1, <2>4, <2>5, ConsoleStep DEF TypeOK
<1>13. ASSUME WriteMember(d)
       PROVE  IndInv'
  <2>1. PICK u \in q.writes :
          LET last == q.writes = {u} IN
          /\ members' \in {members \cup {<<q.group, u>>}, members \ {<<q.group, u>>}}
          /\ dev' = [dev EXCEPT
                ![d].writes = q.writes \ {u},
                ![d].group = IF last THEN None ELSE q.group,
                ![d].pc = IF last THEN "groups.apps" ELSE "groups.write",
                ![d].before = IF members' = members THEN q.before
                              ELSE q.before \cup Out(AppsOf(q.group) \X {u})]
    BY <1>13 DEF WriteMember
  <2>. DEFINE writes == q.writes \ {u}
              group == IF q.writes = {u} THEN None ELSE q.group
              pc == IF q.writes = {u} THEN "groups.apps" ELSE "groups.write"
              before == IF members' = members THEN q.before
                        ELSE q.before \cup Out(AppsOf(q.group) \X {u})
              r == [q EXCEPT !.writes = writes, !.group = group, !.pc = pc, !.before = before]
  <2>2. /\ q.group \in Group /\ "groups" \in Ops /\ q.writes \subseteq q.users
        /\ q.users \in SUBSET User
    BY <1>0, <1>13 DEF WriteMember, DevSound, DevRequest
  <2>3. RulesTyped
    <3>1. <<q.group, u>> \in Group \X User
      BY <2>2
    <3>2. members' \subseteq Group \X User
      <4>. HIDE DEF q
      <4>. QED BY <1>0, <2>1, <3>1 DEF TypeOK
    <3>. QED BY <1>0, <1>13, <3>2 DEF WriteMember, RulesTyped, TypeOK
  <2>4. Grows /\ Revoking /\ UNCHANGED <<bearer, req, ended>>
    BY <1>0, <1>13, NothingGrows, NothingRevoked DEF WriteMember, tokens
  <2>5. before \subseteq AccessToken \cup Family
    BY <1>0, OutTokens DEF DevRequest
  <2>6. dev' = [dev EXCEPT ![d] = r]
    BY <1>0, <2>1 DEF TypeOK
  <2>7. r \in DevRequest /\ DevSound(r)
    <3>. HIDE DEF before, q
    <3>1. /\ group \in Group \cup {None} /\ pc \in {"groups.apps", "groups.write"}
          /\ pc = "groups.write" => group \in Group
      BY <2>2
    <3>2. writes \in SUBSET User /\ writes \subseteq q.users
      BY <2>2
    <3>. HIDE DEF group, pc, writes
    <3>. QED BY <1>0, <2>2, <2>5, <3>1, <3>2 DEF DevRequest, DevPC, DevSound
  <2>. HIDE DEF r
  <2>. QED BY <1>0, <2>3, <2>4, <2>6, <2>7, ConsoleStep DEF TypeOK
<1>14. ASSUME Bump(d)
       PROVE  IndInv'
  <2>1. PICK p \in q.affected :
          /\ version[p] < MaxVersion
          /\ version' = [version EXCEPT ![p] = version[p] + 1]
          /\ dev' = [dev EXCEPT ![d].pc = "revoke", ![d].app = p[1], ![d].writes = {p[2]},
                                ![d].affected = q.affected \ {p}]
    BY <1>14 DEF Bump
  <2>. DEFINE affected == q.affected \ {p}
              r == [q EXCEPT !.pc = "revoke", !.app = p[1], !.writes = {p[2]}, !.affected = affected]
  <2>2. p \in Pair /\ p[1] \in App /\ p[2] \in User /\ affected \in SUBSET Pair
    BY <1>0 DEF DevRequest, Pair
  <2>3. RulesTyped /\ Revoking /\ UNCHANGED <<consent, bearer, req, ended>>
    BY <1>0, <1>14, RulesKept, NothingRevoked DEF Bump, tokens
  <2>4. Grows
    <3>1. \A o \in Pair : version[o] \in Nat
      BY <1>0, MaxVersionAssumption DEF TypeOK
    <3>2. version[p] + 1 \in 1..MaxVersion
      BY <2>1, <2>2, <3>1, MaxVersionAssumption
    <3>. HIDE DEF q
    <3>. QED BY <1>0, <2>1, <2>2, <2>3, <3>1, <3>2 DEF TypeOK, Grows
  <2>5. dev' = [dev EXCEPT ![d] = r]
    BY <1>0, <2>1 DEF TypeOK
  <2>6. r \in DevRequest /\ DevSound(r)
    <3>. HIDE DEF q, affected
    <3>. QED BY <1>0, <2>2 DEF DevRequest, DevPC, DevSound
  <2>. HIDE DEF r
  <2>. QED BY <1>0, <2>3, <2>4, <2>5, <2>6, ConsoleStep DEF TypeOK
<1>15. ASSUME Revoke(d)
       PROVE  IndInv'
  <2>. DEFINE hit == {f \in Family : family[f].st = "live" /\ family[f].app = q.app
                                      /\ family[f].user \in q.writes}
  <2>0. PICK missed \in {{}, hit} :
          /\ family' = [f \in Family |-> IF f \in hit \ missed
                                          THEN [family[f] EXCEPT !.st = "revoked"] ELSE family[f]]
          /\ \/ /\ dev' = [dev EXCEPT ![d] = DevIdle]
                /\ ended' = ended \cup (q.before \ missed)
             \/ BumpAll(d, q.affected, q.before \ missed) /\ ended' = ended
    BY <1>15 DEF Revoke
  <2>. DEFINE before == q.before \ missed
              b == [DevIdle EXCEPT !.pc = "bump", !.mode = q.mode, !.affected = q.affected,
                                   !.before = before]
  <2>1. RulesTyped /\ Grows /\ UNCHANGED <<bearer, req>>
    BY <1>0, <1>15, RulesKept, NothingGrows DEF Revoke
  <2>2. Revoking
    <3>1. \A f \in hit : family[f].st = "live"
      OBVIOUS
    <3>. HIDE DEF hit
    <3>. QED BY <1>0, <2>0, <3>1 DEF Revoking, TypeOK
  <2>. HIDE DEF hit
  <2>3. b \in DevRequest /\ DevSound(b)
    <3>1. before \in SUBSET (AccessToken \cup Family) /\ q.affected \in SUBSET Pair
      BY <1>0 DEF DevRequest
    <3>. HIDE DEF before, q
    <3>. QED BY <1>0, <3>1, BumpRequest
  <2>4. \/ dev' = [dev EXCEPT ![d] = DevIdle] /\ ended' = ended \cup before
        \/ dev' = [dev EXCEPT ![d] = b] /\ ended' = ended
    BY <2>0 DEF BumpAll
  <2>5. before \subseteq AccessToken \cup Family /\ ended \subseteq AccessToken \cup Family
    BY <1>0
  <2>. HIDE DEF b, q, before
  <2>. QED BY <2>1, <2>2, <2>3, <2>4, <2>5, DevIdleRequest, ConsoleStep
<1>16. ASSUME AbortDev(d)
       PROVE  IndInv'
  <2>1. RulesTyped /\ Grows /\ Revoking /\ UNCHANGED <<bearer, req, ended>>
    BY <1>0, <1>16, RulesKept, NothingGrows, NothingRevoked DEF AbortDev, tokens
  <2>2. dev' = [dev EXCEPT ![d] = DevIdle]
    BY <1>16 DEF AbortDev
  <2>. QED BY <1>0, <2>1, <2>2, DevIdleRequest, ConsoleStep DEF TypeOK
<1>. QED BY <1>2, <1>3, <1>4, <1>5, <1>6, <1>7, <1>8, <1>9, <1>10, <1>11, <1>12, <1>13, <1>14,
            <1>15, <1>16 DEF DevBegins, DevStep

LEMMA TokenIndInv ==
    ASSUME IndInv, NEW w \in Worker, RequestStep(w)
    PROVE  IndInv'
<1>. DEFINE q == req[w]
<1>0. TypeOK /\ q \in TokenRequest /\ ReqSound(q)
  BY Parts
<1>1. ASSUME NEW r \in TokenRequest, ReqSound(r), req' = [req EXCEPT ![w] = r], Unmoved, UNCHANGED tokens
      PROVE  IndInv'
  BY <1>0, <1>1, TokenStep DEF Unmoved, rules, tokens, TypeOK
<1>2. ASSUME NEW a \in App, NEW u \in User, Exchange(w, a, u)
      PROVE  IndInv'
  <2>. DEFINE r == [Idle EXCEPT !.pc = "ban", !.app = a, !.user = u]
  <2>1. 1 <= version[<<a, u>>]
    BY <1>0, MaxVersionAssumption DEF TypeOK, Pair
  <2>2. r \in TokenRequest /\ ReqSound(r)
    BY <1>2, <2>1, IdleRequest DEF Exchange, TokenRequest, PC, ReqSound, Consented, Pair, Idle
  <2>. HIDE DEF r
  <2>. QED BY <1>1, <1>2, <2>2 DEF Exchange, r
<1>3. ASSUME NEW f \in Family, Refresh(w, f)
      PROVE  IndInv'
  <2>. DEFINE r == [Idle EXCEPT !.pc = "ban", !.app = family[f].app, !.user = family[f].user,
                                !.family = f]
  <2>1. family[f].app \in App /\ family[f].user \in User /\ consent[FamilyPair(f)] # "none"
    BY <1>3 DEF IndInv, Issued, Refresh, Consented, FamilyPair, Pair
  <2>2. 1 <= version[FamilyPair(f)]
    BY <1>0, <2>1, MaxVersionAssumption DEF TypeOK, Pair, FamilyPair
  <2>3. r \in TokenRequest /\ ReqSound(r)
    BY <2>1, <2>2, IdleRequest DEF TokenRequest, PC, ReqSound, Consented, Pair, Idle, FamilyPair
  <2>. HIDE DEF r
  <2>. QED BY <1>1, <1>3, <2>3 DEF Refresh, r
<1>4. \A pc \in PC : /\ [q EXCEPT !.pc = pc] \in TokenRequest
                     /\ q.pc # "idle" => ReqSound([q EXCEPT !.pc = pc])
  <2>. HIDE DEF q
  <2>. QED BY <1>0 DEF TokenRequest, ReqSound
<1>5. ASSUME GetActiveAppUserBan(w)
      PROVE  IndInv'
  <2>1. CASE Refuse(w)
    BY <1>1, <1>5, <2>1, IdleRequest DEF GetActiveAppUserBan, Refuse
  <2>2. CASE Continue(w, "bindings")
    <3>1. req' = [req EXCEPT ![w] = [q EXCEPT !.pc = "bindings"]]
      BY <1>0, <2>2 DEF Continue, TypeOK
    <3>2. "bindings" \in PC /\ q.pc # "idle"
      BY <1>5 DEF PC, GetActiveAppUserBan
    <3>. QED BY <1>1, <1>4, <1>5, <3>1, <3>2 DEF GetActiveAppUserBan
  <2>. QED BY <1>5, <2>1, <2>2 DEF GetActiveAppUserBan
<1>6. ASSUME ListAppGroupBindings(w)
      PROVE  IndInv'
  <2>. DEFINE bound == BoundGroups(q.app)
              pc == IF bound = {} THEN "version" ELSE "groups"
              r == [q EXCEPT !.bound = bound, !.pc = pc]
  <2>1. req' = [req EXCEPT ![w] = r]
    BY <1>0, <1>6 DEF ListAppGroupBindings, TypeOK
  <2>2. bound \subseteq Group /\ pc \in PC
    BY DEF BoundGroups, PC
  <2>3. r \in TokenRequest /\ ReqSound(r)
    <3>1. q.pc # "idle"
      BY <1>6 DEF ListAppGroupBindings
    <3>. HIDE DEF bound, pc, q
    <3>. QED BY <1>0, <2>2, <3>1 DEF TokenRequest, ReqSound
  <2>. HIDE DEF r
  <2>. QED BY <1>1, <1>6, <2>1, <2>3 DEF ListAppGroupBindings
<1>7. ASSUME ListUserGroupsByOwner(w)
      PROVE  IndInv'
  <2>. DEFINE r == [q EXCEPT !.bound = {}, !.pc = "version"]
  <2>1. Refuse(w) \/ req' = [req EXCEPT ![w] = r]
    BY <1>0, <1>7 DEF ListUserGroupsByOwner, TypeOK
  <2>2. r \in TokenRequest /\ ReqSound(r)
    <3>1. q.pc # "idle"
      BY <1>7 DEF ListUserGroupsByOwner
    <3>. HIDE DEF q
    <3>. QED BY <1>0, <3>1 DEF TokenRequest, ReqSound, PC
  <2>. HIDE DEF r
  <2>. QED BY <1>1, <1>7, <2>1, <2>2, IdleRequest DEF ListUserGroupsByOwner, Refuse
<1>8. ASSUME ReadVersion(w)
      PROVE  IndInv'
  <2>0. PICK ver \in GetCurrentAppAccessVersion(<<q.app, q.user>>) :
          IF q.family = None
          THEN /\ req' = [req EXCEPT ![w].pc = "save", ![w].ver = ver]
               /\ UNCHANGED tokens
          ELSE /\ bearer' = bearer \cup {[app |-> q.app, user |-> q.user, ver |-> ver]}
               /\ Refuse(w)
               /\ UNCHANGED family
    BY <1>8 DEF ReadVersion
  <2>. DEFINE r == [q EXCEPT !.pc = "save", !.ver = ver]
  <2>1. q.pc = "version" /\ Consented(<<q.app, q.user>>) /\ q.app \in App /\ q.user \in User
    BY <1>0, <1>8 DEF ReadVersion, ReqSound, Consented, Pair
  <2>2. ver \in 1..MaxVersion /\ ver <= version[<<q.app, q.user>>]
    BY <1>0, <2>1, MaxVersionAssumption DEF TypeOK, Consented, GetCurrentAppAccessVersion
  <2>3. CASE q.family = None
    <3>1. req' = [req EXCEPT ![w] = r] /\ UNCHANGED tokens
      BY <1>0, <2>0, <2>3 DEF TypeOK
    <3>2. r \in TokenRequest /\ ReqSound(r)
      <4>. HIDE DEF q
      <4>. QED BY <1>0, <2>1, <2>2 DEF TokenRequest, ReqSound, PC
    <3>. HIDE DEF r
    <3>. QED BY <1>1, <1>8, <3>1, <3>2 DEF ReadVersion
  <2>4. CASE q.family # None
    <3>. DEFINE b == [app |-> q.app, user |-> q.user, ver |-> ver]
    <3>1. req' = [req EXCEPT ![w] = Idle] /\ bearer' = bearer \cup {b} /\ family' = family
      BY <2>0, <2>4 DEF Refuse
    <3>2. b \in AccessToken /\ Consented(PairOf(b)) /\ b.ver <= version[PairOf(b)]
      BY <2>1, <2>2 DEF AccessToken, PairOf
    <3>3. bearer' \subseteq AccessToken
          /\ \A o \in bearer' \ bearer : Consented(PairOf(o)) /\ o.ver <= version[PairOf(o)]
      <4>. HIDE DEF b
      <4>. QED BY <1>0, <3>1, <3>2 DEF TypeOK
    <3>4. /\ family' \in [Family -> [st: {"absent", "live", "revoked"}, app: App \cup {None},
                                     user: User \cup {None}]]
          /\ UNCHANGED <<groups, members, bindings, ban, version, consent, dev, ended>>
      BY <1>0, <1>8, <3>1 DEF TypeOK, ReadVersion, Unmoved, rules
    <3>. HIDE DEF b
    <3>. QED BY <3>1, <3>3, <3>4, IdleRequest, TokenStep
  <2>. QED BY <2>3, <2>4
<1>9. ASSUME SaveRefreshToken(w)
      PROVE  IndInv'
  <2>. DEFINE b == [app |-> q.app, user |-> q.user, ver |-> q.ver]
              row == [st |-> "live", app |-> q.app, user |-> q.user]
  <2>1. PICK f \in Family : family[f].st = "absent" /\ family' = [family EXCEPT ![f] = row]
    BY <1>9 DEF SaveRefreshToken
  <2>2. /\ req' = [req EXCEPT ![w] = Idle] /\ bearer' = bearer \cup {b}
        /\ UNCHANGED <<groups, members, bindings, ban, version, consent, dev, ended>>
    BY <1>9 DEF SaveRefreshToken, Refuse, Unmoved, rules
  <2>3. /\ q.app \in App /\ q.user \in User /\ consent[<<q.app, q.user>>] # "none"
        /\ q.ver \in 1..MaxVersion /\ q.ver <= version[<<q.app, q.user>>]
    BY <1>0, <1>9 DEF SaveRefreshToken, ReqSound, Consented, Pair, TokenRequest
  <2>4. b \in AccessToken /\ Consented(PairOf(b)) /\ b.ver <= version[PairOf(b)]
    <3>. HIDE DEF q
    <3>. QED BY <2>3 DEF AccessToken, PairOf, Consented, Pair
  <2>5. bearer' \subseteq AccessToken
        /\ \A o \in bearer' \ bearer : Consented(PairOf(o)) /\ o.ver <= version[PairOf(o)]
    <3>. HIDE DEF b
    <3>. QED BY <1>0, <2>2, <2>4 DEF TypeOK
  <2>6. /\ family' \in [Family -> [st: {"absent", "live", "revoked"}, app: App \cup {None},
                                   user: User \cup {None}]]
        /\ \A o \in Family : family'[o] = family[o] \/ Consented(FamilyPair(o))'
    <3>1. /\ row \in [st: {"absent", "live", "revoked"}, app: App \cup {None}, user: User \cup {None}]
          /\ row.app = q.app /\ row.user = q.user
      BY <2>3
    <3>2. family' \in [Family -> [st: {"absent", "live", "revoked"}, app: App \cup {None},
                                  user: User \cup {None}]]
      <4>. HIDE DEF row
      <4>. QED BY <1>0, <2>1, <3>1 DEF TypeOK
    <3>3. \A o \in Family : family'[o] = IF o = f THEN row ELSE family[o]
      BY <1>0, <2>1 DEF TypeOK
    <3>4. consent' = consent
      BY <2>2
    <3>. HIDE DEF row, q
    <3>. QED BY <2>3, <3>1, <3>2, <3>3, <3>4 DEF Consented, FamilyPair, Pair
  <2>. HIDE DEF b, row
  <2>. QED BY <2>2, <2>5, <2>6, IdleRequest, TokenStep
<1>10. ASSUME AbortRequest(w)
       PROVE  IndInv'
  BY <1>1, <1>10, IdleRequest DEF AbortRequest, Refuse
<1>. QED BY <1>2, <1>3, <1>5, <1>6, <1>7, <1>8, <1>9, <1>10 DEF RequestStep

LEMMA NextIndInv == IndInv /\ [Next]_vars => IndInv'
<1>. SUFFICES ASSUME IndInv, [Next]_vars
              PROVE  IndInv'
  OBVIOUS
<1>0. TypeOK /\ (\A d \in Dev : DevSound(dev[d])) /\ Issued
  BY DEF IndInv
<1>1. ASSUME UNCHANGED <<dev, family, bearer, req, ended>>, RulesTyped, Grows
      PROVE  IndInv'
  <2>1. Issued'
    BY <1>0, <1>1, NothingRevoked, IssuedKept
  <2>. QED BY <1>0, <1>1, <2>1 DEF IndInv, TypeOK, RulesTyped, Grows, DevSound
<1>2. ASSUME NEW g \in Group, CreateDeveloperGroup(g)
      PROVE  IndInv'
  <2>1. RulesTyped
    BY <1>0, <1>2 DEF CreateDeveloperGroup, TypeOK, RulesTyped
  <2>2. Grows /\ UNCHANGED <<dev, family, bearer, req, ended>>
    BY <1>0, <1>2, NothingGrows DEF CreateDeveloperGroup, tokens
  <2>. QED BY <1>1, <2>1, <2>2
<1>3. ASSUME NEW p \in Pair, ExpireBan(p)
      PROVE  IndInv'
  <2>1. RulesTyped
    BY <1>0, <1>3 DEF ExpireBan, TypeOK, RulesTyped
  <2>2. Grows /\ UNCHANGED <<dev, family, bearer, req, ended>>
    BY <1>0, <1>3, NothingGrows DEF ExpireBan, tokens
  <2>. QED BY <1>1, <2>1, <2>2
<1>4. ASSUME NEW p \in Pair, ChangeConsent(p)
      PROVE  IndInv'
  <2>1. RulesTyped /\ UNCHANGED <<dev, family, bearer, req, ended>>
    BY <1>0, <1>4, RulesKept DEF ChangeConsent, tokens
  <2>2. Grows
    <3>1. \A o \in Pair : version[o] \in Nat
      BY <1>0, MaxVersionAssumption DEF TypeOK
    <3>2. /\ version' = version
          /\ consent' = [consent EXCEPT ![p] = IF consent[p] = "live" THEN "revoked" ELSE "live"]
      BY <1>4 DEF ChangeConsent
    <3>. QED BY <1>0, <3>1, <3>2 DEF TypeOK, Grows
  <2>. QED BY <1>1, <2>1, <2>2
<1>5. CASE UNCHANGED vars
  <2>1. RulesTyped /\ Grows /\ UNCHANGED <<dev, family, bearer, req, ended>>
    BY <1>0, <1>5, RulesKept, NothingGrows DEF vars, rules
  <2>. QED BY <1>1, <2>1
<1>. QED BY <1>2, <1>3, <1>4, <1>5, ConsoleIndInv, TokenIndInv DEF Next

-----------------------------------------------------------------------------
(* A complete rule change *)

\* Families that were issued are left alone or revoked.
Holding ==
    \A f \in Family : family[f].st # "absent" =>
        /\ family'[f].st = family[f].st \/ family'[f].st = "revoked"
        /\ family'[f].app = family[f].app /\ family'[f].user = family[f].user

LEMMA RevokingHolds == Revoking => Holding
BY DEF Revoking, Holding

LEMMA OverKept ==
    ASSUME TypeOK, Over, Grows, Holding, UNCHANGED ended
    PROVE  Over'
<1>1. ASSUME NEW b \in ended \cap AccessToken
      PROVE  b.ver < version'[PairOf(b)]
  <2>1. PairOf(b) \in Pair /\ b.ver \in Nat /\ b.ver < version[PairOf(b)]
    BY MaxVersionAssumption DEF Over, PairOf, AccessToken, Pair
  <2>2. version[PairOf(b)] \in Nat /\ version'[PairOf(b)] \in Nat
        /\ version[PairOf(b)] <= version'[PairOf(b)]
    BY <2>1, MaxVersionAssumption DEF TypeOK, Grows
  <2>. QED BY <2>1, <2>2
<1>2. \A f \in ended \cap Family : family'[f].st = "revoked"
  BY DEF Over, Holding
<1>. QED BY <1>1, <1>2 DEF Over, PairOf

\* A request that is not changed still owes what it owed.
LEMMA OwesKept ==
    ASSUME IndInv, Grows, Holding, NEW r \in DevRequest, DevSound(r), Owes(r)
    PROVE  Owes(r)'
<1>0. Due(r) \subseteq Due(r)' /\ Bumped(r)' = Bumped(r)
  <2>1. CASE r.pc = "bindings.users"
    <3>1. r.app \in App
      BY <2>1 DEF DevSound
    <3>2. \A u \in User : consent[<<r.app, u>>] # "none" => consent'[<<r.app, u>>] # "none"
      BY <3>1 DEF Grows, Pair
    <3>3. ManagedUsers(r.app) \subseteq ManagedUsers(r.app)'
      BY <3>2 DEF ManagedUsers
    <3>. QED BY <2>1, <3>3 DEF Due, Bumped
  <2>2. CASE r.pc # "bindings.users"
    BY <2>2 DEF Due, Bumped
  <2>. QED BY <2>1, <2>2
<1>1. ASSUME NEW b \in r.before \cap AccessToken
      PROVE  /\ b.ver <= version'[PairOf(b)]
             /\ b.ver = version'[PairOf(b)] => PairOf(b) \in Due(r)'
  <2>1. PairOf(b) \in Pair /\ b.ver \in Nat /\ b.ver <= version[PairOf(b)]
        /\ (b.ver = version[PairOf(b)] => PairOf(b) \in Due(r))
    BY MaxVersionAssumption DEF Owes, PairOf, AccessToken, Pair
  <2>2. version[PairOf(b)] \in Nat /\ version'[PairOf(b)] \in Nat
        /\ version[PairOf(b)] <= version'[PairOf(b)]
    BY <2>1, MaxVersionAssumption DEF IndInv, TypeOK, Grows
  <2>. QED BY <1>0, <2>1, <2>2
<1>2. ASSUME NEW f \in r.before \cap Family
      PROVE  /\ family'[f].st # "absent"
             /\ family'[f].st = "live" => FamilyPair(f)' \in Due(r)' \cup Bumped(r)'
  BY <1>0, <1>2 DEF Owes, Holding, FamilyPair
<1>. QED BY <1>1, <1>2 DEF Owes, PairOf

\* The step of one request, and a step of anything but the console.
LEMMA RuleStep ==
    ASSUME IndInv, RuleInv, Grows, Holding, NEW D \in SUBSET Dev,
           \A d \in D : Listed(dev[d])' /\ Owes(dev[d])',
           \A e \in Dev \ D : dev'[e] = dev[e],
           \/ bindings' \subseteq bindings
           \/ \A e \in Dev \ D : dev[e].pc \notin {"groups.members", "groups.write"},
           Over'
    PROVE  RuleInv'
<1>. SUFFICES ASSUME NEW e \in Dev \ D
              PROVE  Listed(dev[e])' /\ Owes(dev[e])'
  BY DEF RuleInv
<1>1. PICK r \in DevRequest : r = dev[e]
  BY Parts
<1>2. DevSound(r) /\ Listed(r) /\ Owes(r) /\ r = dev'[e]
  BY <1>1, Parts DEF RuleInv
<1>3. Owes(r)'
  BY <1>2, OwesKept
<1>4. Listed(r)'
  BY <1>1, <1>2 DEF Listed, AppsOf
<1>. QED BY <1>2, <1>3, <1>4

LEMMA ElsewhereRuleInv ==
    ASSUME IndInv, RuleInv, Grows, Holding, bindings' \subseteq bindings, UNCHANGED <<dev, ended>>
    PROVE  RuleInv'
<1>1. Over'
  BY OverKept DEF IndInv, RuleInv
<1>2. {} \in SUBSET Dev /\ \A e \in Dev \ {} : dev'[e] = dev[e]
  OBVIOUS
<1>. HIDE DEF IndInv, RuleInv
<1>. QED BY <1>1, <1>2, RuleStep

LEMMA InitRuleInv == Init => RuleInv
BY DEF Init, RuleInv, Listed, Owes, Over, DevIdle

\* What a request returns with it has ended.
LEMMA ReturnOver ==
    ASSUME IndInv, RuleInv, NEW d \in Dev, Grows, Holding,
           NEW before \in SUBSET dev[d].before, ended' = ended \cup before,
           \A b \in before \cap AccessToken : PairOf(b) \notin Due(dev[d]),
           \A f \in before \cap Family : family'[f].st # "live"
    PROVE  Over'
<1>1. ASSUME NEW b \in ended' \cap AccessToken
      PROVE  b.ver < version'[PairOf(b)]
  <2>1. PairOf(b) \in Pair /\ b.ver \in Nat
    BY MaxVersionAssumption DEF PairOf, AccessToken, Pair
  <2>2. version[PairOf(b)] \in Nat /\ version'[PairOf(b)] \in Nat
        /\ version[PairOf(b)] <= version'[PairOf(b)]
    BY <2>1, MaxVersionAssumption DEF IndInv, TypeOK, Grows
  <2>3. b.ver < version[PairOf(b)]
    <3>1. CASE b \in ended
      BY <3>1 DEF RuleInv, Over
    <3>2. CASE b \in before
      BY <2>1, <2>2, <3>2 DEF RuleInv, Owes
    <3>. QED BY <3>1, <3>2
  <2>. QED BY <2>1, <2>2, <2>3
<1>2. ASSUME NEW f \in ended' \cap Family
      PROVE  family'[f].st = "revoked"
  <2>1. CASE f \in ended
    BY <2>1 DEF RuleInv, Over, Holding
  <2>2. CASE f \in before
    <3>1. family[f].st \in {"live", "revoked"}
      BY <2>2 DEF IndInv, TypeOK, RuleInv, Owes
    <3>. QED BY <2>2, <3>1 DEF Holding
  <2>. QED BY <2>1, <2>2
<1>. QED BY <1>1, <1>2 DEF Over, PairOf

\* A request that begins, or is given up, owes nothing.
LEMMA FreshOwes ==
    ASSUME NEW d \in Dev, dev'[d].before = {}, dev'[d].pc \notin {"groups.members", "groups.write"}
    PROVE  Listed(dev[d])' /\ Owes(dev[d])'
BY DEF Listed, Owes

\* The pairs of the tokens that are out for a rule are those the rule is about.
LEMMA OutOwes ==
    ASSUME IndInv, NEW d \in Dev, NEW S, Grows, Holding, version' = version,
           dev'[d].before \subseteq Out(S),
           \A b \in bearer : PairOf(b) \in S => PairOf(b) \in Due(dev[d])',
           \A f \in Family : family[f].st = "live" /\ FamilyPair(f) \in S
                                => FamilyPair(f)' \in Due(dev[d])'
    PROVE  Owes(dev[d])'
<1>1. ASSUME NEW b \in dev'[d].before \cap AccessToken
      PROVE  b.ver <= version'[PairOf(b)] /\ PairOf(b) \in Due(dev[d])'
  BY OutTokens DEF IndInv, Issued
<1>2. ASSUME NEW f \in dev'[d].before \cap Family
      PROVE  /\ family'[f].st # "absent"
             /\ FamilyPair(f)' \in Due(dev[d])'
  BY OutTokens DEF IndInv, Holding
<1>. QED BY <1>1, <1>2 DEF Owes, PairOf

LEMMA ConsoleRuleInv ==
    ASSUME Alone, IndInv, RuleInv, NEW d \in Dev, DevBegins(d) \/ DevStep(d) \/ AbortDev(d)
    PROVE  RuleInv'
<1>. DEFINE q == dev[d]
<1>0. TypeOK /\ q \in DevRequest /\ DevSound(q) /\ Listed(q) /\ Owes(q) /\ Over
  BY Parts DEF RuleInv
<1>1. ASSUME NEW r \in DevRequest, dev' = [dev EXCEPT ![d] = r]
      PROVE  dev'[d] = r /\ \A e \in Dev \ {d} : dev'[e] = dev[e]
  BY <1>0, <1>1 DEF TypeOK
<1>2. ASSUME Grows, Holding, Over', Listed(dev[d])', Owes(dev[d])', bindings' \subseteq bindings,
             \A e \in Dev \ {d} : dev'[e] = dev[e]
      PROVE  RuleInv'
  <2>1. /\ {d} \in SUBSET Dev
        /\ \A e \in {d} : Listed(dev[e])' /\ Owes(dev[e])'
    BY <1>2
  <2>. HIDE DEF IndInv, RuleInv
  <2>. QED BY <1>2, <2>1, RuleStep
<1>3. ASSUME NEW r \in DevRequest, r.before = {}, r.pc \notin {"groups.members", "groups.write"},
             dev' = [dev EXCEPT ![d] = r], bindings' \subseteq bindings,
             UNCHANGED <<version, consent, family, ended>>
      PROVE  RuleInv'
  <2>1. Grows /\ Holding
    BY <1>0, <1>3, NothingGrows, NothingRevoked, RevokingHolds
  <2>2. Over'
    BY <1>0, <1>3, <2>1, OverKept
  <2>3. Listed(dev[d])' /\ Owes(dev[d])'
    BY <1>1, <1>3, FreshOwes
  <2>. QED BY <1>1, <1>2, <1>3, <2>1, <2>2, <2>3
<1>4. ASSUME DevBegins(d) \/ AbortDev(d) \/ WriteDelete(d)
      PROVE  RuleInv'
  <2>1. CASE WriteDelete(d) \/ AbortDev(d)
    <3>1. /\ dev' = [dev EXCEPT ![d] = DevIdle] /\ bindings' \subseteq bindings
          /\ UNCHANGED <<version, consent, family, ended>>
      BY <2>1 DEF WriteDelete, AbortDev, rules, tokens
    <3>. QED BY <1>3, <3>1, DevIdleRequest
  <2>2. ASSUME NEW r, Begin(d, r), r.before = {}, r.pc \notin {"groups.members", "groups.write"},
               DevBegins(d)
        PROVE  RuleInv'
    <3>1. dev' = [dev EXCEPT ![d] = r] /\ UNCHANGED <<bindings, version, consent, family, ended>>
      BY <2>2 DEF Begin, rules, tokens
    <3>2. r \in DevRequest
      <4>1. IndInv'
        BY <2>2, ConsoleIndInv
      <4>. QED BY <1>0, <3>1, <4>1 DEF IndInv, TypeOK
    <3>. QED BY <1>3, <2>2, <3>1, <3>2
  <2>3. ASSUME NEW a \in App, NEW u \in User, BanAppUser(d, a, u) \/ UnbanAppUser(d, a, u)
        PROVE  RuleInv'
    <3>1. CASE BanAppUser(d, a, u)
      BY <2>2, <3>1, DevIdleRequest DEF DevBegins, BanAppUser, DevRequest
    <3>2. CASE UnbanAppUser(d, a, u)
      BY <2>2, <3>2, DevIdleRequest DEF DevBegins, UnbanAppUser, DevRequest
    <3>. QED BY <2>3, <3>1, <3>2
  <2>4. ASSUME NEW a \in App, NEW G \in SUBSET Group, UpdateAppBindings(d, a, G)
        PROVE  RuleInv'
    BY <2>2, <2>4, DevIdleRequest DEF DevBegins, UpdateAppBindings, DevRequest
  <2>5. ASSUME NEW U \in (SUBSET User) \ {{}}, NEW G \in SUBSET Group,
               NEW m \in {"append", "replace", "remove"}, BatchUpdateManagedUserGroups(d, U, G, m)
        PROVE  RuleInv'
    <3>1. PICK todo :
            Begin(d, [DevIdle EXCEPT !.pc = "groups.apps", !.users = U, !.sel = G, !.mode = m, !.todo = todo])
      BY <2>5 DEF BatchUpdateManagedUserGroups
    <3>. DEFINE n == [DevIdle EXCEPT !.pc = "groups.apps", !.users = U, !.sel = G, !.mode = m, !.todo = todo]
    <3>2. n.before = {} /\ n.pc = "groups.apps"
      BY DevIdleRequest DEF DevRequest
    <3>3. DevBegins(d)
      BY <2>5 DEF DevBegins
    <3>. HIDE DEF n
    <3>. QED BY <2>2, <3>1, <3>2, <3>3 DEF n
  <2>6. ASSUME NEW g \in Group, DeleteDeveloperGroup(d, g)
        PROVE  RuleInv'
    BY <2>2, <2>6, DevIdleRequest DEF DevBegins, DeleteDeveloperGroup, DevRequest
  <2>. QED BY <1>4, <2>1, <2>3, <2>4, <2>5, <2>6 DEF DevBegins
<1>5. ASSUME WriteBan(d)
      PROVE  RuleInv'
  <2>1. PICK hit : hit = {q.app} \X q.users
    OBVIOUS
  <2>2. /\ dev' = [dev EXCEPT ![d] = [DevIdle EXCEPT !.pc = "bump", !.mode = q.mode, !.affected = hit, !.before = Out(hit)]]
        /\ UNCHANGED <<bindings, version, consent, family, bearer, ended>>
    BY <1>5, <2>1 DEF WriteBan, BumpAll, tokens
  <2>3. Grows /\ Holding
    BY <1>0, <2>2, NothingGrows, NothingRevoked, RevokingHolds
  <2>4. hit \in SUBSET Pair /\ Out(hit) \in SUBSET (AccessToken \cup Family)
    BY <1>0, <1>5, <2>1, OutTokens DEF WriteBan, DevSound, DevRequest, Pair
  <2>5. /\ dev'[d].pc = "bump" /\ dev'[d].affected = hit /\ dev'[d].before = Out(hit)
        /\ \A e \in Dev \ {d} : dev'[e] = dev[e]
    <3>. DEFINE n == [DevIdle EXCEPT !.pc = "bump", !.mode = q.mode, !.affected = hit, !.before = Out(hit)]
    <3>1. n \in DevRequest /\ n.pc = "bump" /\ n.affected = hit /\ n.before = Out(hit)
      <4>. HIDE DEF q
      <4>. QED BY <1>0, <2>4, DevIdleRequest DEF DevRequest, DevPC
    <3>. HIDE DEF n
    <3>. QED BY <1>1, <2>2, <3>1 DEF n
  <2>6. Due(dev[d])' = hit
    BY <2>5 DEF Due
  <2>7. Owes(dev[d])'
    BY <2>2, <2>3, <2>5, <2>6, OutOwes DEF FamilyPair
  <2>8. Listed(dev[d])' /\ Over'
    BY <1>0, <2>2, <2>3, <2>5, OverKept DEF Listed
  <2>. QED BY <1>2, <2>2, <2>3, <2>5, <2>7, <2>8
<1>6. ASSUME WriteBindings(d)
      PROVE  RuleInv'
  <2>1. PICK S : S = {q.app} \X User
    OBVIOUS
  <2>2. /\ dev' = [dev EXCEPT ![d].pc = "bindings.users", ![d].sel = {}, ![d].before = Out(S)]
        /\ UNCHANGED <<version, consent, family, bearer, ended>>
    BY <1>6, <2>1 DEF WriteBindings, tokens
  <2>3. Grows /\ Holding
    BY <1>0, <2>2, NothingGrows, NothingRevoked, RevokingHolds
  <2>4. q.app \in App /\ q.pc = "bindings.write" /\ "bindings" \in Ops
    BY <1>0, <1>6 DEF WriteBindings, DevSound
  <2>5. /\ dev'[d].pc = "bindings.users" /\ dev'[d].app = q.app /\ dev'[d].before = Out(S)
        /\ \A e \in Dev \ {d} : dev'[e] = dev[e]
    BY <1>0, <2>2 DEF TypeOK, DevRequest
  <2>6. /\ Due(dev[d])' = {q.app} \X ManagedUsers(q.app)
        /\ ManagedUsers(q.app) = {u \in User : consent[<<q.app, u>>] # "none"}
    <3>1. Due(dev[d])' = {dev'[d].app} \X {u \in User : consent'[<<dev'[d].app, u>>] # "none"}
      BY <2>5 DEF Due, ManagedUsers
    <3>. QED BY <2>2, <2>5, <3>1 DEF ManagedUsers
  <2>7. \A p \in S : Consented(p) => p \in Due(dev[d])'
    BY <2>1, <2>6 DEF Consented
  <2>8. Owes(dev[d])'
    <3>1. \A b \in bearer : PairOf(b) \in S => PairOf(b) \in Due(dev[d])'
      BY <2>7 DEF IndInv, Issued
    <3>2. \A f \in Family : family[f].st = "live" /\ FamilyPair(f) \in S => FamilyPair(f)' \in Due(dev[d])'
      BY <2>2, <2>7 DEF IndInv, Issued, FamilyPair
    <3>. QED BY <2>2, <2>3, <2>5, <3>1, <3>2, OutOwes
  <2>9. Listed(dev[d])' /\ Over'
    BY <1>0, <2>2, <2>3, <2>5, OverKept DEF Listed
  <2>10. \A e \in Dev \ {d} : dev[e].pc \notin {"groups.members", "groups.write"}
    <3>1. \A e \in Dev : DevSound(dev[e])
      BY Parts
    <3>. QED BY <2>4, <3>1 DEF Alone, DevSound
  <2>11. {d} \in SUBSET Dev /\ \A e \in {d} : Listed(dev[e])' /\ Owes(dev[e])'
    BY <2>8, <2>9
  <2>. HIDE DEF IndInv, RuleInv
  <2>. QED BY <2>3, <2>5, <2>9, <2>10, <2>11, RuleStep
\* A request that goes on with what it owes, without a change of anything else.
<1>7. ASSUME NEW n \in DevRequest, dev' = [dev EXCEPT ![d] = n], n.before = q.before,
             Due(q) \cup Bumped(q) \subseteq n.affected, n.pc \notin {"bindings.users"}, Listed(n),
             UNCHANGED <<bindings, version, consent, family, ended>>
      PROVE  RuleInv'
  <2>1. Grows /\ Holding
    BY <1>0, <1>7, NothingGrows, NothingRevoked, RevokingHolds
  <2>2. Over'
    BY <1>0, <1>7, <2>1, OverKept
  <2>3. dev'[d] = n /\ \A e \in Dev \ {d} : dev'[e] = dev[e]
    BY <1>1, <1>7
  <2>4. Listed(dev[d])'
    BY <1>7, <2>3 DEF Listed, AppsOf
  <2>5. Owes(dev[d])'
    <3>1. n.affected \subseteq Due(dev[d])'
      BY <1>7, <2>3 DEF Due
    <3>. QED BY <1>0, <1>7, <2>3, <3>1 DEF Owes, PairOf, FamilyPair
  <2>. QED BY <1>2, <1>7, <2>1, <2>2, <2>3, <2>4, <2>5
\* A request that returns.
<1>8. ASSUME NEW before \in SUBSET q.before, Grows, Holding, bindings' \subseteq bindings, Due(q) = {},
             dev' = [dev EXCEPT ![d] = DevIdle], ended' = ended \cup before,
             \A f \in before \cap Family : family'[f].st # "live"
      PROVE  RuleInv'
  <2>1. dev' = [dev EXCEPT ![d] = DevIdle]
    BY <1>8
  <2>2. Over'
    BY <1>8, ReturnOver
  <2>3. dev'[d] = DevIdle /\ \A e \in Dev \ {d} : dev'[e] = dev[e]
    BY <1>1, <2>1, DevIdleRequest
  <2>4. Listed(dev[d])' /\ Owes(dev[d])'
    BY <2>3, DevIdleRequest, FreshOwes
  <2>. QED BY <1>2, <1>8, <2>2, <2>3, <2>4
<1>9. ASSUME ListManagedUsers(d)
      PROVE  RuleInv'
  <2>. DEFINE hit == {q.app} \X ManagedUsers(q.app)
              n == [DevIdle EXCEPT !.pc = "bump", !.mode = q.mode, !.affected = hit, !.before = q.before]
  <2>1. q.pc = "bindings.users" /\ UNCHANGED <<bindings, version, consent, family>>
    BY <1>9 DEF ListManagedUsers, rules, tokens
  <2>2. Due(q) = hit /\ Bumped(q) = {}
    BY <2>1 DEF Due, Bumped
  <2>3. CASE Return(d) /\ ManagedUsers(q.app) = {}
    <3>1. Grows /\ Holding
      BY <1>0, <2>1, NothingGrows, NothingRevoked, RevokingHolds
    <3>2. Due(q) = {} /\ \A f \in q.before \cap Family : family'[f].st # "live"
      BY <1>0, <2>1, <2>2, <2>3 DEF Owes
    <3>. QED BY <1>8, <2>1, <2>3, <3>1, <3>2 DEF Return
  <2>4. CASE dev' = [dev EXCEPT ![d] = n] /\ UNCHANGED ended
    <3>1. hit \in SUBSET Pair
      BY <1>0, <2>1 DEF DevSound, Pair, ManagedUsers
    <3>2. n \in DevRequest /\ n.pc = "bump" /\ n.affected = hit /\ n.before = q.before
      <4>. HIDE DEF hit, q
      <4>. QED BY <1>0, <3>1, DevIdleRequest DEF DevRequest, DevPC
    <3>3. Listed(n)
      <4>. HIDE DEF n
      <4>. QED BY <3>2 DEF Listed
    <3>. HIDE DEF n, hit
    <3>. QED BY <1>7, <2>1, <2>2, <2>4, <3>2, <3>3
  <2>. QED BY <1>9, <2>3, <2>4 DEF ListManagedUsers, BumpAll
<1>10. ASSUME ListGroupApps(d)
       PROVE  RuleInv'
  <2>. DEFINE n == [DevIdle EXCEPT !.pc = "bump", !.mode = q.mode, !.affected = q.affected, !.before = q.before]
  <2>1. q.pc = "groups.apps" /\ UNCHANGED <<bindings, version, consent, family>>
    BY <1>10 DEF ListGroupApps, rules, tokens
  <2>2. Due(q) = q.affected /\ Bumped(q) = {}
    BY <2>1 DEF Due, Bumped
  <2>3. CASE Return(d) /\ q.affected = {}
    <3>1. Grows /\ Holding
      BY <1>0, <2>1, NothingGrows, NothingRevoked, RevokingHolds
    <3>2. Due(q) = {} /\ \A f \in q.before \cap Family : family'[f].st # "live"
      BY <1>0, <2>1, <2>2, <2>3 DEF Owes
    <3>. QED BY <1>8, <2>1, <2>3, <3>1, <3>2 DEF Return
  <2>4. CASE dev' = [dev EXCEPT ![d] = n] /\ UNCHANGED ended
    <3>1. n \in DevRequest /\ n.pc = "bump" /\ n.affected = q.affected /\ n.before = q.before
      <4>. HIDE DEF q
      <4>. QED BY <1>0, DevIdleRequest DEF DevRequest, DevPC
    <3>2. Listed(n)
      <4>. HIDE DEF n
      <4>. QED BY <3>1 DEF Listed
    <3>. HIDE DEF n
    <3>. QED BY <1>7, <2>1, <2>2, <2>4, <3>1, <3>2
  <2>5. ASSUME NEW g \in q.todo, UNCHANGED ended,
               dev' = [dev EXCEPT ![d].pc = "groups.members", ![d].group = g, ![d].todo = q.todo \ {g},
                                  ![d].affected = q.affected \cup (AppsOf(g) \X q.users)]
        PROVE  RuleInv'
    <3>. DEFINE todo == q.todo \ {g}
                affected == q.affected \cup (AppsOf(g) \X q.users)
                r == [q EXCEPT !.pc = "groups.members", !.group = g, !.todo = todo, !.affected = affected]
    <3>1. todo \in SUBSET Group /\ affected \in SUBSET Pair /\ g \in Group
      BY <1>0 DEF DevRequest, AppsOf, Pair
    <3>2. dev' = [dev EXCEPT ![d] = r]
      BY <1>0, <2>5 DEF TypeOK
    <3>3. r \in DevRequest /\ r.pc = "groups.members" /\ r.affected = affected /\ r.before = q.before
          /\ r.group = g /\ r.users = q.users
      <4>. HIDE DEF q, affected, todo
      <4>. QED BY <1>0, <3>1 DEF DevRequest, DevPC
    <3>4. Listed(r)
      <4>. HIDE DEF r
      <4>. QED BY <3>3 DEF Listed
    <3>5. Due(q) \cup Bumped(q) \subseteq r.affected
      <4>. HIDE DEF r
      <4>. QED BY <2>2, <3>3
    <3>. HIDE DEF r
    <3>. QED BY <1>7, <2>1, <2>5, <3>2, <3>3, <3>4, <3>5
  <2>. QED BY <1>10, <2>3, <2>4, <2>5 DEF ListGroupApps, BumpAll
<1>11. ASSUME ListGroupMembers(d)
       PROVE  RuleInv'
  <2>. DEFINE in == {u \in q.users : <<q.group, u>> \in members}
              change == CASE q.mode = "remove" -> in
                          [] q.group \in q.sel -> q.users \ in
                          [] OTHER -> in
              group == IF change = {} THEN None ELSE q.group
              pc == IF change = {} THEN "groups.apps" ELSE "groups.write"
  <2>1. /\ dev' = [dev EXCEPT ![d].writes = change, ![d].group = group, ![d].pc = pc]
        /\ pc \in {"groups.apps", "groups.write"}
        /\ pc = "groups.write" => group = q.group
    <3>1. dev' = [dev EXCEPT ![d].writes = change, ![d].group = group, ![d].pc = pc]
      BY <1>11 DEF ListGroupMembers
    <3>. HIDE DEF change
    <3>. QED BY <3>1
  <2>. HIDE DEF in, change, group, pc
  <2>2. q.pc = "groups.members" /\ UNCHANGED <<bindings, version, consent, family, ended>>
    BY <1>11 DEF ListGroupMembers, rules, tokens
  <2>. DEFINE r == [q EXCEPT !.writes = change, !.group = group, !.pc = pc]
  <2>3. dev' = [dev EXCEPT ![d] = r]
    BY <1>0, <2>1 DEF TypeOK
  <2>4. r \in DevRequest
    <3>1. IndInv'
      BY <1>11, ConsoleIndInv DEF DevStep
    <3>. HIDE DEF r
    <3>. QED BY <1>0, <2>3, <3>1 DEF IndInv, TypeOK
  <2>5. /\ r.pc = pc /\ r.group = group /\ r.users = q.users
        /\ r.affected = q.affected /\ r.before = q.before
    <3>. HIDE DEF q
    <3>. QED BY <1>0 DEF DevRequest
  <2>6. Listed(r)
    <3>. HIDE DEF r
    <3>. QED BY <1>0, <2>1, <2>2, <2>5 DEF Listed
  <2>7. Due(q) \cup Bumped(q) \subseteq r.affected
    <3>. HIDE DEF r
    <3>. QED BY <2>2, <2>5 DEF Due, Bumped
  <2>. HIDE DEF r
  <2>. QED BY <1>7, <2>1, <2>2, <2>3, <2>4, <2>5, <2>6, <2>7
<1>12. ASSUME WriteMember(d)
       PROVE  RuleInv'
  <2>0. PICK u \in q.writes :
          dev' = [dev EXCEPT
                ![d].writes = q.writes \ {u},
                ![d].group = IF q.writes = {u} THEN None ELSE q.group,
                ![d].pc = IF q.writes = {u} THEN "groups.apps" ELSE "groups.write",
                ![d].before = IF members' = members THEN q.before
                              ELSE q.before \cup Out(AppsOf(q.group) \X {u})]
    BY <1>12 DEF WriteMember
  <2>. DEFINE group == IF q.writes = {u} THEN None ELSE q.group
              pc == IF q.writes = {u} THEN "groups.apps" ELSE "groups.write"
              before == IF members' = members THEN q.before
                        ELSE q.before \cup Out(AppsOf(q.group) \X {u})
  <2>1. /\ dev' = [dev EXCEPT ![d].writes = q.writes \ {u}, ![d].group = group, ![d].pc = pc,
                              ![d].before = before]
        /\ pc \in {"groups.apps", "groups.write"}
        /\ pc = "groups.write" => group = q.group
        /\ before \subseteq q.before \cup Out(AppsOf(q.group) \X {u})
    BY <2>0
  <2>. HIDE DEF group, pc, before
  <2>2. q.pc = "groups.write" /\ UNCHANGED <<bindings, version, consent, family, bearer, ended>>
    BY <1>12 DEF WriteMember, tokens
  <2>3. /\ dev'[d].pc = pc /\ dev'[d].group = group /\ dev'[d].users = q.users
        /\ dev'[d].affected = q.affected /\ dev'[d].before = before
        /\ \A e \in Dev \ {d} : dev'[e] = dev[e]
    BY <1>0, <2>1 DEF TypeOK, DevRequest
  <2>4. Grows /\ Holding
    BY <1>0, <2>2, NothingGrows, NothingRevoked, RevokingHolds
  <2>5. Over'
    BY <1>0, <2>2, <2>4, OverKept
  <2>6. AppsOf(q.group) \X {u} \subseteq q.affected
    BY <1>0, <2>2 DEF Listed, DevSound
  <2>7. Listed(dev[d])'
    <3>1. dev'[d].pc = "groups.write" => dev'[d].group = q.group
      BY <2>1, <2>3
    <3>2. AppsOf(q.group) \X q.users \subseteq q.affected
      BY <1>0, <2>2 DEF Listed
    <3>3. dev'[d].pc \in {"groups.members", "groups.write"} => dev'[d].pc = "groups.write"
      BY <2>1, <2>3
    <3>4. ASSUME dev'[d].pc = "groups.write"
          PROVE  AppsOf(dev[d].group)' = AppsOf(q.group)
      <4>. HIDE DEF q
      <4>. QED BY <2>2, <3>1, <3>4 DEF AppsOf
    <3>. HIDE DEF q
    <3>. QED BY <2>3, <3>2, <3>3, <3>4 DEF Listed
  <2>8. Owes(dev[d])'
    <3>. DEFINE S == AppsOf(q.group) \X {u}
    <3>1. Due(q) = q.affected /\ Bumped(q) = {} /\ Due(dev[d])' = q.affected
      BY <2>1, <2>2, <2>3 DEF Due, Bumped
    <3>2. ASSUME NEW b \in before \cap AccessToken
          PROVE  b.ver <= version[PairOf(b)] /\ (b.ver = version[PairOf(b)] => PairOf(b) \in q.affected)
      <4>1. CASE b \in q.before
        BY <1>0, <3>1, <4>1 DEF Owes
      <4>2. CASE b \in Out(S)
        BY <1>0, <2>6, <4>2, OutTokens DEF IndInv, Issued
      <4>. QED BY <2>1, <4>1, <4>2
    <3>3. ASSUME NEW f \in before \cap Family
          PROVE  family[f].st # "absent" /\ (family[f].st = "live" => FamilyPair(f) \in q.affected)
      <4>1. CASE f \in q.before
        BY <1>0, <3>1, <4>1 DEF Owes
      <4>2. CASE f \in Out(S)
        BY <1>0, <2>6, <4>2, OutTokens
      <4>. QED BY <2>1, <4>1, <4>2
    <3>. HIDE DEF q
    <3>. QED BY <2>2, <2>3, <3>1, <3>2, <3>3 DEF Owes, PairOf, FamilyPair
  <2>. QED BY <1>2, <2>2, <2>3, <2>4, <2>5, <2>7, <2>8
<1>13. ASSUME Bump(d)
       PROVE  RuleInv'
  <2>1. PICK p \in q.affected :
          /\ version[p] < MaxVersion
          /\ version' = [version EXCEPT ![p] = version[p] + 1]
          /\ dev' = [dev EXCEPT ![d].pc = "revoke", ![d].app = p[1], ![d].writes = {p[2]},
                                ![d].affected = q.affected \ {p}]
    BY <1>13 DEF Bump
  <2>2. p \in Pair /\ p = <<p[1], p[2]>> /\ q.pc = "bump"
    BY <1>0, <1>13 DEF Bump, DevRequest, Pair
  <2>3. UNCHANGED <<bindings, consent, family, bearer, ended>>
    BY <1>13 DEF Bump, rules, tokens
  <2>4. \A o \in Pair : version[o] \in Nat /\ version'[o] = IF o = p THEN version[o] + 1 ELSE version[o]
    BY <1>0, <2>1, MaxVersionAssumption DEF TypeOK
  <2>5. Grows
    <3>1. version[p] + 1 \in 1..MaxVersion
      BY <2>1, <2>2, <2>4, MaxVersionAssumption
    <3>. HIDE DEF q
    <3>. QED BY <1>0, <2>1, <2>2, <2>3, <2>4, <3>1 DEF TypeOK, Grows
  <2>6. Holding
    BY <1>0, <2>3, NothingRevoked, RevokingHolds
  <2>7. /\ dev'[d].pc = "revoke" /\ dev'[d].app = p[1] /\ dev'[d].writes = {p[2]}
        /\ dev'[d].affected = q.affected \ {p} /\ dev'[d].before = q.before
        /\ \A e \in Dev \ {d} : dev'[e] = dev[e]
    BY <1>0, <2>1 DEF TypeOK, DevRequest
  <2>8. Over'
    BY <1>0, <2>3, <2>5, <2>6, OverKept
  <2>9. Listed(dev[d])'
    BY <2>7 DEF Listed
  <2>10. Owes(dev[d])'
    <3>1. Due(q) = q.affected /\ Bumped(q) = {}
      BY <2>2 DEF Due, Bumped
    <3>2. Due(dev[d])' = q.affected \ {p} /\ p \in Bumped(dev[d])'
      BY <2>2, <2>7 DEF Due, Bumped
    <3>3. ASSUME NEW b \in q.before \cap AccessToken
          PROVE  /\ b.ver <= version'[PairOf(b)]
                 /\ b.ver = version'[PairOf(b)] => PairOf(b) \in q.affected \ {p}
      <4>1. PairOf(b) \in Pair /\ b.ver \in Nat
        BY MaxVersionAssumption DEF PairOf, AccessToken, Pair
      <4>2. b.ver <= version[PairOf(b)] /\ (b.ver = version[PairOf(b)] => PairOf(b) \in q.affected)
        BY <1>0, <3>1 DEF Owes
      <4>. QED BY <2>4, <4>1, <4>2
    <3>4. ASSUME NEW f \in q.before \cap Family
          PROVE  /\ family[f].st # "absent"
                 /\ family[f].st = "live" => FamilyPair(f) \in Due(dev[d])' \cup Bumped(dev[d])'
      BY <1>0, <3>1, <3>2 DEF Owes
    <3>. HIDE DEF q
    <3>. QED BY <2>3, <2>7, <3>2, <3>3, <3>4 DEF Owes, PairOf, FamilyPair
  <2>. QED BY <1>2, <2>3, <2>5, <2>6, <2>7, <2>8, <2>9, <2>10
<1>14. ASSUME Revoke(d)
       PROVE  RuleInv'
  <2>. DEFINE hit == {f \in Family : family[f].st = "live" /\ family[f].app = q.app
                                      /\ family[f].user \in q.writes}
  <2>0. PICK missed \in {{}, hit} :
          /\ family' = [f \in Family |-> IF f \in hit \ missed
                                          THEN [family[f] EXCEPT !.st = "revoked"] ELSE family[f]]
          /\ \/ /\ q.affected = {} /\ dev' = [dev EXCEPT ![d] = DevIdle]
                /\ ended' = ended \cup (q.before \ missed)
             \/ BumpAll(d, q.affected, q.before \ missed) /\ ended' = ended
    BY <1>14 DEF Revoke
  <2>. DEFINE before == q.before \ missed
              n == [DevIdle EXCEPT !.pc = "bump", !.mode = q.mode, !.affected = q.affected,
                                   !.before = before]
  <2>1. q.pc = "revoke" /\ UNCHANGED <<bindings, version, consent, bearer>>
    BY <1>14 DEF Revoke, rules
  <2>2. /\ Holding
        /\ \A f \in Family \ missed : family'[f].st = "live" =>
              family[f].st = "live" /\ FamilyPair(f) \notin Bumped(q)
    <3>1. \A f \in Family \ missed : f \in hit <=> f \in hit \ missed
      OBVIOUS
    <3>. HIDE DEF q
    <3>. QED BY <1>0, <2>0, <2>1, <3>1 DEF Holding, TypeOK, Bumped, FamilyPair
  <2>. HIDE DEF hit
  <2>3. Grows
    BY <1>0, <2>1, NothingGrows
  <2>4. Due(q) = q.affected
    BY <2>1 DEF Due
  <2>5. CASE q.affected = {} /\ dev' = [dev EXCEPT ![d] = DevIdle] /\ ended' = ended \cup before
    <3>1. \A f \in before \cap Family : family'[f].st # "live"
      BY <1>0, <2>2, <2>4, <2>5 DEF Owes
    <3>. QED BY <1>8, <2>1, <2>2, <2>3, <2>4, <2>5, <3>1
  <2>6. CASE dev' = [dev EXCEPT ![d] = n] /\ UNCHANGED ended
    <3>1. n \in DevRequest /\ n.pc = "bump" /\ n.affected = q.affected /\ n.before = before
      <4>. HIDE DEF q
      <4>. QED BY <1>0, DevIdleRequest DEF DevRequest, DevPC
    <3>. HIDE DEF n
    <3>2. dev'[d] = n /\ \A e \in Dev \ {d} : dev'[e] = dev[e]
      BY <1>1, <2>6, <3>1
    <3>3. Listed(dev[d])' /\ Over'
      BY <1>0, <2>2, <2>3, <2>6, <3>1, <3>2, OverKept DEF Listed
    <3>4. Owes(dev[d])'
      <4>1. Due(dev[d])' = q.affected
        BY <3>1, <3>2 DEF Due
      <4>2. \A b \in before \cap AccessToken :
              b.ver <= version[PairOf(b)] /\ (b.ver = version[PairOf(b)] => PairOf(b) \in q.affected)
        BY <1>0, <2>4 DEF Owes
      <4>3. \A f \in before \cap Family :
              /\ family'[f].st # "absent"
              /\ family'[f].st = "live" => FamilyPair(f)' \in q.affected
        <5>1. \A f \in before \cap Family :
                /\ family[f].st # "absent"
                /\ family[f].st = "live" => FamilyPair(f) \in q.affected \cup Bumped(q)
          BY <1>0, <2>4 DEF Owes
        <5>2. \A f \in before \cap Family :
                family'[f].st # "absent" /\ FamilyPair(f)' = FamilyPair(f)
          BY <2>2, <5>1 DEF Holding, FamilyPair
        <5>. HIDE DEF q
        <5>. QED BY <2>2, <5>1, <5>2
      <4>. HIDE DEF q
      <4>. QED BY <2>1, <3>1, <3>2, <4>1, <4>2, <4>3 DEF Owes, PairOf
    <3>. QED BY <1>2, <2>1, <2>2, <2>3, <3>2, <3>3, <3>4
  <2>. QED BY <2>0, <2>5, <2>6 DEF BumpAll
<1>. QED BY <1>4, <1>5, <1>6, <1>9, <1>10, <1>11, <1>12, <1>13, <1>14 DEF DevStep

LEMMA NextRuleInv == Alone /\ IndInv /\ RuleInv /\ [Next]_vars => RuleInv'
<1>. SUFFICES ASSUME Alone, IndInv, RuleInv, [Next]_vars
              PROVE  RuleInv'
  OBVIOUS
<1>0. TypeOK
  BY DEF IndInv
<1>1. ASSUME NEW w \in Worker, RequestStep(w)
      PROVE  RuleInv'
  <2>1. UNCHANGED <<bindings, version, consent, dev, ended>>
    BY <1>1 DEF RequestStep, Exchange, Refresh, GetActiveAppUserBan, ListAppGroupBindings,
       ListUserGroupsByOwner, ReadVersion, SaveRefreshToken, AbortRequest, Unmoved, rules
  <2>2. Holding
    <3>1. CASE SaveRefreshToken(w)
      BY <1>0, <3>1 DEF SaveRefreshToken, Holding, TypeOK
    <3>2. CASE ~SaveRefreshToken(w)
      BY <1>1, <3>2 DEF RequestStep, Exchange, Refresh, GetActiveAppUserBan, ListAppGroupBindings,
         ListUserGroupsByOwner, ReadVersion, AbortRequest, tokens, Holding
    <3>. QED BY <3>1, <3>2
  <2>3. Grows
    BY <1>0, <2>1, NothingGrows
  <2>. QED BY <2>1, <2>2, <2>3, ElsewhereRuleInv
<1>2. ASSUME \/ \E g \in Group : CreateDeveloperGroup(g)
             \/ \E p \in Pair : ExpireBan(p)
             \/ UNCHANGED vars
      PROVE  RuleInv'
  <2>1. UNCHANGED <<bindings, version, consent, family, dev, ended>>
    BY <1>2 DEF CreateDeveloperGroup, ExpireBan, vars, tokens
  <2>2. Grows /\ Holding
    BY <1>0, <2>1, NothingGrows, NothingRevoked, RevokingHolds
  <2>. QED BY <2>1, <2>2, ElsewhereRuleInv
<1>3. ASSUME NEW p \in Pair, ChangeConsent(p)
      PROVE  RuleInv'
  <2>1. /\ UNCHANGED <<bindings, version, family, dev, ended>>
        /\ consent' = [consent EXCEPT ![p] = IF consent[p] = "live" THEN "revoked" ELSE "live"]
    BY <1>3 DEF ChangeConsent, rules, tokens
  <2>2. Grows
    <3>1. \A o \in Pair : version[o] \in Nat
      BY <1>0, MaxVersionAssumption DEF TypeOK
    <3>. QED BY <1>0, <2>1, <3>1 DEF TypeOK, Grows
  <2>3. Holding
    BY <1>0, <2>1, NothingRevoked, RevokingHolds
  <2>. QED BY <2>1, <2>2, <2>3, ElsewhereRuleInv
<1>. QED BY <1>1, <1>2, <1>3, ConsoleRuleInv DEF Next

-----------------------------------------------------------------------------
\* In every reachable state, with any number of requests under way, rows, requests and
\* tokens have their types, and every token is of a user who has consented and of a
\* version that was current once (accesscontrol/service.go, GetCurrentAppAccessVersion).
THEOREM AccessInvariant == Spec => []IndInv
BY InitIndInv, NextIndInv, PTL DEF Spec

\* Rules, requests, versions and tokens keep their types.
THEOREM AccessTypeCorrect == Spec => []TypeOK
<1>1. IndInv => TypeOK
  BY DEF IndInv
<1>. QED BY <1>1, AccessInvariant, PTL

\* Where a complete change of the rules has written a rule, what was out for the users and
\* the application of that rule has ended for good: the access tokens are of a version
\* before the current one and the refresh tokens are revoked, but for those whose
\* revocation failed in a change of memberships.  It holds where requests of
\* the console do not overlap, and where they do, if no instance writes both group
\* bindings and memberships (BanAppUser, UpdateAppBindings, BatchUpdateManagedUserGroups).
THEOREM RuleChangesEndTokens ==
    ASSUME Alone
    PROVE  Spec => []RuleChangeEndsTokens
<1>1. IndInv /\ RuleInv => RuleChangeEndsTokens
  <2>. SUFFICES ASSUME IndInv, RuleInv PROVE RuleChangeEndsTokens
    OBVIOUS
  <2>1. ASSUME NEW b \in ended \cap bearer, NEW current, Accepted(b, current)
        PROVE  current # version[PairOf(b)]
    <3>1. b \in AccessToken /\ b.ver \in Nat /\ PairOf(b) \in Pair
      BY MaxVersionAssumption DEF IndInv, TypeOK, AccessToken, PairOf, Pair
    <3>2. b.ver < version[PairOf(b)] /\ version[PairOf(b)] \in Nat
      BY <3>1, MaxVersionAssumption DEF RuleInv, Over, IndInv, TypeOK
    <3>. QED BY <2>1, <3>1, <3>2 DEF Accepted
  <2>2. \A f \in ended \cap Family : family[f].st # "live"
    BY DEF RuleInv, Over
  <2>. QED BY <2>1, <2>2 DEF RuleChangeEndsTokens, PairOf
<1>2. Init => IndInv /\ RuleInv
  BY InitIndInv, InitRuleInv
<1>3. IndInv /\ RuleInv /\ [Next]_vars => (IndInv /\ RuleInv)'
  BY NextIndInv, NextRuleInv
<1>. QED BY <1>1, <1>2, <1>3, PTL DEF Spec
=============================================================================
