----------------------------- MODULE AppAccess -----------------------------
(***************************************************************************)
(* Application access rules of a developer: service/accesscontrol over the *)
(* tables developer_groups, developer_group_members, app_group_bindings    *)
(* and app_user_access_states (bans and access versions).                  *)
(*                                                                         *)
(* A rule change is several statements: the rule is written, then for each *)
(* affected user the access version is bumped and the refresh tokens are   *)
(* revoked.  Meanwhile the token endpoint evaluates the rules in three     *)
(* reads and the version in a fourth.  Both kinds of request take one step *)
(* per statement.  Of the token endpoint only what the rules act on is     *)
(* kept: a family of refresh tokens (see TokenEndpoint) is live or         *)
(* revoked, and an access token is its user, application and version.      *)
(***************************************************************************)
EXTENDS Naturals

CONSTANTS
    User,        \* platform accounts
    App,         \* applications of the developer
    Group,       \* ids a user group of the developer can take
    Family,      \* refresh token families
    Dev,         \* concurrent requests of the developer console
    Worker,      \* concurrent token requests
    None,        \* the empty column
    MaxVersion,  \* bound on the access version
    MayAbort,    \* TRUE: a handler may stop after any statement
    Ops          \* the operations this instance runs

\* "fail": a database error may also be met where the code goes on in spite of it.
Operations == {"ban", "unban", "expire", "bindings", "groups", "delete", "consent", "fail"}

ASSUME NoneAssumption == None \notin User \cup App \cup Group \cup Family
ASSUME MaxVersionAssumption == MaxVersion \in Nat \ {0}
ASSUME MayAbortAssumption == MayAbort \in BOOLEAN
ASSUME OpsAssumption == Ops \subseteq Operations

VARIABLES
    groups,    \* status of each developer_groups row
    members,   \* developer_group_members
    bindings,  \* app_group_bindings
    ban,       \* the ban columns of app_user_access_states
    version,   \* access_version, 1 when there is no row
    consent,   \* consents: none, live or only revoked rows
    family,    \* refresh token families
    bearer,    \* access tokens a response has carried out
    dev,       \* what each developer request is doing
    req,       \* what each token request is doing
    ended      \* history: what was out when a rule change that is now complete wrote its rule

rules == <<groups, members, bindings, ban>>
tokens == <<family, bearer>>
vars == <<groups, members, bindings, ban, version, consent, family, bearer, dev, req, ended>>

Pair == App \X User
AccessToken == [app: App, user: User, ver: 1..MaxVersion]
ASSUME FamilyAssumption == Family \cap AccessToken = {}

DevPC == {"idle", "ban.write", "unban.write", "bindings.write", "bindings.users",
          "groups.apps", "groups.members", "groups.write", "delete.write",
          "bump", "revoke"}
DevRequest ==
    [pc: DevPC, app: App \cup {None}, users: SUBSET User, sel: SUBSET Group,
     mode: {"append", "replace", "remove", "none"},
     group: Group \cup {None},             \* the group the loop is at
     todo: SUBSET Group,                   \* groups still to visit
     writes: SUBSET User,                  \* users whose membership of group is to change
     affected: SUBSET Pair,                \* pairs still to bump
     before: SUBSET (AccessToken \cup Family)]  \* history: what the rules written had let out

DevIdle == [pc |-> "idle", app |-> None, users |-> {}, sel |-> {}, mode |-> "none",
            group |-> None, todo |-> {}, writes |-> {}, affected |-> {}, before |-> {}]

PC == {"idle", "ban", "bindings", "groups", "version", "save"}
TokenRequest == [pc: PC, app: App \cup {None}, user: User \cup {None},
                 family: Family \cup {None}, bound: SUBSET Group, ver: 1..MaxVersion]
Idle == [pc |-> "idle", app |-> None, user |-> None, family |-> None, bound |-> {}, ver |-> 1]

TypeOK ==
    /\ groups \in [Group -> {"new", "open", "deleted"}]
    /\ members \subseteq Group \X User
    /\ bindings \subseteq App \X Group
    /\ ban \in [Pair -> {"none", "timed", "forever", "over"}]
    /\ version \in [Pair -> 1..MaxVersion]
    /\ consent \in [Pair -> {"none", "live", "revoked"}]
    /\ family \in [Family -> [st: {"absent", "live", "revoked"}, app: App \cup {None},
                              user: User \cup {None}]]
    /\ bearer \subseteq AccessToken
    /\ dev \in [Dev -> DevRequest]
    /\ req \in [Worker -> TokenRequest]
    /\ ended \subseteq AccessToken \cup Family

Init ==
    /\ groups = [g \in Group |-> "new"]
    /\ members = {}
    /\ bindings = {}
    /\ ban = [p \in Pair |-> "none"]
    /\ version = [p \in Pair |-> 1]
    /\ consent = [p \in Pair |-> "none"]
    /\ family = [f \in Family |-> [st |-> "absent", app |-> None, user |-> None]]
    /\ bearer = {}
    /\ dev = [d \in Dev |-> DevIdle]
    /\ req = [w \in Worker |-> Idle]
    /\ ended = {}

-----------------------------------------------------------------------------
(* Reads of the store *)

Banned(a, u) == ban[<<a, u>>] \in {"timed", "forever"}

\* ListAppGroupBindings and ListUserGroupsByOwner join developer_groups,
\* ListAppIDsByGroup does not.
BoundGroups(a) == {g \in Group : <<a, g>> \in bindings /\ groups[g] = "open"}
GroupsOf(u) == {g \in Group : <<g, u>> \in members /\ groups[g] = "open"}
AppsOf(g) == {a \in App : <<a, g>> \in bindings}

\* EvaluateUserAppAccess, taken at one moment.
Allowed(a, u) ==
    /\ ~Banned(a, u)
    /\ BoundGroups(a) = {} \/ BoundGroups(a) \cap GroupsOf(u) # {}

\* Mutant: consents the user has revoked are left out.
ConsentingUsers(a) == {u \in User : consent[<<a, u>>] = "live"}

\* HasManagedUser and listManagedUserIDsForApp count revoked consents too.
ManagedUsers(a) == {u \in User : consent[<<a, u>>] # "none"}
Visible(u) == \E a \in App : u \in ManagedUsers(a)

\* The tokens that are out for the pairs of S.
Out(S) == {b \in bearer : <<b.app, b.user>> \in S}
            \cup {f \in Family : family[f].st = "live" /\ <<family[f].app, family[f].user>> \in S}

\* What GetCurrentAppAccessVersion may return: a read that fails reads as 1.
GetCurrentAppAccessVersion(p) == {version[p]} \cup {1 : x \in {"fail"} \cap Ops}

-----------------------------------------------------------------------------
(* Developer requests.  The ownership checks that open every handler read   *)
(* rows nothing here changes; each request begins past them.                *)

Begin(d, r) ==
    /\ dev[d].pc = "idle"
    /\ dev' = [dev EXCEPT ![d] = r]
    /\ UNCHANGED <<rules, version, consent, tokens, req, ended>>

\* The handler returns: what it had to end is ended.
Return(d) ==
    /\ dev' = [dev EXCEPT ![d] = DevIdle]
    /\ ended' = ended \cup dev[d].before

\* The rule is written and the pairs it concerns are known: bump them one by one.
BumpAll(d, affected, before) ==
    dev' = [dev EXCEPT ![d] = [DevIdle EXCEPT !.pc = "bump", !.mode = dev[d].mode,
                                              !.affected = affected, !.before = before]]

BanAppUser(d, a, u) ==
    /\ "ban" \in Ops
    /\ Visible(u)
    /\ Begin(d, [DevIdle EXCEPT !.pc = "ban.write", !.app = a, !.users = {u}])

UnbanAppUser(d, a, u) ==
    /\ "unban" \in Ops
    /\ Begin(d, [DevIdle EXCEPT !.pc = "unban.write", !.app = a, !.users = {u}])

UpdateAppBindings(d, a, G) ==
    /\ "bindings" \in Ops
    /\ \A g \in G : groups[g] = "open"
    /\ Begin(d, [DevIdle EXCEPT !.pc = "bindings.write", !.app = a, !.sel = G])

\* UpdateManagedUserGroups is the batch of one user in mode replace.
BatchUpdateManagedUserGroups(d, U, G, m) ==
    /\ "groups" \in Ops
    /\ \A u \in U : Visible(u)
    /\ \A g \in G : groups[g] = "open"
    /\ LET open == {g \in Group : groups[g] = "open"} IN
       Begin(d, [DevIdle EXCEPT !.pc = "groups.apps", !.users = U, !.sel = G, !.mode = m,
                                !.todo = IF m = "replace" THEN open ELSE G])

DeleteDeveloperGroup(d, g) ==
    /\ "delete" \in Ops
    /\ groups[g] = "open"
    /\ Begin(d, [DevIdle EXCEPT !.pc = "delete.write", !.group = g])

CreateDeveloperGroup(g) ==
    /\ groups[g] = "new"
    /\ groups' = [groups EXCEPT ![g] = "open"]
    /\ UNCHANGED <<members, bindings, ban, version, consent, tokens, dev, req, ended>>

\* Mutant: the end of a ban deletes the row, and the access version with it.
WriteBanDroppingRow(d) ==
    LET hit == {dev[d].app} \X dev[d].users IN
    /\ \/ /\ dev[d].pc = "ban.write"
          /\ \E status \in {"timed", "forever"} :
               ban' = [p \in Pair |-> IF p \in hit THEN status ELSE ban[p]]
          /\ UNCHANGED version
       \/ /\ dev[d].pc = "unban.write"
          /\ ban' = [p \in Pair |-> IF p \in hit THEN "none" ELSE ban[p]]
          /\ version' = [p \in Pair |-> IF p \in hit THEN 1 ELSE version[p]]
    /\ BumpAll(d, hit, Out(hit))
    /\ UNCHANGED <<groups, members, bindings, consent, tokens, req, ended>>

\* CreateOrUpdateAppUserBan, DeleteAppUserBan
WriteBan(d) ==
    LET hit == {dev[d].app} \X dev[d].users IN
    /\ \/ /\ dev[d].pc = "ban.write"
          /\ \E status \in {"timed", "forever"} :
               ban' = [p \in Pair |-> IF p \in hit THEN status ELSE ban[p]]
       \/ /\ dev[d].pc = "unban.write"
          /\ ban' = [p \in Pair |-> IF p \in hit THEN "none" ELSE ban[p]]
    /\ BumpAll(d, hit, Out(hit))
    /\ UNCHANGED <<groups, members, bindings, version, consent, tokens, req, ended>>

\* ReplaceAppGroupBindings
WriteBindings(d) ==
    LET a == dev[d].app IN
    /\ dev[d].pc = "bindings.write"
    /\ bindings' = {b \in bindings : b[1] # a} \cup ({a} \X dev[d].sel)
    /\ dev' = [dev EXCEPT ![d].pc = "bindings.users", ![d].sel = {}, ![d].before = Out({a} \X User)]
    /\ UNCHANGED <<groups, members, ban, version, consent, tokens, req, ended>>

ListManagedUsers(d) ==
    LET a == dev[d].app IN
    /\ dev[d].pc = "bindings.users"
    /\ IF ManagedUsers(a) = {}
       THEN Return(d)
       ELSE BumpAll(d, {a} \X ManagedUsers(a), dev[d].before) /\ UNCHANGED ended
    /\ UNCHANGED <<rules, version, consent, tokens, req>>

\* DeleteDeveloperGroup: one transaction, and that is all.
WriteDelete(d) ==
    LET g == dev[d].group IN
    /\ dev[d].pc = "delete.write"
    /\ groups' = [groups EXCEPT ![g] = "deleted"]
    /\ members' = {m \in members : m[1] # g}
    /\ bindings' = {b \in bindings : b[2] # g}
    /\ dev' = [dev EXCEPT ![d] = DevIdle]
    /\ UNCHANGED <<ban, version, consent, tokens, req, ended>>

\* The group loop: ListAppIDsByGroup of the next group ...
ListGroupApps(d) ==
    /\ dev[d].pc = "groups.apps"
    /\ \/ /\ dev[d].todo = {}
          /\ IF dev[d].affected = {}
             THEN Return(d)
             ELSE BumpAll(d, dev[d].affected, dev[d].before) /\ UNCHANGED ended
       \/ \E g \in dev[d].todo :
            /\ dev' = [dev EXCEPT ![d].pc = "groups.members", ![d].group = g,
                                  ![d].todo = @ \ {g},
                                  ![d].affected = @ \cup (AppsOf(g) \X dev[d].users)]
            /\ UNCHANGED ended
    /\ UNCHANGED <<rules, version, consent, tokens, req>>

\* ... ListDeveloperGroupMembers, and whom that makes to add or to remove ...
ListGroupMembers(d) ==
    LET r == dev[d]
        in == {u \in r.users : <<r.group, u>> \in members}
        change == CASE r.mode = "remove" -> in
                    [] r.group \in r.sel -> r.users \ in
                    [] OTHER -> in
    IN
    /\ r.pc = "groups.members"
    /\ dev' = [dev EXCEPT ![d].writes = change,
                          ![d].group = IF change = {} THEN None ELSE @,
                          ![d].pc = IF change = {} THEN "groups.apps" ELSE "groups.write"]
    /\ UNCHANGED <<rules, version, consent, tokens, req, ended>>

\* ... and one INSERT IGNORE or DELETE for each of them.
WriteMember(d) ==
    LET r == dev[d]
        adding == r.mode # "remove" /\ r.group \in r.sel
    IN
    /\ r.pc = "groups.write"
    /\ \E u \in r.writes :
         LET m == <<r.group, u>>
             last == r.writes = {u}
         IN
         /\ members' = IF adding THEN members \cup {m} ELSE members \ {m}
         /\ dev' = [dev EXCEPT
               ![d].writes = @ \ {u},
               ![d].group = IF last THEN None ELSE @,
               ![d].pc = IF last THEN "groups.apps" ELSE "groups.write",
               ![d].before = IF members' = members THEN @
                             ELSE @ \cup Out(AppsOf(r.group) \X {u})]
    /\ UNCHANGED <<groups, bindings, ban, version, consent, tokens, req, ended>>

\* BumpAppUserAccessVersion of one pair: an atomic upsert ...
Bump(d) ==
    /\ dev[d].pc = "bump"
    /\ \E p \in dev[d].affected :
         /\ version[p] < MaxVersion
         /\ version' = [version EXCEPT ![p] = @ + 1]
         /\ dev' = [dev EXCEPT ![d].pc = "revoke", ![d].app = p[1], ![d].writes = {p[2]},
                               ![d].affected = @ \ {p}]
    /\ UNCHANGED <<rules, consent, tokens, req, ended>>

\* ... then RevokeRefreshTokensByUserClient of the same pair.  Where the groups of users
\* are changed its error is dropped, as is that of GetApp before it, and the request
\* goes on: those families are no longer among what it ends.
Revoke(d) ==
    LET r == dev[d]
        hit == {f \in Family : family[f].st = "live" /\ family[f].app = r.app /\ family[f].user \in r.writes}
    IN
    /\ r.pc = "revoke"
    /\ \E missed \in IF "fail" \in Ops /\ r.mode # "none" THEN {{}, hit} ELSE {{}} :
         /\ family' = [f \in Family |-> IF f \in hit \ missed
                                         THEN [family[f] EXCEPT !.st = "revoked"] ELSE family[f]]
         /\ IF r.affected = {}
            THEN /\ dev' = [dev EXCEPT ![d] = DevIdle]
                 /\ ended' = ended \cup (r.before \ missed)
            ELSE BumpAll(d, r.affected, r.before \ missed) /\ UNCHANGED ended
    /\ UNCHANGED <<rules, version, consent, bearer, req>>

-----------------------------------------------------------------------------
(* Token requests: ExchangeAuthorizationCode (a new family) and             *)
(* ExchangeRefreshToken (a family that was live when it was rotated)        *)

Unmoved == UNCHANGED <<rules, version, consent, dev, ended>>

\* The code was issued with a consent row of the user for the application.
Exchange(w, a, u) ==
    /\ req[w].pc = "idle"
    /\ consent[<<a, u>>] # "none"
    /\ req' = [req EXCEPT ![w] = [Idle EXCEPT !.pc = "ban", !.app = a, !.user = u]]
    /\ Unmoved /\ UNCHANGED tokens

Refresh(w, f) ==
    /\ req[w].pc = "idle"
    /\ family[f].st = "live"
    /\ req' = [req EXCEPT ![w] = [Idle EXCEPT !.pc = "ban", !.app = family[f].app,
                                              !.user = family[f].user, !.family = f]]
    /\ Unmoved /\ UNCHANGED tokens

Continue(w, pc) == req' = [req EXCEPT ![w].pc = pc]
Refuse(w) == req' = [req EXCEPT ![w] = Idle]

GetActiveAppUserBan(w) ==
    /\ req[w].pc = "ban"
    /\ IF Banned(req[w].app, req[w].user) THEN Refuse(w) ELSE Continue(w, "bindings")
    /\ Unmoved /\ UNCHANGED tokens

ListAppGroupBindings(w) ==
    /\ req[w].pc = "bindings"
    /\ LET bound == BoundGroups(req[w].app) IN
       req' = [req EXCEPT ![w].bound = bound,
                          ![w].pc = IF bound = {} THEN "version" ELSE "groups"]
    /\ Unmoved /\ UNCHANGED tokens

ListUserGroupsByOwner(w) ==
    /\ req[w].pc = "groups"
    /\ IF req[w].bound \cap GroupsOf(req[w].user) = {} THEN Refuse(w)
       ELSE req' = [req EXCEPT ![w].bound = {}, ![w].pc = "version"]
    /\ Unmoved /\ UNCHANGED tokens

\* Mutant: the missing row reads as version 0, effectiveAppAccessVersion forgotten.
ReadRawVersion(w) ==
    LET r == req[w]
        raw == IF version[<<r.app, r.user>>] = 1 THEN 0 ELSE version[<<r.app, r.user>>]
    IN
    /\ r.pc = "version"
    /\ req' = [req EXCEPT ![w].pc = "save", ![w].ver = raw]
    /\ Unmoved /\ UNCHANGED tokens

\* A refresh answers now, an exchange saves first.
ReadVersion(w) ==
    LET r == req[w] IN
    /\ r.pc = "version"
    /\ \E ver \in GetCurrentAppAccessVersion(<<r.app, r.user>>) :
         IF r.family = None
         THEN /\ req' = [req EXCEPT ![w].pc = "save", ![w].ver = ver]
              /\ UNCHANGED tokens
         ELSE /\ bearer' = bearer \cup {[app |-> r.app, user |-> r.user, ver |-> ver]}
              /\ Refuse(w)
              /\ UNCHANGED family
    /\ Unmoved

SaveRefreshToken(w) ==
    LET r == req[w] IN
    /\ r.pc = "save"
    /\ \E f \in Family :
         /\ family[f].st = "absent"
         /\ family' = [family EXCEPT ![f] = [st |-> "live", app |-> r.app, user |-> r.user]]
    /\ bearer' = bearer \cup {[app |-> r.app, user |-> r.user, ver |-> r.ver]}
    /\ Refuse(w)
    /\ Unmoved

\* A read of the rules fails, which refuses the request, or the process stops.
AbortRequest(w) ==
    /\ MayAbort
    /\ req[w].pc # "idle"
    /\ Refuse(w)
    /\ Unmoved /\ UNCHANGED tokens

-----------------------------------------------------------------------------
(* The clock, the consent pages, failures *)

ExpireBan(p) ==
    /\ "expire" \in Ops
    /\ ban[p] = "timed"
    /\ ban' = [ban EXCEPT ![p] = "over"]
    /\ UNCHANGED <<groups, members, bindings, version, consent, tokens, dev, req, ended>>

\* SaveConsent of an authorization, or the revocation of all consents.
ChangeConsent(p) ==
    /\ consent[p] # "live" \/ "consent" \in Ops
    /\ consent' = [consent EXCEPT ![p] = IF @ = "live" THEN "revoked" ELSE "live"]
    /\ UNCHANGED <<rules, version, tokens, dev, req, ended>>

AbortDev(d) ==
    /\ MayAbort
    /\ dev[d].pc # "idle"
    /\ dev' = [dev EXCEPT ![d] = DevIdle]
    /\ UNCHANGED <<rules, version, consent, tokens, req, ended>>

-----------------------------------------------------------------------------
DevBegins(d) ==
    \/ \E a \in App, u \in User : BanAppUser(d, a, u)
    \/ \E a \in App, u \in User : UnbanAppUser(d, a, u)
    \/ \E a \in App, G \in SUBSET Group : UpdateAppBindings(d, a, G)
    \/ \E U \in (SUBSET User) \ {{}}, G \in SUBSET Group, m \in {"append", "replace", "remove"} :
         BatchUpdateManagedUserGroups(d, U, G, m)
    \/ \E g \in Group : DeleteDeveloperGroup(d, g)

DevStep(d) ==
    \/ WriteBan(d) \/ WriteBindings(d) \/ ListManagedUsers(d) \/ WriteDelete(d)
    \/ ListGroupApps(d) \/ ListGroupMembers(d) \/ WriteMember(d)
    \/ Bump(d) \/ Revoke(d)

RequestStep(w) ==
    \/ \E a \in App, u \in User : Exchange(w, a, u)
    \/ \E f \in Family : Refresh(w, f)
    \/ GetActiveAppUserBan(w) \/ ListAppGroupBindings(w) \/ ListUserGroupsByOwner(w)
    \/ ReadVersion(w) \/ SaveRefreshToken(w) \/ AbortRequest(w)

Next ==
    \/ \E d \in Dev : DevBegins(d) \/ DevStep(d) \/ AbortDev(d)
    \/ \E w \in Worker : RequestStep(w)
    \/ \E g \in Group : CreateDeveloperGroup(g)
    \/ \E p \in Pair : ExpireBan(p) \/ ChangeConsent(p)

Spec == Init /\ [][Next]_vars

-----------------------------------------------------------------------------
(* Properties *)

\* tokenClaimsStillValid: what UserInfo and Introspect accept, when the version
\* reads as current.
Accepted(b, current) == Allowed(b.app, b.user) /\ b.ver = current

\* The three kinds of change that bump the access version: a ban or its removal,
\* new group bindings, and new memberships.  What was out for a user and an
\* application when a rule of theirs was written has ended when the change is
\* complete, and no later change, end of a ban or request brings it back.  Two
\* things the code lets pass: an access token is accepted again by a check whose
\* read of the version fails, if it is of version 1; and a change of memberships
\* is complete though the revocation of a family failed, which stays out.
RuleChangeEndsTokens ==
    /\ \A b \in ended \cap bearer : LET p == <<b.app, b.user>> IN
         \A current \in GetCurrentAppAccessVersion(p) : Accepted(b, current) => current # version[p]
    /\ \A f \in ended \cap Family : family[f].st # "live"

\* The developer manual: "After a rule change, existing refresh tokens for that
\* app are revoked and prior access tokens also stop working because the
\* per-user per-app access version changes."  Asked, with several requests of the
\* console, only of moments at which no rule change is under way: memberships
\* written for a user end the tokens of every application the group is bound to
\* by then, not of those it was bound to when the request read them.
SettledRulesEndTokens ==
    (\A d \in Dev : dev[d].pc = "idle") => RuleChangeEndsTokens
=============================================================================
