--------------------------- MODULE TokenEndpoint ---------------------------
(***************************************************************************)
(* The OAuth token service of MySSO: service/oauth/service.go and          *)
(* service/consent/service.go over the tables of store/mysql/oauth_repo.go *)
(* (authorization_codes, refresh_tokens, consents).                        *)
(*                                                                         *)
(* Every HTTP request runs in a worker (a goroutine) and takes one step    *)
(* per database statement or transaction, so the steps of two requests     *)
(* interleave exactly where the database lets them.  The rows other        *)
(* services write (users, app status, access rules and versions) are       *)
(* environment variables here: their writers are over-approximated by the  *)
(* statements at the end of the module, in any order and at any time.      *)
(***************************************************************************)
EXTENDS Naturals

CONSTANTS
    User,        \* platform accounts
    Client,      \* client_id of the registered applications
    Scopes,      \* the scope lists an authorization request may ask for (sets)
    Code,        \* values an authorization code can take (uuids, used once)
    Token,       \* values a refresh token can take (uuids, used once)
    Grant,       \* ids a consent row can take (uuids, used once)
    Worker,      \* concurrent request handlers
    None,        \* the empty column
    MaxVersion,  \* bound on auth_version and on the app access version
    MayAbort,    \* TRUE: a handler may stop after any statement
    MayFail,     \* TRUE: a statement whose error the code drops may fail
    Ops          \* the operations this instance runs

Operations ==
    {"authorize", "exchange", "refresh", "revoke", "consent", "logout", "account", "access",
     "app", "cleanup", "expire"}

ASSUME NoneAssumption == None \notin User \cup Client \cup Code \cup Token \cup Grant \cup Scopes
ASSUME ValuesAssumption == Code \cap Token = {}
ASSUME ScopesAssumption == \A s \in Scopes : "openid" \in s
ASSUME MaxVersionAssumption == MaxVersion \in Nat \ {0}
ASSUME MayAbortAssumption == MayAbort \in BOOLEAN
ASSUME MayFailAssumption == MayFail \in BOOLEAN
ASSUME OpsAssumption == Ops \subseteq Operations

VARIABLES
    codes,       \* table authorization_codes
    refresh,     \* table refresh_tokens
    consents,    \* table consents
    req,         \* what each worker is doing, with the values it has read
    known,       \* code and refresh token values a response has carried out
    bearer,      \* access tokens (JWT claims) a response has carried out
    account,     \* users: status = active, auth_version
    approved,    \* client_apps whose status is approved
    allowed,     \* pairs that EvaluateUserAppAccess lets through
    appVersion   \* app_user_access_states.access_version, 1 when there is no row

store == <<codes, refresh, consents>>
env == <<account, approved, allowed, appVersion>>
vars == <<codes, refresh, consents, req, known, bearer, account, approved, allowed, appVersion>>

Version == 1..MaxVersion

(***************************************************************************)
(* Rows.  A row that does not exist yet is "absent", one that has been     *)
(* deleted is "deleted", one whose INSERT failed unnoticed is "lost": the  *)
(* uuid is never drawn again.  expired stands for expires_at lying in the  *)
(* past.  origin is a history column: the authorization code the family of *)
(* a refresh token descends from.                                          *)
(***************************************************************************)
CodeRow ==
    [st: {"absent", "lost", "fresh", "used", "deleted"}, user: User \cup {None},
     client: Client \cup {None}, scopes: Scopes \cup {None}, expired: BOOLEAN]
TokenRow ==
    [st: {"absent", "lost", "live", "revoked", "deleted"}, user: User \cup {None},
     client: Client \cup {None}, scopes: Scopes \cup {None}, from: Token \cup {None},
     next: Token \cup {None}, expired: BOOLEAN, origin: Code \cup {None}]
ConsentRow ==
    [st: {"absent", "live", "revoked", "deleted"}, user: User \cup {None},
     client: Client \cup {None}, scopes: Scopes \cup {None}]
AccessToken ==
    [user: User, client: Client, scopes: Scopes, ver: Version, app_ver: Version]

PC == {"idle",
       "authorize.access", "authorize.consent", "authorize.code", "authorize.grant",
       "exchange.consume", "exchange.user", "exchange.access", "exchange.version",
       "exchange.save",
       "refresh.rotate", "refresh.reuse", "refresh.user", "refresh.access",
       "refresh.version",
       "revoke.write", "consent.revoke", "consent.tokens"}

Request ==
    [pc: PC, user: User \cup {None}, client: Client \cup {None}, scopes: Scopes \cup {None},
     code: Code \cup {None}, token: Token \cup {None}, grant: Grant \cup {None},
     ok: BOOLEAN, ver: Version, app_ver: Version]

Idle == [pc |-> "idle", user |-> None, client |-> None, scopes |-> None, code |-> None,
         token |-> None, grant |-> None, ok |-> FALSE, ver |-> 1, app_ver |-> 1]

NoCode == [st |-> "absent", user |-> None, client |-> None, scopes |-> None, expired |-> FALSE]
NoToken == [st |-> "absent", user |-> None, client |-> None, scopes |-> None, from |-> None,
            next |-> None, expired |-> FALSE, origin |-> None]
NoConsent == [st |-> "absent", user |-> None, client |-> None, scopes |-> None]

Saved(row) == row.st \notin {"absent", "lost"}

TypeOK ==
    /\ codes \in [Code -> CodeRow]
    /\ refresh \in [Token -> TokenRow]
    /\ consents \in [Grant -> ConsentRow]
    /\ req \in [Worker -> Request]
    /\ known \subseteq Code \cup Token
    /\ bearer \subseteq AccessToken
    /\ account \in [User -> [active: BOOLEAN, ver: Version]]
    /\ approved \subseteq Client
    /\ allowed \subseteq User \X Client
    /\ appVersion \in [User \X Client -> Version]

Init ==
    /\ codes = [c \in Code |-> NoCode]
    /\ refresh = [t \in Token |-> NoToken]
    /\ consents = [g \in Grant |-> NoConsent]
    /\ req = [w \in Worker |-> Idle]
    /\ known = {}
    /\ bearer = {}
    /\ account = [u \in User |-> [active |-> TRUE, ver |-> 1]]
    /\ approved = Client
    /\ allowed = User \X Client
    /\ appVersion = [uc \in User \X Client |-> 1]

-----------------------------------------------------------------------------
(* Statements of the store *)

LiveTokensOf(u, c) ==
    {t \in Token : refresh[t].st = "live" /\ refresh[t].user = u /\ refresh[t].client = c}
LiveTokensOfUser(u) == {t \in Token : refresh[t].st = "live" /\ refresh[t].user = u}

\* UPDATE refresh_tokens SET revoked = 1 over the rows S of one statement.
SetRevoked(S) ==
    refresh' = [t \in Token |-> IF t \in S THEN [refresh[t] EXCEPT !.st = "revoked"]
                                           ELSE refresh[t]]

\* An INSERT with a fresh uuid that drops its error: the row, or nothing at all.
Insert(row, none) == {row} \cup (IF MayFail THEN {[none EXCEPT !.st = "lost"]} ELSE {})

\* Mutant: the missing row reads as 0, effectiveAppAccessVersion forgotten.
RawVersions(u, c) == {IF appVersion[<<u, c>>] = 1 THEN 0 ELSE appVersion[<<u, c>>]}

\* GetCurrentAppAccessVersion: an error reads as version 1.
ReadableVersions(u, c) == {appVersion[<<u, c>>]} \cup (IF MayFail THEN {1} ELSE {})

HasConsent(u, c, s) ==
    \E g \in Grant : /\ consents[g].st = "live"
                     /\ consents[g].user = u
                     /\ consents[g].client = c
                     /\ s \subseteq consents[g].scopes

-----------------------------------------------------------------------------
(* Control flow of a worker *)

Goto(w, pc) == req' = [req EXCEPT ![w].pc = pc]
Finish(w) == req' = [req EXCEPT ![w] = Idle]

\* The handler returns an error: nothing is written and nothing is answered.
Fail(w) == Finish(w) /\ UNCHANGED <<store, known, bearer, env>>

-----------------------------------------------------------------------------
(* GenerateAuthorizationCode *)

\* The session's user asks for a code: the app is read first (approved,
\* redirect URI, scopes).  ok is "prompt is not none and the user accepted".
Authorize(w, u, c, s, accepted) ==
    /\ "authorize" \in Ops
    /\ req[w].pc = "idle"
    /\ account[u].active
    /\ c \in approved
    /\ req' = [req EXCEPT ![w] = [Idle EXCEPT !.pc = "authorize.access", !.user = u,
                                              !.client = c, !.scopes = s, !.ok = accepted]]
    /\ UNCHANGED <<store, known, bearer, env>>

AuthorizeAccess(w) ==
    /\ req[w].pc = "authorize.access"
    /\ IF <<req[w].user, req[w].client>> \in allowed
       THEN Goto(w, "authorize.consent") /\ UNCHANGED <<store, known, bearer, env>>
       ELSE Fail(w)

\* ok becomes hasConsent: without it the consent row is saved after the code.
AuthorizeConsent(w) ==
    /\ req[w].pc = "authorize.consent"
    /\ LET has == HasConsent(req[w].user, req[w].client, req[w].scopes) IN
       IF has \/ req[w].ok
       THEN /\ req' = [req EXCEPT ![w].pc = "authorize.code", ![w].ok = has]
            /\ UNCHANGED <<store, known, bearer, env>>
       ELSE Fail(w)

\* Mutant: the code leaves before the consent row is saved.
AnswerBeforeConsent(w) ==
    /\ req[w].pc = "authorize.code"
    /\ \E c \in Code :
        /\ codes[c].st = "absent"
        /\ codes' = [codes EXCEPT ![c] = [st |-> "fresh", user |-> req[w].user,
                                         client |-> req[w].client,
                                         scopes |-> req[w].scopes, expired |-> FALSE]]
        /\ known' = known \cup {c}
        /\ req' = [req EXCEPT ![w] = IF req[w].ok THEN Idle
                                     ELSE [@ EXCEPT !.pc = "authorize.grant", !.code = c]]
    /\ UNCHANGED <<refresh, consents, bearer, env>>

SaveAuthorizationCode(w) ==
    /\ req[w].pc = "authorize.code"
    /\ \E c \in Code, row \in Insert([st |-> "fresh", user |-> req[w].user,
                                      client |-> req[w].client,
                                      scopes |-> req[w].scopes, expired |-> FALSE], NoCode) :
        /\ codes[c].st = "absent"
        /\ codes' = [codes EXCEPT ![c] = row]
        /\ IF req[w].ok
           THEN Finish(w) /\ known' = known \cup {c}
           ELSE /\ req' = [req EXCEPT ![w].pc = "authorize.grant", ![w].code = c]
                /\ UNCHANGED known
    /\ UNCHANGED <<refresh, consents, bearer, env>>

SaveConsent(w) ==
    /\ req[w].pc = "authorize.grant"
    /\ \/ \E g \in Grant :
            /\ consents[g].st = "absent"
            /\ consents' = [consents EXCEPT ![g] = [st |-> "live", user |-> req[w].user,
                                                    client |-> req[w].client,
                                                    scopes |-> req[w].scopes]]
       \/ MayFail /\ UNCHANGED consents
    /\ known' = known \cup {req[w].code}
    /\ Finish(w)
    /\ UNCHANGED <<codes, refresh, bearer, env>>

-----------------------------------------------------------------------------
(* ExchangeAuthorizationCode *)

\* A client presents a code a redirect has carried to it.  ok says that
\* redirect_uri and the PKCE verifier are those of the authorization request.
ExchangeCode(w, c, k, match) ==
    /\ "exchange" \in Ops
    /\ req[w].pc = "idle"
    /\ c \in approved
    /\ k \in known
    /\ req' = [req EXCEPT ![w] = [Idle EXCEPT !.pc = "exchange.consume", !.client = c,
                                              !.code = k, !.ok = match]]
    /\ UNCHANGED <<store, known, bearer, env>>

\* Mutant: the UPDATE does not ask whether the code has been used.
RedeemableAgain(k, c, match) ==
    codes[k].st \in {"fresh", "used"} /\ ~codes[k].expired /\ codes[k].client = c /\ match

Redeemable(k, c, match) ==
    codes[k].st = "fresh" /\ ~codes[k].expired /\ codes[k].client = c /\ match

\* Mutant: the code is read and checked, and spent only after the answer.
ReadAuthorizationCode(w) ==
    /\ req[w].pc = "exchange.consume"
    /\ LET k == req[w].code IN
       IF Redeemable(k, req[w].client, req[w].ok)
       THEN /\ req' = [req EXCEPT ![w].pc = "exchange.user", ![w].user = codes[k].user,
                                  ![w].scopes = codes[k].scopes]
            /\ UNCHANGED <<codes, refresh, consents, known, bearer, env>>
       ELSE Fail(w)

\* One conditional UPDATE decides; every other outcome leaves the row alone.
ConsumeAuthorizationCode(w) ==
    /\ req[w].pc = "exchange.consume"
    /\ LET k == req[w].code IN
       IF Redeemable(k, req[w].client, req[w].ok)
       THEN /\ codes' = [codes EXCEPT ![k].st = "used"]
            /\ req' = [req EXCEPT ![w].pc = "exchange.user", ![w].user = codes[k].user,
                                  ![w].scopes = codes[k].scopes]
            /\ UNCHANGED <<refresh, consents, known, bearer, env>>
       ELSE Fail(w)

\* GetUser, AllowsAuthenticatedAccess; the claim "ver" is this read's.
ReadUser(w, pc, next) ==
    /\ req[w].pc = pc
    /\ IF account[req[w].user].active
       THEN /\ req' = [req EXCEPT ![w].pc = next, ![w].ver = account[req[w].user].ver]
            /\ UNCHANGED <<store, known, bearer, env>>
       ELSE Fail(w)

\* EnsureAppAccessAllowed
CheckAccess(w, pc, next) ==
    /\ req[w].pc = pc
    /\ IF <<req[w].user, req[w].client>> \in allowed
       THEN Goto(w, next) /\ UNCHANGED <<store, known, bearer, env>>
       ELSE Fail(w)

ExchangeVersion(w) ==
    /\ req[w].pc = "exchange.version"
    /\ \E v \in ReadableVersions(req[w].user, req[w].client) :
         req' = [req EXCEPT ![w].pc = "exchange.save", ![w].app_ver = v]
    /\ UNCHANGED <<store, known, bearer, env>>

Claims(w, v) == [user |-> req[w].user, client |-> req[w].client, scopes |-> req[w].scopes,
                 ver |-> req[w].ver, app_ver |-> v]

\* SaveRefreshToken, then the response leaves with both tokens.
SaveRefreshToken(w) ==
    /\ req[w].pc = "exchange.save"
    /\ \E n \in Token, row \in Insert([st |-> "live", user |-> req[w].user,
                                       client |-> req[w].client, scopes |-> req[w].scopes,
                                       from |-> None, next |-> None, expired |-> FALSE,
                                       origin |-> req[w].code], NoToken) :
        /\ refresh[n].st = "absent"
        /\ refresh' = [refresh EXCEPT ![n] = row]
        /\ known' = known \cup {n}
    /\ bearer' = bearer \cup {Claims(w, req[w].app_ver)}
    /\ Finish(w)
    /\ UNCHANGED <<codes, consents, env>>

-----------------------------------------------------------------------------
(* ExchangeRefreshToken *)

RefreshToken(w, c, t) ==
    /\ "refresh" \in Ops
    /\ req[w].pc = "idle"
    /\ c \in approved
    /\ t \in known
    /\ req' = [req EXCEPT ![w] = [Idle EXCEPT !.pc = "refresh.rotate", !.client = c,
                                              !.token = t]]
    /\ UNCHANGED <<store, known, bearer, env>>

\* Mutant: the rotation does not ask whether the row is revoked.
RotatableAlways(t, c) ==
    refresh[t].st \in {"live", "revoked"} /\ ~refresh[t].expired /\ refresh[t].client = c

Rotatable(t, c) ==
    refresh[t].st = "live" /\ ~refresh[t].expired /\ refresh[t].client = c
Replayed(t, c) ==
    refresh[t].st = "revoked" /\ refresh[t].next # None /\ refresh[t].client = c

\* Mutant: the successor is inserted and the presented row stays live.
RotateKeepingOld(t, n) ==
    refresh' = [refresh EXCEPT
        ![t].next = n,
        ![n] = [st |-> "live", user |-> refresh[t].user, client |-> refresh[t].client,
                scopes |-> refresh[t].scopes, from |-> t, next |-> None,
                expired |-> FALSE, origin |-> refresh[t].origin]]

\* Mutant: replaced_by is not written.
RotateUnlinked(t, n) ==
    refresh' = [refresh EXCEPT
        ![t].st = "revoked",
        ![n] = [st |-> "live", user |-> refresh[t].user, client |-> refresh[t].client,
                scopes |-> refresh[t].scopes, from |-> t, next |-> None,
                expired |-> FALSE, origin |-> refresh[t].origin]]

\* One transaction: the presented row is spent and its successor inserted.
Rotate(t, n) ==
    refresh' = [refresh EXCEPT
        ![t].st = "revoked", ![t].next = n,
        ![n] = [st |-> "live", user |-> refresh[t].user, client |-> refresh[t].client,
                scopes |-> refresh[t].scopes, from |-> t, next |-> None,
                expired |-> FALSE, origin |-> refresh[t].origin]]

RotateRefreshToken(w) ==
    /\ req[w].pc = "refresh.rotate"
    /\ LET t == req[w].token IN
       \/ /\ Rotatable(t, req[w].client)
          /\ \E n \in Token :
              /\ refresh[n].st = "absent"
              /\ Rotate(t, n)
              /\ req' = [req EXCEPT ![w].pc = "refresh.user", ![w].user = refresh[t].user,
                                    ![w].scopes = refresh[t].scopes, ![w].token = n]
          /\ UNCHANGED <<codes, consents, known, bearer, env>>
       \/ /\ Replayed(t, req[w].client)
          /\ req' = [req EXCEPT ![w].pc = "refresh.reuse", ![w].user = refresh[t].user]
          /\ UNCHANGED <<store, known, bearer, env>>
       \/ /\ ~Rotatable(t, req[w].client)
          /\ ~Replayed(t, req[w].client)
          /\ Fail(w)

\* Mutant: only the presented token is revoked, its successor stays live.
RevokePresented(w) ==
    /\ req[w].pc = "refresh.reuse"
    /\ SetRevoked({req[w].token})
    /\ Finish(w)
    /\ UNCHANGED <<codes, consents, known, bearer, env>>

\* Reuse detected: a second statement revokes the user's tokens for the client.
RevokeOnReuse(w) ==
    /\ req[w].pc = "refresh.reuse"
    /\ SetRevoked(LiveTokensOf(req[w].user, req[w].client))
    /\ Finish(w)
    /\ UNCHANGED <<codes, consents, known, bearer, env>>

\* The access version is the last read; then the response leaves.
RefreshRespond(w) ==
    /\ req[w].pc = "refresh.version"
    /\ known' = known \cup {req[w].token}
    /\ \E v \in ReadableVersions(req[w].user, req[w].client) :
         bearer' = bearer \cup {Claims(w, v)}
    /\ Finish(w)
    /\ UNCHANGED <<store, env>>

-----------------------------------------------------------------------------
(* RevokeTokenByClient: read, then an UPDATE by primary key *)

RevokeToken(w, c, t) ==
    /\ "revoke" \in Ops
    /\ req[w].pc = "idle"
    /\ t \in known
    /\ refresh[t].st = "live"
    /\ refresh[t].client = c
    /\ req' = [req EXCEPT ![w] = [Idle EXCEPT !.pc = "revoke.write", !.token = t]]
    /\ UNCHANGED <<store, known, bearer, env>>

RevokeTokenWrite(w) ==
    /\ req[w].pc = "revoke.write"
    /\ SetRevoked({t \in {req[w].token} : refresh[t].st # "deleted"})
    /\ Finish(w)
    /\ UNCHANGED <<codes, consents, known, bearer, env>>

-----------------------------------------------------------------------------
(* ConsentService.RevokeConsent *)

RevokeConsent(w, g) ==
    /\ "consent" \in Ops
    /\ req[w].pc = "idle"
    /\ consents[g].st = "live"
    /\ req' = [req EXCEPT ![w] = [Idle EXCEPT !.pc = "consent.revoke", !.grant = g,
                                              !.user = consents[g].user,
                                              !.client = consents[g].client]]
    /\ UNCHANGED <<store, known, bearer, env>>

RevokeConsentWrite(w) ==
    /\ req[w].pc = "consent.revoke"
    /\ consents' = [g \in Grant |-> IF g = req[w].grant /\ consents[g].st = "live"
                                    THEN [consents[g] EXCEPT !.st = "revoked"]
                                    ELSE consents[g]]
    /\ Goto(w, "consent.tokens")
    /\ UNCHANGED <<codes, refresh, known, bearer, env>>

RevokeConsentTokens(w) ==
    /\ req[w].pc = "consent.tokens"
    /\ SetRevoked(LiveTokensOf(req[w].user, req[w].client))
    /\ Finish(w)
    /\ UNCHANGED <<codes, consents, known, bearer, env>>

-----------------------------------------------------------------------------
(* A handler stops: a database error, a lost connection, a restart; or, in  *)
(* RevokeOnReuse, the error of the UPDATE is dropped.                        *)
Abort(w) ==
    /\ MayAbort
    /\ req[w].pc # "idle"
    /\ Fail(w)

-----------------------------------------------------------------------------
(* Statements of the other services, and the clock *)

\* RevokeRefreshTokensByUser, from InvalidateSessionAuthState (logout).
RevokeRefreshTokensByUser(u) ==
    /\ "logout" \in Ops
    /\ SetRevoked(LiveTokensOfUser(u))
    /\ UNCHANGED <<codes, consents, req, known, bearer, env>>

\* RevokeRefreshTokensByUserClient, from the developer access handlers.
RevokeRefreshTokensByUserClient(u, c) ==
    /\ "access" \in Ops
    /\ SetRevoked(LiveTokensOf(u, c))
    /\ UNCHANGED <<codes, consents, req, known, bearer, env>>

\* UpdateUser writes whole rows read earlier: any status and version may return.
UpdateUser(u, active, v) ==
    /\ "account" \in Ops
    /\ account' = [account EXCEPT ![u] = [active |-> active, ver |-> v]]
    /\ UNCHANGED <<store, req, known, bearer, approved, allowed, appVersion>>

\* UpdateUserAndInvalidateAuth: the row, the tokens and the codes in one transaction.
UpdateUserAndInvalidateAuth(u, active, v) ==
    /\ "account" \in Ops
    /\ account' = [account EXCEPT ![u] = [active |-> active, ver |-> v]]
    /\ SetRevoked(LiveTokensOfUser(u))
    /\ codes' = [c \in Code |-> IF codes[c].user = u THEN [codes[c] EXCEPT !.st = "deleted"]
                                                     ELSE codes[c]]
    /\ UNCHANGED <<consents, req, known, bearer, approved, allowed, appVersion>>

\* One transaction deletes the rows of the user and of the apps the user owns.
DeleteUser(u, apps) ==
    /\ "account" \in Ops
    /\ account' = [account EXCEPT ![u].active = FALSE]
    /\ approved' = approved \ apps
    /\ codes' = [c \in Code |-> IF codes[c].user = u \/ codes[c].client \in apps
                                THEN [codes[c] EXCEPT !.st = "deleted"] ELSE codes[c]]
    /\ refresh' = [t \in Token |-> IF refresh[t].user = u \/ refresh[t].client \in apps
                                   THEN [refresh[t] EXCEPT !.st = "deleted"] ELSE refresh[t]]
    /\ consents' = [g \in Grant |-> IF consents[g].user = u \/ consents[g].client \in apps
                                    THEN [consents[g] EXCEPT !.st = "deleted"] ELSE consents[g]]
    /\ UNCHANGED <<req, known, bearer, allowed, appVersion>>

\* A ban, a membership, a binding or the end of a ban changes who is let through.
ChangeAccess(u, c) ==
    /\ "access" \in Ops
    /\ allowed' = IF <<u, c>> \in allowed THEN allowed \ {<<u, c>>}
                                          ELSE allowed \cup {<<u, c>>}
    /\ UNCHANGED <<store, req, known, bearer, account, approved, appVersion>>

BumpAppUserAccessVersion(u, c) ==
    /\ "access" \in Ops
    /\ appVersion[<<u, c>>] < MaxVersion
    /\ appVersion' = [appVersion EXCEPT ![<<u, c>>] = @ + 1]
    /\ UNCHANGED <<store, req, known, bearer, account, approved, allowed>>

\* Review, disabling and enabling of an application only rewrite client_apps.
ChangeAppStatus(c) ==
    /\ "app" \in Ops
    /\ approved' = IF c \in approved THEN approved \ {c} ELSE approved \cup {c}
    /\ UNCHANGED <<store, req, known, bearer, account, allowed, appVersion>>

CleanupCodes ==
    /\ "cleanup" \in Ops
    /\ codes' = [c \in Code |-> IF codes[c].st = "used" \/ (codes[c].st = "fresh" /\ codes[c].expired)
                                THEN [codes[c] EXCEPT !.st = "deleted"] ELSE codes[c]]
    /\ UNCHANGED <<refresh, consents, req, known, bearer, env>>

CleanupTokens ==
    /\ "cleanup" \in Ops
    /\ refresh' = [t \in Token |-> IF Saved(refresh[t]) /\ refresh[t].expired
                                   THEN [refresh[t] EXCEPT !.st = "deleted"] ELSE refresh[t]]
    /\ UNCHANGED <<codes, consents, req, known, bearer, env>>

CleanupConsents ==
    /\ "cleanup" \in Ops
    /\ \E S \in SUBSET {g \in Grant : consents[g].st = "revoked"} :
        consents' = [g \in Grant |-> IF g \in S THEN [consents[g] EXCEPT !.st = "deleted"]
                                                ELSE consents[g]]
    /\ UNCHANGED <<codes, refresh, req, known, bearer, env>>

ExpireCode(c) ==
    /\ "expire" \in Ops
    /\ codes[c].st = "fresh"
    /\ codes' = [codes EXCEPT ![c].expired = TRUE]
    /\ UNCHANGED <<refresh, consents, req, known, bearer, env>>

ExpireToken(t) ==
    /\ "expire" \in Ops
    /\ refresh[t].st \in {"live", "revoked"}
    /\ refresh' = [refresh EXCEPT ![t].expired = TRUE]
    /\ UNCHANGED <<codes, consents, req, known, bearer, env>>

-----------------------------------------------------------------------------
\* The steps a running handler takes by itself.
Step(w) ==
    \/ AuthorizeAccess(w)
    \/ AuthorizeConsent(w)
    \/ SaveAuthorizationCode(w)
    \/ SaveConsent(w)
    \/ ConsumeAuthorizationCode(w)
    \/ ReadUser(w, "exchange.user", "exchange.access")
    \/ CheckAccess(w, "exchange.access", "exchange.version")
    \/ ExchangeVersion(w)
    \/ SaveRefreshToken(w)
    \/ RotateRefreshToken(w)
    \/ RevokeOnReuse(w)
    \/ ReadUser(w, "refresh.user", "refresh.access")
    \/ CheckAccess(w, "refresh.access", "refresh.version")
    \/ RefreshRespond(w)
    \/ RevokeTokenWrite(w)
    \/ RevokeConsentWrite(w)
    \/ RevokeConsentTokens(w)

\* A new request arrives at an idle worker.
Arrive(w) ==
    \/ \E u \in User, c \in Client, s \in Scopes, a \in BOOLEAN : Authorize(w, u, c, s, a)
    \/ \E c \in Client, k \in Code, m \in BOOLEAN : ExchangeCode(w, c, k, m)
    \/ \E c \in Client, t \in Token : RefreshToken(w, c, t)
    \/ \E c \in Client, t \in Token : RevokeToken(w, c, t)
    \/ \E g \in Grant : RevokeConsent(w, g)

Environment ==
    \/ \E u \in User : RevokeRefreshTokensByUser(u)
    \/ \E u \in User, c \in Client : RevokeRefreshTokensByUserClient(u, c)
    \/ \E u \in User, a \in BOOLEAN, v \in Version : UpdateUser(u, a, v)
    \/ \E u \in User, a \in BOOLEAN, v \in Version : UpdateUserAndInvalidateAuth(u, a, v)
    \/ \E u \in User, apps \in SUBSET Client : DeleteUser(u, apps)
    \/ \E u \in User, c \in Client : ChangeAccess(u, c)
    \/ \E u \in User, c \in Client : BumpAppUserAccessVersion(u, c)
    \/ \E c \in Client : ChangeAppStatus(c)
    \/ CleanupCodes
    \/ CleanupTokens
    \/ CleanupConsents
    \/ \E c \in Code : ExpireCode(c)
    \/ \E t \in Token : ExpireToken(t)

Next ==
    \/ \E w \in Worker : Step(w) \/ Arrive(w) \/ Abort(w)
    \/ Environment

Spec == Init /\ [][Next]_vars

\* A goroutine that has started a request goes on with it.
FairSpec == Spec /\ \A w \in Worker : WF_vars(Step(w))

-----------------------------------------------------------------------------
(* Properties *)

Family(k) == {t \in Token : Saved(refresh[t]) /\ refresh[t].origin = k}

Redeeming(w, k) ==
    /\ req[w].code = k
    /\ req[w].pc \in {"exchange.user", "exchange.access", "exchange.version", "exchange.save"}

\* Of all the refresh tokens that descend from one authorization code, at most
\* one is live, whatever requests rotate, replay and revoke at the same time
\* (RotateRefreshToken spends the old row and inserts the new one in one
\* transaction).
AtMostOneLiveToken ==
    \A s, t \in Token :
        refresh[s].st = "live" /\ refresh[t].st = "live" /\ refresh[s].origin = refresh[t].origin
            => s = t

\* A code is redeemed once: no two requests are past ConsumeAuthorizationCode
\* with the same code, and none is while the code's family has begun; a family
\* has one root.
RedeemedOnce ==
    /\ \A k \in Code, v, w \in Worker : Redeeming(v, k) /\ Redeeming(w, k) => v = w
    /\ \A k \in Code, w \in Worker : Redeeming(w, k) => Family(k) = {} /\ codes[k].st # "fresh"
    /\ \A k \in Code : Family(k) # {} => codes[k].st # "fresh"
    /\ \A s, t \in Token :
         /\ Saved(refresh[s]) /\ Saved(refresh[t])
         /\ refresh[s].from = None /\ refresh[t].from = None
         /\ refresh[s].origin = refresh[t].origin
         => s = t

\* Rotation links the rows of a family into a chain: a token has the successor
\* that names it as predecessor, only its end can be live, and every link is
\* still for the user, the client and the scopes the code was issued for.
RotationChain ==
    \A t \in Token :
        /\ refresh[t].from # None =>
             /\ refresh[refresh[t].from].next = t
             /\ refresh[refresh[t].from].st \in {"revoked", "deleted"}
        /\ refresh[t].next # None => refresh[refresh[t].next].from = t
        /\ Saved(refresh[t]) =>
             LET k == refresh[t].origin IN
             /\ k # None
             /\ refresh[t].user = codes[k].user
             /\ refresh[t].client = codes[k].client
             /\ refresh[t].scopes = codes[k].scopes

\* Whatever a client holds, a code or a refresh token, the user granted: a
\* consent row of that user for that client covered the scopes (it may have
\* been revoked since).  The row is saved after the code, but before the
\* response carries the code out, so a handler that stops in between hurts
\* nobody.
HeldIsConsented ==
    \A k \in Code :
        (k \in known \/ Family(k) # {}) =>
            \E g \in Grant : /\ Saved(consents[g])
                             /\ consents[g].user = codes[k].user
                             /\ consents[g].client = codes[k].client
                             /\ codes[k].scopes \subseteq consents[g].scopes

-----------------------------------------------------------------------------
(* The inductive invariant the proofs use *)

\* What a request has read by each step of its handler.
WellFormed(r) ==
    /\ r.pc \notin {"idle", "revoke.write"} => r.client \in Client
    /\ r.pc \notin {"idle", "exchange.consume", "refresh.rotate", "revoke.write"} =>
         r.user \in User
    /\ r.pc \notin {"idle", "exchange.consume", "refresh.rotate", "refresh.reuse",
                   "revoke.write", "consent.revoke", "consent.tokens"} => r.scopes \in Scopes
    /\ r.pc \in {"authorize.grant", "exchange.consume", "exchange.user", "exchange.access",
                "exchange.version", "exchange.save"} => r.code \in Code
    /\ r.pc \in {"refresh.rotate", "refresh.reuse", "refresh.user", "refresh.access",
                "refresh.version", "revoke.write"} => r.token \in Token
    /\ r.pc = "revoke.write" => Saved(refresh[r.token])

RequestOK == \A w \in Worker : WellFormed(req[w])

\* A saved row is filled in, any other row is empty; the code a refresh token
\* descends from has been consumed; a live token has no successor.
RowsOK ==
    /\ \A k \in Code :
         IF Saved(codes[k])
         THEN codes[k].user \in User /\ codes[k].client \in Client /\ codes[k].scopes \in Scopes
         ELSE codes[k].user = None /\ codes[k].client = None
    /\ \A t \in Token :
         IF Saved(refresh[t])
         THEN /\ refresh[t].user \in User /\ refresh[t].client \in Client
              /\ refresh[t].scopes \in Scopes
              /\ refresh[t].origin \in Code
              /\ codes[refresh[t].origin].st \in {"used", "deleted"}
         ELSE /\ refresh[t].user = None /\ refresh[t].client = None
              /\ refresh[t].from = None /\ refresh[t].next = None
    /\ \A t \in Token : refresh[t].st = "live" => refresh[t].next = None
    /\ \A g \in Grant :
         IF Saved(consents[g])
         THEN consents[g].user \in User /\ consents[g].client \in Client
         ELSE consents[g].user = None /\ consents[g].client = None

\* A redemption under way carries the columns of the code it has consumed.
RedeemingOK ==
    \A k \in Code, w \in Worker : Redeeming(w, k) =>
        /\ codes[k].st \in {"used", "deleted"}
        /\ req[w].user = codes[k].user
        /\ req[w].client = codes[k].client
        /\ req[w].scopes = codes[k].scopes

IndInv ==
    /\ TypeOK /\ RequestOK /\ RowsOK /\ RedeemingOK
    /\ AtMostOneLiveToken /\ RedeemedOnce /\ RotationChain

\* The user has granted client c the scopes s at some time.
Consented(u, c, s) ==
    \E g \in Grant : /\ Saved(consents[g])
                     /\ consents[g].user = u
                     /\ consents[g].client = c
                     /\ s \subseteq consents[g].scopes

\* What the requests on the way to or from a code that has left rely on: one
\* that answers without saving has found a consent row, one that saves the row
\* last carries the columns of its code, and only a code that has left is
\* presented.
CarriesConsent(r) ==
    /\ r.pc = "authorize.code" /\ r.ok => Consented(r.user, r.client, r.scopes)
    /\ r.pc = "authorize.grant" =>
         /\ Saved(codes[r.code])
         /\ codes[r.code].user = r.user
         /\ codes[r.code].client = r.client
         /\ codes[r.code].scopes = r.scopes
    /\ r.pc \in {"exchange.consume", "exchange.user", "exchange.access", "exchange.version",
                 "exchange.save"} => r.code \in known

\* HeldIsConsented with what makes it inductive, where no INSERT fails unnoticed.
HeldInv ==
    /\ \A k \in Code \cap known :
         Saved(codes[k]) /\ Consented(codes[k].user, codes[k].client, codes[k].scopes)
    /\ \A t \in Token : Saved(refresh[t]) => refresh[t].origin \in known
    /\ \A w \in Worker : CarriesConsent(req[w])

-----------------------------------------------------------------------------
(* Refinement, liveness and the promise of the help center *)

\* The phase of the grant an authorization code stands for.
Phase(k) ==
    IF ~Saved(codes[k]) THEN "none"
    ELSE IF codes[k].st = "fresh" /\ ~codes[k].expired THEN "code"
    ELSE IF \E w \in Worker : Redeeming(w, k) THEN "redeeming"
    ELSE IF \E t \in Family(k) : refresh[t].st = "live" /\ ~refresh[t].expired THEN "token"
    ELSE "over"

Lifecycle == INSTANCE GrantLifecycle WITH phase <- [k \in Code |-> Phase(k)]

\* Every run of the token endpoint is a run of the abstract grant: used,
\* expired, revoked, replayed and deleted are final for the whole family.
ImplementsLifecycle == Lifecycle!LifecycleSpec

\* A replay that has been detected does end the family: the second statement of
\* ExchangeRefreshToken revokes whatever successor is live by then.
ReplayEndsFamily ==
    \A k \in Code :
        (\E w \in Worker : req[w].pc = "refresh.reuse" /\ refresh[req[w].token].origin = k)
            ~> (\A t \in Family(k) : refresh[t].st # "live")

\* What UserInfo, Introspect and ValidateAccessTokenClaims accept.
TokenClaimsStillValid(b) ==
    /\ account[b.user].active
    /\ b.ver = account[b.user].ver
    /\ <<b.user, b.client>> \in allowed
    /\ b.app_ver = appVersion[<<b.user, b.client>>]

\* The help center: "After revocation, the app will no longer be able to access
\* protected resources with your account until you sign in again and approve a
\* new consent request."  An access token that is accepted belongs to a user
\* and client with a consent that is live, or whose revocation is under way.
RevokedConsentEndsAccess ==
    \A b \in bearer :
        TokenClaimsStillValid(b) =>
            \/ \E g \in Grant : /\ consents[g].st = "live"
                                /\ consents[g].user = b.user
                                /\ consents[g].client = b.client
            \/ \E w \in Worker : /\ req[w].pc = "consent.tokens"
                                 /\ req[w].user = b.user
                                 /\ req[w].client = b.client
=============================================================================
