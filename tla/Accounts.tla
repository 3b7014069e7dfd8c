------------------------------ MODULE Accounts ------------------------------
(***************************************************************************)
(* Accounts and sessions: the rows of users and sessions, and every        *)
(* handler of service/auth, service/user and service/admin that writes a   *)
(* user row.  A sign-in may stop at a challenge: an account due for        *)
(* deletion, a phone number to bind, a second factor.                      *)
(*                                                                         *)
(* No handler updates a column.  Each reads the whole row with GetUser,    *)
(* changes its copy and writes the whole copy back, with UpdateUser or, for*)
(* a security event, with UpdateUserAndInvalidateAuth; auth_version is     *)
(* incremented in the copy.  A handler here therefore takes a step for the *)
(* read and a step for the write, and carries the copy in between.         *)
(***************************************************************************)
EXTENDS Naturals

CONSTANTS
    User,        \* platform accounts, none of them an administrator
    Session,     \* places for session rows; a row that is gone leaves its place
    Worker,      \* concurrent requests, and the cleanup goroutine
    None,        \* the empty column
    MaxVersion,  \* bound on auth_version
    MaxDay,      \* bound on the clock, in grace periods
    Ops          \* the operations this instance runs

\* What a sign-in may be asked for: to cancel a deletion, a phone number, a second
\* factor (the step-up, or the enrollment, which writes the row).
Kind == {"cancel", "bind", "factor"}
Operations == {"profile", "security", "phone", "deletion", "reset", "admin", "admin.delete", "logout"} \cup Kind

ASSUME NoneAssumption == None \notin User \cup Session
ASSUME MaxVersionAssumption == MaxVersion \in Nat \ {0}
ASSUME MaxDayAssumption == MaxDay \in Nat
ASSUME OpsAssumption == Ops \subseteq Operations

VARIABLES
    users,       \* table users
    sessions,    \* table sessions
    challenges,  \* table auth_challenges: the user and the kind
    required,    \* users of user_security_policies.phone_binding_risk_required
    req,         \* what each request is doing, with the row it carries
    day,         \* the clock
    floor,       \* history: auth_version at the last security event nothing raced with
    frozen,      \* history: the account is frozen, and whether that ended all there was
    kept         \* history: a sign-in nothing raced with cancelled the deletion in time

history == <<floor, frozen, kept>>
vars == <<users, sessions, challenges, required, req, day, floor, frozen, kept>>

Version == 1..MaxVersion
\* del is deletion_scheduled_at: 0 for NULL, else the day the account is due.
Row == [st: {"active", "pending", "frozen", "deleted"}, ver: Version, del: 0..MaxDay]
\* ver is a history column: the auth_version of the row the sign-in had read.
SessionRow == [st: {"absent", "live"}, user: User \cup {None}, ver: Version]
NoSession == [st |-> "absent", user |-> None, ver |-> 1]

PC == {"idle", "user", "read", "write", "confirm", "cancel", "bind", "post", "require", "require.challenge",
       "login.write", "login.session", "cleanup"}
Request == [pc: PC, op: Operations \cup {"none"}, user: User \cup {None},
            session: Session \cup {None}, row: Row, inv: BOOLEAN, listed: SUBSET User]

\* Mutant: a new account is inserted with the zero value of auth_version.
NewRowUnversioned == [st |-> "active", ver |-> 0, del |-> 0]

NewRow == [st |-> "active", ver |-> 1, del |-> 0]
Idle == [pc |-> "idle", op |-> "none", user |-> None, session |-> None, row |-> NewRow,
         inv |-> FALSE, listed |-> {}]

TypeOK ==
    /\ users \in [User -> Row]
    /\ sessions \in [Session -> SessionRow]
    /\ challenges \subseteq User \X Kind
    /\ required \subseteq User
    /\ req \in [Worker -> Request]
    /\ day \in 0..MaxDay
    /\ floor \in [User -> 0..MaxVersion]
    /\ frozen \in [User -> {"no", "settled", "raced"}]
    /\ kept \in [User -> BOOLEAN]

Init ==
    /\ users = [u \in User |-> NewRow]
    /\ sessions = [s \in Session |-> NoSession]
    /\ challenges = {}
    /\ required = {}
    /\ req = [w \in Worker |-> Idle]
    /\ day = 0
    /\ floor = [u \in User |-> 0]
    /\ frozen = [u \in User |-> "no"]
    /\ kept = [u \in User |-> FALSE]

-----------------------------------------------------------------------------
(* Statements of the store *)

Exists(u) == users[u].st # "deleted"
Begin(w, r) == req[w].pc = "idle" /\ req' = [req EXCEPT ![w] = r]
Finish(w) == req' = [req EXCEPT ![w] = Idle]

\* Authenticated, with a copy of the row.
SigningIn(u, row) == [Idle EXCEPT !.pc = "post", !.user = u, !.row = row]

\* Sessions of the users in U are deleted.
WithoutSessionsOf(U) ==
    [s \in Session |-> IF sessions[s].st = "live" /\ sessions[s].user \in U
                       THEN NoSession ELSE sessions[s]]

\* UpdateUser: every column of the copy; no row, no effect, and no error.
UpdateUser(u, row) == users' = IF Exists(u) THEN [users EXCEPT ![u] = row] ELSE users

\* Nothing that a sign-in of u was asked for is left.
Without(u) == challenges \ ({u} \X Kind)

\* Mutant: the UPDATE of a security event leaves the status column out.
InvalidateWithoutStatus(u, row) ==
    /\ users' = [users EXCEPT ![u] = [row EXCEPT !.st = users[u].st]]
    /\ sessions' = WithoutSessionsOf({u})
    /\ challenges' = Without(u)

\* One transaction: the row, the sessions, the challenges (and the refresh
\* tokens and codes of module TokenEndpoint).
UpdateUserAndInvalidateAuth(u, row) ==
    /\ users' = [users EXCEPT ![u] = row]
    /\ sessions' = WithoutSessionsOf({u})
    /\ challenges' = Without(u)

\* DeleteUser: one transaction over every table of the user.
DeleteUser(u) ==
    /\ users' = [users EXCEPT ![u].st = "deleted"]
    /\ sessions' = WithoutSessionsOf({u})
    /\ challenges' = Without(u)

-----------------------------------------------------------------------------
(* History *)

\* w carries a copy of the row of u, has passed the session check with a phone number
\* that will make the account active, or has u on its list of accounts to delete.
Carries(w, u) ==
    \/ req[w].user = u /\ req[w].pc \notin {"idle", "user", "read", "cleanup"}
    \/ req[w].user = u /\ req[w].pc = "read" /\ req[w].op = "phone"
    \/ u \in req[w].listed

\* Nothing that carries a copy of the row is under way besides w.
Outcome(w, u) == IF \E v \in Worker \ {w} : Carries(v, u) THEN "raced" ELSE "settled"

-----------------------------------------------------------------------------
(* Signing in.  Password (with MFA or without), code, passkey and QR sign-in *)
(* differ in how they authenticate; all end in continuePostAuthentication    *)
(* with a row they have read, and found active or pending, before.           *)

SignIn(w, u) ==
    /\ users[u].st \in {"active", "pending"}
    /\ Begin(w, SigningIn(u, users[u]))
    /\ UNCHANGED <<users, sessions, challenges, required, day, history>>

\* The answer is a challenge.
Challenge(w, kind) ==
    /\ challenges' = challenges \cup {<<req[w].user, kind>>}
    /\ Finish(w)

\* continuePostAuthenticationWithRiskOptions with the copy: a deletion to cancel, a
\* phone number (maybeRequirePhoneBindingBeforeLogin, not when one was bound just now),
\* a second factor, and then createLoginSession, which refuses what is not active.
PostAuthentication(w) ==
    LET r == req[w] IN
    /\ r.pc = "post"
    /\ \/ r.row.del # 0 /\ Challenge(w, "cancel")
       \/ /\ r.row.del = 0 /\ "bind" \in Ops /\ r.op # "bind"
          /\ req' = [req EXCEPT ![w].pc = "require"] /\ UNCHANGED challenges
       \/ r.row.del = 0 /\ "factor" \in Ops /\ Challenge(w, "factor")
       \/ /\ r.row.del = 0 /\ UNCHANGED challenges
          /\ IF r.row.st = "active" THEN req' = [req EXCEPT ![w].pc = "login.write"] ELSE Finish(w)
    /\ UNCHANGED <<users, sessions, required, day, history>>

\* enforcePendingPhoneBindingWithRisk: the policy, the row unless its copy is pending ...
RequirePhoneBinding(w) ==
    LET r == req[w] IN
    /\ r.pc = "require"
    /\ required' = required \cup {r.user}
    /\ IF r.row.st # "pending" THEN UpdateUser(r.user, [r.row EXCEPT !.st = "pending"]) ELSE UNCHANGED users
    /\ req' = [req EXCEPT ![w].pc = "require.challenge"]
    /\ UNCHANGED <<sessions, challenges, day, history>>

\* ... and the challenge.
CreatePhoneBindingChallenge(w) ==
    /\ req[w].pc = "require.challenge"
    /\ Challenge(w, "bind")
    /\ UNCHANGED <<users, sessions, required, day, history>>

\* ConfirmDeletionLogin, CompletePhoneBinding, CompleteLoginStepUp and
\* CompleteForcedMFAEnrollment read the challenge and the row; only the first looks at
\* the status.
Confirm(w, u, kind) ==
    /\ <<u, kind>> \in challenges /\ Exists(u)
    /\ kind = "cancel" => users[u].st = "active"
    /\ kind = "bind" => u \in required
    /\ Begin(w, [Idle EXCEPT !.pc = "confirm", !.op = kind, !.user = u, !.row = users[u]])
    /\ UNCHANGED <<users, sessions, challenges, required, day, history>>

\* They consume the challenge by one conditional UPDATE and go on with their copy.
ConsumeAuthChallenge(w) ==
    LET r == req[w] IN
    /\ r.pc = "confirm"
    /\ IF <<r.user, r.op>> \in challenges
       THEN /\ challenges' = challenges \ {<<r.user, r.op>>}
            /\ \/ r.op = "bind" /\ req' = [req EXCEPT ![w].pc = "bind"]
               \/ r.op = "cancel" /\ r.row.del # 0 /\ req' = [req EXCEPT ![w].pc = "cancel"]
               \/ r.op = "cancel" /\ r.row.del = 0 /\ req' = [req EXCEPT ![w] = SigningIn(r.user, r.row)]
               \/ /\ r.op = "factor" /\ r.row.ver < MaxVersion
                  /\ req' = [req EXCEPT ![w].pc = "write", ![w].inv = TRUE]
               \/ r.op = "factor" /\ req' = [req EXCEPT ![w] = SigningIn(r.user, r.row)]
       ELSE Finish(w) /\ UNCHANGED challenges
    /\ UNCHANGED <<users, sessions, required, day, history>>

\* CompletePhoneBinding makes the account active, whatever its copy says (the policy
\* right after).
BindPhone(w) ==
    LET r == req[w]
        row == [r.row EXCEPT !.st = "active"]
    IN
    /\ r.pc = "bind"
    /\ UpdateUser(r.user, row)
    /\ required' = required \ {r.user}
    /\ req' = [req EXCEPT ![w].pc = "post", ![w].row = row]
    /\ UNCHANGED <<sessions, challenges, day, history>>

\* Mutant: the sign-in goes on with the copy it had before the cancellation, past the
\* question whether a deletion is to be cancelled.
CancelInStoreOnly(w) ==
    LET r == req[w] IN
    /\ r.pc = "cancel"
    /\ UpdateUser(r.user, [r.row EXCEPT !.del = 0])
    /\ kept' = IF Exists(r.user) /\ users[r.user].del > day
               THEN [kept EXCEPT ![r.user] = Outcome(w, r.user) = "settled"] ELSE kept
    /\ req' = [req EXCEPT ![w].pc = "login.write", ![w].op = "none"]
    /\ UNCHANGED <<sessions, challenges, required, day, floor, frozen>>

\* cancelUserDeletion
CancelUserDeletion(w) ==
    LET r == req[w] IN
    /\ r.pc = "cancel"
    /\ UpdateUser(r.user, [r.row EXCEPT !.del = 0])
    /\ kept' = IF Exists(r.user) /\ users[r.user].del > day
               THEN [kept EXCEPT ![r.user] = Outcome(w, r.user) = "settled"] ELSE kept
    /\ req' = [req EXCEPT ![w] = SigningIn(r.user, [r.row EXCEPT !.del = 0])]
    /\ UNCHANGED <<sessions, challenges, required, day, floor, frozen>>

\* createLoginSession writes last_login_at, and every other column with it ...
LoginUpdateUser(w) ==
    LET r == req[w] IN
    /\ r.pc = "login.write"
    /\ UpdateUser(r.user, r.row)
    /\ req' = [req EXCEPT ![w].pc = "login.session"]
    /\ UNCHANGED <<sessions, challenges, required, day, history>>

\* ... then inserts the session.
CreateSession(w) ==
    LET r == req[w] IN
    /\ r.pc = "login.session"
    /\ \E s \in Session :
         /\ sessions[s].st = "absent" /\ \A v \in Worker : req[v].session # s
         /\ sessions' = [sessions EXCEPT ![s] = [st |-> "live", user |-> r.user, ver |-> r.row.ver]]
    /\ Finish(w)
    /\ UNCHANGED <<users, challenges, required, day, history>>

-----------------------------------------------------------------------------
(* Requests of a signed-in user *)

\* CurrentUser: GetSession, then GetUser; a session of an inactive user is deleted.
CurrentUser(w, s, op) ==
    /\ op \in Ops \cap {"profile", "security", "phone", "deletion"}
    /\ sessions[s].st = "live"
    /\ Begin(w, [Idle EXCEPT !.pc = "user", !.op = op, !.user = sessions[s].user, !.session = s])
    /\ UNCHANGED <<users, sessions, challenges, required, day, history>>

Authenticate(w) ==
    LET r == req[w] IN
    /\ r.pc = "user"
    /\ IF users[r.user].st = "active"
       THEN req' = [req EXCEPT ![w].pc = "read", ![w].session = None] /\ UNCHANGED sessions
       ELSE /\ Finish(w)
            /\ sessions' = IF Exists(r.user) /\ sessions[r.session].st = "live"
                           THEN [sessions EXCEPT ![r.session] = NoSession] ELSE sessions
    /\ UNCHANGED <<users, challenges, required, day, history>>

\* ResetUserPasswordByEmail starts here, with a code instead of a session.
ResetUserPasswordByEmail(w, u) ==
    /\ "reset" \in Ops
    /\ Begin(w, [Idle EXCEPT !.pc = "read", !.op = "reset", !.user = u])
    /\ UNCHANGED <<users, sessions, challenges, required, day, history>>

\* The handler's own GetUser.  Only a profile edit is not a security event.
ReadRow(w) ==
    LET r == req[w]
        row == users[r.user]
    IN
    /\ r.pc = "read"
    /\ r.op # "profile" => row.ver < MaxVersion
    /\ r.op = "deletion" => day < MaxDay
    /\ IF Exists(r.user)
       THEN req' = [req EXCEPT
              ![w].pc = "write", ![w].inv = r.op # "profile",
              ![w].row = IF r.op = "deletion" THEN [row EXCEPT !.del = day + 1] ELSE row]
       ELSE Finish(w)
    /\ UNCHANGED <<users, sessions, challenges, required, day, history>>

\* AdminService.UpdateUser and FreezeUser: the status is the administrator's,
\* auth is invalidated for a new password and when the copy leaves "active": not
\* when a pending account is frozen.
AdminUpdateUser(w, u, st, password) ==
    LET inv == password \/ (users[u].st = "active" /\ st # "active") IN
    /\ "admin" \in Ops
    /\ Exists(u)
    /\ inv => users[u].ver < MaxVersion
    /\ Begin(w, [Idle EXCEPT !.pc = "write", !.op = "admin", !.user = u,
                             !.row = [users[u] EXCEPT !.st = st], !.inv = inv])
    /\ UNCHANGED <<users, sessions, challenges, required, day, history>>

\* Mutant: auth_version is not incremented.
WrittenSameVersion(r) ==
    [r.row EXCEPT !.st = IF r.op = "phone" /\ r.user \in required THEN "active" ELSE @]

\* What the write of r does: a phone number that was required makes the account
\* active, and a security event takes the next auth_version.
Written(r) ==
    [r.row EXCEPT !.ver = IF r.inv THEN @ + 1 ELSE @,
                  !.st = IF r.op = "phone" /\ r.user \in required THEN "active" ELSE @]

\* A freeze that takes nothing away but the status is as good as raced with.
AfterStatus(w, st) ==
    LET r == req[w] IN
    CASE st # "frozen" -> "no"
      [] st = "frozen" /\ r.inv -> Outcome(w, r.user)
      [] st = "frozen" /\ ~r.inv -> IF frozen[r.user] = "no" THEN "raced" ELSE frozen[r.user]

\* The write that ends every request above; an enrollment goes on signing in.
WriteRow(w) ==
    LET r == req[w]
        u == r.user
        row == Written(r)
    IN
    /\ r.pc = "write"
    /\ IF ~r.inv THEN UpdateUser(u, row) /\ UNCHANGED <<sessions, challenges>>
       ELSE IF Exists(u) THEN UpdateUserAndInvalidateAuth(u, row)
       ELSE UNCHANGED <<users, sessions, challenges>>
    /\ required' = IF r.op = "phone" THEN required \ {u} ELSE required
    /\ IF Exists(u)
       THEN /\ floor' = IF r.inv /\ Outcome(w, u) = "settled" THEN [floor EXCEPT ![u] = r.row.ver + 1]
                        ELSE floor
            /\ frozen' = IF r.op = "admin" THEN [frozen EXCEPT ![u] = AfterStatus(w, row.st)] ELSE frozen
            /\ kept' = IF r.op = "deletion" THEN [kept EXCEPT ![u] = FALSE] ELSE kept
       ELSE UNCHANGED history
    /\ IF r.op = "factor" /\ Exists(u)
       THEN req' = [req EXCEPT ![w] = SigningIn(u, row)]
       ELSE Finish(w)
    /\ UNCHANGED day

\* AdminService.DeleteUsers
AdminDeleteUser(u) ==
    /\ "admin.delete" \in Ops
    /\ Exists(u)
    /\ DeleteUser(u)
    /\ required' = required \ {u}
    /\ kept' = [kept EXCEPT ![u] = FALSE]
    /\ UNCHANGED <<req, day, floor, frozen>>

\* Logout deletes the session last (its refresh tokens: module TokenEndpoint).
Logout(s) ==
    /\ "logout" \in Ops
    /\ sessions[s].st = "live"
    /\ sessions' = [sessions EXCEPT ![s] = NoSession]
    /\ UNCHANGED <<users, challenges, required, req, day, history>>

-----------------------------------------------------------------------------
(* CleanupExpiredDeletionRequests: of the worker, and at the start of most  *)
(* requests.  The accounts are listed once, then deleted one by one.        *)

ListUsersPendingDeletion(w) ==
    LET due == {u \in User : Exists(u) /\ users[u].del \in 1..day} IN
    /\ due # {}
    /\ Begin(w, [Idle EXCEPT !.pc = "cleanup", !.listed = due])
    /\ UNCHANGED <<users, sessions, challenges, required, day, history>>

\* A row that is already gone is an error, which ends the loop.
DeleteListedUser(w) ==
    /\ req[w].pc = "cleanup"
    /\ \E u \in req[w].listed :
         LET left == req[w].listed \ {u} IN
         IF Exists(u)
         THEN /\ DeleteUser(u)
              /\ required' = required \ {u}
              /\ req' = [req EXCEPT ![w] = IF left = {} THEN Idle ELSE [req[w] EXCEPT !.listed = left]]
         ELSE Finish(w) /\ UNCHANGED <<users, sessions, challenges, required>>
    /\ UNCHANGED <<day, history>>

Tick ==
    /\ day < MaxDay
    /\ day' = day + 1
    /\ UNCHANGED <<users, sessions, challenges, required, req, history>>

-----------------------------------------------------------------------------
Step(w) ==
    \/ PostAuthentication(w) \/ RequirePhoneBinding(w) \/ CreatePhoneBindingChallenge(w)
    \/ ConsumeAuthChallenge(w) \/ CancelUserDeletion(w) \/ BindPhone(w)
    \/ LoginUpdateUser(w) \/ CreateSession(w)
    \/ Authenticate(w) \/ ReadRow(w) \/ WriteRow(w) \/ DeleteListedUser(w)

Arrive(w) ==
    \/ \E u \in User : SignIn(w, u) \/ ResetUserPasswordByEmail(w, u)
    \/ \E u \in User, kind \in Kind : Confirm(w, u, kind)
    \/ \E s \in Session, op \in {"profile", "security", "phone", "deletion"} : CurrentUser(w, s, op)
    \/ \E u \in User, st \in {"active", "pending", "frozen"}, password \in BOOLEAN :
         AdminUpdateUser(w, u, st, password)
    \/ ListUsersPendingDeletion(w)

Next ==
    \/ \E w \in Worker : Step(w) \/ Arrive(w)
    \/ \E u \in User : AdminDeleteUser(u)
    \/ \E s \in Session : Logout(s)
    \/ Tick

Spec == Init /\ [][Next]_vars

-----------------------------------------------------------------------------
(* Properties *)

\* CurrentUser accepts the session.
Accepted(s) == sessions[s].st = "live" /\ users[sessions[s].user].st = "active"

\* A security event (new password, email, phone, MFA, freeze, deletion request)
\* that committed while no other request carried a copy of the row ends
\* everything before it for good: auth_version, and with it every access token
\* of an earlier version, never comes back, and no session of a sign-in that
\* had read an earlier version is left.
SettledEventEndsAuth ==
    /\ \A u \in User : users[u].ver >= floor[u]
    /\ \A s \in Session : sessions[s].st = "live" => sessions[s].ver >= floor[sessions[s].user]

\* An account frozen while it was active, when no other request carried a copy of its
\* row or was about to make it active, lets nobody in until an administrator changes
\* its status: no challenge, session or code of before leads back in.  (A pending
\* account that is frozen keeps its challenges, and CompletePhoneBinding makes it
\* active again.)
SettledFreezeHolds ==
    \A s \in Session : Accepted(s) => frozen[sessions[s].user] # "settled"

\* A deletion a sign-in cancelled in time, while no other request carried a copy
\* of the row and no cleanup had it on its list, does not happen.
SettledCancellationHolds ==
    \A u \in User : kept[u] => Exists(u)

\* The account center: "If the account is frozen, sign-in will be blocked until
\* an administrator resolves it."  The write of a request that had read the row
\* before the freeze makes the account active again, and so does the phone number
\* asked of an account that was pending.
FrozenBlocksSignIn ==
    \A s \in Session : Accepted(s) => frozen[sessions[s].user] = "no"
=============================================================================
