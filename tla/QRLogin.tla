------------------------------ MODULE QRLogin ------------------------------
(***************************************************************************)
(* Sign-in by QR code: service/auth/qr_login.go over one row of            *)
(* auth_challenges.  A browser polls the challenge while signed-in users   *)
(* scan it and confirm or cancel it.  Challenges share nothing, so one is  *)
(* modelled.                                                               *)
(*                                                                         *)
(* A confirmation reads the row, then completes the whole sign-in of the   *)
(* user (a session, or a challenge for a further factor), and only then    *)
(* writes the row; what it created is cleaned up when that write finds the *)
(* row in another state.                                                   *)
(*                                                                         *)
(* QRInit, QRNext, QRSpec and QRTypeOK are what other modules call Init,   *)
(* Next, Spec and TypeOK, so that SignIn_proofs can extend it along with   *)
(* BrowserTabs.                                                            *)
(***************************************************************************)
EXTENDS Naturals

CONSTANTS
    User,      \* signed-in users with the app
    Login,     \* tokens of what a sign-in results in (random, used once)
    Worker,    \* concurrent requests
    Null       \* the empty column

ASSUME NullAssumption == Null \notin User \cup Login

VARIABLES
    row,        \* the challenge; a deleted row keeps its columns as history
    expired,    \* expires_at lies in the past
    logins,     \* sessions, and challenges for a further factor
    req,        \* what each request is doing, with what it has read
    delivered,  \* what polls have carried to the browser
    scanner,    \* history: the user who claimed the challenge
    outcome,    \* history: the decision a user was told
    dropped     \* history: sign-ins of confirmations that stopped before they were settled

qrVars == <<row, expired, logins, req, delivered, scanner, outcome, dropped>>

Status == {"absent", "pending", "scanned", "confirmed", "cancelled", "deleted"}
\* A confirmed row always carries what the polls are to deliver.
Row == {r \in [st: Status, user: User \cup {Null}, login: Login \cup {Null}] :
          r.st = "confirmed" => r.user # Null /\ r.login # Null}
LoginRow == [st: {"absent", "live", "deleted"}, kind: {"session", "flow"}, user: User \cup {Null}]
PC == {"idle", "scan.claim", "cancel.write", "confirm.login", "confirm.write", "confirm.clean",
       "poll.session", "poll.delete"}
Request == [pc: PC, user: User \cup {Null}, login: Login \cup {Null}]
Idle == [pc |-> "idle", user |-> Null, login |-> Null]

QRTypeOK ==
    /\ row \in Row
    /\ expired \in BOOLEAN
    /\ logins \in [Login -> LoginRow]
    /\ req \in [Worker -> Request]
    /\ delivered \subseteq Login
    /\ scanner \in User \cup {Null}
    /\ outcome \in {"none", "confirmed", "cancelled"}
    /\ dropped \subseteq Login

QRInit ==
    /\ row = [st |-> "absent", user |-> Null, login |-> Null]
    /\ expired = FALSE
    /\ logins = [l \in Login |-> [st |-> "absent", kind |-> "session", user |-> Null]]
    /\ req = [w \in Worker |-> Idle]
    /\ delivered = {}
    /\ scanner = Null
    /\ outcome = "none"
    /\ dropped = {}

-----------------------------------------------------------------------------
Begin(w, r) == req[w].pc = "idle" /\ req' = [req EXCEPT ![w] = r]
Continue(w, pc) == req' = [req EXCEPT ![w].pc = pc]
Finish(w) == req' = [req EXCEPT ![w] = Idle]

\* Every SELECT asks for expires_at >= now.
Readable == row.st \notin {"absent", "deleted"} /\ ~expired

\* Mutant: the UPDATE does not ask for the status.
UpdatableAlways == row.st \notin {"absent", "deleted"} /\ ~expired

\* What the WHERE clause of UpdateQRLoginChallenge asks of the row.
Updatable == row.st \in {"pending", "scanned"} /\ ~expired

\* A sign-in is complete and the request has still to record it or to take it back.
Unsettled(w) == req[w].pc \in {"confirm.write", "confirm.clean"}

WithoutLogin(l) == [logins EXCEPT ![l].st = "deleted"]

CreateQRLoginChallenge ==
    /\ row.st = "absent"
    /\ row' = [row EXCEPT !.st = "pending"]
    /\ UNCHANGED <<expired, logins, req, delivered, scanner, outcome, dropped>>

-----------------------------------------------------------------------------
(* ScanQRLogin *)

ScanQRLogin(w, u) ==
    /\ Readable
    /\ row.st = "pending"
    /\ Begin(w, [Idle EXCEPT !.pc = "scan.claim", !.user = u])
    /\ UNCHANGED <<row, expired, logins, delivered, scanner, outcome, dropped>>

ClaimPendingQRLoginChallenge(w) ==
    /\ req[w].pc = "scan.claim"
    /\ IF row.st = "pending" /\ ~expired
       THEN /\ row' = [row EXCEPT !.st = "scanned", !.user = req[w].user]
            /\ scanner' = req[w].user
       ELSE UNCHANGED <<row, scanner>>
    /\ Finish(w)
    /\ UNCHANGED <<expired, logins, delivered, outcome, dropped>>

-----------------------------------------------------------------------------
(* ConfirmQRLogin *)

\* The row, and who scanned it, are read before CurrentUser and the sign-in.
ConfirmQRLogin(w, u, confirm) ==
    /\ Readable
    /\ row.st \in {"pending", "scanned"}
    /\ row.user \in {Null, u}
    /\ Begin(w, [Idle EXCEPT !.pc = IF confirm THEN "confirm.login" ELSE "cancel.write",
                             !.user = u])
    /\ UNCHANGED <<row, expired, logins, delivered, scanner, outcome, dropped>>

CancelWrite(w) ==
    /\ req[w].pc = "cancel.write"
    /\ IF Updatable
       THEN /\ row' = [row EXCEPT !.st = "cancelled", !.user = req[w].user]
            /\ outcome' = "cancelled"
       ELSE UNCHANGED <<row, outcome>>
    /\ Finish(w)
    /\ UNCHANGED <<expired, logins, delivered, scanner, dropped>>

\* continuePostAuthentication: a session, a challenge for a further factor, or
\* an error (risk, frozen account).
ContinuePostAuthentication(w) ==
    /\ req[w].pc = "confirm.login"
    /\ \/ \E l \in Login, kind \in {"session", "flow"} :
            /\ logins[l].st = "absent"
            /\ logins' = [logins EXCEPT ![l] = [st |-> "live", kind |-> kind, user |-> req[w].user]]
            /\ req' = [req EXCEPT ![w].pc = "confirm.write", ![w].login = l]
       \/ Finish(w) /\ UNCHANGED logins
    /\ UNCHANGED <<row, expired, delivered, scanner, outcome, dropped>>

\* Mutant: a confirmation that comes too late leaves its session behind.
ConfirmWithoutCleanup(w) ==
    /\ req[w].pc = "confirm.write"
    /\ IF Updatable
       THEN /\ row' = [st |-> "confirmed", user |-> req[w].user, login |-> req[w].login]
            /\ outcome' = "confirmed"
       ELSE UNCHANGED <<row, outcome>>
    /\ Finish(w)
    /\ UNCHANGED <<expired, logins, delivered, scanner, dropped>>

\* Mutant: only session_token is written, flow_result_json is forgotten.
ConfirmWithoutFlow(w) ==
    LET l == req[w].login IN
    /\ req[w].pc = "confirm.write"
    /\ IF Updatable
       THEN /\ row' = [st |-> "confirmed", user |-> req[w].user,
                       login |-> IF logins[l].kind = "session" THEN l ELSE Null]
            /\ outcome' = "confirmed"
            /\ Finish(w)
       ELSE Continue(w, "confirm.clean") /\ UNCHANGED <<row, outcome>>
    /\ UNCHANGED <<expired, logins, delivered, scanner, dropped>>

ConfirmWrite(w) ==
    /\ req[w].pc = "confirm.write"
    /\ IF Updatable
       THEN /\ row' = [st |-> "confirmed", user |-> req[w].user, login |-> req[w].login]
            /\ outcome' = "confirmed"
            /\ Finish(w)
       ELSE Continue(w, "confirm.clean") /\ UNCHANGED <<row, outcome>>
    /\ UNCHANGED <<expired, logins, delivered, scanner, dropped>>

\* cleanupQRLoginFlowResult
CleanupQRLoginFlowResult(w) ==
    /\ req[w].pc = "confirm.clean"
    /\ logins' = WithoutLogin(req[w].login)
    /\ Finish(w)
    /\ UNCHANGED <<row, expired, delivered, scanner, outcome, dropped>>

-----------------------------------------------------------------------------
(* GetQRLoginStatus of the browser that holds the poll nonce *)

\* Before the confirmation a poll only reports the status.
GetQRLoginStatus(w) ==
    /\ Readable
    /\ row.st = "confirmed"
    /\ Begin(w, [Idle EXCEPT !.login = row.login,
           !.pc = IF logins[row.login].kind = "flow" THEN "poll.delete" ELSE "poll.session"])
    /\ UNCHANGED <<row, expired, logins, delivered, scanner, outcome, dropped>>

PollSession(w) ==
    /\ req[w].pc = "poll.session"
    /\ IF logins[req[w].login].st = "live" THEN Continue(w, "poll.delete") ELSE Finish(w)
    /\ UNCHANGED <<row, expired, logins, delivered, scanner, outcome, dropped>>

\* The DELETE ignores its outcome; the response leaves with what was read.
DeleteQRLoginChallenge(w) ==
    /\ req[w].pc = "poll.delete"
    /\ row' = [row EXCEPT !.st = "deleted"]
    /\ delivered' = delivered \cup {req[w].login}
    /\ Finish(w)
    /\ UNCHANGED <<expired, logins, scanner, outcome, dropped>>

-----------------------------------------------------------------------------
(* The clock, the cleanup worker, the rest of the system *)

Expire ==
    /\ row.st # "absent"
    /\ ~expired
    /\ expired' = TRUE
    /\ UNCHANGED <<row, logins, req, delivered, scanner, outcome, dropped>>

CleanupRuntimeData ==
    /\ expired
    /\ row' = [row EXCEPT !.st = "deleted"]
    /\ UNCHANGED <<expired, logins, req, delivered, scanner, outcome, dropped>>

\* UpdateUserAndInvalidateAuth and DeleteUser delete the sessions and the
\* challenges of a user, this one included once it is claimed.
InvalidateAuth(u) ==
    /\ logins' = [l \in Login |-> IF logins[l].user = u THEN [logins[l] EXCEPT !.st = "deleted"]
                                                        ELSE logins[l]]
    /\ row' = IF row.user = u THEN [row EXCEPT !.st = "deleted"] ELSE row
    /\ UNCHANGED <<expired, req, delivered, scanner, outcome, dropped>>

\* A handler may stop after any statement: a database error, the end of the process.
Abort(w) ==
    /\ req[w].pc # "idle"
    /\ dropped' = dropped \cup (IF Unsettled(w) THEN {req[w].login} ELSE {})
    /\ Finish(w)
    /\ UNCHANGED <<row, expired, logins, delivered, scanner, outcome>>

-----------------------------------------------------------------------------
Step(w) ==
    \/ ClaimPendingQRLoginChallenge(w)
    \/ CancelWrite(w)
    \/ ContinuePostAuthentication(w) \/ ConfirmWrite(w) \/ CleanupQRLoginFlowResult(w)
    \/ PollSession(w) \/ DeleteQRLoginChallenge(w)

Arrive(w) ==
    \/ \E u \in User : ScanQRLogin(w, u)
    \/ \E u \in User, confirm \in BOOLEAN : ConfirmQRLogin(w, u, confirm)
    \/ GetQRLoginStatus(w)

QRNext ==
    \/ \E w \in Worker : Step(w) \/ Arrive(w) \/ Abort(w)
    \/ CreateQRLoginChallenge \/ Expire \/ CleanupRuntimeData
    \/ \E u \in User : InvalidateAuth(u)

QRSpec == QRInit /\ [][QRNext]_qrVars

-----------------------------------------------------------------------------
(* Properties *)

\* The browser is signed in only by the confirmation the challenge records: a
\* challenge a user has been told is cancelled delivers nothing, whatever
\* confirmations had read it before, and repeated polls all deliver the same
\* sign-in of the same user.
DeliveredIsConfirmed ==
    \A l \in delivered :
        /\ outcome = "confirmed"
        /\ l = row.login
        /\ logins[l].user = row.user

\* The decision a user was told is final: no later request replaces it.
OutcomeIsFinal == [][outcome # "none" => outcome' = outcome /\ row'.login = row.login]_qrVars

\* A sign-in completed for a confirmation that lost its race is taken back:
\* every one that is left is the one the challenge records, or its request has
\* still to write the row or to clean up, or stopped before it could.
NoStrayLogin ==
    \A l \in Login :
        logins[l].st = "live" =>
            \/ l = row.login
            \/ l \in dropped
            \/ \E w \in Worker : Unsettled(w) /\ req[w].login = l

\* ConfirmQRLogin refuses with "qr login user mismatch" when another user has
\* scanned the code; the check reads the row before the sign-in, the write only
\* asks for a status that "scanned" satisfies too.
ScannerDecides == outcome # "none" /\ scanner # Null => row.user = scanner
=============================================================================
