---------------------------- MODULE Accounts_proofs ----------------------------
(***************************************************************************)
(* Proofs about the accounts, for any number of accounts, sessions and     *)
(* concurrent requests and every value of the bounds.                      *)
(***************************************************************************)
EXTENDS Accounts, TLAPS

\* A request in one of these states carries a copy of the row of its user.
CopyPC == {"write", "confirm", "cancel", "bind", "post", "require", "require.challenge",
           "login.write", "login.session"}

\* What a request holds in each of its states.
Sound(r) ==
    /\ r.pc \notin {"idle", "cleanup"} => r.user \in User
    /\ r.pc = "user" => r.session \in Session
    /\ r.pc = "confirm" => r.op \in Kind
    /\ r.op \in {"admin", "deletion", "phone"} => r.pc \in {"user", "read", "write"}
    /\ r.op = "factor" => r.pc \in {"confirm", "write"}
    /\ r.pc = "write" /\ r.inv => r.row.ver < MaxVersion
    /\ r.pc # "cleanup" => r.listed = {}

\* A copy is of the last settled security event or later, and it cannot undo a settled
\* freeze or a settled cancellation, except for the request whose purpose that is.  No
\* sign-in and no phone number is under way that could undo the freeze.
Copy(r) ==
    /\ r.pc \in CopyPC =>
        /\ r.row.ver >= floor[r.user]
        /\ r.row.st # "deleted"
        /\ frozen[r.user] = "settled" =>
              /\ r.pc = "write" /\ r.op \notin {"factor", "phone"}
              /\ r.row.st = "frozen" \/ r.op = "admin"
        /\ kept[r.user] => r.row.del = 0 \/ r.op = "deletion"
    /\ r.pc = "read" /\ r.op = "phone" => frozen[r.user] # "settled"

\* No cleanup has an account on its list whose deletion is cancelled for good.
Spared(r) == \A u \in r.listed : ~kept[u]

RequestsOK == \A w \in Worker : Sound(req[w]) /\ Copy(req[w]) /\ Spared(req[w])

RowOK(u, row) ==
    /\ row.ver >= floor[u]
    /\ frozen[u] = "settled" => row.st \in {"frozen", "deleted"}
    /\ kept[u] => row.st # "deleted" /\ row.del = 0

UsersOK == \A u \in User : RowOK(u, users[u])

SessionsOK ==
    \A s \in Session : sessions[s].st = "live" =>
        /\ sessions[s].user \in User
        /\ sessions[s].ver >= floor[sessions[s].user]

\* A settled freeze leaves no challenge.
ChallengesOK ==
    \A u \in User, kind \in Kind : <<u, kind>> \in challenges => frozen[u] # "settled"

Asked == challenges \subseteq User \X Kind /\ required \subseteq User /\ ChallengesOK

IndInv == TypeOK /\ RequestsOK /\ UsersOK /\ SessionsOK /\ ChallengesOK

-----------------------------------------------------------------------------
(* Rows and requests *)

LEMMA RowParts ==
    ASSUME NEW row \in Row
    PROVE  /\ row.ver \in Nat
           /\ row.ver \in Version
           /\ row.del \in 0..MaxDay
           /\ row.st \in {"active", "pending", "frozen", "deleted"}
BY DEF Row, Version

LEMMA DeletedRow ==
    ASSUME NEW row \in Row
    PROVE  /\ [row EXCEPT !.st = "deleted"] \in Row
           /\ [row EXCEPT !.st = "deleted"].st = "deleted"
           /\ [row EXCEPT !.st = "deleted"].ver = row.ver
BY DEF Row

LEMMA FreshRow ==
    /\ NewRow \in Row /\ NewRow.ver = 1 /\ NewRow.st = "active" /\ NewRow.del = 0
BY MaxVersionAssumption, MaxDayAssumption DEF NewRow, Row, Version

LEMMA IdleRequest ==
    Idle \in Request /\ Idle.pc = "idle" /\ Idle.op = "none" /\ Idle.listed = {}
<1>. HIDE DEF Row, NewRow
<1>. QED BY FreshRow DEF Idle, Request, PC

\* A sign-in that has authenticated.
LEMMA SigningInRequest ==
    ASSUME NEW u \in User, NEW row \in Row
    PROVE  /\ SigningIn(u, row) \in Request
           /\ SigningIn(u, row).pc = "post" /\ SigningIn(u, row).op = "none"
           /\ SigningIn(u, row).user = u /\ SigningIn(u, row).row = row
           /\ SigningIn(u, row).listed = {}
<1>. HIDE DEF Row
<1>. QED BY IdleRequest DEF SigningIn, Request, PC

LEMMA SigningInSound ==
    ASSUME NEW u \in User, NEW row \in Row,
           row.ver >= floor[u], row.st # "deleted", frozen[u] # "settled", kept[u] => row.del = 0
    PROVE  Sound(SigningIn(u, row)) /\ Copy(SigningIn(u, row)) /\ Spared(SigningIn(u, row))
BY SigningInRequest DEF Sound, Copy, Spared

LEMMA IdleSound == Sound(Idle) /\ Copy(Idle) /\ Spared(Idle)
BY IdleRequest DEF Sound, Copy, Spared, CopyPC

-----------------------------------------------------------------------------
(* What a step leaves of the invariant *)

\* Sessions are left alone or deleted.
Ending ==
    /\ sessions' \in [Session -> SessionRow]
    /\ \A s \in Session : sessions'[s].st = "live" => sessions'[s] = sessions[s]

\* The request of one worker changes, and no row.
LEMMA RequestStep ==
    ASSUME IndInv, NEW w \in Worker, NEW r \in Request,
           Sound(r), Copy(r), Spared(r),
           req' = [req EXCEPT ![w] = r],
           Asked', Ending,
           UNCHANGED <<users, day, floor, frozen, kept>>
    PROVE  IndInv'
<1>1. TypeOK'
  BY DEF IndInv, TypeOK, Ending, Asked
<1>2. \A v \in Worker : req'[v] = IF v = w THEN r ELSE req[v]
  BY DEF IndInv, TypeOK
<1>3. RequestsOK'
  BY <1>2 DEF IndInv, RequestsOK, Sound, Copy, Spared
<1>4. UsersOK'
  BY DEF IndInv, UsersOK, RowOK
<1>5. SessionsOK'
  BY DEF IndInv, SessionsOK, Ending
<1>. QED BY <1>1, <1>3, <1>4, <1>5 DEF IndInv, Asked

LEMMA SessionsStay ==
    ASSUME TypeOK, UNCHANGED sessions
    PROVE  Ending
BY DEF Ending, TypeOK

\* Challenges are left alone or taken away.
LEMMA AskedStays ==
    ASSUME IndInv, challenges' \subseteq challenges, required' \subseteq User, UNCHANGED frozen
    PROVE  Asked'
BY DEF Asked, IndInv, TypeOK, ChallengesOK

LEMMA NoSessionRow == NoSession \in SessionRow /\ NoSession.st # "live"
BY MaxVersionAssumption DEF NoSession, SessionRow, Version

LEMMA SessionEnded ==
    ASSUME TypeOK, NEW s \in Session, sessions' = [sessions EXCEPT ![s] = NoSession]
    PROVE  Ending
<1>. HIDE DEF NoSession
<1>. QED BY NoSessionRow DEF Ending, TypeOK

LEMMA UserSessionsEnded ==
    ASSUME TypeOK, NEW U, sessions' = WithoutSessionsOf(U)
    PROVE  /\ Ending
           /\ \A s \in Session : sessions'[s].st = "live" => sessions[s].user \notin U
<1>1. ASSUME NEW s \in Session
      PROVE  /\ sessions'[s] \in SessionRow
             /\ sessions'[s].st = "live" => sessions'[s] = sessions[s] /\ sessions[s].user \notin U
  <2>1. sessions[s] \in SessionRow
    BY DEF TypeOK
  <2>2. sessions'[s] = IF sessions[s].st = "live" /\ sessions[s].user \in U
                       THEN NoSession ELSE sessions[s]
    BY DEF WithoutSessionsOf
  <2>. HIDE DEF NoSession
  <2>. QED BY <2>1, <2>2, NoSessionRow
<1>2. sessions' = [s \in Session |-> sessions'[s]]
  BY DEF WithoutSessionsOf
<1>. QED BY <1>1, <1>2 DEF Ending

\* The row of one user is written, and its history with it.  What carries a copy of the
\* row, or has the account on its list, and is not changed by the step stays sound.
LEMMA RowStep ==
    ASSUME IndInv, NEW u \in User, NEW row \in Row,
           users' = [users EXCEPT ![u] = row], RowOK(u, row)',
           req' \in [Worker -> Request], Asked', Ending, UNCHANGED day,
           floor' \in [User -> 0..MaxVersion],
           frozen' \in [User -> {"no", "settled", "raced"}],
           kept' \in [User -> BOOLEAN],
           \A o \in User \ {u} : floor'[o] = floor[o] /\ frozen'[o] = frozen[o] /\ kept'[o] = kept[o],
           floor' = floor \/ \A s \in Session : sessions'[s].st = "live" => sessions[s].user # u,
           \A v \in Worker :
              \/ Sound(req'[v]) /\ Copy(req[v])' /\ Spared(req[v])'
              \/ /\ req'[v] = req[v]
                 /\ Carries(v, u) => /\ floor'[u] = floor[u]
                                     /\ frozen'[u] = "settled" => frozen[u] = "settled"
                                     /\ kept'[u] => kept[u]
    PROVE  IndInv'
<1>1. TypeOK'
  BY DEF IndInv, TypeOK, Ending, Asked
<1>2. RequestsOK'
  <2>. SUFFICES ASSUME NEW v \in Worker
                PROVE  Sound(req'[v]) /\ Copy(req[v])' /\ Spared(req[v])'
    BY DEF RequestsOK, Sound
  <2>1. CASE Sound(req'[v]) /\ Copy(req[v])' /\ Spared(req[v])'
    BY <2>1
  <2>2. CASE /\ req'[v] = req[v]
             /\ Carries(v, u) => /\ floor'[u] = floor[u]
                                 /\ frozen'[u] = "settled" => frozen[u] = "settled"
                                 /\ kept'[u] => kept[u]
    <3>1. Sound(req[v]) /\ Copy(req[v]) /\ Spared(req[v])
      BY DEF IndInv, RequestsOK
    <3>2. req[v].listed \subseteq User
      BY DEF IndInv, TypeOK, Request
    <3>3. Copy(req[v])'
      <4>1. CASE req[v].user = u
        BY <2>2, <3>1, <4>1 DEF Copy, Carries, CopyPC
      <4>2. CASE req[v].user # u
        BY <2>2, <3>1, <4>2 DEF Copy, Sound, CopyPC
      <4>. QED BY <4>1, <4>2
    <3>4. Spared(req[v])'
      BY <2>2, <3>1, <3>2 DEF Spared, Carries
    <3>. QED BY <2>2, <3>1, <3>3, <3>4
  <2>. QED BY <2>1, <2>2
<1>3. UsersOK'
  <2>1. ASSUME NEW o \in User
        PROVE  RowOK(o, users[o])'
    <3>1. CASE o = u
      BY <3>1 DEF IndInv, TypeOK
    <3>2. CASE o # u
      BY <3>2 DEF IndInv, TypeOK, UsersOK, RowOK
    <3>. QED BY <3>1, <3>2
  <2>. QED BY <2>1 DEF UsersOK
<1>4. SessionsOK'
  BY DEF IndInv, SessionsOK, Ending
<1>. QED BY <1>1, <1>2, <1>3, <1>4 DEF IndInv, Asked

-----------------------------------------------------------------------------
(* The records a request goes through *)

\* The facts about one request that the steps use.
LEMMA RequestParts ==
    ASSUME IndInv, NEW w \in Worker
    PROVE  /\ req[w] \in Request /\ Sound(req[w]) /\ Copy(req[w]) /\ Spared(req[w])
           /\ req[w].row \in Row
BY DEF IndInv, TypeOK, RequestsOK, Request

\* A row that was just read makes a sound copy.
LEMMA ReadCopy ==
    ASSUME IndInv, NEW u \in User
    PROVE  /\ users[u] \in Row
           /\ users[u].ver >= floor[u]
           /\ frozen[u] = "settled" => users[u].st \in {"frozen", "deleted"}
           /\ kept[u] => users[u].st # "deleted" /\ users[u].del = 0
BY DEF IndInv, TypeOK, UsersOK, RowOK

-----------------------------------------------------------------------------
LEMMA InitIndInv == Init => IndInv
<1>. SUFFICES ASSUME Init PROVE IndInv
  OBVIOUS
<1>1. /\ users \in [User -> Row] /\ day \in 0..MaxDay
      /\ \A u \in User : users[u] = NewRow
  BY FreshRow, MaxDayAssumption DEF Init
<1>2. sessions \in [Session -> SessionRow] /\ \A s \in Session : sessions[s].st # "live"
  <2>. HIDE DEF NoSession
  <2>. QED BY NoSessionRow DEF Init
<1>3. req \in [Worker -> Request] /\ \A w \in Worker : req[w] = Idle
  BY IdleRequest DEF Init
<1>4. TypeOK
  BY <1>1, <1>2, <1>3, MaxVersionAssumption DEF Init, TypeOK
<1>5. RequestsOK
  BY <1>3, IdleSound DEF RequestsOK
<1>6. UsersOK
  <2>1. \A u \in User : floor[u] = 0 /\ frozen[u] = "no" /\ ~kept[u]
    BY DEF Init
  <2>2. \A u \in User : users[u].ver = 1 /\ users[u].st = "active" /\ users[u].del = 0
    <3>. HIDE DEF NewRow
    <3>. QED BY <1>1, FreshRow
  <2>3. ASSUME NEW u \in User
        PROVE  RowOK(u, users[u])
    BY <2>1, <2>2 DEF RowOK
  <2>. QED BY <2>3 DEF UsersOK
<1>7. SessionsOK
  BY <1>2 DEF SessionsOK
<1>8. ChallengesOK
  BY DEF Init, ChallengesOK
<1>. QED BY <1>4, <1>5, <1>6, <1>7, <1>8 DEF IndInv

LEMMA NextIndInv == IndInv /\ [Next]_vars => IndInv'
<1>. SUFFICES ASSUME IndInv, [Next]_vars
              PROVE  IndInv'
  OBVIOUS
<1>. USE DEF history
<1>0. TypeOK
  BY DEF IndInv
<1>1. ASSUME NEW w \in Worker, NEW u \in User, SignIn(w, u)
      PROVE  IndInv'
  <2>1. Asked' /\ Ending /\ UNCHANGED <<users, day, floor, frozen, kept>>
    BY <1>0, <1>1, SessionsStay, AskedStays DEF SignIn, TypeOK
  <2>2. SigningIn(u, users[u]) \in Request
    BY ReadCopy, SigningInRequest
  <2>3. /\ Sound(SigningIn(u, users[u])) /\ Copy(SigningIn(u, users[u]))
        /\ Spared(SigningIn(u, users[u]))
    <3>1. users[u].st \in {"active", "pending"}
      BY <1>1 DEF SignIn
    <3>. QED BY <3>1, ReadCopy, SigningInSound
  <2>4. req' = [req EXCEPT ![w] = SigningIn(u, users[u])]
    BY <1>1 DEF SignIn, Begin
  <2>. QED BY <2>1, <2>2, <2>3, <2>4, RequestStep
<1>2. ASSUME NEW w \in Worker, NEW u \in User, NEW kind \in Kind, Confirm(w, u, kind)
      PROVE  IndInv'
  <2>. DEFINE r == [Idle EXCEPT !.pc = "confirm", !.op = kind, !.user = u, !.row = users[u]]
  <2>1. Asked' /\ Ending /\ UNCHANGED <<users, day, floor, frozen, kept>>
    BY <1>0, <1>2, SessionsStay, AskedStays DEF Confirm, TypeOK
  <2>2. /\ r \in Request /\ r.pc = "confirm" /\ r.op = kind /\ r.user = u
        /\ r.row = users[u] /\ r.listed = {}
    BY ReadCopy, IdleRequest DEF Request, PC, Operations
  <2>3. users[u].st # "deleted" /\ frozen[u] # "settled"
    BY <1>2 DEF Confirm, Exists, IndInv, ChallengesOK
  <2>4. Sound(r) /\ Copy(r) /\ Spared(r)
    BY <2>2, <2>3, ReadCopy DEF Sound, Copy, Spared, Kind
  <2>5. req' = [req EXCEPT ![w] = r]
    BY <1>2 DEF Confirm, Begin
  <2>. HIDE DEF r
  <2>. QED BY <2>1, <2>2, <2>4, <2>5, RequestStep
<1>3. ASSUME NEW w \in Worker, NEW u \in User, ResetUserPasswordByEmail(w, u)
      PROVE  IndInv'
  <2>. DEFINE r == [Idle EXCEPT !.pc = "read", !.op = "reset", !.user = u]
  <2>1. Asked' /\ Ending /\ UNCHANGED <<users, day, floor, frozen, kept>>
    BY <1>0, <1>3, SessionsStay, AskedStays DEF ResetUserPasswordByEmail, TypeOK
  <2>2. r \in Request /\ r.pc = "read" /\ r.op = "reset" /\ r.user = u /\ r.listed = {}
    BY IdleRequest DEF Request, PC, Operations
  <2>3. Sound(r) /\ Copy(r) /\ Spared(r)
    BY <2>2 DEF Sound, Copy, Spared, CopyPC
  <2>4. req' = [req EXCEPT ![w] = r]
    BY <1>3 DEF ResetUserPasswordByEmail, Begin
  <2>. HIDE DEF r
  <2>. QED BY <2>1, <2>2, <2>3, <2>4, RequestStep
<1>4. ASSUME NEW w \in Worker, NEW s \in Session, NEW op \in {"profile", "security", "phone", "deletion"},
             CurrentUser(w, s, op)
      PROVE  IndInv'
  <2>. DEFINE r == [Idle EXCEPT !.pc = "user", !.op = op, !.user = sessions[s].user, !.session = s]
  <2>1. Asked' /\ Ending /\ UNCHANGED <<users, day, floor, frozen, kept>>
    BY <1>0, <1>4, SessionsStay, AskedStays DEF CurrentUser, TypeOK
  <2>2. sessions[s].user \in User
    BY <1>4 DEF CurrentUser, IndInv, SessionsOK
  <2>3. /\ r \in Request /\ r.pc = "user" /\ r.op = op /\ r.user \in User /\ r.session = s
        /\ r.listed = {}
    BY <2>2, IdleRequest DEF Request, PC, Operations
  <2>4. Sound(r) /\ Copy(r) /\ Spared(r)
    BY <2>3 DEF Sound, Copy, Spared, CopyPC
  <2>5. req' = [req EXCEPT ![w] = r]
    BY <1>4 DEF CurrentUser, Begin
  <2>. HIDE DEF r
  <2>. QED BY <2>1, <2>3, <2>4, <2>5, RequestStep
<1>5. ASSUME NEW w \in Worker, NEW u \in User, NEW st \in {"active", "pending", "frozen"},
             NEW password \in BOOLEAN, AdminUpdateUser(w, u, st, password)
      PROVE  IndInv'
  <2>. DEFINE inv == password \/ (users[u].st = "active" /\ st # "active")
              row == [users[u] EXCEPT !.st = st]
              r == [Idle EXCEPT !.pc = "write", !.op = "admin", !.user = u, !.row = row, !.inv = inv]
  <2>1. Asked' /\ Ending /\ UNCHANGED <<users, day, floor, frozen, kept>>
    BY <1>0, <1>5, SessionsStay, AskedStays DEF AdminUpdateUser, TypeOK
  <2>2. row \in Row /\ row.st = st /\ row.ver = users[u].ver /\ row.del = users[u].del
    <3>1. users[u] \in Row
      BY ReadCopy
    <3>. QED BY <3>1 DEF Row
  <2>3. /\ r \in Request /\ r.pc = "write" /\ r.op = "admin" /\ r.user = u
        /\ r.row = row /\ r.inv = inv /\ r.listed = {}
    <3>1. inv \in BOOLEAN
      <4>1. CASE inv
        BY <4>1
      <4>2. CASE ~inv
        BY <4>2
      <4>. QED BY <4>1, <4>2
    <3>. HIDE DEF row, inv
    <3>. QED BY <2>2, <3>1, IdleRequest DEF Request, PC, Operations
  <2>4. Sound(r) /\ Copy(r) /\ Spared(r)
    <3>1. inv => users[u].ver < MaxVersion
      BY <1>5 DEF AdminUpdateUser
    <3>. HIDE DEF row, inv
    <3>. QED BY <2>2, <2>3, <3>1, ReadCopy DEF Sound, Copy, Spared
  <2>5. req' = [req EXCEPT ![w] = r]
    BY <1>5 DEF AdminUpdateUser, Begin
  <2>. HIDE DEF r
  <2>. QED BY <2>1, <2>3, <2>4, <2>5, RequestStep
<1>6. ASSUME NEW w \in Worker, ListUsersPendingDeletion(w)
      PROVE  IndInv'
  <2>. DEFINE due == {u \in User : Exists(u) /\ users[u].del \in 1..day}
              r == [Idle EXCEPT !.pc = "cleanup", !.listed = due]
  <2>1. Asked' /\ Ending /\ UNCHANGED <<users, day, floor, frozen, kept>>
    BY <1>0, <1>6, SessionsStay, AskedStays DEF ListUsersPendingDeletion, TypeOK
  <2>2. due \subseteq User /\ \A u \in due : ~kept[u]
    BY ReadCopy DEF Exists
  <2>3. r \in Request /\ r.pc = "cleanup" /\ r.op = "none" /\ r.listed = due
    <3>. HIDE DEF due
    <3>. QED BY <2>2, IdleRequest DEF Request, PC
  <2>4. Sound(r) /\ Copy(r) /\ Spared(r)
    BY <2>2, <2>3 DEF Sound, Copy, Spared, CopyPC
  <2>5. req' = [req EXCEPT ![w] = r]
    BY <1>6 DEF ListUsersPendingDeletion, Begin
  <2>. HIDE DEF r
  <2>. QED BY <2>1, <2>3, <2>4, <2>5, RequestStep
<1>7. ASSUME NEW w \in Worker, ConsumeAuthChallenge(w)
      PROVE  IndInv'
  <2>0. PICK r \in Request : r = req[w]
    BY <1>0 DEF TypeOK
  <2>1. Asked' /\ Ending /\ UNCHANGED <<users, day, floor, frozen, kept>>
    BY <1>0, <1>7, SessionsStay, AskedStays DEF ConsumeAuthChallenge, TypeOK
  <2>2. r \in Request /\ r.row \in Row /\ Sound(r) /\ Copy(r) /\ Spared(r) /\ r.pc = "confirm"
    BY <2>0, <1>7, RequestParts DEF ConsumeAuthChallenge
  <2>3. /\ r.user \in User /\ r.op \in Kind /\ r.listed = {} /\ frozen[r.user] # "settled"
        /\ kept[r.user] => r.row.del = 0
    BY <2>2 DEF Sound, Copy, CopyPC, Kind
  <2>. DEFINE bind == [r EXCEPT !.pc = "bind"]
              cancel == [r EXCEPT !.pc = "cancel"]
              enroll == [r EXCEPT !.pc = "write", !.inv = TRUE]
              next == SigningIn(r.user, r.row)
  <2>4. CASE r.op = "bind" /\ req' = [req EXCEPT ![w] = bind]
    <3>1. /\ bind \in Request /\ bind.pc = "bind" /\ bind.op = r.op /\ bind.user = r.user
          /\ bind.row = r.row /\ bind.listed = {}
      BY <2>2, <2>3 DEF Request, PC
    <3>. HIDE DEF bind
    <3>2. Sound(bind) /\ Copy(bind) /\ Spared(bind)
      BY <2>2, <2>3, <2>4, <3>1 DEF Sound, Copy, Spared, CopyPC, Kind
    <3>. QED BY <2>1, <2>4, <3>1, <3>2, RequestStep
  <2>5. CASE r.op = "cancel" /\ req' = [req EXCEPT ![w] = cancel]
    <3>1. /\ cancel \in Request /\ cancel.pc = "cancel" /\ cancel.op = r.op /\ cancel.user = r.user
          /\ cancel.row = r.row /\ cancel.listed = {}
      BY <2>2, <2>3 DEF Request, PC
    <3>. HIDE DEF cancel
    <3>2. Sound(cancel) /\ Copy(cancel) /\ Spared(cancel)
      BY <2>2, <2>3, <2>5, <3>1 DEF Sound, Copy, Spared, CopyPC, Kind
    <3>. QED BY <2>1, <2>5, <3>1, <3>2, RequestStep
  <2>6. CASE r.row.ver < MaxVersion /\ req' = [req EXCEPT ![w] = enroll]
    <3>1. /\ enroll \in Request /\ enroll.pc = "write" /\ enroll.op = r.op /\ enroll.user = r.user
          /\ enroll.row = r.row /\ enroll.listed = {}
      BY <2>2, <2>3 DEF Request, PC
    <3>. HIDE DEF enroll
    <3>2. Sound(enroll) /\ Copy(enroll) /\ Spared(enroll)
      BY <2>2, <2>3, <2>6, <3>1 DEF Sound, Copy, Spared, CopyPC, Kind
    <3>. QED BY <2>1, <2>6, <3>1, <3>2, RequestStep
  <2>7. CASE req' = [req EXCEPT ![w] = next]
    <3>1. next \in Request
      BY <2>2, <2>3, SigningInRequest
    <3>2. Sound(next) /\ Copy(next) /\ Spared(next)
      BY <2>2, <2>3, SigningInSound DEF Copy, CopyPC
    <3>. HIDE DEF next
    <3>. QED BY <2>1, <2>7, <3>1, <3>2, RequestStep
  <2>8. CASE req' = [req EXCEPT ![w] = Idle]
    BY <2>1, <2>8, IdleRequest, IdleSound, RequestStep
  <2>. QED BY <1>0, <2>0, <1>7, <2>4, <2>5, <2>6, <2>7, <2>8
           DEF ConsumeAuthChallenge, Finish, TypeOK
<1>8. ASSUME NEW w \in Worker, CancelUserDeletion(w)
      PROVE  IndInv'
  <2>0. PICK r \in Request : r = req[w]
    BY <1>0 DEF TypeOK
  <2>. DEFINE u == r.user
              row == [r.row EXCEPT !.del = 0]
              n == SigningIn(u, row)
  <2>1. r \in Request /\ r.row \in Row /\ Sound(r) /\ Copy(r) /\ Spared(r) /\ r.pc = "cancel"
    BY <2>0, <1>8, RequestParts DEF CancelUserDeletion
  <2>2. /\ u \in User /\ r.listed = {} /\ frozen[u] # "settled"
        /\ r.row.ver >= floor[u] /\ r.row.st # "deleted"
    BY <2>1 DEF Sound, Copy, CopyPC
  <2>3. row \in Row /\ row.st = r.row.st /\ row.ver = r.row.ver /\ row.del = 0
    <3>1. 0 \in 0..MaxDay
      BY MaxDayAssumption
    <3>. QED BY <2>1, <3>1 DEF Row
  <2>4. /\ n \in Request /\ n.pc = "post" /\ n.op = "none" /\ n.user = u
        /\ n.row = row /\ n.listed = {}
    <3>. HIDE DEF row
    <3>. QED BY <2>2, <2>3, SigningInRequest
  <2>5. req' = [req EXCEPT ![w] = n]
    BY <1>0, <2>0, <1>8 DEF CancelUserDeletion, TypeOK
  <2>6. Asked' /\ Ending /\ UNCHANGED <<day, floor, frozen>>
    BY <1>0, <2>0, <1>8, SessionsStay, AskedStays DEF CancelUserDeletion, TypeOK
  <2>. HIDE DEF n, row, u
  <2>7. Sound(n) /\ Spared(n)'
    BY <2>2, <2>4 DEF Sound, Spared
  <2>8. RowOK(u, row)' /\ Copy(n)'
    BY <2>1, <2>2, <2>3, <2>4, <2>6 DEF RowOK, Copy, CopyPC
  <2>9. CASE Exists(u)
    <3>1. users' = [users EXCEPT ![u] = row]
      BY <2>0, <1>8, <2>9 DEF CancelUserDeletion, UpdateUser, u, row
    <3>2. kept' = kept \/ kept' = [kept EXCEPT ![u] = (Outcome(w, u) = "settled")]
      BY <2>0, <1>8 DEF CancelUserDeletion, u
    <3>3. /\ kept' \in [User -> BOOLEAN]
          /\ \A o \in User \ {u} : kept'[o] = kept[o]
          /\ \A v \in Worker \ {w} : Carries(v, u) => (kept'[u] => kept[u])
      <4>1. \A v \in Worker \ {w} : Carries(v, u) => Outcome(w, u) # "settled"
        BY DEF Outcome
      <4>. QED BY <1>0, <2>2, <3>2, <4>1 DEF TypeOK
    <3>4. /\ req' \in [Worker -> Request]
          /\ req'[w] = n /\ \A v \in Worker \ {w} : req'[v] = req[v]
      BY <1>0, <2>4, <2>5 DEF TypeOK
    <3>. QED BY <1>0, <2>2, <2>3, <2>6, <2>7, <2>8, <3>1, <3>3, <3>4, RowStep DEF TypeOK
  <2>10. CASE ~Exists(u)
    <3>1. UNCHANGED <<users, day, floor, frozen, kept>>
      BY <2>0, <1>8, <2>10 DEF CancelUserDeletion, UpdateUser, u
    <3>2. Copy(n) /\ Spared(n)
      BY <2>4, <2>7, <2>8, <3>1 DEF Copy, Spared
    <3>. QED BY <2>4, <2>5, <2>6, <2>7, <3>1, <3>2, RequestStep
  <2>. QED BY <2>9, <2>10
<1>9. ASSUME NEW w \in Worker, LoginUpdateUser(w)
      PROVE  IndInv'
  <2>0. PICK r \in Request : r = req[w]
    BY <1>0 DEF TypeOK
  <2>. DEFINE u == r.user
              n == [r EXCEPT !.pc = "login.session"]
  <2>1. r \in Request /\ r.row \in Row /\ Sound(r) /\ Copy(r) /\ Spared(r) /\ r.pc = "login.write"
    BY <2>0, <1>9, RequestParts DEF LoginUpdateUser
  <2>2. u \in User /\ r.op \notin {"admin", "deletion", "phone", "factor"} /\ r.listed = {}
    BY <2>1 DEF Sound
  <2>3. /\ n \in Request /\ n.pc = "login.session" /\ n.op = r.op /\ n.user = u
        /\ n.row = r.row /\ n.listed = {}
    BY <2>1, <2>2 DEF Request, PC
  <2>4. req' = [req EXCEPT ![w] = n]
    BY <1>0, <2>0, <1>9 DEF LoginUpdateUser, TypeOK
  <2>5. Asked' /\ Ending /\ UNCHANGED <<day, floor, frozen, kept>>
    BY <1>0, <2>0, <1>9, SessionsStay, AskedStays DEF LoginUpdateUser, TypeOK
  <2>6. Sound(n) /\ Spared(n)' /\ Spared(n)
    BY <2>2, <2>3 DEF Sound, Spared
  <2>7. RowOK(u, r.row)' /\ Copy(n)' /\ Copy(n)
    BY <2>1, <2>2, <2>3, <2>5 DEF RowOK, Copy, CopyPC
  <2>8. CASE Exists(u)
    <3>1. users' = [users EXCEPT ![u] = r.row]
      BY <2>0, <1>9, <2>8 DEF LoginUpdateUser, UpdateUser
    <3>2. /\ req' \in [Worker -> Request]
          /\ req'[w] = n /\ \A v \in Worker \ {w} : req'[v] = req[v]
      BY <1>0, <2>3, <2>4 DEF TypeOK
    <3>. HIDE DEF n, u
    <3>. QED BY <1>0, <2>1, <2>2, <2>5, <2>6, <2>7, <3>1, <3>2, RowStep DEF TypeOK
  <2>9. CASE ~Exists(u)
    <3>1. UNCHANGED users
      BY <2>0, <1>9, <2>9 DEF LoginUpdateUser, UpdateUser
    <3>. HIDE DEF n
    <3>. QED BY <2>3, <2>4, <2>5, <2>6, <2>7, <3>1, RequestStep
  <2>. QED BY <2>8, <2>9
<1>10. ASSUME NEW w \in Worker, CreateSession(w)
      PROVE  IndInv'
  <2>. DEFINE r == req[w]
  <2>1. r \in Request /\ r.row \in Row /\ Sound(r) /\ Copy(r) /\ r.pc = "login.session"
    BY <1>10, RequestParts DEF CreateSession
  <2>2. r.user \in User /\ r.row.ver \in Version /\ r.row.ver >= floor[r.user]
    BY <2>1, RowParts DEF Sound, Copy, CopyPC
  <2>3. PICK s \in Session :
          sessions' = [sessions EXCEPT ![s] = [st |-> "live", user |-> r.user, ver |-> r.row.ver]]
    BY <1>10 DEF CreateSession
  <2>4. req' = [req EXCEPT ![w] = Idle] /\ UNCHANGED <<users, challenges, required, day, floor, frozen, kept>>
    BY <1>10 DEF CreateSession, Finish
  <2>5. TypeOK'
    <3>1. [st |-> "live", user |-> r.user, ver |-> r.row.ver] \in SessionRow
      BY <2>2 DEF SessionRow
    <3>. QED BY <1>0, <2>3, <2>4, <3>1, IdleRequest DEF TypeOK
  <2>6. RequestsOK'
    <3>1. \A v \in Worker : req'[v] = IF v = w THEN Idle ELSE req[v]
      BY <1>0, <2>4 DEF TypeOK
    <3>. QED BY <2>4, <3>1, IdleRequest DEF IndInv, RequestsOK, Sound, Copy, Spared, CopyPC
  <2>7. UsersOK'
    BY <2>4 DEF IndInv, UsersOK, RowOK
  <2>8. SessionsOK'
    <3>1. ASSUME NEW o \in Session, sessions'[o].st = "live"
          PROVE  sessions'[o].user \in User /\ sessions'[o].ver >= floor[sessions'[o].user]
      <4>1. CASE o = s
        BY <1>0, <2>2, <2>3, <4>1 DEF TypeOK
      <4>2. CASE o # s
        BY <1>0, <2>3, <3>1, <4>2 DEF TypeOK, IndInv, SessionsOK
      <4>. QED BY <4>1, <4>2
    <3>. QED BY <2>4, <3>1 DEF SessionsOK
  <2>9. ChallengesOK'
    BY <2>4 DEF IndInv, ChallengesOK
  <2>. QED BY <2>5, <2>6, <2>7, <2>8, <2>9 DEF IndInv
<1>11. ASSUME NEW w \in Worker, Authenticate(w)
      PROVE  IndInv'
  <2>. DEFINE r == req[w]
              n == [r EXCEPT !.pc = "read", !.session = None]
  <2>1. Asked' /\ UNCHANGED <<users, day, floor, frozen, kept>>
    BY <1>0, <1>11, AskedStays DEF Authenticate, TypeOK
  <2>2. r \in Request /\ Sound(r) /\ Copy(r) /\ Spared(r) /\ r.pc = "user"
    BY <1>11, RequestParts DEF Authenticate
  <2>3. CASE users[r.user].st = "active"
    <3>1. req' = [req EXCEPT ![w] = n] /\ Ending
      BY <1>0, <1>11, <2>3, SessionsStay DEF Authenticate
    <3>2. n \in Request /\ n.pc = "read" /\ n.op = r.op /\ n.user = r.user /\ n.listed = r.listed
      <4>. HIDE DEF r
      <4>. QED BY <2>2 DEF Request, PC
    <3>3. Sound(n) /\ Copy(n) /\ Spared(n)
      <4>1. r.user \in User /\ frozen[r.user] # "settled"
        BY <2>2, <2>3, ReadCopy DEF Sound
      <4>. HIDE DEF n, r
      <4>. QED BY <2>2, <3>2, <4>1 DEF Sound, Copy, Spared, CopyPC
    <3>. HIDE DEF n
    <3>. QED BY <2>1, <3>1, <3>2, <3>3, RequestStep
  <2>4. CASE users[r.user].st # "active"
    <3>1. req' = [req EXCEPT ![w] = Idle]
      BY <1>11, <2>4 DEF Authenticate, Finish
    <3>2. Ending
      <4>1. r.session \in Session
        BY <2>2 DEF Sound
      <4>2. UNCHANGED sessions \/ sessions' = [sessions EXCEPT ![r.session] = NoSession]
        BY <1>11, <2>4 DEF Authenticate
      <4>. HIDE DEF r
      <4>. QED BY <1>0, <4>1, <4>2, SessionsStay, SessionEnded
    <3>. QED BY <2>1, <3>1, <3>2, IdleRequest, IdleSound, RequestStep
  <2>. QED BY <2>3, <2>4
<1>12. ASSUME NEW w \in Worker, ReadRow(w)
      PROVE  IndInv'
  <2>. DEFINE r == req[w]
              u == r.user
              row == IF r.op = "deletion" THEN [users[u] EXCEPT !.del = day + 1] ELSE users[u]
              n == [r EXCEPT !.pc = "write", !.inv = (r.op # "profile"), !.row = row]
  <2>1. Asked' /\ Ending /\ UNCHANGED <<users, day, floor, frozen, kept>>
    BY <1>0, <1>12, SessionsStay, AskedStays DEF ReadRow, TypeOK
  <2>2. r \in Request /\ Sound(r) /\ Copy(r) /\ Spared(r) /\ r.pc = "read"
    BY <1>12, RequestParts DEF ReadRow
  <2>3. u \in User /\ r.listed = {}
    BY <2>2 DEF Sound
  <2>4. CASE Exists(u)
    <3>1. req' = [req EXCEPT ![w] = n]
      BY <1>0, <1>12, <2>4 DEF ReadRow, TypeOK
    <3>2. /\ row \in Row /\ row.ver = users[u].ver /\ row.st = users[u].st
          /\ r.op = "deletion" \/ row.del = users[u].del
      <4>1. users[u] \in Row
        BY <2>3, ReadCopy
      <4>2. CASE r.op = "deletion"
        <5>1. day + 1 \in 0..MaxDay
          BY <1>0, <1>12, <4>2, MaxDayAssumption DEF ReadRow, TypeOK
        <5>. QED BY <4>1, <4>2, <5>1 DEF Row
      <4>3. CASE r.op # "deletion"
        BY <4>1, <4>3
      <4>. QED BY <4>2, <4>3
    <3>3. /\ n \in Request /\ n.pc = "write" /\ n.op = r.op /\ n.user = u
          /\ n.row = row /\ n.inv = (r.op # "profile") /\ n.listed = {}
      <4>1. (r.op # "profile") \in BOOLEAN
        OBVIOUS
      <4>. HIDE DEF row, r
      <4>. QED BY <2>2, <2>3, <3>2, <4>1 DEF Request, PC
    <3>4. Sound(n) /\ Copy(n) /\ Spared(n)
      <4>1. users[u].st # "deleted"
        BY <2>4 DEF Exists
      <4>2. /\ users[u].ver >= floor[u]
            /\ frozen[u] = "settled" => users[u].st \in {"frozen", "deleted"}
            /\ kept[u] => users[u].del = 0
        BY <2>3, ReadCopy
      <4>3. /\ frozen[u] = "settled" => r.op # "phone"
            /\ r.op # "factor"
        BY <2>2 DEF Copy, Sound, CopyPC
      <4>4. r.op # "profile" => users[u].ver < MaxVersion
        BY <1>12 DEF ReadRow
      <4>. HIDE DEF n, row, u
      <4>. QED BY <2>3, <3>2, <3>3, <4>1, <4>2, <4>3, <4>4 DEF Sound, Copy, Spared
    <3>. HIDE DEF n
    <3>. QED BY <2>1, <3>1, <3>3, <3>4, RequestStep
  <2>5. CASE ~Exists(u)
    <3>1. req' = [req EXCEPT ![w] = Idle]
      BY <1>12, <2>5 DEF ReadRow, Finish
    <3>. QED BY <2>1, <3>1, IdleRequest, IdleSound, RequestStep
  <2>. QED BY <2>4, <2>5
<1>13. ASSUME NEW w \in Worker, WriteRow(w)
      PROVE  IndInv'
  <2>0. PICK r \in Request : r = req[w]
    BY <1>0 DEF TypeOK
  <2>. DEFINE u == r.user
  <2>1. r.row \in Row /\ Sound(r) /\ Copy(r) /\ r.pc = "write"
    BY <2>0, <1>13, RequestParts DEF WriteRow
  <2>2. u \in User /\ (r.inv => r.row.ver < MaxVersion)
    BY <2>1 DEF Sound
  <2>3. PICK row \in Row :
        /\ row = Written(r) /\ row.del = r.row.del
        /\ row.ver = IF r.inv THEN r.row.ver + 1 ELSE r.row.ver
        /\ row.st = IF r.op = "phone" /\ u \in required THEN "active" ELSE r.row.st
    <3>. DEFINE ver == IF r.inv THEN r.row.ver + 1 ELSE r.row.ver
                st == IF r.op = "phone" /\ r.user \in required THEN "active" ELSE r.row.st
    <3>1. ver \in Version /\ st \in {"active", "pending", "frozen", "deleted"}
      BY <2>1, <2>2, RowParts, MaxVersionAssumption DEF Version
    <3>2. Written(r) = [r.row EXCEPT !.ver = ver, !.st = st]
      BY DEF Written
    <3>. HIDE DEF ver, st
    <3>3. /\ Written(r) \in Row /\ Written(r).del = r.row.del /\ Written(r).ver = ver
          /\ Written(r).st = st
      BY <2>1, <3>1, <3>2 DEF Row
    <3>. QED BY <3>3 DEF ver, st
  <2>4. /\ row.ver >= r.row.ver /\ row.ver >= floor[u] /\ row.st # "deleted"
        /\ r.row.ver \in Nat /\ row.ver \in Nat /\ floor[u] \in Nat
    <3>1. r.row.ver \in Nat /\ r.row.ver >= floor[u] /\ floor[u] \in Nat
      BY <1>0, <2>1, <2>2, RowParts DEF Copy, CopyPC, TypeOK
    <3>2. row.st # "deleted"
      BY <2>1, <2>3 DEF Copy, CopyPC
    <3>. QED BY <2>3, <3>1, <3>2
  <2>5. PICK n : /\ n = IF r.op = "factor" /\ Exists(u) THEN SigningIn(u, row) ELSE Idle
                 /\ req' = [req EXCEPT ![w] = n] /\ UNCHANGED day
    BY <2>0, <1>13, <2>3 DEF WriteRow, Finish
  <2>5a. required' \subseteq User
    BY <1>0, <2>0, <1>13 DEF WriteRow, TypeOK
  <2>6. CASE ~Exists(u)
    <3>1. UNCHANGED <<users, sessions, challenges, floor, frozen, kept>>
      BY <2>0, <1>13, <2>3, <2>6 DEF WriteRow, UpdateUser
    <3>2. req' = [req EXCEPT ![w] = Idle]
      BY <2>5, <2>6
    <3>. QED BY <1>0, <2>5, <2>5a, <3>1, <3>2, SessionsStay, AskedStays, IdleRequest, IdleSound, RequestStep
  <2>7. CASE Exists(u)
    <3>. DEFINE out == Outcome(w, u)
    <3>1. /\ users' = [users EXCEPT ![u] = row]
          /\ ~r.inv => UNCHANGED <<sessions, challenges>>
          /\ r.inv => sessions' = WithoutSessionsOf({u}) /\ challenges' = Without(u)
      BY <2>0, <1>13, <2>3, <2>7 DEF WriteRow, UpdateUser, UpdateUserAndInvalidateAuth
    <3>2. /\ floor' = IF r.inv /\ out = "settled" THEN [floor EXCEPT ![u] = r.row.ver + 1] ELSE floor
          /\ r.op # "admin" => frozen' = frozen
          /\ r.op = "admin" => frozen' = [frozen EXCEPT ![u] = AfterStatus(w, row.st)]
          /\ kept' = IF r.op = "deletion" THEN [kept EXCEPT ![u] = FALSE] ELSE kept
      BY <2>0, <1>13, <2>3, <2>7 DEF WriteRow
    <3>3. /\ out \in {"settled", "raced"}
          /\ \A v \in Worker \ {w} : Carries(v, u) => out = "raced"
      BY DEF Outcome
    <3>4. /\ AfterStatus(w, row.st) \in {"no", "settled", "raced"}
          /\ AfterStatus(w, row.st) = "settled" =>
               row.st = "frozen" /\ ((r.inv /\ out = "settled") \/ frozen[u] = "settled")
      <4>1. frozen[u] \in {"no", "settled", "raced"}
        BY <1>0, <2>2 DEF TypeOK
      <4>2. AfterStatus(w, row.st) = IF row.st # "frozen" THEN "no"
                                     ELSE IF r.inv THEN out
                                     ELSE IF frozen[u] = "no" THEN "raced" ELSE frozen[u]
        <5>1. CASE row.st # "frozen"
          BY <5>1 DEF AfterStatus
        <5>2. CASE row.st = "frozen" /\ r.inv
          BY <2>0, <5>2 DEF AfterStatus
        <5>3. CASE row.st = "frozen" /\ ~r.inv
          BY <2>0, <5>3 DEF AfterStatus
        <5>. QED BY <5>1, <5>2, <5>3
      <4>. HIDE DEF out, u
      <4>. QED BY <3>3, <4>1, <4>2
    <3>. HIDE DEF out, u
    <3>5. /\ floor' \in [User -> 0..MaxVersion]
          /\ frozen' \in [User -> {"no", "settled", "raced"}]
          /\ kept' \in [User -> BOOLEAN]
          /\ \A o \in User \ {u} : floor'[o] = floor[o] /\ frozen'[o] = frozen[o] /\ kept'[o] = kept[o]
      <4>1. r.inv => r.row.ver + 1 \in 0..MaxVersion
        BY <2>2, <2>4, MaxVersionAssumption
      <4>2. floor' \in [User -> 0..MaxVersion]
        BY <1>0, <2>2, <3>2, <4>1 DEF TypeOK
      <4>. QED BY <1>0, <2>2, <3>2, <3>4, <4>2 DEF TypeOK
    <3>6. floor' = floor \/ \A s \in Session : sessions'[s].st = "live" => sessions[s].user # u
      BY <1>0, <3>1, <3>2, UserSessionsEnded
    <3>7. /\ floor'[u] <= row.ver
          /\ frozen'[u] = "settled" => row.st = "frozen"
          /\ frozen'[u] = "settled" => (r.inv /\ out = "settled") \/ frozen[u] = "settled"
          /\ kept'[u] => kept[u] /\ row.del = 0
      <4>1. floor'[u] <= row.ver
        BY <1>0, <2>2, <2>3, <2>4, <3>2 DEF TypeOK
      <4>2. /\ frozen'[u] = "settled" => row.st = "frozen"
            /\ frozen'[u] = "settled" => (r.inv /\ out = "settled") \/ frozen[u] = "settled"
        <5>1. CASE r.op = "admin"
          BY <1>0, <2>2, <3>2, <3>4, <5>1 DEF TypeOK
        <5>2. CASE r.op # "admin"
          BY <2>1, <2>3, <3>2, <5>2 DEF Copy, CopyPC, u
        <5>. QED BY <5>1, <5>2
      <4>3. kept'[u] => kept[u] /\ row.del = 0
        BY <1>0, <2>1, <2>2, <2>3, <3>2 DEF TypeOK, Copy, CopyPC, u
      <4>. QED BY <4>1, <4>2, <4>3
    <3>8. RowOK(u, row)'
      <4>1. floor'[u] \in Nat
        BY <2>2, <3>5
      <4>. QED BY <2>4, <3>7, <4>1 DEF RowOK
    <3>9. ASSUME NEW v \in Worker \ {w}, Carries(v, u)
          PROVE  /\ floor'[u] = floor[u]
                 /\ frozen'[u] = "settled" => frozen[u] = "settled"
                 /\ kept'[u] => kept[u]
      BY <3>2, <3>3, <3>7, <3>9
    <3>10. Ending
      BY <1>0, <3>1, SessionsStay, UserSessionsEnded
    <3>11. Asked'
      <4>1. challenges' \subseteq challenges
        BY <3>1 DEF Without
      <4>2. ASSUME NEW o \in User, NEW kind \in Kind, <<o, kind>> \in challenges'
            PROVE  frozen'[o] # "settled"
        <5>1. frozen[o] # "settled"
          BY <4>1, <4>2 DEF IndInv, ChallengesOK
        <5>2. CASE o # u
          BY <3>5, <5>1, <5>2
        <5>3. CASE o = u
          <6>1. ~r.inv
            BY <3>1, <4>2, <5>3 DEF Without
          <6>. QED BY <3>7, <5>1, <5>3, <6>1
        <5>. QED BY <5>2, <5>3
      <4>. QED BY <1>0, <2>5a, <4>1, <4>2 DEF Asked, ChallengesOK, TypeOK
    <3>12. n \in Request /\ Sound(n) /\ Copy(n)' /\ Spared(n)'
      <4>1. CASE r.op = "factor"
        <5>1. n = SigningIn(u, row)
          BY <2>5, <2>7, <4>1 DEF u
        <5>2. /\ n \in Request /\ n.pc = "post" /\ n.op = "none" /\ n.user = u
              /\ n.row = row /\ n.listed = {}
          BY <2>2, <2>3, <5>1, SigningInRequest
        <5>3. frozen[u] # "settled" /\ frozen' = frozen
          BY <2>1, <3>2, <4>1 DEF Copy, CopyPC, u
        <5>. QED BY <2>2, <2>4, <3>5, <3>7, <5>2, <5>3 DEF Sound, Copy, Spared
      <4>2. CASE r.op # "factor"
        BY <2>5, <4>2, IdleRequest DEF Sound, Copy, Spared, CopyPC
      <4>. QED BY <4>1, <4>2
    <3>13. /\ req' \in [Worker -> Request] /\ req'[w] = n
           /\ \A v \in Worker \ {w} : req'[v] = req[v]
      BY <1>0, <2>5, <3>12 DEF TypeOK
    <3>. QED BY <2>2, <2>3, <2>5, <3>1, <3>5, <3>6, <3>8, <3>9, <3>10, <3>11, <3>12, <3>13, RowStep
  <2>. QED BY <2>6, <2>7
<1>14. ASSUME NEW u \in User, AdminDeleteUser(u)
      PROVE  IndInv'
  <2>0. PICK row \in Row : row = [users[u] EXCEPT !.st = "deleted"]
    BY ReadCopy, DeletedRow
  <2>1. row.ver = users[u].ver /\ row.st = "deleted"
    BY <2>0, ReadCopy, DeletedRow
  <2>2. /\ users' = [users EXCEPT ![u] = row]
        /\ sessions' = WithoutSessionsOf({u}) /\ challenges' \subseteq challenges
        /\ required' \subseteq User
        /\ kept' = [kept EXCEPT ![u] = FALSE]
        /\ UNCHANGED <<req, day, floor, frozen>>
    BY <1>0, <1>14, <2>0 DEF AdminDeleteUser, DeleteUser, Without, TypeOK
  <2>3. Ending /\ Asked'
    BY <1>0, <2>2, UserSessionsEnded, AskedStays
  <2>4. RowOK(u, row)'
    BY <1>0, <2>1, <2>2, ReadCopy DEF RowOK, TypeOK
  <2>. QED BY <1>0, <2>1, <2>2, <2>3, <2>4, RowStep DEF TypeOK
<1>15. ASSUME NEW w \in Worker, DeleteListedUser(w)
      PROVE  IndInv'
  <2>0. PICK r \in Request : r = req[w]
    BY <1>0 DEF TypeOK
  <2>1. Sound(r) /\ Spared(r) /\ r.pc = "cleanup"
    BY <2>0, <1>15, RequestParts DEF DeleteListedUser
  <2>2. PICK u \in r.listed :
          IF Exists(u)
          THEN /\ DeleteUser(u)
               /\ required' = required \ {u}
               /\ req' = [req EXCEPT ![w] = IF r.listed \ {u} = {} THEN Idle
                                            ELSE [r EXCEPT !.listed = r.listed \ {u}]]
          ELSE Finish(w) /\ UNCHANGED <<users, sessions, challenges, required>>
    BY <2>0, <1>15 DEF DeleteListedUser
  <2>3. u \in User /\ ~kept[u] /\ r.op \notin {"admin", "deletion", "phone", "factor"}
    BY <2>1 DEF Request, Spared, Sound
  <2>4. UNCHANGED <<day, floor, frozen, kept>>
    BY <1>15 DEF DeleteListedUser
  <2>5. CASE Exists(u)
    <3>. DEFINE left == r.listed \ {u}
                n == IF left = {} THEN Idle ELSE [r EXCEPT !.listed = left]
    <3>1. PICK row \in Row : row = [users[u] EXCEPT !.st = "deleted"]
      BY <2>3, ReadCopy, DeletedRow
    <3>2. row.ver = users[u].ver /\ row.st = "deleted"
      BY <2>3, <3>1, ReadCopy, DeletedRow
    <3>3. /\ users' = [users EXCEPT ![u] = row]
          /\ sessions' = WithoutSessionsOf({u}) /\ challenges' \subseteq challenges
          /\ req' = [req EXCEPT ![w] = n]
      BY <1>0, <2>2, <2>3, <2>5, <3>1 DEF DeleteUser, Without, TypeOK
    <3>4. n \in Request /\ Sound(n) /\ Copy(n)' /\ Spared(n)'
      <4>1. CASE left = {}
        BY <4>1, IdleRequest DEF Sound, Copy, Spared, CopyPC
      <4>2. CASE left # {}
        <5>1. left \subseteq r.listed /\ r.listed \subseteq User
          BY DEF Request
        <5>2. /\ n \in Request /\ n.pc = "cleanup" /\ n.op = r.op /\ n.listed = left
          <6>. HIDE DEF left
          <6>. QED BY <2>1, <2>3, <4>2, <5>1 DEF Request
        <5>. HIDE DEF n, left
        <5>. QED BY <2>1, <2>4, <5>1, <5>2 DEF Sound, Copy, Spared, CopyPC
      <4>. QED BY <4>1, <4>2
    <3>5. RowOK(u, row)'
      BY <2>3, <2>4, <3>2, ReadCopy DEF RowOK
    <3>6. /\ req' \in [Worker -> Request]
          /\ req'[w] = n /\ \A v \in Worker \ {w} : req'[v] = req[v]
      BY <1>0, <3>3, <3>4 DEF TypeOK
    <3>7. Ending /\ Asked'
      <4>1. required' \subseteq User
        BY <1>0, <2>2, <2>5 DEF TypeOK
      <4>. QED BY <1>0, <2>4, <3>3, <4>1, UserSessionsEnded, AskedStays
    <3>. HIDE DEF n
    <3>. QED BY <1>0, <2>3, <2>4, <3>3, <3>4, <3>5, <3>6, <3>7, RowStep DEF TypeOK
  <2>6. CASE ~Exists(u)
    <3>1. req' = [req EXCEPT ![w] = Idle] /\ UNCHANGED <<users, sessions, challenges, required>>
      BY <2>2, <2>6 DEF Finish
    <3>. QED BY <1>0, <2>4, <3>1, SessionsStay, AskedStays, IdleRequest, IdleSound, RequestStep DEF TypeOK
  <2>. QED BY <2>5, <2>6
<1>16. ASSUME NEW s \in Session, Logout(s)
      PROVE  IndInv'
  <2>1. Ending /\ UNCHANGED <<users, challenges, required, req, day, floor, frozen, kept>>
    BY <1>0, <1>16, SessionEnded DEF Logout
  <2>. QED BY <2>1 DEF IndInv, TypeOK, Ending, RequestsOK, Sound, Copy, Spared, UsersOK, RowOK, SessionsOK,
                       ChallengesOK
<1>17. ASSUME Tick
      PROVE  IndInv'
  <2>1. day' \in 0..MaxDay
    BY <1>0, <1>17, MaxDayAssumption DEF Tick, TypeOK
  <2>. QED BY <1>17, <2>1 DEF Tick, IndInv, TypeOK, RequestsOK, Sound, Copy, Spared, UsersOK, RowOK,
                              SessionsOK, ChallengesOK
<1>18. ASSUME NEW w \in Worker, PostAuthentication(w)
      PROVE  IndInv'
  <2>0. PICK r \in Request : r = req[w]
    BY <1>0 DEF TypeOK
  <2>1. Ending /\ UNCHANGED <<users, required, day, floor, frozen, kept>>
    BY <1>0, <1>18, SessionsStay DEF PostAuthentication
  <2>2. r \in Request /\ r.row \in Row /\ Sound(r) /\ Copy(r) /\ Spared(r) /\ r.pc = "post"
    BY <2>0, <1>18, RequestParts DEF PostAuthentication
  <2>3. /\ r.user \in User /\ r.listed = {} /\ frozen[r.user] # "settled"
        /\ r.op \notin {"admin", "deletion", "phone", "factor"}
    BY <2>2 DEF Sound, Copy, CopyPC
  <2>4. Asked'
    <3>1. challenges' = challenges \/ \E kind \in Kind : challenges' = challenges \cup {<<r.user, kind>>}
      BY <2>0, <1>18 DEF PostAuthentication, Challenge, Kind
    <3>2. challenges' \subseteq User \X Kind
      BY <1>0, <2>3, <3>1 DEF TypeOK
    <3>3. ChallengesOK'
      BY <2>1, <2>3, <3>1 DEF IndInv, ChallengesOK
    <3>. QED BY <1>0, <2>1, <3>2, <3>3 DEF Asked, TypeOK
  <2>5. ASSUME NEW pc \in {"require", "login.write"}, req' = [req EXCEPT ![w] = [r EXCEPT !.pc = pc]]
        PROVE  IndInv'
    <3>. DEFINE n == [r EXCEPT !.pc = pc]
    <3>1. /\ n \in Request /\ n.pc = pc /\ n.op = r.op /\ n.user = r.user /\ n.row = r.row
          /\ n.listed = {}
      BY <2>2, <2>3 DEF Request, PC
    <3>2. req' = [req EXCEPT ![w] = n]
      BY <2>5
    <3>. HIDE DEF n
    <3>3. Sound(n) /\ Copy(n) /\ Spared(n)
      BY <2>2, <2>3, <3>1 DEF Sound, Copy, Spared, CopyPC
    <3>. QED BY <2>1, <2>4, <3>1, <3>2, <3>3, RequestStep
  <2>6. CASE req' = [req EXCEPT ![w] = Idle]
    BY <2>1, <2>4, <2>6, IdleRequest, IdleSound, RequestStep
  <2>. QED BY <1>0, <2>0, <1>18, <2>5, <2>6 DEF PostAuthentication, Challenge, Finish, TypeOK
<1>19. ASSUME NEW w \in Worker, RequirePhoneBinding(w)
      PROVE  IndInv'
  <2>0. PICK r \in Request : r = req[w]
    BY <1>0 DEF TypeOK
  <2>. DEFINE u == r.user
              row == [r.row EXCEPT !.st = "pending"]
              n == [r EXCEPT !.pc = "require.challenge"]
  <2>1. r \in Request /\ r.row \in Row /\ Sound(r) /\ Copy(r) /\ Spared(r) /\ r.pc = "require"
    BY <2>0, <1>19, RequestParts DEF RequirePhoneBinding
  <2>2. /\ u \in User /\ r.op \notin {"admin", "deletion", "phone", "factor"} /\ r.listed = {}
        /\ frozen[u] # "settled"
    BY <2>1 DEF Sound, Copy, CopyPC
  <2>3. /\ n \in Request /\ n.pc = "require.challenge" /\ n.op = r.op /\ n.user = u
        /\ n.row = r.row /\ n.listed = {}
    BY <2>1, <2>2 DEF Request, PC
  <2>4. row \in Row /\ row.st = "pending" /\ row.ver = r.row.ver /\ row.del = r.row.del
    BY <2>1 DEF Row
  <2>5. /\ req' = [req EXCEPT ![w] = n] /\ Ending /\ Asked'
        /\ UNCHANGED <<day, floor, frozen, kept>>
    <3>1. required' \subseteq User /\ UNCHANGED <<sessions, challenges, day, floor, frozen, kept>>
      BY <1>0, <2>0, <2>2, <1>19 DEF RequirePhoneBinding, TypeOK
    <3>2. req' = [req EXCEPT ![w] = n]
      BY <1>0, <2>0, <1>19 DEF RequirePhoneBinding, TypeOK
    <3>. QED BY <1>0, <3>1, <3>2, SessionsStay, AskedStays
  <2>6. users' = users \/ users' = [users EXCEPT ![u] = row]
    BY <2>0, <1>19 DEF RequirePhoneBinding, UpdateUser
  <2>. HIDE DEF n, row, u
  <2>7. Sound(n) /\ Spared(n)' /\ Spared(n)
    BY <2>2, <2>3 DEF Sound, Spared
  <2>8. RowOK(u, row)' /\ Copy(n)' /\ Copy(n)
    BY <2>1, <2>2, <2>3, <2>4, <2>5 DEF RowOK, Copy, CopyPC, u
  <2>9. CASE users' = users
    BY <2>3, <2>5, <2>7, <2>8, <2>9, RequestStep
  <2>10. CASE users' = [users EXCEPT ![u] = row]
    <3>1. /\ req' \in [Worker -> Request]
          /\ req'[w] = n /\ \A v \in Worker \ {w} : req'[v] = req[v]
      BY <1>0, <2>3, <2>5 DEF TypeOK
    <3>. QED BY <1>0, <2>2, <2>4, <2>5, <2>7, <2>8, <2>10, <3>1, RowStep DEF TypeOK
  <2>. QED BY <2>6, <2>9, <2>10
<1>20. ASSUME NEW w \in Worker, CreatePhoneBindingChallenge(w)
      PROVE  IndInv'
  <2>0. PICK r \in Request : r = req[w]
    BY <1>0 DEF TypeOK
  <2>1. r.pc = "require.challenge" /\ Sound(r) /\ Copy(r)
    BY <2>0, <1>20, RequestParts DEF CreatePhoneBindingChallenge
  <2>2. r.user \in User /\ frozen[r.user] # "settled"
    BY <2>1 DEF Sound, Copy, CopyPC
  <2>3. /\ req' = [req EXCEPT ![w] = Idle] /\ challenges' = challenges \cup {<<r.user, "bind">>}
        /\ UNCHANGED <<users, sessions, required, day, floor, frozen, kept>>
    BY <2>0, <1>20 DEF CreatePhoneBindingChallenge, Challenge, Finish
  <2>4. Asked'
    BY <1>0, <2>2, <2>3 DEF Asked, IndInv, ChallengesOK, TypeOK, Kind
  <2>. QED BY <1>0, <2>3, <2>4, SessionsStay, IdleRequest, IdleSound, RequestStep
<1>21. ASSUME NEW w \in Worker, BindPhone(w)
      PROVE  IndInv'
  <2>0. PICK r \in Request : r = req[w]
    BY <1>0 DEF TypeOK
  <2>. DEFINE u == r.user
              row == [r.row EXCEPT !.st = "active"]
              n == [r EXCEPT !.pc = "post", !.row = row]
  <2>1. r \in Request /\ r.row \in Row /\ Sound(r) /\ Copy(r) /\ Spared(r) /\ r.pc = "bind"
    BY <2>0, <1>21, RequestParts DEF BindPhone
  <2>2. /\ u \in User /\ r.op \notin {"admin", "deletion", "phone", "factor"} /\ r.listed = {}
        /\ frozen[u] # "settled"
    BY <2>1 DEF Sound, Copy, CopyPC
  <2>3. row \in Row /\ row.st = "active" /\ row.ver = r.row.ver /\ row.del = r.row.del
    BY <2>1 DEF Row
  <2>4. /\ n \in Request /\ n.pc = "post" /\ n.op = r.op /\ n.user = u
        /\ n.row = row /\ n.listed = {}
    <3>. HIDE DEF row
    <3>. QED BY <2>1, <2>2, <2>3 DEF Request, PC
  <2>5. /\ req' = [req EXCEPT ![w] = n] /\ Ending /\ Asked'
        /\ UNCHANGED <<day, floor, frozen, kept>>
    <3>1. required' \subseteq User /\ UNCHANGED <<sessions, challenges, day, floor, frozen, kept>>
      BY <1>0, <2>0, <1>21 DEF BindPhone, TypeOK
    <3>2. req' = [req EXCEPT ![w] = n]
      BY <1>0, <2>0, <1>21 DEF BindPhone, TypeOK
    <3>. QED BY <1>0, <3>1, <3>2, SessionsStay, AskedStays
  <2>6. users' = users \/ users' = [users EXCEPT ![u] = row]
    BY <2>0, <1>21 DEF BindPhone, UpdateUser
  <2>. HIDE DEF n, row, u
  <2>7. Sound(n) /\ Spared(n)' /\ Spared(n)
    BY <2>2, <2>4 DEF Sound, Spared
  <2>8. RowOK(u, row)' /\ Copy(n)' /\ Copy(n)
    BY <2>1, <2>2, <2>3, <2>4, <2>5 DEF RowOK, Copy, CopyPC, u
  <2>9. CASE users' = users
    BY <2>4, <2>5, <2>7, <2>8, <2>9, RequestStep
  <2>10. CASE users' = [users EXCEPT ![u] = row]
    <3>1. /\ req' \in [Worker -> Request]
          /\ req'[w] = n /\ \A v \in Worker \ {w} : req'[v] = req[v]
      BY <1>0, <2>4, <2>5 DEF TypeOK
    <3>. QED BY <1>0, <2>2, <2>3, <2>5, <2>7, <2>8, <2>10, <3>1, RowStep DEF TypeOK
  <2>. QED BY <2>6, <2>9, <2>10
<1>22. CASE UNCHANGED vars
  BY <1>22 DEF vars, IndInv, TypeOK, RequestsOK, Sound, Copy, Spared, UsersOK, RowOK, SessionsOK, ChallengesOK
<1>. QED BY <1>1, <1>2, <1>3, <1>4, <1>5, <1>6, <1>7, <1>8, <1>9, <1>10, <1>11, <1>12, <1>13,
            <1>14, <1>15, <1>16, <1>17, <1>18, <1>19, <1>20, <1>21, <1>22 DEF Next, Step, Arrive

-----------------------------------------------------------------------------
\* In every reachable state each copy of a user row that a request carries, each row, each
\* session and each cleanup list agrees with the last settled event, freeze and
\* cancellation (GetUser ... UpdateUser in service/auth, service/user, service/admin).
THEOREM AccountsInvariant == Spec => []IndInv
BY InitIndInv, NextIndInv, PTL DEF Spec

\* Rows, sessions and requests keep their types.
THEOREM AccountsTypeCorrect == Spec => []TypeOK
<1>1. IndInv => TypeOK
  BY DEF IndInv
<1>. QED BY <1>1, AccountsInvariant, PTL

\* After a security event that nothing raced with, auth_version never falls behind it and
\* no session of an earlier sign-in is left (UpdateUserAndInvalidateAuth).
THEOREM EarlierAuthEnds == Spec => []SettledEventEndsAuth
<1>1. IndInv => SettledEventEndsAuth
  BY DEF IndInv, UsersOK, RowOK, SessionsOK, SettledEventEndsAuth
<1>. QED BY <1>1, AccountsInvariant, PTL

\* A freeze of an active account that nothing raced with lets nobody in until an
\* administrator changes the status again: it leaves no challenge, no session and no
\* copy of the row that a sign-in, a phone number or an enrollment could write back
\* (AdminService.UpdateUser, UpdateUserAndInvalidateAuth, CompletePhoneBinding).
THEOREM FreezeHolds == Spec => []SettledFreezeHolds
<1>1. IndInv => SettledFreezeHolds
  BY DEF IndInv, UsersOK, RowOK, SessionsOK, SettledFreezeHolds, Accepted
<1>. QED BY <1>1, AccountsInvariant, PTL

\* An account whose deletion was cancelled in time, with nothing racing, is not deleted
\* (cancelUserDeletion, CleanupExpiredDeletionRequests).
THEOREM CancellationHolds == Spec => []SettledCancellationHolds
<1>1. IndInv => SettledCancellationHolds
  BY DEF IndInv, UsersOK, RowOK, SettledCancellationHolds, Exists
<1>. QED BY <1>1, AccountsInvariant, PTL
=============================================================================
