-------------------------- MODULE VerificationCodes --------------------------
(***************************************************************************)
(* Sending verification codes: sendEmailVerificationCode and               *)
(* sendSMSVerificationCode (service/auth, and their twin in service/user)  *)
(* over the table verification_codes.                                      *)
(*                                                                         *)
(* Two limits protect a mailbox or a phone: a cooldown between codes of    *)
(* one purpose and a number of codes per day.  Both are computed from the  *)
(* rows of the table.  The cooldown is a read before the insert; the count *)
(* is repeated under a named lock (MySQL GET_LOCK) held until the insert.  *)
(* Targets share nothing, so one is modelled.                              *)
(***************************************************************************)
EXTENDS Naturals, FiniteSets

CONSTANTS
    Purpose,    \* purposes a code can be for
    Code,       \* ids of code rows (uuids, used once)
    Worker,     \* concurrent requests
    None,       \* nobody, nothing
    Limit,      \* codes per day (0 would switch the limit off)
    Cooldown,   \* time between two codes of one purpose (0 would switch it off)
    TTL,        \* time a code can be used
    DayLength,  \* time units of one day
    MaxTime,    \* bound on the clock
    Ops         \* the operations this instance runs

Operations == {"public", "cleanup", "security", "fail"}

ASSUME NoneAssumption == None \notin Purpose \cup Code \cup Worker
ASSUME LimitAssumption == Limit \in Nat \ {0}
ASSUME CooldownAssumption == Cooldown \in Nat \ {0}
ASSUME TTLAssumption == TTL \in Nat \ {0}
ASSUME DayLengthAssumption == DayLength \in Nat \ {0}
ASSUME MaxTimeAssumption == MaxTime \in Nat
ASSUME OpsAssumption == Ops \subseteq Operations

VARIABLES
    rows,   \* verification_codes of the target; a deleted row keeps its columns as history
    lock,   \* the daily-limit lock of each day: its holder
    clock,  \* the time
    req,    \* what each request is doing, with what it has read
    sent    \* codes the mail or SMS service has been handed

vars == <<rows, lock, clock, req, sent>>

Time == 0..MaxTime
\* ChinaDayRange
DayOf(t) == t \div DayLength
Day == {DayOf(t) : t \in Time}

\* seen is a history column: the rows there were when the latest of them was read,
\* or None when it was not asked for or the read failed.
CodeRow == [st: {"absent", "live", "deleted"}, purpose: Purpose \cup {None}, at: Time,
            seen: (SUBSET Code) \cup {None}]
PC == {"idle", "cooldown", "lock", "count", "insert", "release", "send"}
Request == [pc: PC, purpose: Purpose \cup {None}, now: Time, enforce: BOOLEAN,
            seen: (SUBSET Code) \cup {None}, code: Code \cup {None}]
Idle == [pc |-> "idle", purpose |-> None, now |-> 0, enforce |-> FALSE, seen |-> None,
         code |-> None]

TypeOK ==
    /\ rows \in [Code -> CodeRow]
    /\ lock \in [Day -> Worker \cup {None}]
    /\ clock \in Time
    /\ req \in [Worker -> Request]
    /\ sent \subseteq Code
    /\ \A c \in sent : rows[c].st # "absent"

Init ==
    /\ rows = [c \in Code |-> [st |-> "absent", purpose |-> None, at |-> 0, seen |-> None]]
    /\ lock = [d \in Day |-> None]
    /\ clock = 0
    /\ req = [w \in Worker |-> Idle]
    /\ sent = {}

-----------------------------------------------------------------------------
(* Reads of the store *)

Live == {c \in Code : rows[c].st = "live"}

\* COUNT(*) over the day: every purpose, consumed or not, as long as the row is there.
CountOn(d) == Cardinality({c \in Live : DayOf(rows[c].at) = d})

\* Mutant: the rows are ordered by created_at ascending, so the first one counts.
CoolAfterFirst(p, now) ==
    LET of == {c \in Live : rows[c].purpose = p} IN
    of = {} \/ \E c \in of : /\ \A d \in of : rows[c].at <= rows[d].at
                           /\ rows[c].at + Cooldown <= now

\* GetLatestEmailVerificationCode: the latest row of the purpose is old enough.
Cool(p, now) ==
    \A c \in Live : rows[c].purpose = p => rows[c].at + Cooldown <= now

-----------------------------------------------------------------------------
Goto(w, pc) == req' = [req EXCEPT ![w].pc = pc]
Finish(w) == req' = [req EXCEPT ![w] = Idle]

\* The first count, without the lock.  now is read once: the day, the lock name,
\* created_at and expires_at all follow from it.
SendVerificationCode(w, p, enforce) ==
    /\ req[w].pc = "idle"
    /\ enforce \/ "public" \in Ops
    /\ CountOn(DayOf(clock)) < Limit
    /\ req' = [req EXCEPT ![w] = [Idle EXCEPT !.purpose = p, !.now = clock, !.enforce = enforce,
                                              !.pc = IF enforce THEN "cooldown" ELSE "lock"]]
    /\ UNCHANGED <<rows, lock, clock, sent>>

\* A read of the latest code that fails is taken for there being none.
CheckCooldown(w) ==
    /\ req[w].pc = "cooldown"
    /\ \/ /\ Cool(req[w].purpose, req[w].now)
          /\ req' = [req EXCEPT ![w].pc = "lock", ![w].seen = Live]
       \/ ~Cool(req[w].purpose, req[w].now) /\ Finish(w)
       \/ "fail" \in Ops /\ Goto(w, "lock")
    /\ UNCHANGED <<rows, lock, clock, sent>>

-----------------------------------------------------------------------------
(* saveVerificationCodeWithinDailyLimit *)

\* Mutant: the lock is named after the day on which it is taken.
ClockDay(w) == DayOf(clock)

LockName(w) == DayOf(req[w].now)

AcquireMySQLLock(w) ==
    LET d == LockName(w) IN
    /\ req[w].pc = "lock"
    /\ \/ lock[d] = None /\ lock' = [lock EXCEPT ![d] = w] /\ Goto(w, "count")
       \/ lock[d] # None /\ Finish(w) /\ UNCHANGED lock   \* GET_LOCK times out
    /\ UNCHANGED <<rows, clock, sent>>

CountUnderLock(w) ==
    /\ req[w].pc = "count"
    /\ Goto(w, IF CountOn(DayOf(req[w].now)) < Limit THEN "insert" ELSE "release")
    /\ UNCHANGED <<rows, lock, clock, sent>>

\* created_at is the time of the request, not of the insert.
InsertVerificationCode(w) ==
    LET r == req[w] IN
    /\ r.pc = "insert"
    /\ \E c \in Code :
         /\ rows[c].st = "absent"
         /\ rows' = [rows EXCEPT ![c] = [st |-> "live", purpose |-> r.purpose, at |-> r.now,
                                         seen |-> r.seen]]
         /\ req' = [req EXCEPT ![w].pc = "release", ![w].code = c]
    /\ UNCHANGED <<lock, clock, sent>>

\* Mutant: the answer that the limit was reached is ignored.
ReleaseIgnoringSaved(w) ==
    /\ req[w].pc = "release"
    /\ lock' = [d \in Day |-> IF lock[d] = w THEN None ELSE lock[d]]
    /\ Goto(w, "send")
    /\ UNCHANGED <<rows, clock, sent>>

ReleaseMySQLLock(w) ==
    /\ req[w].pc = "release"
    /\ lock' = [d \in Day |-> IF lock[d] = w THEN None ELSE lock[d]]
    /\ IF req[w].code = None THEN Finish(w) ELSE Goto(w, "send")
    /\ UNCHANGED <<rows, clock, sent>>

\* Mail.Send, SMS.Send: the row stays whether the message leaves or not.
Send(w) ==
    /\ req[w].pc = "send"
    /\ \/ sent' = sent \cup {req[w].code}
       \/ "fail" \in Ops /\ UNCHANGED sent
    /\ Finish(w)
    /\ UNCHANGED <<rows, lock, clock>>

\* A database error or the end of the process: the connection closes, and its
\* lock with it.
Abort(w) ==
    /\ "fail" \in Ops
    /\ req[w].pc # "idle"
    /\ lock' = [d \in Day |-> IF lock[d] = w THEN None ELSE lock[d]]
    /\ Finish(w)
    /\ UNCHANGED <<rows, clock, sent>>

-----------------------------------------------------------------------------
(* The clock and the statements of other parts *)

Tick ==
    /\ clock < MaxTime
    /\ clock' = clock + 1
    /\ UNCHANGED <<rows, lock, req, sent>>

Delete(S) == rows' = [c \in Code |-> IF c \in S THEN [rows[c] EXCEPT !.st = "deleted"] ELSE rows[c]]

\* Every minute: DELETE FROM verification_codes WHERE expires_at < now.
CleanupRuntimeData ==
    /\ "cleanup" \in Ops
    /\ Delete({c \in Live : rows[c].at + TTL < clock})
    /\ UNCHANGED <<lock, clock, req, sent>>

\* UpdateUserAndInvalidateAuth deletes every code of the user's targets.
InvalidateAuth ==
    /\ "security" \in Ops
    /\ Delete(Live)
    /\ UNCHANGED <<lock, clock, req, sent>>

-----------------------------------------------------------------------------
Step(w) ==
    \/ CheckCooldown(w)
    \/ AcquireMySQLLock(w) \/ CountUnderLock(w) \/ InsertVerificationCode(w) \/ ReleaseMySQLLock(w)
    \/ Send(w)

Next ==
    \/ \E w \in Worker : Step(w) \/ Abort(w)
    \/ \E w \in Worker, p \in Purpose, enforce \in BOOLEAN : SendVerificationCode(w, p, enforce)
    \/ Tick \/ CleanupRuntimeData \/ InvalidateAuth

Spec == Init /\ [][Next]_vars

-----------------------------------------------------------------------------
(* Properties *)

\* However many requests pass the first count together, and even when they wait
\* for the lock past midnight, the table never holds more codes of one day than
\* the limit: the count is repeated under the lock of that day.
StoredWithinLimit == \A d \in Day : CountOn(d) <= Limit

\* Two codes of one purpose that are nearer than the cooldown have not seen each
\* other: a request that enforces the cooldown and can read the latest code keeps
\* its distance from every code stored before it looked, whatever the order in
\* which requests were made, waited for the lock and stored.  Nearer are the codes
\* of requests that were on their way together, and those whose read failed, for
\* which the code skips the cooldown (seen = None).
SpacedFromSeen ==
    \A c, d \in Code :
        /\ rows[c].st = "live" /\ rows[d].st = "live"
        /\ rows[d].seen # None
        /\ rows[c].purpose = rows[d].purpose
        /\ c \in rows[d].seen
        => rows[c].at + Cooldown <= rows[d].at

\* The settings page: "Max Verification Codes Per Email Per Day".  The cleanup
\* deletes the rows of codes that have expired, and they are no longer counted.
SentWithinLimit ==
    \A d \in Day : Cardinality({c \in sent : DayOf(rows[c].at) = d}) <= Limit
=============================================================================
