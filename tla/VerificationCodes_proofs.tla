----------------------- MODULE VerificationCodes_proofs -----------------------
(***************************************************************************)
(* Theorems about VerificationCodes, for any set of purposes, codes and    *)
(* requests and any value of the limits.                                   *)
(*                                                                         *)
(* Neither limit is inductive as it stands.  The daily limit needs what    *)
(* the lock is for: a request between its second count and its insert is   *)
(* alone on its day, so the count it has read is still right.  The         *)
(* cooldown needs what a request remembers of the rows it has seen.        *)
(***************************************************************************)
EXTENDS VerificationCodes, FiniteSetTheorems, TLAPS

Guarded == {"count", "insert", "release"}

\* Who counts under the lock holds the lock of its day.
LockHeld == \A w \in Worker : req[w].pc \in Guarded => lock[DayOf(req[w].now)] = w

\* Who may insert still has room on its day.
RoomLeft == \A w \in Worker : req[w].pc = "insert" => CountOn(DayOf(req[w].now)) < Limit

\* A code a request has stored, or a row has been compared with, was stored.
Stored(S) == \A c \in S : rows[c].st # "absent"
Remembered ==
    /\ \A w \in Worker : /\ req[w].code # None => rows[req[w].code].st # "absent"
                         /\ req[w].pc = "send" => req[w].code # None
                         /\ req[w].seen # None => Stored(req[w].seen)
    /\ \A c \in Code : rows[c].seen # None => Stored(rows[c].seen)

\* A request past the cooldown is far enough from every row it has seen.
RequestSpaced ==
    \A w \in Worker : req[w].seen # None =>
        \A c \in Live \cap req[w].seen :
            rows[c].purpose = req[w].purpose => rows[c].at + Cooldown <= req[w].now

IndInv ==
    /\ TypeOK
    /\ IsFiniteSet(Live)
    /\ LockHeld
    /\ RoomLeft
    /\ Remembered
    /\ RequestSpaced
    /\ StoredWithinLimit
    /\ SpacedFromSeen

-----------------------------------------------------------------------------
(* The count of a day *)

CodesOn(d) == {c \in Live : DayOf(rows[c].at) = d}

LEMMA DayType == ASSUME NEW t \in Time PROVE DayOf(t) \in Day
BY DEF Day

\* What counts is finite, as long as the rows are.
LEMMA CountType ==
    ASSUME IsFiniteSet(Live), NEW d
    PROVE  IsFiniteSet(CodesOn(d)) /\ CountOn(d) \in Nat /\ CountOn(d) = Cardinality(CodesOn(d))
<1>1. CodesOn(d) \subseteq Live
  BY DEF CodesOn
<1>2. IsFiniteSet(CodesOn(d))
  BY <1>1, FS_Subset
<1>3. CountOn(d) = Cardinality(CodesOn(d))
  BY DEF CountOn, CodesOn
<1>. QED BY <1>2, <1>3, FS_CardinalityType

\* Rows that have gone are not counted any more.
LEMMA DeleteCount ==
    ASSUME TypeOK, IsFiniteSet(Live), NEW S, Delete(S), NEW d
    PROVE  CountOn(d)' <= CountOn(d) /\ CountOn(d)' \in Nat
<1>1. CodesOn(d)' \subseteq CodesOn(d)
  BY DEF TypeOK, CodeRow, Delete, CodesOn, Live
<1>2. IsFiniteSet(CodesOn(d)) /\ CountOn(d) = Cardinality(CodesOn(d))
  BY CountType
<1>3. Cardinality(CodesOn(d)') <= Cardinality(CodesOn(d)) /\ Cardinality(CodesOn(d)') \in Nat
  BY <1>1, <1>2, FS_Subset, FS_CardinalityType
<1>4. CountOn(d)' = Cardinality(CodesOn(d)')
  BY DEF CountOn, CodesOn
<1>. QED BY <1>2, <1>3, <1>4

-----------------------------------------------------------------------------
(* What a statement can do *)

\* A row is deleted: nothing that is compared with it is disturbed.
LEMMA DeleteIndInv ==
    ASSUME IndInv, NEW S, Delete(S), UNCHANGED <<lock, clock, req, sent>>
    PROVE  IndInv'
<1>0. /\ TypeOK /\ IsFiniteSet(Live) /\ LockHeld /\ RoomLeft /\ Remembered /\ RequestSpaced
      /\ StoredWithinLimit /\ SpacedFromSeen
  BY DEF IndInv
<1>1. \A c \in Code : /\ rows'[c] \in CodeRow
                      /\ rows'[c].purpose = rows[c].purpose /\ rows'[c].at = rows[c].at
                      /\ rows'[c].seen = rows[c].seen
                      /\ rows'[c].st = "live" => rows[c].st = "live"
                      /\ rows[c].st # "absent" => rows'[c].st # "absent"
  BY <1>0 DEF Delete, TypeOK, CodeRow
<1>2. TypeOK'
  <2>1. rows' \in [Code -> CodeRow]
    BY <1>1 DEF Delete
  <2>2. \A c \in sent : c \in Code /\ rows'[c].st # "absent"
    BY <1>0, <1>1 DEF TypeOK
  <2>. QED BY <1>0, <2>1, <2>2 DEF TypeOK
<1>3. Live' \subseteq Live
  BY <1>1 DEF Live
<1>4. IsFiniteSet(Live')
  BY <1>0, <1>3, FS_Subset
<1>5. LockHeld'
  BY <1>0 DEF LockHeld
<1>6. RoomLeft'
  <2>. SUFFICES ASSUME NEW w \in Worker, req[w].pc = "insert" PROVE (CountOn(DayOf(req[w].now)) < Limit)'
    BY DEF RoomLeft
  <2>. DEFINE d == DayOf(req[w].now)
  <2>1. CountOn(d) < Limit /\ CountOn(d) \in Nat
    BY <1>0, CountType DEF RoomLeft
  <2>2. CountOn(d)' <= CountOn(d) /\ CountOn(d)' \in Nat
    BY <1>0, DeleteCount
  <2>3. d' = d
    OBVIOUS
  <2>. HIDE DEF d
  <2>4. CountOn(d)' < Limit
    BY <2>1, <2>2, LimitAssumption
  <2>. QED BY <2>4 DEF d
<1>7. Remembered'
  BY <1>0, <1>1 DEF Remembered, Stored, TypeOK, Request, CodeRow
<1>8. RequestSpaced'
  BY <1>0, <1>1, <1>3 DEF RequestSpaced, Live
<1>9. StoredWithinLimit'
  <2>. SUFFICES ASSUME NEW d \in Day PROVE CountOn(d)' <= Limit
    BY DEF StoredWithinLimit
  <2>1. CountOn(d) <= Limit /\ CountOn(d) \in Nat
    BY <1>0, CountType DEF StoredWithinLimit
  <2>2. CountOn(d)' <= CountOn(d) /\ CountOn(d)' \in Nat
    BY <1>0, DeleteCount
  <2>. QED BY <2>1, <2>2, LimitAssumption
<1>10. SpacedFromSeen'
  BY <1>0, <1>1 DEF SpacedFromSeen
<1>. QED BY <1>2, <1>4, <1>5, <1>6, <1>7, <1>8, <1>9, <1>10 DEF IndInv

\* A request takes a step that leaves the rows alone.
LEMMA RequestIndInv ==
    ASSUME IndInv, NEW w \in Worker, NEW r \in Request,
           req' = [req EXCEPT ![w] = r],
           UNCHANGED <<rows, clock>>,
           lock' \in [Day -> Worker \cup {None}],
           sent' = sent \/ \E c \in Code : sent' = sent \cup {c} /\ rows[c].st # "absent",
           LockHeld',
           r.pc = "insert" => CountOn(DayOf(r.now)) < Limit,
           r.code # None => rows[r.code].st # "absent",
           r.pc = "send" => r.code # None,
           r.seen # None =>
              /\ Stored(r.seen)
              /\ \A c \in Live \cap r.seen : rows[c].purpose = r.purpose => rows[c].at + Cooldown <= r.now
    PROVE  IndInv'
<1>0. /\ TypeOK /\ IsFiniteSet(Live) /\ LockHeld /\ RoomLeft /\ Remembered /\ RequestSpaced
      /\ StoredWithinLimit /\ SpacedFromSeen
  BY DEF IndInv
<1>1. Live' = Live /\ \A d : CountOn(d)' = CountOn(d)
  BY DEF Live, CountOn
<1>2. \A v \in Worker : v # w => req'[v] = req[v]
  BY <1>0 DEF TypeOK
<1>3. req'[w] = r
  BY <1>0 DEF TypeOK
<1>4. TypeOK'
  BY <1>0 DEF TypeOK
<1>5. RoomLeft'
  <2>. SUFFICES ASSUME NEW v \in Worker, req'[v].pc = "insert" PROVE CountOn(DayOf(req'[v].now)) < Limit
    BY <1>1 DEF RoomLeft, CountOn, Live, DayOf
  <2>. QED BY <1>0, <1>2, <1>3 DEF RoomLeft
<1>6. Remembered'
  <2>1. ASSUME NEW v \in Worker
        PROVE  /\ req'[v].code # None => rows[req'[v].code].st # "absent"
               /\ req'[v].pc = "send" => req'[v].code # None
               /\ req'[v].seen # None => Stored(req'[v].seen)
    BY <1>0, <1>2, <1>3 DEF Remembered
  <2>. QED BY <1>0, <2>1 DEF Remembered, Stored
<1>7. RequestSpaced'
  <2>1. ASSUME NEW v \in Worker, req'[v].seen # None, NEW c \in Live \cap req'[v].seen,
               rows[c].purpose = req'[v].purpose
        PROVE  rows[c].at + Cooldown <= req'[v].now
    BY <1>0, <1>2, <1>3, <2>1 DEF RequestSpaced
  <2>. QED BY <1>1, <2>1 DEF RequestSpaced
<1>8. StoredWithinLimit' /\ SpacedFromSeen'
  BY <1>0, <1>1 DEF StoredWithinLimit, SpacedFromSeen
<1>. QED BY <1>0, <1>1, <1>4, <1>5, <1>6, <1>7, <1>8 DEF IndInv

\* A request that returns, and lets go of its lock or never had it.
LEMMA FinishIndInv ==
    ASSUME IndInv, NEW w \in Worker, Finish(w), UNCHANGED <<rows, clock>>,
           \/ lock' = lock
           \/ lock' = [d \in Day |-> IF lock[d] = w THEN None ELSE lock[d]],
           sent' = sent \/ \E c \in Code : sent' = sent \cup {c} /\ rows[c].st # "absent"
    PROVE  IndInv'
<1>1. /\ Idle \in Request /\ Idle.pc = "idle" /\ Idle.code = None /\ Idle.seen = None
  BY MaxTimeAssumption DEF Idle, Request, PC, Time
<1>2. req' = [req EXCEPT ![w] = Idle]
  BY DEF Finish
<1>3. lock' \in [Day -> Worker \cup {None}]
  BY DEF IndInv, TypeOK
<1>4. LockHeld'
  BY <1>1, <1>2, DayType DEF IndInv, TypeOK, LockHeld, Guarded, Request
<1>. QED BY <1>1, <1>2, <1>3, <1>4, RequestIndInv

-----------------------------------------------------------------------------
LEMMA InitIndInv == Init => IndInv
<1>. SUFFICES ASSUME Init PROVE IndInv
  OBVIOUS
<1>1. TypeOK
  BY MaxTimeAssumption DEF Init, TypeOK, CodeRow, Request, PC, Idle, Time
<1>2. Live = {} /\ IsFiniteSet(Live)
  BY FS_EmptySet DEF Init, Live
<1>3. StoredWithinLimit
  <2>. SUFFICES ASSUME NEW d \in Day PROVE CountOn(d) <= Limit
    BY DEF StoredWithinLimit
  <2>1. CodesOn(d) = {}
    BY <1>2 DEF CodesOn
  <2>. QED BY <1>2, <2>1, CountType, FS_EmptySet, LimitAssumption
<1>4. LockHeld /\ RoomLeft /\ Remembered /\ RequestSpaced /\ SpacedFromSeen
  BY DEF Init, LockHeld, Guarded, RoomLeft, Remembered, RequestSpaced, SpacedFromSeen, Idle
<1>. QED BY <1>1, <1>2, <1>3, <1>4 DEF IndInv

LEMMA NextIndInv == IndInv /\ [Next]_vars => IndInv'
<1>. SUFFICES ASSUME IndInv, [Next]_vars PROVE IndInv'
  OBVIOUS
<1>0. /\ TypeOK /\ IsFiniteSet(Live) /\ LockHeld /\ RoomLeft /\ Remembered /\ RequestSpaced
      /\ StoredWithinLimit /\ SpacedFromSeen
  BY DEF IndInv
<1>1. ASSUME NEW w \in Worker, NEW p \in Purpose, NEW enforce \in BOOLEAN,
             SendVerificationCode(w, p, enforce)
      PROVE  IndInv'
  <2>. DEFINE r == [Idle EXCEPT !.purpose = p, !.now = clock, !.enforce = enforce,
                                !.pc = IF enforce THEN "cooldown" ELSE "lock"]
  <2>1. /\ r \in Request /\ r.pc \in {"cooldown", "lock"} /\ r.code = None /\ r.seen = None
        /\ req' = [req EXCEPT ![w] = r] /\ UNCHANGED <<rows, lock, clock, sent>>
    BY <1>0, <1>1 DEF SendVerificationCode, Idle, Request, PC, TypeOK
  <2>. HIDE DEF r
  <2>2. LockHeld'
    BY <1>0, <2>1 DEF LockHeld, Guarded, TypeOK
  <2>. QED BY <1>0, <2>1, <2>2, RequestIndInv DEF TypeOK
<1>2. ASSUME NEW w \in Worker, CheckCooldown(w)
      PROVE  IndInv'
  <2>1. CASE /\ Cool(req[w].purpose, req[w].now)
             /\ req' = [req EXCEPT ![w].pc = "lock", ![w].seen = Live]
    <3>. DEFINE r == [req[w] EXCEPT !.pc = "lock", !.seen = Live]
    <3>1. /\ r \in Request /\ r.pc = "lock" /\ r.code = req[w].code /\ r.seen = Live
          /\ r.purpose = req[w].purpose /\ r.now = req[w].now
      BY <1>0 DEF TypeOK, Request, PC, Live
    <3>2. req' = [req EXCEPT ![w] = r] /\ UNCHANGED <<rows, lock, clock, sent>>
      BY <1>0, <1>2, <2>1 DEF CheckCooldown, TypeOK
    <3>. HIDE DEF r
    <3>3. LockHeld'
      BY <1>0, <3>1, <3>2 DEF LockHeld, Guarded, TypeOK
    <3>4. Stored(Live)
      BY DEF Stored, Live
    <3>5. \A c \in Live : rows[c].purpose = r.purpose => rows[c].at + Cooldown <= r.now
      BY <2>1, <3>1 DEF Cool
    <3>6. r.code # None => rows[r.code].st # "absent"
      BY <1>0, <3>1 DEF Remembered
    <3>. QED BY <1>0, <3>1, <3>2, <3>3, <3>4, <3>5, <3>6, RequestIndInv DEF TypeOK
  <2>2. CASE Finish(w)
    BY <1>2, <2>2, FinishIndInv DEF CheckCooldown
  <2>3. CASE Goto(w, "lock")
    <3>. DEFINE r == [req[w] EXCEPT !.pc = "lock"]
    <3>1. /\ r \in Request /\ r.pc = "lock" /\ r.code = req[w].code /\ r.seen = req[w].seen
          /\ r.purpose = req[w].purpose /\ r.now = req[w].now
      BY <1>0 DEF TypeOK, Request, PC
    <3>2. req' = [req EXCEPT ![w] = r] /\ UNCHANGED <<rows, lock, clock, sent>>
      BY <1>0, <1>2, <2>3 DEF CheckCooldown, Goto, TypeOK
    <3>. HIDE DEF r
    <3>3. LockHeld'
      BY <1>0, <3>1, <3>2 DEF LockHeld, Guarded, TypeOK
    <3>4. r.code # None => rows[r.code].st # "absent"
      BY <1>0, <3>1 DEF Remembered
    <3>5. r.seen # None =>
            /\ Stored(r.seen)
            /\ \A c \in Live \cap r.seen : rows[c].purpose = r.purpose => rows[c].at + Cooldown <= r.now
      BY <1>0, <3>1 DEF Remembered, RequestSpaced
    <3>. QED BY <1>0, <3>1, <3>2, <3>3, <3>4, <3>5, RequestIndInv DEF TypeOK
  <2>. QED BY <1>2, <2>1, <2>2, <2>3 DEF CheckCooldown
<1>3. ASSUME NEW w \in Worker, NEW pc \in PC, Goto(w, pc), UNCHANGED <<rows, clock, sent>>,
             lock' \in [Day -> Worker \cup {None}], LockHeld',
             pc = "insert" => CountOn(DayOf(req[w].now)) < Limit,
             pc = "send" => req[w].code # None
      PROVE  IndInv'
  <2>. DEFINE r == [req[w] EXCEPT !.pc = pc]
  <2>1. /\ r \in Request /\ r.pc = pc /\ r.code = req[w].code /\ r.seen = req[w].seen
        /\ r.purpose = req[w].purpose /\ r.now = req[w].now
    BY <1>0 DEF TypeOK, Request
  <2>2. req' = [req EXCEPT ![w] = r]
    BY <1>0, <1>3 DEF Goto, TypeOK
  <2>. HIDE DEF r
  <2>3. r.code # None => rows[r.code].st # "absent"
    BY <1>0, <2>1 DEF Remembered
  <2>4. r.seen # None =>
          /\ Stored(r.seen)
          /\ \A c \in Live \cap r.seen : rows[c].purpose = r.purpose => rows[c].at + Cooldown <= r.now
    BY <1>0, <2>1 DEF Remembered, RequestSpaced
  <2>. QED BY <1>3, <2>1, <2>2, <2>3, <2>4, RequestIndInv
\* GET_LOCK: the lock of the day was free, so nobody counts on that day.
<1>4. ASSUME NEW w \in Worker, AcquireMySQLLock(w)
      PROVE  IndInv'
  <2>. DEFINE d == DayOf(req[w].now)
  <2>1. d \in Day
    BY <1>0, DayType DEF TypeOK, Request
  <2>2. CASE lock[d] = None
    <3>1. lock' = [lock EXCEPT ![d] = w] /\ Goto(w, "count") /\ UNCHANGED <<rows, clock, sent>>
      BY <1>4, <2>2 DEF AcquireMySQLLock, LockName
    <3>2. LockHeld'
      <4>1. ASSUME NEW v \in Worker, v # w, req'[v].pc \in Guarded
            PROVE  lock'[DayOf(req'[v].now)] = v
        <5>1. req'[v] = req[v] /\ DayOf(req[v].now) \in Day
          BY <1>0, <3>1, <4>1, DayType DEF Goto, TypeOK, Request
        <5>2. lock[DayOf(req[v].now)] = v
          BY <1>0, <4>1, <5>1 DEF LockHeld
        <5>. HIDE DEF d
        <5>. QED BY <1>0, <2>1, <2>2, <3>1, <4>1, <5>1, <5>2, NoneAssumption DEF TypeOK
      <4>2. lock'[DayOf(req'[w].now)] = w
        <5>1. req'[w].now = req[w].now
          BY <1>0, <3>1 DEF Goto, TypeOK, Request
        <5>. QED BY <1>0, <2>1, <3>1, <5>1 DEF TypeOK
      <4>. QED BY <4>1, <4>2 DEF LockHeld
    <3>. QED BY <1>0, <1>3, <3>1, <3>2, <2>1 DEF TypeOK, PC
  <2>3. CASE lock[d] # None
    BY <1>4, <2>3, FinishIndInv DEF AcquireMySQLLock, LockName
  <2>. QED BY <2>2, <2>3
<1>5. ASSUME NEW w \in Worker, CountUnderLock(w)
      PROVE  IndInv'
  <2>. DEFINE pc == IF CountOn(DayOf(req[w].now)) < Limit THEN "insert" ELSE "release"
  <2>1. /\ req[w].pc = "count" /\ Goto(w, pc) /\ UNCHANGED <<rows, lock, clock, sent>>
        /\ pc \in {"insert", "release"} /\ pc \in PC
        /\ pc = "insert" => CountOn(DayOf(req[w].now)) < Limit
    BY <1>5 DEF CountUnderLock, PC
  <2>. HIDE DEF pc
  <2>2. LockHeld'
    BY <1>0, <2>1 DEF LockHeld, Guarded, Goto, TypeOK, Request
  <2>. QED BY <1>0, <1>3, <2>1, <2>2 DEF TypeOK
\* The insert: the count of its day is the one read under the lock, and the
\* other days keep theirs.
<1>6. ASSUME NEW w \in Worker, InsertVerificationCode(w)
      PROVE  IndInv'
  <2>. DEFINE q == req[w]
  <2>0. PICK d : d = DayOf(q.now)
    OBVIOUS
  <2>1. PICK c \in Code :
          /\ q.pc = "insert" /\ rows[c].st = "absent"
          /\ rows' = [rows EXCEPT ![c] = [st |-> "live", purpose |-> q.purpose, at |-> q.now,
                                          seen |-> q.seen]]
          /\ req' = [req EXCEPT ![w].pc = "release", ![w].code = c]
          /\ UNCHANGED <<lock, clock, sent>>
    BY <1>6 DEF InsertVerificationCode
  <2>. DEFINE n == [st |-> "live", purpose |-> q.purpose, at |-> q.now, seen |-> q.seen]
              r == [q EXCEPT !.pc = "release", !.code = c]
  <2>2. /\ q \in Request /\ n \in CodeRow
        /\ n.st = "live" /\ n.purpose = q.purpose /\ n.at = q.now /\ n.seen = q.seen
    BY <1>0 DEF TypeOK, Request, CodeRow
  <2>3. /\ r \in Request /\ r.pc = "release" /\ r.code = c /\ r.now = q.now /\ r.seen = q.seen
        /\ r.purpose = q.purpose
    <3>. HIDE DEF q
    <3>. QED BY <2>2 DEF Request, PC
  <2>4. req' = [req EXCEPT ![w] = r]
    BY <1>0, <2>1 DEF TypeOK
  <2>. HIDE DEF n, r
  <2>5. /\ \A v \in Worker : v # w => req'[v] = req[v]
        /\ req'[w] = r
    BY <1>0, <2>4 DEF TypeOK
  <2>6. /\ \A b \in Code : b # c => rows'[b] = rows[b]
        /\ rows'[c] = n /\ rows[c].st = "absent"
        /\ UNCHANGED <<lock, clock, sent>>
    BY <1>0, <2>1 DEF TypeOK, n
  <2>7. TypeOK'
    <3>1. rows' \in [Code -> CodeRow] /\ req' \in [Worker -> Request]
      BY <1>0, <2>1, <2>2, <2>3, <2>4 DEF TypeOK, n
    <3>2. \A b \in sent : b \in Code /\ rows'[b].st # "absent"
      BY <1>0, <2>2, <2>6 DEF TypeOK
    <3>. QED BY <1>0, <2>6, <3>1, <3>2 DEF TypeOK
  <2>8. Live' = Live \cup {c} /\ c \notin Live /\ Live \subseteq Code
    BY <2>2, <2>6 DEF Live
  <2>9. IsFiniteSet(Live')
    BY <1>0, <2>8, FS_AddElement
  <2>10. LockHeld'
    <3>1. lock[DayOf(r.now)] = w
      BY <1>0, <2>1, <2>3 DEF LockHeld, Guarded
    <3>2. ASSUME NEW v \in Worker, v # w, req'[v].pc \in Guarded
          PROVE  lock[DayOf(req'[v].now)] = v
      BY <1>0, <2>5, <3>2 DEF LockHeld
    <3>. QED BY <2>5, <2>6, <3>1, <3>2 DEF LockHeld
  <2>11. d \in Day /\ CountOn(d) < Limit /\ lock[d] = w
    BY <1>0, <2>0, <2>1, <2>2, DayType DEF RoomLeft, LockHeld, Guarded, Request
  <2>12. ASSUME NEW e \in Day
         PROVE  CountOn(e)' = IF e = d THEN CountOn(e) + 1 ELSE CountOn(e)
    <3>1. IsFiniteSet(CodesOn(e)) /\ CountOn(e) = Cardinality(CodesOn(e))
      BY <1>0, CountType
    <3>2. CASE e = d
      <4>1. CodesOn(e)' = CodesOn(e) \cup {c} /\ c \notin CodesOn(e)
        BY <2>0, <2>2, <2>6, <2>8, <3>2 DEF CodesOn
      <4>2. Cardinality(CodesOn(e) \cup {c}) = Cardinality(CodesOn(e)) + 1
        BY <3>1, <4>1, FS_AddElement
      <4>. QED BY <3>1, <3>2, <4>1, <4>2 DEF CountOn, CodesOn
    <3>3. CASE e # d
      <4>1. CodesOn(e)' = CodesOn(e)
        BY <2>0, <2>2, <2>6, <2>8, <3>3 DEF CodesOn
      <4>. QED BY <3>1, <3>3, <4>1 DEF CountOn, CodesOn
    <3>. QED BY <3>2, <3>3
  <2>13. RoomLeft'
    <3>. SUFFICES ASSUME NEW v \in Worker, req'[v].pc = "insert"
                  PROVE  (CountOn(DayOf(req[v].now)) < Limit)'
      BY DEF RoomLeft
    <3>1. v # w /\ req'[v] = req[v]
      BY <2>3, <2>5
    <3>2. PICK e : e = DayOf(req[v].now)
      OBVIOUS
    <3>3. e \in Day /\ CountOn(e) < Limit /\ lock[e] = v
      BY <1>0, <3>1, <3>2, DayType DEF RoomLeft, LockHeld, Guarded, TypeOK, Request
    <3>4. e # d
      BY <2>11, <3>1, <3>3
    <3>5. CountOn(e)' < Limit
      BY <2>12, <3>3, <3>4
    <3>6. e = DayOf(req'[v].now)
      BY <3>1, <3>2
    <3>. QED BY <3>5, <3>6
  <2>14. StoredWithinLimit'
    <3>. SUFFICES ASSUME NEW e \in Day PROVE CountOn(e)' <= Limit
      BY DEF StoredWithinLimit
    <3>1. CountOn(e) <= Limit /\ CountOn(e) \in Nat
      BY <1>0, CountType DEF StoredWithinLimit
    <3>. QED BY <2>11, <2>12, <3>1, LimitAssumption
  <2>15. Remembered'
    <3>1. ASSUME NEW v \in Worker
          PROVE  /\ req'[v].code # None => rows'[req'[v].code].st # "absent"
                 /\ req'[v].pc = "send" => req'[v].code # None
                 /\ req'[v].seen # None => Stored(req'[v].seen)
      <4>1. CASE v = w
        BY <1>0, <2>2, <2>3, <2>5, <2>6, <4>1 DEF Remembered
      <4>2. CASE v # w
        BY <1>0, <2>2, <2>5, <2>6, <4>2 DEF Remembered, TypeOK, Request
      <4>. QED BY <4>1, <4>2
    <3>2. ASSUME NEW b \in Code, rows'[b].seen # None
          PROVE  Stored(rows'[b].seen)
      BY <1>0, <2>2, <2>6, <3>2 DEF Remembered
    <3>3. ASSUME NEW S, S \subseteq Code, Stored(S)
          PROVE  \A b \in S : rows'[b].st # "absent"
      BY <2>2, <2>6, <3>3 DEF Stored
    <3>4. \A v \in Worker : req'[v].seen # None => req'[v].seen \subseteq Code
      BY <2>7 DEF TypeOK, Request
    <3>5. \A b \in Code : rows'[b].seen # None => rows'[b].seen \subseteq Code
      BY <2>7 DEF TypeOK, CodeRow
    <3>. QED BY <3>1, <3>2, <3>3, <3>4, <3>5 DEF Remembered, Stored
  <2>16. RequestSpaced'
    <3>. SUFFICES ASSUME NEW v \in Worker, req'[v].seen # None, NEW b \in Live' \cap req'[v].seen,
                         rows'[b].purpose = req'[v].purpose
                  PROVE  rows'[b].at + Cooldown <= req'[v].now
      BY DEF RequestSpaced
    <3>1. /\ req'[v].seen = req[v].seen /\ req'[v].purpose = req[v].purpose
          /\ req'[v].now = req[v].now
      BY <2>3, <2>5
    <3>2. b # c /\ b \in Live /\ rows'[b] = rows[b]
      <4>1. Stored(req[v].seen)
        BY <1>0, <3>1 DEF Remembered
      <4>2. b # c
        BY <2>6, <3>1, <4>1 DEF Stored
      <4>. QED BY <2>6, <2>8, <4>2 DEF Live
    <3>. QED BY <1>0, <3>1, <3>2 DEF RequestSpaced
  <2>17. SpacedFromSeen'
    <3>. SUFFICES ASSUME NEW a \in Code, NEW b \in Code,
                         rows'[a].st = "live", rows'[b].st = "live", rows'[b].seen # None,
                         rows'[a].purpose = rows'[b].purpose, a \in rows'[b].seen
                  PROVE  rows'[a].at + Cooldown <= rows'[b].at
      BY DEF SpacedFromSeen
    <3>1. CASE b = c
      <4>1. a \in q.seen /\ q.seen # None /\ Stored(q.seen)
        BY <1>0, <2>2, <2>6, <3>1 DEF Remembered
      <4>2. a # c /\ rows'[a] = rows[a] /\ a \in Live
        BY <2>6, <4>1 DEF Stored, Live
      <4>. QED BY <1>0, <2>2, <2>6, <3>1, <4>1, <4>2 DEF RequestSpaced
    <3>2. CASE b # c
      <4>1. rows'[b] = rows[b] /\ Stored(rows[b].seen)
        BY <1>0, <2>6, <3>2 DEF Remembered
      <4>2. a # c /\ rows'[a] = rows[a]
        BY <2>6, <4>1 DEF Stored
      <4>. QED BY <1>0, <4>1, <4>2 DEF SpacedFromSeen
    <3>. QED BY <3>1, <3>2
  <2>. QED BY <2>7, <2>9, <2>10, <2>13, <2>14, <2>15, <2>16, <2>17 DEF IndInv
<1>7. ASSUME NEW w \in Worker, ReleaseMySQLLock(w)
      PROVE  IndInv'
  <2>1. /\ req[w].pc = "release" /\ UNCHANGED <<rows, clock, sent>>
        /\ lock' = [d \in Day |-> IF lock[d] = w THEN None ELSE lock[d]]
    BY <1>7 DEF ReleaseMySQLLock
  <2>2. CASE req[w].code = None
    BY <1>7, <2>1, <2>2, FinishIndInv DEF ReleaseMySQLLock
  <2>3. CASE req[w].code # None
    <3>1. Goto(w, "send")
      BY <1>7, <2>3 DEF ReleaseMySQLLock
    <3>2. LockHeld'
      <4>1. req'[w].pc = "send" /\ \A v \in Worker : v # w => req'[v] = req[v]
        BY <1>0, <3>1 DEF Goto, TypeOK, Request
      <4>2. ASSUME NEW v \in Worker, req'[v].pc \in Guarded
            PROVE  lock'[DayOf(req'[v].now)] = v
        <5>1. v # w /\ req'[v] = req[v]
          BY <4>1, <4>2 DEF Guarded
        <5>2. lock[DayOf(req[v].now)] = v /\ DayOf(req[v].now) \in Day
          BY <1>0, <4>2, <5>1, DayType DEF LockHeld, TypeOK, Request
        <5>. QED BY <2>1, <5>1, <5>2
      <4>. QED BY <4>2 DEF LockHeld
    <3>3. lock' \in [Day -> Worker \cup {None}]
      BY <1>0, <2>1 DEF TypeOK
    <3>. QED BY <1>3, <2>1, <2>3, <3>1, <3>2, <3>3 DEF PC
  <2>. QED BY <2>2, <2>3
<1>8. ASSUME NEW w \in Worker, Send(w)
      PROVE  IndInv'
  <2>1. /\ req[w].code \in Code /\ rows[req[w].code].st # "absent"
    BY <1>0, <1>8 DEF Send, Remembered, TypeOK, Request
  <2>2. /\ Finish(w) /\ UNCHANGED <<rows, lock, clock>>
        /\ sent' = sent \/ sent' = sent \cup {req[w].code}
    BY <1>8 DEF Send
  <2>3. sent' = sent \/ \E c \in Code : sent' = sent \cup {c} /\ rows[c].st # "absent"
    BY <2>1, <2>2
  <2>. QED BY <2>2, <2>3, FinishIndInv
<1>9. ASSUME NEW w \in Worker, Abort(w)
      PROVE  IndInv'
  BY <1>9, FinishIndInv DEF Abort
<1>10. CASE Tick
  <2>1. TypeOK'
    BY <1>0, <1>10, MaxTimeAssumption DEF Tick, TypeOK, Time
  <2>2. UNCHANGED <<rows, lock, req, sent>>
    BY <1>10 DEF Tick
  <2>. QED BY <1>0, <2>1, <2>2 DEF IndInv, LockHeld, RoomLeft, CountOn, Remembered, Stored, RequestSpaced,
                                   Live, StoredWithinLimit, SpacedFromSeen
<1>11. CASE CleanupRuntimeData
  BY <1>11, DeleteIndInv DEF CleanupRuntimeData
<1>12. CASE InvalidateAuth
  BY <1>12, DeleteIndInv DEF InvalidateAuth
<1>13. CASE UNCHANGED vars
  BY <1>0, <1>13 DEF vars, IndInv, TypeOK, LockHeld, RoomLeft, CountOn, Remembered, Stored, RequestSpaced,
                     Live, StoredWithinLimit, SpacedFromSeen
<1>. QED BY <1>1, <1>2, <1>4, <1>5, <1>6, <1>7, <1>8, <1>9, <1>10, <1>11, <1>12, <1>13 DEF Next, Step

-----------------------------------------------------------------------------
(* Theorems *)

\* The strengthening holds in every reachable state, for any number of requests
\* and codes and any value of the limits.
THEOREM CodesInvariant == Spec => []IndInv
<1>. QED BY InitIndInv, NextIndInv, PTL DEF Spec

\* Rows, locks and requests keep their shape, and what was sent had been stored.
THEOREM CodesTypeCorrect == Spec => []TypeOK
<1>1. IndInv => TypeOK
  BY DEF IndInv
<1>. QED BY <1>1, CodesInvariant, PTL

\* saveVerificationCodeWithinDailyLimit: however many requests pass the first
\* count together, the table never holds more codes of a day than the limit.
THEOREM DailyLimitHolds == Spec => []StoredWithinLimit
<1>1. IndInv => StoredWithinLimit
  BY DEF IndInv
<1>. QED BY <1>1, CodesInvariant, PTL

\* The cooldown: a request that enforces it, and whose read of the latest code does
\* not fail, keeps its distance from every code of its purpose that was there when it
\* looked; codes nearer to each other have not seen each other.
THEOREM CooldownKept == Spec => []SpacedFromSeen
<1>1. IndInv => SpacedFromSeen
  BY DEF IndInv
<1>. QED BY <1>1, CodesInvariant, PTL
=============================================================================
