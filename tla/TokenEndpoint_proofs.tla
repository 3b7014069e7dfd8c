----------------------- MODULE TokenEndpoint_proofs -----------------------
(***************************************************************************)
(* Proofs about the token endpoint, for every value of the constants.      *)
(*                                                                         *)
(* The argument.  Of all statements, four insert a row or spend one:       *)
(* SaveAuthorizationCode, ConsumeAuthorizationCode, SaveRefreshToken and   *)
(* RotateRefreshToken.  Every other step, whoever takes it, only retires   *)
(* rows (fresh to deleted, live to revoked or deleted) and starts no       *)
(* redemption.  So the token part of the invariant (TokenInv) is proved    *)
(* once for a retiring step and once for each of the four; what is left    *)
(* per action is that it is typed and that it is a retiring step.          *)
(***************************************************************************)
EXTENDS TokenEndpoint, TLAPS

TokenInv ==
    RowsOK /\ RedeemingOK /\ AtMostOneLiveToken /\ RedeemedOnce /\ RotationChain

\* The columns of a code row never change, its status only moves forward.
RetireCode(k) ==
    /\ codes'[k].user = codes[k].user
    /\ codes'[k].client = codes[k].client
    /\ codes'[k].scopes = codes[k].scopes
    /\ \/ codes'[k].st = codes[k].st
       \/ codes[k].st \in {"fresh", "used"} /\ codes'[k].st = "deleted"

RetireToken(t) ==
    /\ refresh'[t].user = refresh[t].user
    /\ refresh'[t].client = refresh[t].client
    /\ refresh'[t].scopes = refresh[t].scopes
    /\ refresh'[t].from = refresh[t].from
    /\ refresh'[t].next = refresh[t].next
    /\ refresh'[t].origin = refresh[t].origin
    /\ \/ refresh'[t].st = refresh[t].st
       \/ refresh[t].st = "live" /\ refresh'[t].st \in {"revoked", "deleted"}
       \/ refresh[t].st = "revoked" /\ refresh'[t].st = "deleted"

\* A worker that is redeeming a code after the step was redeeming it before,
\* with the same values.
NoRedemptionStarts ==
    \A w \in Worker, k \in Code : Redeeming(w, k)' =>
        /\ Redeeming(w, k)
        /\ req'[w].user = req[w].user
        /\ req'[w].client = req[w].client
        /\ req'[w].scopes = req[w].scopes

\* Consent rows are filled in when saved and empty otherwise.
ConsentRowsOK ==
    \A g \in Grant :
         IF Saved(consents[g])
         THEN consents[g].user \in User /\ consents[g].client \in Client
         ELSE consents[g].user = None /\ consents[g].client = None

Retire ==
    /\ \A k \in Code : RetireCode(k)
    /\ \A t \in Token : RetireToken(t)
    /\ NoRedemptionStarts

LEMMA RetireRows ==
    ASSUME RowsOK, \A k \in Code : RetireCode(k), \A t \in Token : RetireToken(t), ConsentRowsOK'
    PROVE  RowsOK'
<1>1. \A k \in Code : Saved(codes[k])' <=> Saved(codes[k])
  BY DEF RetireCode, Saved
<1>2. \A t \in Token : Saved(refresh[t])' <=> Saved(refresh[t])
  BY DEF RetireToken, Saved
<1>3. \A k \in Code : codes[k].st \in {"used", "deleted"} => codes'[k].st \in {"used", "deleted"}
  BY DEF RetireCode
<1>4. (\A k \in Code :
         IF Saved(codes[k])
         THEN codes[k].user \in User /\ codes[k].client \in Client /\ codes[k].scopes \in Scopes
         ELSE codes[k].user = None /\ codes[k].client = None)'
  BY <1>1 DEF RowsOK, RetireCode
<1>5. (\A t \in Token :
         IF Saved(refresh[t])
         THEN /\ refresh[t].user \in User /\ refresh[t].client \in Client
              /\ refresh[t].scopes \in Scopes
              /\ refresh[t].origin \in Code
              /\ codes[refresh[t].origin].st \in {"used", "deleted"}
         ELSE /\ refresh[t].user = None /\ refresh[t].client = None
              /\ refresh[t].from = None /\ refresh[t].next = None)'
  BY <1>2, <1>3 DEF RowsOK, RetireToken
<1>6. (\A t \in Token : refresh[t].st = "live" => refresh[t].next = None)'
  BY DEF RowsOK, RetireToken
<1>. QED BY <1>4, <1>5, <1>6 DEF RowsOK, ConsentRowsOK

LEMMA RetireTokenInv ==
    ASSUME TypeOK, TokenInv, Retire, ConsentRowsOK'
    PROVE  TokenInv'
<1>1. RowsOK'
  BY RetireRows DEF TokenInv, Retire
<1>2. \A t \in Token : Saved(refresh[t])' <=> Saved(refresh[t])
  BY DEF Retire, RetireToken, Saved
<1>3. RedeemingOK'
  <2>. SUFFICES ASSUME NEW k \in Code, NEW w \in Worker, Redeeming(w, k)'
                PROVE  /\ codes'[k].st \in {"used", "deleted"}
                       /\ req'[w].user = codes'[k].user
                       /\ req'[w].client = codes'[k].client
                       /\ req'[w].scopes = codes'[k].scopes
    BY DEF RedeemingOK
  <2>1. Redeeming(w, k) /\ req'[w].user = req[w].user /\ req'[w].client = req[w].client
          /\ req'[w].scopes = req[w].scopes
    BY DEF Retire, NoRedemptionStarts
  <2>. QED BY <2>1 DEF TokenInv, RedeemingOK, Retire, RetireCode
<1>4. AtMostOneLiveToken'
  BY DEF TokenInv, AtMostOneLiveToken, Retire, RetireToken
<1>5. RedeemedOnce'
  <2>1. \A k \in Code : (Family(k) = {})' <=> Family(k) = {}
    BY <1>2 DEF Family, Retire, RetireToken
  <2>2. \A w \in Worker, k \in Code : Redeeming(w, k)' => Redeeming(w, k)
    BY DEF Retire, NoRedemptionStarts
  <2>3. \A k \in Code : codes[k].st # "fresh" => codes'[k].st # "fresh"
    BY DEF Retire, RetireCode
  <2>4. (\A k \in Code, v, w \in Worker : Redeeming(v, k) /\ Redeeming(w, k) => v = w)'
    BY <2>2 DEF TokenInv, RedeemedOnce
  <2>5. (\A k \in Code, w \in Worker :
           Redeeming(w, k) => Family(k) = {} /\ codes[k].st # "fresh")'
    BY <2>1, <2>2, <2>3 DEF TokenInv, RedeemedOnce
  <2>6. (\A k \in Code : Family(k) # {} => codes[k].st # "fresh")'
    BY <2>1, <2>3 DEF TokenInv, RedeemedOnce
  <2>7. (\A s, t \in Token :
           /\ Saved(refresh[s]) /\ Saved(refresh[t])
           /\ refresh[s].from = None /\ refresh[t].from = None
           /\ refresh[s].origin = refresh[t].origin
           => s = t)'
    BY <1>2 DEF TokenInv, RedeemedOnce, Retire, RetireToken
  <2>. QED BY <2>4, <2>5, <2>6, <2>7 DEF RedeemedOnce
<1>6. RotationChain'
  <2>. SUFFICES ASSUME NEW t \in Token
                PROVE  /\ refresh'[t].from # None =>
                            /\ refresh'[refresh'[t].from].next = t
                            /\ refresh'[refresh'[t].from].st \in {"revoked", "deleted"}
                       /\ refresh'[t].next # None => refresh'[refresh'[t].next].from = t
                       /\ Saved(refresh[t])' =>
                            LET k == refresh'[t].origin IN
                            /\ k # None
                            /\ refresh'[t].user = codes'[k].user
                            /\ refresh'[t].client = codes'[k].client
                            /\ refresh'[t].scopes = codes'[k].scopes
    BY DEF RotationChain
  <2>1. refresh[t].from \in Token \cup {None} /\ refresh[t].next \in Token \cup {None}
    BY DEF TypeOK, TokenRow
  <2>2. RetireToken(t)
    BY DEF Retire
  <2>3. ASSUME refresh'[t].from # None
        PROVE  /\ refresh'[refresh'[t].from].next = t
               /\ refresh'[refresh'[t].from].st \in {"revoked", "deleted"}
    <3>1. refresh[t].from \in Token /\ refresh'[t].from = refresh[t].from
      BY <2>1, <2>2, <2>3 DEF RetireToken
    <3>2. RetireToken(refresh[t].from)
      BY <3>1 DEF Retire
    <3>3. refresh[refresh[t].from].next = t /\ refresh[refresh[t].from].st \in {"revoked", "deleted"}
      BY <3>1, <2>3 DEF TokenInv, RotationChain
    <3>. QED BY <3>1, <3>2, <3>3 DEF RetireToken
  <2>4. ASSUME refresh'[t].next # None
        PROVE  refresh'[refresh'[t].next].from = t
    <3>1. refresh[t].next \in Token /\ refresh'[t].next = refresh[t].next
      BY <2>1, <2>2, <2>4 DEF RetireToken
    <3>2. RetireToken(refresh[t].next)
      BY <3>1 DEF Retire
    <3>. QED BY <3>1, <3>2, <2>4 DEF TokenInv, RotationChain, RetireToken
  <2>5. ASSUME Saved(refresh[t])'
        PROVE  /\ refresh'[t].origin # None
               /\ refresh'[t].user = codes'[refresh'[t].origin].user
               /\ refresh'[t].client = codes'[refresh'[t].origin].client
               /\ refresh'[t].scopes = codes'[refresh'[t].origin].scopes
    <3>1. Saved(refresh[t]) /\ refresh[t].origin \in Code
      BY <1>2, <2>5 DEF TokenInv, RowsOK
    <3>2. RetireCode(refresh[t].origin)
      BY <3>1 DEF Retire
    <3>. QED BY <3>1, <3>2, <2>2 DEF TokenInv, RotationChain, RetireCode, RetireToken
  <2>. QED BY <2>3, <2>4, <2>5
<1>. QED BY <1>1, <1>3, <1>4, <1>5, <1>6 DEF TokenInv
-----------------------------------------------------------------------------
(* The four statements that insert or spend *)

LEMMA SaveCodeTokenInv ==
    ASSUME TypeOK, RequestOK, TokenInv, NEW w \in Worker, SaveAuthorizationCode(w)
    PROVE  TokenInv'
<1>. USE NoneAssumption
<1>0. PICK c \in Code :
        /\ codes[c].st = "absent"
        /\ \E row \in Insert([st |-> "fresh", user |-> req[w].user, client |-> req[w].client,
                              scopes |-> req[w].scopes, expired |-> FALSE], NoCode) :
             codes' = [codes EXCEPT ![c] = row]
  BY DEF SaveAuthorizationCode
<1>1. /\ req[w].pc = "authorize.code"
      /\ UNCHANGED <<refresh, consents>>
      /\ \/ req' = [req EXCEPT ![w] = Idle]
         \/ \E d \in Code : req' = [req EXCEPT ![w].pc = "authorize.grant", ![w].code = d]
  BY DEF SaveAuthorizationCode, Finish
<1>2. req[w].user \in User /\ req[w].client \in Client /\ req[w].scopes \in Scopes
  BY <1>1 DEF RequestOK, WellFormed
<1>3. /\ \A k \in Code \ {c} : codes'[k] = codes[k]
      /\ \/ /\ codes'[c].st = "fresh" /\ codes'[c].user = req[w].user
            /\ codes'[c].client = req[w].client /\ codes'[c].scopes = req[w].scopes
         \/ codes'[c].st = "lost" /\ codes'[c].user = None /\ codes'[c].client = None
  BY <1>0 DEF TypeOK, Insert, NoCode
<1>4. \A v \in Worker, k \in Code : Redeeming(v, k)' => Redeeming(v, k) /\ req'[v] = req[v]
  <2>1. \A v \in Worker \ {w} : req'[v] = req[v]
    BY <1>1 DEF TypeOK
  <2>2. req'[w].pc \in {"idle", "authorize.grant"}
    BY <1>1 DEF TypeOK, Request, Idle
  <2>. QED BY <2>1, <2>2 DEF Redeeming
<1>5. \A v \in Worker : ~Redeeming(v, c)
  BY <1>0 DEF TokenInv, RedeemingOK
<1>6. Family(c) = {}
  BY <1>0 DEF TokenInv, RowsOK, Family, Saved
<1>7. \A k \in Code : Family(k)' = Family(k)
  BY <1>1 DEF Family
<1>8. \A t \in Token : Saved(refresh[t]) => refresh[t].origin \in Code \ {c}
  BY <1>6 DEF TokenInv, RowsOK, Family
<1>9. RowsOK'
  <2>1. (\A k \in Code :
           IF Saved(codes[k])
           THEN codes[k].user \in User /\ codes[k].client \in Client /\ codes[k].scopes \in Scopes
           ELSE codes[k].user = None /\ codes[k].client = None)'
    BY <1>2, <1>3 DEF TokenInv, RowsOK, Saved
  <2>. QED BY <2>1, <1>1, <1>3, <1>8 DEF TokenInv, RowsOK
<1>10. RedeemingOK'
  BY <1>3, <1>4, <1>5 DEF TokenInv, RedeemingOK
<1>11. AtMostOneLiveToken'
  BY <1>1 DEF TokenInv, AtMostOneLiveToken
<1>12. RedeemedOnce'
  <2>1. (\A k \in Code, v, x \in Worker : Redeeming(v, k) /\ Redeeming(x, k) => v = x)'
    BY <1>4 DEF TokenInv, RedeemedOnce
  <2>2. (\A k \in Code, v \in Worker :
           Redeeming(v, k) => Family(k) = {} /\ codes[k].st # "fresh")'
    BY <1>3, <1>4, <1>5, <1>7 DEF TokenInv, RedeemedOnce
  <2>3. (\A k \in Code : Family(k) # {} => codes[k].st # "fresh")'
    BY <1>3, <1>6, <1>7 DEF TokenInv, RedeemedOnce
  <2>. QED BY <2>1, <2>2, <2>3, <1>1 DEF TokenInv, RedeemedOnce
<1>13. RotationChain'
  BY <1>1, <1>3, <1>8 DEF TokenInv, RotationChain
<1>. QED BY <1>9, <1>10, <1>11, <1>12, <1>13 DEF TokenInv

LEMMA ConsumeTokenInv ==
    ASSUME TypeOK, RequestOK, TokenInv, ConsentRowsOK', NEW w \in Worker,
           ConsumeAuthorizationCode(w),
           Redeemable(req[w].code, req[w].client, req[w].ok)
    PROVE  TokenInv'
<1>. DEFINE k == req[w].code
<1>1. /\ req[w].pc = "exchange.consume"
      /\ codes[k].st = "fresh"
      /\ codes' = [codes EXCEPT ![k].st = "used"]
      /\ req' = [req EXCEPT ![w].pc = "exchange.user", ![w].user = codes[k].user,
                            ![w].scopes = codes[k].scopes]
      /\ codes[k].client = req[w].client
      /\ UNCHANGED <<refresh, consents>>
  BY DEF ConsumeAuthorizationCode, Redeemable
<1>2. k \in Code
  BY <1>1 DEF RequestOK, WellFormed
<1>3. Family(k) = {} /\ \A v \in Worker : ~Redeeming(v, k)
  BY <1>1, <1>2 DEF TokenInv, RedeemedOnce
<1>4. /\ \A j \in Code : /\ codes'[j].user = codes[j].user
                         /\ codes'[j].client = codes[j].client
                         /\ codes'[j].scopes = codes[j].scopes
                         /\ j # k => codes'[j].st = codes[j].st
      /\ codes'[k].st = "used"
  BY <1>1, <1>2 DEF TypeOK, CodeRow
<1>5. \A v \in Worker, j \in Code : Redeeming(v, j)' =>
        \/ Redeeming(v, j) /\ req'[v] = req[v] /\ v # w /\ j # k
        \/ /\ v = w /\ j = k
           /\ req'[v].user = codes[k].user /\ req'[v].scopes = codes[k].scopes
           /\ req'[v].client = codes[k].client
  BY <1>1, <1>2, <1>3 DEF Redeeming, TypeOK, Request
<1>6. \A j \in Code : Family(j)' = Family(j)
  BY <1>1 DEF Family
<1>7. \A j \in Code : Saved(codes[j])' <=> Saved(codes[j])
  BY <1>1, <1>4 DEF Saved
<1>8. RowsOK'
  <2>1. \A j \in Code : codes[j].st \in {"used", "deleted"} => codes'[j].st \in {"used", "deleted"}
    BY <1>4
  <2>2. (\A j \in Code :
         IF Saved(codes[j])
         THEN codes[j].user \in User /\ codes[j].client \in Client /\ codes[j].scopes \in Scopes
         ELSE codes[j].user = None /\ codes[j].client = None)'
    BY <1>4, <1>7 DEF TokenInv, RowsOK
  <2>. QED BY <2>1, <2>2, <1>1 DEF TokenInv, RowsOK
<1>9. RedeemingOK'
  BY <1>4, <1>5 DEF TokenInv, RedeemingOK
<1>10. AtMostOneLiveToken'
  BY <1>1 DEF TokenInv, AtMostOneLiveToken
<1>11. RedeemedOnce'
  <2>1. (\A j \in Code, v, x \in Worker : Redeeming(v, j) /\ Redeeming(x, j) => v = x)'
    BY <1>5 DEF TokenInv, RedeemedOnce
  <2>2. (\A j \in Code, v \in Worker :
           Redeeming(v, j) => Family(j) = {} /\ codes[j].st # "fresh")'
    BY <1>3, <1>4, <1>5, <1>6 DEF TokenInv, RedeemedOnce
  <2>3. (\A j \in Code : Family(j) # {} => codes[j].st # "fresh")'
    BY <1>3, <1>4, <1>6 DEF TokenInv, RedeemedOnce
  <2>. QED BY <2>1, <2>2, <2>3, <1>1 DEF TokenInv, RedeemedOnce
<1>12. RotationChain'
  <2>1. \A t \in Token : Saved(refresh[t]) => refresh[t].origin \in Code
    BY DEF TokenInv, RowsOK
  <2>2. \A t \in Token : Saved(refresh[t])' <=> Saved(refresh[t])
    BY <1>1 DEF Saved
  <2>. QED BY <1>1, <1>4, <2>1, <2>2 DEF TokenInv, RotationChain
<1>. QED BY <1>8, <1>9, <1>10, <1>11, <1>12 DEF TokenInv

LEMMA SaveTokenTokenInv ==
    ASSUME TypeOK, RequestOK, TokenInv, NEW w \in Worker, SaveRefreshToken(w)
    PROVE  TokenInv'
<1>. USE NoneAssumption
<1>. DEFINE k == req[w].code
<1>0. PICK n \in Token :
        /\ refresh[n].st = "absent"
        /\ \E row \in Insert([st |-> "live", user |-> req[w].user,
                              client |-> req[w].client, scopes |-> req[w].scopes,
                              from |-> None, next |-> None, expired |-> FALSE,
                              origin |-> req[w].code], NoToken) :
             refresh' = [refresh EXCEPT ![n] = row]
  BY DEF SaveRefreshToken
<1>1. /\ req[w].pc = "exchange.save"
      /\ UNCHANGED <<codes, consents>>
      /\ req' = [req EXCEPT ![w] = Idle]
  BY DEF SaveRefreshToken, Finish
<1>2. k \in Code /\ req[w].user \in User /\ req[w].client \in Client /\ req[w].scopes \in Scopes
  BY <1>1 DEF RequestOK, WellFormed
<1>3. Redeeming(w, k)
  BY <1>1 DEF Redeeming
<1>4. /\ codes[k].st \in {"used", "deleted"}
      /\ req[w].user = codes[k].user
      /\ req[w].client = codes[k].client
      /\ req[w].scopes = codes[k].scopes
  BY <1>2, <1>3 DEF TokenInv, RedeemingOK
<1>5. Family(k) = {} /\ \A v \in Worker : Redeeming(v, k) => v = w
  BY <1>2, <1>3 DEF TokenInv, RedeemedOnce
<1>6. \A t \in Token : Saved(refresh[t]) => refresh[t].origin # k /\ t # n
  BY <1>0, <1>5 DEF Family, Saved
<1>7. /\ \A t \in Token \ {n} : refresh'[t] = refresh[t]
      /\ refresh'[n].from = None /\ refresh'[n].next = None
      /\ \/ /\ refresh'[n].st = "live" /\ refresh'[n].user = req[w].user
            /\ refresh'[n].client = req[w].client /\ refresh'[n].scopes = req[w].scopes
            /\ refresh'[n].origin = k
         \/ refresh'[n].st = "lost" /\ refresh'[n].user = None /\ refresh'[n].client = None
  BY <1>0 DEF TypeOK, Insert, NoToken
<1>8. \A v \in Worker, j \in Code : Redeeming(v, j)' =>
        Redeeming(v, j) /\ req'[v] = req[v] /\ j # k
  <2>1. \A v \in Worker \ {w} : req'[v] = req[v]
    BY <1>1 DEF TypeOK
  <2>2. req'[w].pc = "idle"
    BY <1>1 DEF TypeOK, Idle
  <2>. QED BY <2>1, <2>2, <1>5 DEF Redeeming
<1>9. \A j \in Code \ {k} : Family(j)' = Family(j)
  BY <1>0, <1>7 DEF Family, Saved
<1>10. RowsOK'
  <2>1. (\A t \in Token :
         IF Saved(refresh[t])
         THEN /\ refresh[t].user \in User /\ refresh[t].client \in Client
              /\ refresh[t].scopes \in Scopes
              /\ refresh[t].origin \in Code
              /\ codes[refresh[t].origin].st \in {"used", "deleted"}
         ELSE /\ refresh[t].user = None /\ refresh[t].client = None
              /\ refresh[t].from = None /\ refresh[t].next = None)'
    BY <1>1, <1>2, <1>4, <1>7 DEF TokenInv, RowsOK, Saved
  <2>2. (\A t \in Token : refresh[t].st = "live" => refresh[t].next = None)'
    BY <1>7 DEF TokenInv, RowsOK
  <2>. QED BY <2>1, <2>2, <1>1 DEF TokenInv, RowsOK
<1>11. RedeemingOK'
  BY <1>1, <1>8 DEF TokenInv, RedeemingOK
<1>12. AtMostOneLiveToken'
  BY <1>6, <1>7 DEF TokenInv, AtMostOneLiveToken, Saved
<1>13. RedeemedOnce'
  <2>1. (\A j \in Code, v, x \in Worker : Redeeming(v, j) /\ Redeeming(x, j) => v = x)'
    BY <1>8 DEF TokenInv, RedeemedOnce
  <2>2. (\A j \in Code, v \in Worker :
           Redeeming(v, j) => Family(j) = {} /\ codes[j].st # "fresh")'
    BY <1>1, <1>8, <1>9 DEF TokenInv, RedeemedOnce
  <2>3. (\A j \in Code : Family(j) # {} => codes[j].st # "fresh")'
    BY <1>1, <1>4, <1>9 DEF TokenInv, RedeemedOnce
  <2>4. (\A s, t \in Token :
           /\ Saved(refresh[s]) /\ Saved(refresh[t])
           /\ refresh[s].from = None /\ refresh[t].from = None
           /\ refresh[s].origin = refresh[t].origin
           => s = t)'
    BY <1>6, <1>7 DEF TokenInv, RedeemedOnce, Saved
  <2>. QED BY <2>1, <2>2, <2>3, <2>4 DEF RedeemedOnce
<1>14. RotationChain'
  <2>1. \A t \in Token : refresh[t].from # n /\ refresh[t].next # n
    BY <1>0 DEF TokenInv, RotationChain, RowsOK, Saved
  <2>2. \A t \in Token : /\ refresh[t].from \in Token \cup {None}
                         /\ refresh[t].next \in Token \cup {None}
    BY DEF TypeOK, TokenRow
  <2>. SUFFICES ASSUME NEW t \in Token
                PROVE  /\ refresh'[t].from # None =>
                            /\ refresh'[refresh'[t].from].next = t
                            /\ refresh'[refresh'[t].from].st \in {"revoked", "deleted"}
                       /\ refresh'[t].next # None => refresh'[refresh'[t].next].from = t
                       /\ Saved(refresh[t])' =>
                            LET j == refresh'[t].origin IN
                            /\ j # None
                            /\ refresh'[t].user = codes'[j].user
                            /\ refresh'[t].client = codes'[j].client
                            /\ refresh'[t].scopes = codes'[j].scopes
    BY DEF RotationChain
  <2>3. CASE t = n
    BY <2>3, <1>1, <1>2, <1>4, <1>7 DEF Saved
  <2>4. CASE t # n
    BY <2>1, <2>2, <2>4, <1>1, <1>7 DEF TokenInv, RotationChain, Saved
  <2>. QED BY <2>3, <2>4
<1>. QED BY <1>10, <1>11, <1>12, <1>13, <1>14 DEF TokenInv

LEMMA RotateTokenInv ==
    ASSUME TypeOK, RequestOK, TokenInv, NEW w \in Worker, RotateRefreshToken(w),
           Rotatable(req[w].token, req[w].client)
    PROVE  TokenInv'
<1>. USE NoneAssumption
<1>. DEFINE t == req[w].token
            k == refresh[t].origin
<1>1. /\ req[w].pc = "refresh.rotate"
      /\ refresh[t].st = "live"
      /\ UNCHANGED <<codes, consents>>
  BY DEF RotateRefreshToken, Rotatable, Replayed, Fail
<1>2. PICK n \in Token :
        /\ refresh[n].st = "absent"
        /\ Rotate(t, n)
        /\ req' = [req EXCEPT ![w].pc = "refresh.user", ![w].user = refresh[t].user,
                              ![w].scopes = refresh[t].scopes, ![w].token = n]
  BY <1>1 DEF RotateRefreshToken, Rotatable, Replayed
<1>3. t \in Token /\ t # n
  BY <1>1, <1>2 DEF RequestOK, WellFormed
<1>4. /\ \A s \in Token \ {t, n} : refresh'[s] = refresh[s]
      /\ refresh'[t].st = "revoked" /\ refresh'[t].next = n
      /\ refresh'[t].user = refresh[t].user /\ refresh'[t].client = refresh[t].client
      /\ refresh'[t].scopes = refresh[t].scopes /\ refresh'[t].from = refresh[t].from
      /\ refresh'[t].origin = refresh[t].origin
      /\ refresh'[n].st = "live" /\ refresh'[n].user = refresh[t].user
      /\ refresh'[n].client = refresh[t].client /\ refresh'[n].scopes = refresh[t].scopes
      /\ refresh'[n].from = t /\ refresh'[n].next = None
      /\ refresh'[n].origin = refresh[t].origin
  <2>1. refresh \in [Token -> TokenRow] /\ refresh[t] \in TokenRow
    BY <1>3 DEF TypeOK
  <2>. QED BY <1>2, <1>3, <2>1 DEF Rotate, TokenRow
<1>5. /\ Saved(refresh[t]) /\ k \in Code /\ codes[k].st \in {"used", "deleted"}
      /\ refresh[t].user \in User /\ refresh[t].client \in Client /\ refresh[t].scopes \in Scopes
      /\ refresh[t].next = None
  BY <1>1, <1>3 DEF TokenInv, RowsOK, Saved
<1>6. \A v \in Worker, j \in Code : Redeeming(v, j)' => Redeeming(v, j) /\ req'[v] = req[v] /\ j # k
  <2>1. \A v \in Worker \ {w} : req'[v] = req[v]
    BY <1>2 DEF TypeOK
  <2>2. req'[w].pc = "refresh.user"
    BY <1>2 DEF TypeOK, Request
  <2>3. Family(k) # {}
    BY <1>3, <1>5 DEF Family
  <2>4. \A v \in Worker : ~Redeeming(v, k)
    BY <2>3, <1>5 DEF TokenInv, RedeemedOnce
  <2>. QED BY <2>1, <2>2, <2>4 DEF Redeeming
<1>7. \A j \in Code \ {k} : Family(j)' = Family(j)
  BY <1>2, <1>3, <1>4 DEF Family, Saved
<1>8. \A s \in Token : refresh[s].from # n /\ refresh[s].next # n
  BY <1>2 DEF TokenInv, RotationChain, RowsOK, Saved
<1>9. RowsOK'
  <2>1. (\A s \in Token :
         IF Saved(refresh[s])
         THEN /\ refresh[s].user \in User /\ refresh[s].client \in Client
              /\ refresh[s].scopes \in Scopes
              /\ refresh[s].origin \in Code
              /\ codes[refresh[s].origin].st \in {"used", "deleted"}
         ELSE /\ refresh[s].user = None /\ refresh[s].client = None
              /\ refresh[s].from = None /\ refresh[s].next = None)'
    BY <1>1, <1>4, <1>5 DEF TokenInv, RowsOK, Saved
  <2>2. (\A s \in Token : refresh[s].st = "live" => refresh[s].next = None)'
    BY <1>4 DEF TokenInv, RowsOK
  <2>. QED BY <2>1, <2>2, <1>1 DEF TokenInv, RowsOK
<1>10. RedeemingOK'
  BY <1>1, <1>6 DEF TokenInv, RedeemingOK
<1>11. AtMostOneLiveToken'
  BY <1>1, <1>3, <1>4 DEF TokenInv, AtMostOneLiveToken
<1>12. RedeemedOnce'
  <2>1. (\A j \in Code, v, x \in Worker : Redeeming(v, j) /\ Redeeming(x, j) => v = x)'
    BY <1>6 DEF TokenInv, RedeemedOnce
  <2>2. (\A j \in Code, v \in Worker :
           Redeeming(v, j) => Family(j) = {} /\ codes[j].st # "fresh")'
    BY <1>1, <1>6, <1>7 DEF TokenInv, RedeemedOnce
  <2>3. (\A j \in Code : Family(j) # {} => codes[j].st # "fresh")'
    BY <1>1, <1>5, <1>7 DEF TokenInv, RedeemedOnce
  <2>4. (\A r, s \in Token :
           /\ Saved(refresh[r]) /\ Saved(refresh[s])
           /\ refresh[r].from = None /\ refresh[s].from = None
           /\ refresh[r].origin = refresh[s].origin
           => r = s)'
    BY <1>3, <1>4, <1>5 DEF TokenInv, RedeemedOnce, Saved
  <2>. QED BY <2>1, <2>2, <2>3, <2>4 DEF RedeemedOnce
<1>13. RotationChain'
  <2>1. \A s \in Token : /\ refresh[s].from \in Token \cup {None}
                         /\ refresh[s].next \in Token \cup {None}
    BY DEF TypeOK, TokenRow
  <2>2. \A s \in Token : refresh[s].from # t
    BY <1>1, <1>3, <2>1 DEF TokenInv, RotationChain
  <2>3. \A s \in Token \ {n} :
           /\ refresh'[s].from # None =>
                /\ refresh'[refresh'[s].from].next = s
                /\ refresh'[refresh'[s].from].st \in {"revoked", "deleted"}
           /\ s # t /\ refresh'[s].next # None => refresh'[refresh'[s].next].from = s
    BY <1>3, <1>4, <1>8, <2>1, <2>2 DEF TokenInv, RotationChain
  <2>4. \A s \in Token : Saved(refresh[s])' =>
           /\ refresh'[s].origin # None
           /\ refresh'[s].user = codes'[refresh'[s].origin].user
           /\ refresh'[s].client = codes'[refresh'[s].origin].client
           /\ refresh'[s].scopes = codes'[refresh'[s].origin].scopes
    BY <1>1, <1>3, <1>4, <1>5 DEF TokenInv, RotationChain, Saved
  <2>. QED BY <2>3, <2>4, <1>3, <1>4 DEF RotationChain
<1>. QED BY <1>9, <1>10, <1>11, <1>12, <1>13 DEF TokenInv

-----------------------------------------------------------------------------
(* Typing: the parts every step shares *)

\* Only worker w moves.
OnlyWorker(w) == \A v \in Worker \ {w} : req'[v] = req[v]

LEMMA RequestStep ==
    ASSUME TypeOK, RequestOK, NEW w \in Worker, NEW r,
           req' = [req EXCEPT ![w] = r], r \in Request, WellFormed(req[w])',
           \A t \in Token : Saved(refresh[t]) => Saved(refresh[t])'
    PROVE  req' \in [Worker -> Request] /\ RequestOK'
<1>1. req' \in [Worker -> Request] /\ req'[w] = r /\ OnlyWorker(w)
  BY DEF TypeOK, OnlyWorker
<1>2. \A v \in Worker : WellFormed(req[v])'
  <2>. SUFFICES ASSUME NEW v \in Worker, v # w PROVE WellFormed(req[v])'
    OBVIOUS
  <2>1. WellFormed(req[v]) /\ req'[v] = req[v]
    BY <1>1 DEF RequestOK, OnlyWorker
  <2>. QED BY <2>1 DEF WellFormed
<1>. QED BY <1>1, <1>2 DEF RequestOK

\* A step of worker w that writes nothing and does not consume a code retires.
LEMMA ReadOnlyStep ==
    ASSUME TypeOK, RowsOK, NEW w \in Worker, OnlyWorker(w), UNCHANGED store,
           \A k \in Code : Redeeming(w, k)' =>
              /\ Redeeming(w, k)
              /\ req'[w].user = req[w].user
              /\ req'[w].client = req[w].client
              /\ req'[w].scopes = req[w].scopes
    PROVE  Retire /\ ConsentRowsOK'
<1>1. NoRedemptionStarts
  BY DEF NoRedemptionStarts, Redeeming, OnlyWorker
<1>2. ConsentRowsOK'
  BY DEF ConsentRowsOK, RowsOK, store
<1>. QED BY <1>1, <1>2 DEF Retire, RetireCode, RetireToken, store

\* What is shown for every step: the new state is typed, and the step retires.
Good == TypeOK' /\ RequestOK' /\ Retire /\ ConsentRowsOK'

LEMMA IdleRequest == Idle \in Request /\ Idle.pc = "idle"
  BY MaxVersionAssumption DEF Idle, Request, PC, Version

LEMMA FailGood ==
    ASSUME TypeOK, RequestOK, RowsOK, NEW w \in Worker, Fail(w)
    PROVE  Good
<1>. USE DEF Fail, Finish, store, env
<1>1. Idle \in Request
  BY IdleRequest
<1>2. req' \in [Worker -> Request] /\ RequestOK'
  <2>1. req'[w] = Idle
    BY DEF TypeOK
  <2>2. WellFormed(req[w])'
    BY <2>1 DEF WellFormed, Idle
  <2>. QED BY <1>1, <2>2, RequestStep
<1>3. Retire /\ ConsentRowsOK'
  <2>1. OnlyWorker(w) /\ req'[w].pc = "idle"
    BY DEF TypeOK, OnlyWorker, Idle
  <2>. QED BY <2>1, ReadOnlyStep DEF Redeeming
<1>. QED BY <1>2, <1>3 DEF Good, TypeOK

RedeemPC == {"exchange.user", "exchange.access", "exchange.version", "exchange.save"}

\* A step that only moves worker w on, and may let values out.
LEMMA MoveGood ==
    ASSUME TypeOK, RequestOK, RowsOK, NEW w \in Worker, NEW r,
           req' = [req EXCEPT ![w] = r], r \in Request, WellFormed(req[w])',
           r.pc \in RedeemPC =>
              /\ req[w].pc \in RedeemPC /\ r.code = req[w].code /\ r.user = req[w].user
              /\ r.client = req[w].client /\ r.scopes = req[w].scopes,
           UNCHANGED <<store, env>>, known' \subseteq Code \cup Token, bearer' \subseteq AccessToken
    PROVE  Good
<1>. USE DEF store, env
<1>1. req' \in [Worker -> Request] /\ RequestOK'
  BY RequestStep
<1>2. OnlyWorker(w) /\ req'[w] = r
  BY DEF TypeOK, OnlyWorker
<1>3. Retire /\ ConsentRowsOK'
  BY <1>2, ReadOnlyStep DEF Redeeming, RedeemPC
<1>. QED BY <1>1, <1>3 DEF Good, TypeOK

-----------------------------------------------------------------------------
(* The steps that read *)

LEMMA ArriveGood ==
    ASSUME TypeOK, RequestOK, RowsOK, NEW w \in Worker, Arrive(w)
    PROVE  Good
<1>. USE IdleRequest
<1>0. known \subseteq Code \cup Token /\ bearer \subseteq AccessToken
  BY DEF TypeOK
<1>1. ASSUME NEW u \in User, NEW c \in Client, NEW s \in Scopes, NEW a \in BOOLEAN,
             Authorize(w, u, c, s, a)
      PROVE  Good
  <2>. DEFINE r == [Idle EXCEPT !.pc = "authorize.access", !.user = u, !.client = c,
                                !.scopes = s, !.ok = a]
  <2>1. r \in Request /\ r.pc \notin RedeemPC
    BY DEF Request, PC, RedeemPC
  <2>2. req' = [req EXCEPT ![w] = r] /\ UNCHANGED <<store, known, bearer, env>>
    BY <1>1 DEF Authorize
  <2>3. WellFormed(req[w])'
    BY <2>1, <2>2 DEF WellFormed, Request, TypeOK
  <2>. HIDE DEF r
  <2>. QED BY <2>1, <2>2, <2>3, <1>0, MoveGood
<1>2. ASSUME NEW c \in Client, NEW k \in Code, NEW m \in BOOLEAN, ExchangeCode(w, c, k, m)
      PROVE  Good
  <2>. DEFINE r == [Idle EXCEPT !.pc = "exchange.consume", !.client = c, !.code = k, !.ok = m]
  <2>1. r \in Request /\ r.pc \notin RedeemPC
    BY DEF Request, PC, RedeemPC
  <2>2. req' = [req EXCEPT ![w] = r] /\ UNCHANGED <<store, known, bearer, env>>
    BY <1>2 DEF ExchangeCode
  <2>3. WellFormed(req[w])'
    BY <2>1, <2>2 DEF WellFormed, Request, TypeOK
  <2>. HIDE DEF r
  <2>. QED BY <2>1, <2>2, <2>3, <1>0, MoveGood
<1>3. ASSUME NEW c \in Client, NEW t \in Token, RefreshToken(w, c, t)
      PROVE  Good
  <2>. DEFINE r == [Idle EXCEPT !.pc = "refresh.rotate", !.client = c, !.token = t]
  <2>1. r \in Request /\ r.pc \notin RedeemPC
    BY DEF Request, PC, RedeemPC
  <2>2. req' = [req EXCEPT ![w] = r] /\ UNCHANGED <<store, known, bearer, env>>
    BY <1>3 DEF RefreshToken
  <2>3. WellFormed(req[w])'
    BY <2>1, <2>2 DEF WellFormed, Request, TypeOK
  <2>. HIDE DEF r
  <2>. QED BY <2>1, <2>2, <2>3, <1>0, MoveGood
<1>4. ASSUME NEW c \in Client, NEW t \in Token, RevokeToken(w, c, t)
      PROVE  Good
  <2>. DEFINE r == [Idle EXCEPT !.pc = "revoke.write", !.token = t]
  <2>1. r \in Request /\ r.pc \notin RedeemPC
    BY DEF Request, PC, RedeemPC
  <2>2. req' = [req EXCEPT ![w] = r] /\ UNCHANGED <<store, known, bearer, env>>
    BY <1>4 DEF RevokeToken
  <2>3. WellFormed(req[w])'
    BY <2>1, <2>2, <1>4 DEF RevokeToken, WellFormed, Request, TypeOK, Saved, store
  <2>. HIDE DEF r
  <2>. QED BY <2>1, <2>2, <2>3, <1>0, MoveGood
<1>5. ASSUME NEW g \in Grant, RevokeConsent(w, g)
      PROVE  Good
  <2>. DEFINE r == [Idle EXCEPT !.pc = "consent.revoke", !.grant = g,
                                !.user = consents[g].user, !.client = consents[g].client]
  <2>1. consents[g].user \in User /\ consents[g].client \in Client
    BY <1>5 DEF RevokeConsent, RowsOK, Saved
  <2>2. r \in Request /\ r.pc \notin RedeemPC
    BY <2>1 DEF Request, PC, RedeemPC
  <2>3. req' = [req EXCEPT ![w] = r] /\ UNCHANGED <<store, known, bearer, env>>
    BY <1>5 DEF RevokeConsent
  <2>4. WellFormed(req[w])'
    BY <2>1, <2>2, <2>3 DEF WellFormed, Request, TypeOK
  <2>. HIDE DEF r
  <2>. QED BY <2>2, <2>3, <2>4, <1>0, MoveGood
<1>. QED BY <1>1, <1>2, <1>3, <1>4, <1>5 DEF Arrive

LEMMA AuthorizeReadGood ==
    ASSUME TypeOK, RequestOK, RowsOK, NEW w \in Worker,
           AuthorizeAccess(w) \/ AuthorizeConsent(w)
    PROVE  Good
<1>0. /\ known \subseteq Code \cup Token /\ bearer \subseteq AccessToken
      /\ req[w] \in Request /\ WellFormed(req[w])
  BY DEF TypeOK, RequestOK
<1>1. CASE AuthorizeAccess(w)
  <2>1. CASE Fail(w)
    BY <2>1, FailGood
  <2>2. CASE /\ req[w].pc = "authorize.access"
             /\ Goto(w, "authorize.consent") /\ UNCHANGED <<store, known, bearer, env>>
    <3>. DEFINE r == [req[w] EXCEPT !.pc = "authorize.consent"]
    <3>1. r \in Request /\ r.pc \notin RedeemPC
      BY <1>0 DEF Request, PC, RedeemPC
    <3>2. req' = [req EXCEPT ![w] = r]
      BY <2>2 DEF Goto
    <3>3. WellFormed(req[w])'
      BY <1>0, <2>2, <3>1, <3>2 DEF WellFormed, Request, TypeOK
    <3>. HIDE DEF r
    <3>. QED BY <1>0, <2>2, <3>1, <3>2, <3>3, MoveGood
  <2>. QED BY <1>1, <2>1, <2>2 DEF AuthorizeAccess
<1>2. CASE AuthorizeConsent(w)
  <2>1. CASE Fail(w)
    BY <2>1, FailGood
  <2>2. ASSUME NEW has \in BOOLEAN, req[w].pc = "authorize.consent",
               req' = [req EXCEPT ![w].pc = "authorize.code", ![w].ok = has],
               UNCHANGED <<store, known, bearer, env>>
        PROVE  Good
    <3>. DEFINE r == [req[w] EXCEPT !.pc = "authorize.code", !.ok = has]
    <3>0. ASSUME NEW i \in Request
          PROVE  [i EXCEPT !.pc = "authorize.code", !.ok = has] \in Request
      BY DEF Request, PC
    <3>1. r \in Request /\ r.pc \notin RedeemPC
      BY <1>0, <3>0 DEF Request, RedeemPC
    <3>2. req' = [req EXCEPT ![w] = r]
      BY <2>2
    <3>3. WellFormed(req[w])'
      BY <1>0, <2>2, <3>1, <3>2 DEF WellFormed, Request, TypeOK
    <3>. HIDE DEF r
    <3>. QED BY <1>0, <2>2, <3>1, <3>2, <3>3, MoveGood
  <2>3. HasConsent(req[w].user, req[w].client, req[w].scopes) \in BOOLEAN
    BY DEF HasConsent
  <2>. QED BY <1>2, <2>1, <2>2, <2>3 DEF AuthorizeConsent
<1>. QED BY <1>1, <1>2

LEMMA ReadUserGood ==
    ASSUME TypeOK, RequestOK, RowsOK, NEW w \in Worker, NEW pc, NEW next,
           \/ pc = "exchange.user" /\ next = "exchange.access"
           \/ pc = "refresh.user" /\ next = "refresh.access",
           ReadUser(w, pc, next)
    PROVE  Good
<1>0. /\ known \subseteq Code \cup Token /\ bearer \subseteq AccessToken
      /\ req[w] \in Request /\ WellFormed(req[w])
  BY DEF TypeOK, RequestOK
<1>1. CASE Fail(w)
  BY <1>1, FailGood
<1>2. CASE /\ req[w].pc = pc
           /\ req' = [req EXCEPT ![w].pc = next, ![w].ver = account[req[w].user].ver]
           /\ UNCHANGED <<store, known, bearer, env>>
  <2>. DEFINE r == [req[w] EXCEPT !.pc = next, !.ver = account[req[w].user].ver]
  <2>1. req[w].user \in User
    BY <1>0, <1>2 DEF WellFormed
  <2>2. account[req[w].user].ver \in Version
    BY <2>1 DEF TypeOK
  <2>3. r \in Request /\ r.pc = next /\ r.code = req[w].code /\ r.user = req[w].user
          /\ r.client = req[w].client /\ r.scopes = req[w].scopes
    <3>1. next \in PC
      BY DEF PC
    <3>. QED BY <1>0, <2>2, <3>1 DEF Request
  <2>4. req' = [req EXCEPT ![w] = r]
    BY <1>2
  <2>5. WellFormed(req[w])'
    BY <1>0, <1>2, <2>3, <2>4 DEF WellFormed, Request, TypeOK
  <2>6. r.pc \in RedeemPC => req[w].pc \in RedeemPC
    BY <1>2, <2>3 DEF RedeemPC
  <2>. HIDE DEF r
  <2>. QED BY <1>0, <1>2, <2>3, <2>4, <2>5, <2>6, MoveGood
<1>. QED BY <1>1, <1>2 DEF ReadUser

LEMMA CheckAccessGood ==
    ASSUME TypeOK, RequestOK, RowsOK, NEW w \in Worker, NEW pc, NEW next,
           \/ pc = "exchange.access" /\ next = "exchange.version"
           \/ pc = "refresh.access" /\ next = "refresh.version",
           CheckAccess(w, pc, next)
    PROVE  Good
<1>0. /\ known \subseteq Code \cup Token /\ bearer \subseteq AccessToken
      /\ req[w] \in Request /\ WellFormed(req[w])
  BY DEF TypeOK, RequestOK
<1>1. CASE Fail(w)
  BY <1>1, FailGood
<1>2. CASE req[w].pc = pc /\ Goto(w, next) /\ UNCHANGED <<store, known, bearer, env>>
  <2>. DEFINE r == [req[w] EXCEPT !.pc = next]
  <2>1. r \in Request /\ r.pc = next /\ r.code = req[w].code /\ r.user = req[w].user
          /\ r.client = req[w].client /\ r.scopes = req[w].scopes
    BY <1>0 DEF Request, PC
  <2>2. req' = [req EXCEPT ![w] = r]
    BY <1>2 DEF Goto
  <2>3. WellFormed(req[w])'
    BY <1>0, <1>2, <2>1, <2>2 DEF WellFormed, Request, TypeOK
  <2>4. r.pc \in RedeemPC => req[w].pc \in RedeemPC
    BY <1>2, <2>1 DEF RedeemPC
  <2>. HIDE DEF r
  <2>. QED BY <1>0, <1>2, <2>1, <2>2, <2>3, <2>4, MoveGood
<1>. QED BY <1>1, <1>2 DEF CheckAccess

\* GetCurrentAppAccessVersion returns a version, whether or not it fails.
LEMMA ReadableVersionsType ==
    ASSUME TypeOK, NEW u \in User, NEW c \in Client, NEW v \in ReadableVersions(u, c)
    PROVE  v \in Version
<1>1. appVersion[<<u, c>>] \in Version
  BY DEF TypeOK
<1>2. 1 \in Version
  BY MaxVersionAssumption DEF Version
<1>. QED BY <1>1, <1>2 DEF ReadableVersions

LEMMA ExchangeVersionGood ==
    ASSUME TypeOK, RequestOK, RowsOK, NEW w \in Worker, ExchangeVersion(w)
    PROVE  Good
<1>0. /\ known \subseteq Code \cup Token /\ bearer \subseteq AccessToken
      /\ req[w] \in Request /\ WellFormed(req[w])
  BY DEF TypeOK, RequestOK
<1>1. PICK v \in ReadableVersions(req[w].user, req[w].client) :
        req' = [req EXCEPT ![w].pc = "exchange.save", ![w].app_ver = v]
  BY DEF ExchangeVersion
<1>2. req[w].pc = "exchange.version" /\ UNCHANGED <<store, known, bearer, env>>
  BY DEF ExchangeVersion
<1>. DEFINE r == [req[w] EXCEPT !.pc = "exchange.save", !.app_ver = v]
<1>3. v \in Version
  BY <1>0, <1>2, ReadableVersionsType DEF WellFormed
<1>4. r \in Request /\ r.pc = "exchange.save" /\ r.code = req[w].code /\ r.user = req[w].user
        /\ r.client = req[w].client /\ r.scopes = req[w].scopes
  BY <1>0, <1>3 DEF Request, PC
<1>5. req' = [req EXCEPT ![w] = r]
  BY <1>1
<1>6. WellFormed(req[w])'
  BY <1>0, <1>2, <1>4, <1>5 DEF WellFormed, Request, TypeOK
<1>7. req[w].pc \in RedeemPC
  BY <1>2 DEF RedeemPC
<1>. HIDE DEF r
<1>. QED BY <1>0, <1>2, <1>4, <1>5, <1>6, <1>7, MoveGood

LEMMA RefreshRespondGood ==
    ASSUME TypeOK, RequestOK, RowsOK, NEW w \in Worker, RefreshRespond(w)
    PROVE  Good
<1>0. req[w] \in Request /\ WellFormed(req[w]) /\ req[w].pc = "refresh.version"
  BY DEF TypeOK, RequestOK, RefreshRespond
<1>1. PICK v \in ReadableVersions(req[w].user, req[w].client) : bearer' = bearer \cup {Claims(w, v)}
  BY DEF RefreshRespond
<1>2. req[w].user \in User /\ req[w].client \in Client /\ req[w].scopes \in Scopes
        /\ req[w].token \in Token
  BY <1>0 DEF WellFormed
<1>3. v \in Version
  BY <1>2, ReadableVersionsType
<1>4. Claims(w, v) \in AccessToken
  BY <1>0, <1>2, <1>3 DEF Claims, AccessToken, Request
<1>5. known' \subseteq Code \cup Token /\ bearer' \subseteq AccessToken
  BY <1>1, <1>2, <1>4 DEF TypeOK, RefreshRespond
<1>6. req' = [req EXCEPT ![w] = Idle] /\ UNCHANGED <<store, env>>
  BY DEF RefreshRespond, Finish
<1>7. WellFormed(req[w])'
  BY <1>6, IdleRequest DEF WellFormed, TypeOK
<1>8. Idle.pc \notin RedeemPC
  BY IdleRequest DEF RedeemPC
<1>. QED BY <1>5, <1>6, <1>7, <1>8, IdleRequest, MoveGood

-----------------------------------------------------------------------------
(* The steps that retire rows *)

\* A statement that revokes saved, undeleted rows.
LEMMA SetRevokedRetires ==
    ASSUME TypeOK, NEW S, SetRevoked(S),
           \A t \in Token : t \in S => refresh[t].st \in {"live", "revoked"}
    PROVE  refresh' \in [Token -> TokenRow] /\ \A t \in Token : RetireToken(t)
<1>0. ASSUME NEW row \in TokenRow
      PROVE  [row EXCEPT !.st = "revoked"] \in TokenRow
  BY DEF TokenRow
<1>1. \A t \in Token : [refresh[t] EXCEPT !.st = "revoked"] \in TokenRow
  BY <1>0 DEF TypeOK
<1>2. refresh' \in [Token -> TokenRow]
  <2>1. \A t \in Token : refresh[t] \in TokenRow
    BY DEF TypeOK
  <2>. QED BY <1>1, <2>1 DEF SetRevoked
<1>3. ASSUME NEW t \in Token PROVE RetireToken(t)
  <2>1. CASE t \in S
    BY <2>1 DEF SetRevoked, RetireToken, TypeOK, TokenRow
  <2>2. CASE t \notin S
    BY <2>2 DEF SetRevoked, RetireToken
  <2>. QED BY <2>1, <2>2
<1>. QED BY <1>2, <1>3

LEMMA RevokingGood ==
    ASSUME TypeOK, RequestOK, RowsOK, NEW w \in Worker, NEW S, SetRevoked(S), Finish(w),
           \A t \in Token : t \in S => refresh[t].st \in {"live", "revoked"},
           UNCHANGED <<codes, consents, known, bearer, env>>
    PROVE  Good
<1>1. refresh' \in [Token -> TokenRow] /\ \A t \in Token : RetireToken(t)
  BY SetRevokedRetires
<1>2. req' = [req EXCEPT ![w] = Idle]
  BY DEF Finish
<1>3. WellFormed(req[w])' /\ OnlyWorker(w) /\ req'[w].pc = "idle"
  BY <1>2, IdleRequest DEF WellFormed, TypeOK, OnlyWorker
<1>4. \A t \in Token : Saved(refresh[t]) => Saved(refresh[t])'
  BY <1>1 DEF RetireToken, Saved
<1>5. req' \in [Worker -> Request] /\ RequestOK'
  BY <1>2, <1>3, <1>4, IdleRequest, RequestStep
<1>6. NoRedemptionStarts
  BY <1>3 DEF NoRedemptionStarts, Redeeming, OnlyWorker
<1>7. (\A k \in Code : RetireCode(k)) /\ ConsentRowsOK'
  BY DEF RetireCode, ConsentRowsOK, RowsOK
<1>. QED BY <1>1, <1>5, <1>6, <1>7 DEF Good, Retire, TypeOK, env

LEMMA RevokeGood ==
    ASSUME TypeOK, RequestOK, RowsOK, NEW w \in Worker,
           RevokeOnReuse(w) \/ RevokeTokenWrite(w) \/ RevokeConsentTokens(w)
    PROVE  Good
<1>1. CASE RevokeOnReuse(w) \/ RevokeConsentTokens(w)
  <2>. DEFINE S == LiveTokensOf(req[w].user, req[w].client)
  <2>1. \A t \in Token : t \in S => refresh[t].st \in {"live", "revoked"}
    BY DEF LiveTokensOf
  <2>2. SetRevoked(S) /\ Finish(w) /\ UNCHANGED <<codes, consents, known, bearer, env>>
    BY <1>1 DEF RevokeOnReuse, RevokeConsentTokens
  <2>. HIDE DEF S
  <2>. QED BY <2>1, <2>2, RevokingGood
<1>2. CASE RevokeTokenWrite(w)
  <2>. DEFINE S == {t \in {req[w].token} : refresh[t].st # "deleted"}
  <2>1. \A t \in Token : t \in S => refresh[t].st \in {"live", "revoked"}
    BY <1>2 DEF RevokeTokenWrite, RequestOK, WellFormed, Saved, TypeOK, TokenRow
  <2>2. SetRevoked(S) /\ Finish(w) /\ UNCHANGED <<codes, consents, known, bearer, env>>
    BY <1>2 DEF RevokeTokenWrite
  <2>. HIDE DEF S
  <2>. QED BY <2>1, <2>2, RevokingGood
<1>. QED BY <1>1, <1>2

LEMMA RevokeConsentWriteGood ==
    ASSUME TypeOK, RequestOK, RowsOK, NEW w \in Worker, RevokeConsentWrite(w)
    PROVE  Good
<1>0. req[w] \in Request /\ WellFormed(req[w]) /\ req[w].pc = "consent.revoke"
  BY DEF TypeOK, RequestOK, RevokeConsentWrite
<1>. DEFINE r == [req[w] EXCEPT !.pc = "consent.tokens"]
<1>1. r \in Request /\ r.pc = "consent.tokens" /\ r.user = req[w].user /\ r.client = req[w].client
  BY <1>0 DEF Request, PC
<1>2. req' = [req EXCEPT ![w] = r] /\ UNCHANGED <<codes, refresh, known, bearer, env>>
  BY DEF RevokeConsentWrite, Goto
<1>3. req'[w] = r /\ OnlyWorker(w)
  BY <1>2 DEF TypeOK, OnlyWorker
<1>. HIDE DEF r
<1>4. WellFormed(req[w])'
  BY <1>0, <1>1, <1>3 DEF WellFormed
<1>5. req' \in [Worker -> Request] /\ RequestOK'
  BY <1>1, <1>2, <1>4, RequestStep DEF Saved
<1>6. NoRedemptionStarts
  BY <1>1, <1>3 DEF NoRedemptionStarts, Redeeming, OnlyWorker
<1>7. consents' \in [Grant -> ConsentRow]
  <2>1. \A g \in Grant : [consents[g] EXCEPT !.st = "revoked"] \in ConsentRow
    <3>1. \A g \in Grant : consents[g] \in ConsentRow
      BY DEF TypeOK
    <3>. QED BY <3>1 DEF ConsentRow
  <2>. QED BY <2>1 DEF RevokeConsentWrite, TypeOK
<1>8. ConsentRowsOK'
  <2>1. \A g \in Grant : /\ consents'[g].user = consents[g].user
                         /\ consents'[g].client = consents[g].client
                         /\ Saved(consents[g])' <=> Saved(consents[g])
    BY DEF RevokeConsentWrite, TypeOK, ConsentRow, Saved
  <2>. QED BY <2>1 DEF ConsentRowsOK, RowsOK
<1>9. Retire
  BY <1>2, <1>6 DEF Retire, RetireCode, RetireToken
<1>. QED BY <1>2, <1>5, <1>7, <1>8, <1>9 DEF Good, TypeOK, env

LEMMA SaveConsentGood ==
    ASSUME TypeOK, RequestOK, RowsOK, NEW w \in Worker, SaveConsent(w)
    PROVE  Good
<1>0. req[w] \in Request /\ WellFormed(req[w]) /\ req[w].pc = "authorize.grant"
  BY DEF TypeOK, RequestOK, SaveConsent
<1>1. /\ req[w].user \in User /\ req[w].client \in Client /\ req[w].scopes \in Scopes
      /\ req[w].code \in Code
  BY <1>0 DEF WellFormed
<1>2. req' = [req EXCEPT ![w] = Idle] /\ UNCHANGED <<codes, refresh, bearer, env>>
        /\ known' = known \cup {req[w].code}
  BY DEF SaveConsent, Finish
<1>3. WellFormed(req[w])' /\ OnlyWorker(w) /\ req'[w].pc = "idle"
  BY <1>2, IdleRequest DEF WellFormed, TypeOK, OnlyWorker
<1>4. req' \in [Worker -> Request] /\ RequestOK'
  BY <1>2, <1>3, IdleRequest, RequestStep DEF Saved
<1>5. consents' \in [Grant -> ConsentRow] /\ ConsentRowsOK'
  <2>. DEFINE row == [st |-> "live", user |-> req[w].user, client |-> req[w].client,
                      scopes |-> req[w].scopes]
  <2>1. CASE UNCHANGED consents
    BY <2>1 DEF TypeOK, ConsentRowsOK, RowsOK
  <2>2. CASE \E g \in Grant : consents' = [consents EXCEPT ![g] = row]
    <3>1. row \in ConsentRow /\ Saved(row) /\ row.user \in User /\ row.client \in Client
      BY <1>1 DEF ConsentRow, Saved
    <3>. HIDE DEF row
    <3>. QED BY <2>2, <3>1 DEF TypeOK, ConsentRowsOK, RowsOK, Saved
  <2>. QED BY <2>1, <2>2 DEF SaveConsent
<1>6. Retire
  BY <1>2, <1>3 DEF Retire, RetireCode, RetireToken, NoRedemptionStarts, Redeeming, OnlyWorker
<1>7. known' \subseteq Code \cup Token
  BY <1>1, <1>2 DEF TypeOK
<1>. QED BY <1>2, <1>4, <1>5, <1>6, <1>7 DEF Good, TypeOK, env

-----------------------------------------------------------------------------
(* Typing of the four statements that insert or spend *)

Typed == TypeOK' /\ RequestOK'

LEMMA SaveCodeTyped ==
    ASSUME TypeOK, RequestOK, NEW w \in Worker, SaveAuthorizationCode(w)
    PROVE  Typed
<1>. USE DEF env
<1>0. req[w] \in Request /\ WellFormed(req[w]) /\ req[w].pc = "authorize.code"
  BY DEF TypeOK, RequestOK, SaveAuthorizationCode
<1>1. req[w].user \in User /\ req[w].client \in Client /\ req[w].scopes \in Scopes
  BY <1>0 DEF WellFormed
<1>. DEFINE full == [st |-> "fresh", user |-> req[w].user, client |-> req[w].client,
                     scopes |-> req[w].scopes, expired |-> FALSE]
<1>2. PICK c \in Code, row \in Insert(full, NoCode) :
        /\ codes' = [codes EXCEPT ![c] = row]
        /\ \/ Finish(w) /\ known' = known \cup {c}
           \/ /\ req' = [req EXCEPT ![w].pc = "authorize.grant", ![w].code = c]
              /\ UNCHANGED known
  BY DEF SaveAuthorizationCode
<1>3. full \in CodeRow /\ [NoCode EXCEPT !.st = "lost"] \in CodeRow
  BY <1>1 DEF CodeRow, NoCode
<1>4. row \in CodeRow
  BY <1>3 DEF Insert
<1>5. UNCHANGED <<refresh, consents, bearer, env>>
  BY DEF SaveAuthorizationCode
<1>6. codes' \in [Code -> CodeRow] /\ known' \subseteq Code \cup Token
  BY <1>2, <1>4 DEF TypeOK
<1>7. req' \in [Worker -> Request] /\ RequestOK'
  <2>1. CASE Finish(w)
    <3>1. req' = [req EXCEPT ![w] = Idle]
      BY <2>1 DEF Finish
    <3>2. WellFormed(req[w])'
      BY <3>1, IdleRequest DEF WellFormed, TypeOK
    <3>. QED BY <3>1, <3>2, <1>5, IdleRequest, RequestStep DEF Saved
  <2>2. CASE req' = [req EXCEPT ![w].pc = "authorize.grant", ![w].code = c]
    <3>. DEFINE r == [req[w] EXCEPT !.pc = "authorize.grant", !.code = c]
    <3>1. r \in Request /\ r.pc = "authorize.grant" /\ r.code = c /\ r.user = req[w].user
            /\ r.client = req[w].client /\ r.scopes = req[w].scopes
      BY <1>0 DEF Request, PC
    <3>2. req' = [req EXCEPT ![w] = r]
      BY <2>2
    <3>. HIDE DEF r
    <3>3. WellFormed(req[w])'
      BY <1>1, <3>1, <3>2 DEF WellFormed, TypeOK
    <3>. QED BY <3>1, <3>2, <3>3, <1>5, RequestStep DEF Saved
  <2>. QED BY <1>2, <2>1, <2>2
<1>. QED BY <1>5, <1>6, <1>7 DEF Typed, TypeOK

LEMMA ConsumeTyped ==
    ASSUME TypeOK, RequestOK, RowsOK, NEW w \in Worker, ConsumeAuthorizationCode(w),
           Redeemable(req[w].code, req[w].client, req[w].ok)
    PROVE  Typed /\ ConsentRowsOK'
<1>. USE DEF env
<1>. DEFINE k == req[w].code
<1>0. req[w] \in Request /\ WellFormed(req[w]) /\ req[w].pc = "exchange.consume" /\ k \in Code
  BY DEF TypeOK, RequestOK, WellFormed, ConsumeAuthorizationCode
<1>1. /\ codes[k].st = "fresh" /\ codes' = [codes EXCEPT ![k].st = "used"]
      /\ req' = [req EXCEPT ![w].pc = "exchange.user", ![w].user = codes[k].user,
                            ![w].scopes = codes[k].scopes]
      /\ UNCHANGED <<refresh, consents, known, bearer, env>>
  BY DEF ConsumeAuthorizationCode, Redeemable
<1>2. codes[k] \in CodeRow /\ codes[k].user \in User /\ codes[k].scopes \in Scopes
        /\ req[w].client \in Client
  BY <1>0, <1>1 DEF TypeOK, RowsOK, Saved, WellFormed
<1>3. codes' \in [Code -> CodeRow]
  <2>1. ASSUME NEW row \in CodeRow PROVE [row EXCEPT !.st = "used"] \in CodeRow
    BY DEF CodeRow
  <2>. QED BY <2>1, <1>1, <1>2 DEF TypeOK
<1>. DEFINE u == codes[k].user
            s == codes[k].scopes
            r == [req[w] EXCEPT !.pc = "exchange.user", !.user = u, !.scopes = s]
<1>4. r \in Request /\ r.pc = "exchange.user" /\ r.code = k /\ r.user \in User
        /\ r.client \in Client /\ r.scopes \in Scopes
  <2>1. u \in User /\ s \in Scopes
    BY <1>2
  <2>. HIDE DEF u, s
  <2>. QED BY <2>1, <1>0, <1>2 DEF Request, PC
<1>5. req' = [req EXCEPT ![w] = r]
  BY <1>1
<1>. HIDE DEF r
<1>6. WellFormed(req[w])'
  BY <1>0, <1>4, <1>5 DEF WellFormed, TypeOK
<1>7. req' \in [Worker -> Request] /\ RequestOK'
  BY <1>1, <1>4, <1>5, <1>6, RequestStep DEF Saved
<1>8. ConsentRowsOK'
  BY <1>1 DEF ConsentRowsOK, RowsOK
<1>. QED BY <1>1, <1>3, <1>7, <1>8 DEF Typed, TypeOK

LEMMA ConsumeFails ==
    ASSUME TypeOK, RequestOK, RowsOK, NEW w \in Worker, ConsumeAuthorizationCode(w),
           ~Redeemable(req[w].code, req[w].client, req[w].ok)
    PROVE  Good
BY FailGood DEF ConsumeAuthorizationCode

LEMMA SaveTokenTyped ==
    ASSUME TypeOK, RequestOK, NEW w \in Worker, SaveRefreshToken(w)
    PROVE  Typed
<1>. USE DEF env
<1>0. req[w] \in Request /\ WellFormed(req[w]) /\ req[w].pc = "exchange.save"
  BY DEF TypeOK, RequestOK, SaveRefreshToken
<1>1. /\ req[w].user \in User /\ req[w].client \in Client /\ req[w].scopes \in Scopes
      /\ req[w].code \in Code
  BY <1>0 DEF WellFormed
<1>. DEFINE full == [st |-> "live", user |-> req[w].user, client |-> req[w].client,
                     scopes |-> req[w].scopes, from |-> None, next |-> None,
                     expired |-> FALSE, origin |-> req[w].code]
<1>2. PICK n \in Token, row \in Insert(full, NoToken) :
        /\ refresh[n].st = "absent"
        /\ refresh' = [refresh EXCEPT ![n] = row]
        /\ known' = known \cup {n}
  BY DEF SaveRefreshToken
<1>3. full \in TokenRow /\ [NoToken EXCEPT !.st = "lost"] \in TokenRow
  BY <1>1 DEF TokenRow, NoToken
<1>4. row \in TokenRow
  BY <1>3 DEF Insert
<1>5. /\ UNCHANGED <<codes, consents, env>>
      /\ bearer' = bearer \cup {Claims(w, req[w].app_ver)}
      /\ req' = [req EXCEPT ![w] = Idle]
  BY DEF SaveRefreshToken, Finish
<1>6. refresh' \in [Token -> TokenRow] /\ known' \subseteq Code \cup Token
  BY <1>2, <1>4 DEF TypeOK
<1>7. bearer' \subseteq AccessToken
  <2>1. Claims(w, req[w].app_ver) \in AccessToken
    BY <1>0, <1>1 DEF Claims, AccessToken, Request
  <2>. QED BY <2>1, <1>5 DEF TypeOK
<1>8. \A t \in Token : Saved(refresh[t]) => Saved(refresh[t])'
  BY <1>2 DEF Saved, TypeOK
<1>9. WellFormed(req[w])'
  BY <1>5, IdleRequest DEF WellFormed, TypeOK
<1>10. req' \in [Worker -> Request] /\ RequestOK'
  BY <1>5, <1>8, <1>9, IdleRequest, RequestStep
<1>. QED BY <1>5, <1>6, <1>7, <1>10 DEF Typed, TypeOK

LEMMA RotateTyped ==
    ASSUME TypeOK, RequestOK, RowsOK, NEW w \in Worker, RotateRefreshToken(w),
           Rotatable(req[w].token, req[w].client)
    PROVE  Typed
<1>. USE DEF env
<1>. DEFINE t == req[w].token
<1>0. req[w] \in Request /\ WellFormed(req[w]) /\ req[w].pc = "refresh.rotate" /\ t \in Token
        /\ refresh[t].st = "live" /\ req[w].client \in Client
  BY DEF TypeOK, RequestOK, WellFormed, RotateRefreshToken, Rotatable
<1>1. PICK n \in Token :
        /\ refresh[n].st = "absent"
        /\ Rotate(t, n)
        /\ req' = [req EXCEPT ![w].pc = "refresh.user", ![w].user = refresh[t].user,
                              ![w].scopes = refresh[t].scopes, ![w].token = n]
        /\ UNCHANGED <<codes, consents, known, bearer, env>>
  BY <1>0 DEF RotateRefreshToken, Rotatable, Replayed
<1>2. refresh[t] \in TokenRow /\ refresh[t].user \in User /\ refresh[t].client \in Client
        /\ refresh[t].scopes \in Scopes /\ refresh[t].origin \in Code /\ t # n
  BY <1>0, <1>1 DEF TypeOK, RowsOK, Saved
<1>. DEFINE spent == [refresh[t] EXCEPT !.st = "revoked", !.next = n]
            fresh == [st |-> "live", user |-> refresh[t].user, client |-> refresh[t].client,
                      scopes |-> refresh[t].scopes, from |-> t, next |-> None,
                      expired |-> FALSE, origin |-> refresh[t].origin]
<1>3. spent \in TokenRow /\ spent.st = "revoked"
  <2>1. ASSUME NEW row \in TokenRow, NEW m \in Token
        PROVE  LET x == [row EXCEPT !.st = "revoked", !.next = m] IN
               x \in TokenRow /\ x.st = "revoked"
    BY DEF TokenRow
  <2>. QED BY <2>1, <1>2
<1>4. fresh \in TokenRow
  BY <1>0, <1>2 DEF TokenRow
<1>5. refresh' = [refresh EXCEPT ![t] = spent, ![n] = fresh]
  BY <1>1 DEF Rotate
<1>. HIDE DEF spent, fresh
<1>6. refresh' \in [Token -> TokenRow]
  BY <1>3, <1>4, <1>5 DEF TypeOK
<1>7. \A s \in Token : Saved(refresh[s]) => Saved(refresh[s])'
  BY <1>0, <1>1, <1>2, <1>3, <1>5 DEF Saved, TypeOK
<1>. DEFINE u == refresh[t].user
            s == refresh[t].scopes
            r == [req[w] EXCEPT !.pc = "refresh.user", !.user = u, !.scopes = s, !.token = n]
<1>8. r \in Request /\ r.pc = "refresh.user" /\ r.token = n /\ r.user \in User
        /\ r.client \in Client /\ r.scopes \in Scopes
  <2>1. u \in User /\ s \in Scopes
    BY <1>2
  <2>. HIDE DEF u, s
  <2>. QED BY <2>1, <1>0 DEF Request, PC
<1>9. req' = [req EXCEPT ![w] = r]
  BY <1>1
<1>. HIDE DEF r
<1>10. WellFormed(req[w])'
  BY <1>8, <1>9 DEF WellFormed, TypeOK
<1>11. req' \in [Worker -> Request] /\ RequestOK'
  BY <1>7, <1>8, <1>9, <1>10, RequestStep
<1>. QED BY <1>1, <1>6, <1>11 DEF Typed, TypeOK

LEMMA RotateFails ==
    ASSUME TypeOK, RequestOK, RowsOK, NEW w \in Worker, RotateRefreshToken(w),
           ~Rotatable(req[w].token, req[w].client)
    PROVE  Good
<1>0. /\ known \subseteq Code \cup Token /\ bearer \subseteq AccessToken
      /\ req[w] \in Request /\ WellFormed(req[w]) /\ req[w].pc = "refresh.rotate"
  BY DEF TypeOK, RequestOK, RotateRefreshToken
<1>1. CASE Fail(w)
  BY <1>1, FailGood
<1>2. CASE /\ Replayed(req[w].token, req[w].client)
           /\ req' = [req EXCEPT ![w].pc = "refresh.reuse", ![w].user = refresh[req[w].token].user]
           /\ UNCHANGED <<store, known, bearer, env>>
  <2>1. req[w].client \in Client /\ req[w].token \in Token /\ refresh[req[w].token].user \in User
    BY <1>0, <1>2 DEF WellFormed, Replayed, RowsOK, Saved
  <2>. DEFINE u == refresh[req[w].token].user
              r == [req[w] EXCEPT !.pc = "refresh.reuse", !.user = u]
  <2>2. r \in Request /\ r.pc = "refresh.reuse" /\ r.token = req[w].token /\ r.user \in User
          /\ r.client = req[w].client
    <3>1. u \in User
      BY <2>1
    <3>. HIDE DEF u
    <3>. QED BY <3>1, <1>0 DEF Request, PC
  <2>3. req' = [req EXCEPT ![w] = r]
    BY <1>2
  <2>. HIDE DEF r
  <2>4. WellFormed(req[w])'
    BY <2>1, <2>2, <2>3 DEF WellFormed, TypeOK
  <2>5. r.pc \notin RedeemPC
    BY <2>2 DEF RedeemPC
  <2>. QED BY <1>0, <1>2, <2>2, <2>3, <2>4, <2>5, MoveGood
<1>. QED BY <1>1, <1>2 DEF RotateRefreshToken

-----------------------------------------------------------------------------
(* The other services and the clock *)

LEMMA OutsideGood ==
    ASSUME TypeOK, RequestOK, RowsOK, UNCHANGED <<req, known, bearer>>,
           codes' \in [Code -> CodeRow], \A k \in Code : RetireCode(k),
           refresh' \in [Token -> TokenRow], \A t \in Token : RetireToken(t),
           consents' \in [Grant -> ConsentRow], ConsentRowsOK',
           account' \in [User -> [active: BOOLEAN, ver: Version]],
           approved' \subseteq Client, allowed' \subseteq User \X Client,
           appVersion' \in [User \X Client -> Version]
    PROVE  Good
<1>1. \A t \in Token : Saved(refresh[t]) => Saved(refresh[t])'
  BY DEF RetireToken, Saved
<1>2. RequestOK'
  BY <1>1 DEF RequestOK, WellFormed
<1>3. NoRedemptionStarts
  BY DEF NoRedemptionStarts, Redeeming
<1>. QED BY <1>2, <1>3 DEF Good, Retire, TypeOK

\* The parts of the state a statement does not name.
LEMMA Untouched ==
    ASSUME TypeOK, RowsOK
    PROVE  /\ UNCHANGED codes =>
                codes' \in [Code -> CodeRow] /\ \A k \in Code : RetireCode(k)
           /\ UNCHANGED refresh =>
                refresh' \in [Token -> TokenRow] /\ \A t \in Token : RetireToken(t)
           /\ UNCHANGED consents => consents' \in [Grant -> ConsentRow] /\ ConsentRowsOK'
BY DEF TypeOK, RetireCode, RetireToken, RowsOK, ConsentRowsOK

LEMMA RevokeOutsideGood ==
    ASSUME TypeOK, RequestOK, RowsOK, NEW u, NEW c,
           RevokeRefreshTokensByUser(u) \/ RevokeRefreshTokensByUserClient(u, c)
    PROVE  Good
<1>1. PICK S : SetRevoked(S) /\ \A t \in Token : t \in S => refresh[t].st \in {"live", "revoked"}
  <2>1. \A t \in Token : t \in LiveTokensOfUser(u) => refresh[t].st \in {"live", "revoked"}
    BY DEF LiveTokensOfUser
  <2>2. \A t \in Token : t \in LiveTokensOf(u, c) => refresh[t].st \in {"live", "revoked"}
    BY DEF LiveTokensOf
  <2>. QED BY <2>1, <2>2 DEF RevokeRefreshTokensByUser, RevokeRefreshTokensByUserClient
<1>2. refresh' \in [Token -> TokenRow] /\ \A t \in Token : RetireToken(t)
  BY <1>1, SetRevokedRetires
<1>3. UNCHANGED <<codes, consents, req, known, bearer, env>>
  BY DEF RevokeRefreshTokensByUser, RevokeRefreshTokensByUserClient
<1>4. /\ account' \in [User -> [active: BOOLEAN, ver: Version]] /\ approved' \subseteq Client
      /\ allowed' \subseteq User \X Client /\ appVersion' \in [User \X Client -> Version]
  BY <1>3 DEF TypeOK, env
<1>. QED BY <1>2, <1>3, <1>4, Untouched, OutsideGood

LEMMA AccountGood ==
    ASSUME TypeOK, RequestOK, RowsOK, NEW u \in User, NEW a \in BOOLEAN, NEW v \in Version,
           UpdateUser(u, a, v) \/ UpdateUserAndInvalidateAuth(u, a, v)
    PROVE  Good
<1>. USE NoneAssumption
<1>1. /\ account' = [account EXCEPT ![u] = [active |-> a, ver |-> v]]
      /\ UNCHANGED <<consents, req, known, bearer, approved, allowed, appVersion>>
  BY DEF UpdateUser, UpdateUserAndInvalidateAuth, store
<1>2. account' \in [User -> [active: BOOLEAN, ver: Version]]
  BY <1>1 DEF TypeOK
<1>3. /\ approved' \subseteq Client /\ allowed' \subseteq User \X Client
      /\ appVersion' \in [User \X Client -> Version]
  BY <1>1 DEF TypeOK
<1>4. refresh' \in [Token -> TokenRow] /\ \A t \in Token : RetireToken(t)
  <2>1. \A t \in Token : t \in LiveTokensOfUser(u) => refresh[t].st \in {"live", "revoked"}
    BY DEF LiveTokensOfUser
  <2>2. UNCHANGED refresh \/ SetRevoked(LiveTokensOfUser(u))
    BY DEF UpdateUser, UpdateUserAndInvalidateAuth, store
  <2>. QED BY <2>1, <2>2, Untouched, SetRevokedRetires
<1>5. codes' \in [Code -> CodeRow] /\ \A k \in Code : RetireCode(k)
  <2>1. CASE UNCHANGED codes
    BY <2>1, Untouched
  <2>2. CASE codes' = [c \in Code |-> IF codes[c].user = u
                                      THEN [codes[c] EXCEPT !.st = "deleted"] ELSE codes[c]]
    <3>1. ASSUME NEW row \in CodeRow
          PROVE  /\ [row EXCEPT !.st = "deleted"] \in CodeRow
                 /\ [row EXCEPT !.st = "deleted"].st = "deleted"
                 /\ [row EXCEPT !.st = "deleted"].user = row.user
                 /\ [row EXCEPT !.st = "deleted"].client = row.client
                 /\ [row EXCEPT !.st = "deleted"].scopes = row.scopes
      BY DEF CodeRow
    <3>2. \A k \in Code : codes[k] \in CodeRow
      BY DEF TypeOK
    <3>3. codes' \in [Code -> CodeRow]
      BY <2>2, <3>1, <3>2
    <3>4. \A k \in Code : codes[k].user = u => codes[k].st \in {"fresh", "used", "deleted"}
      BY <3>2 DEF RowsOK, Saved, CodeRow
    <3>5. \A k \in Code : RetireCode(k)
      BY <2>2, <3>1, <3>2, <3>4 DEF RetireCode
    <3>. QED BY <3>3, <3>5
  <2>. QED BY <2>1, <2>2 DEF UpdateUser, UpdateUserAndInvalidateAuth, store
<1>. QED BY <1>1, <1>2, <1>3, <1>4, <1>5, Untouched, OutsideGood

LEMMA AccessGood ==
    ASSUME TypeOK, RequestOK, RowsOK, NEW u, NEW c \in Client,
           \/ u \in User /\ (ChangeAccess(u, c) \/ BumpAppUserAccessVersion(u, c))
           \/ ChangeAppStatus(c)
    PROVE  Good
<1>1. UNCHANGED <<codes, refresh, consents, req, known, bearer, account>>
  BY DEF ChangeAccess, BumpAppUserAccessVersion, ChangeAppStatus, store
<1>2. account' \in [User -> [active: BOOLEAN, ver: Version]]
  BY <1>1 DEF TypeOK
<1>3. approved' \subseteq Client /\ allowed' \subseteq User \X Client
  BY DEF TypeOK, ChangeAccess, BumpAppUserAccessVersion, ChangeAppStatus
<1>4. appVersion' \in [User \X Client -> Version]
  <2>1. CASE UNCHANGED appVersion
    BY <2>1 DEF TypeOK
  <2>2. CASE u \in User /\ BumpAppUserAccessVersion(u, c)
    <3>1. appVersion[<<u, c>>] \in Version /\ appVersion[<<u, c>>] < MaxVersion
      BY <2>2 DEF BumpAppUserAccessVersion, ChangeAppStatus, TypeOK
    <3>2. appVersion[<<u, c>>] + 1 \in Version
      BY <3>1, MaxVersionAssumption DEF Version
    <3>. QED BY <2>2, <3>2 DEF BumpAppUserAccessVersion, TypeOK
  <2>. QED BY <2>1, <2>2 DEF ChangeAccess, ChangeAppStatus
<1>. QED BY <1>1, <1>2, <1>3, <1>4, Untouched, OutsideGood

\* DELETE over any saved rows of a table retires them.
LEMMA DeleteCodesRetires ==
    ASSUME TypeOK, NEW S, \A k \in Code : k \in S => codes[k].st \in {"fresh", "used", "deleted"},
           codes' = [k \in Code |-> IF k \in S THEN [codes[k] EXCEPT !.st = "deleted"]
                                               ELSE codes[k]]
    PROVE  codes' \in [Code -> CodeRow] /\ \A k \in Code : RetireCode(k)
<1>1. ASSUME NEW row \in CodeRow
      PROVE  LET del == [row EXCEPT !.st = "deleted"] IN
             /\ del \in CodeRow /\ del.st = "deleted" /\ del.user = row.user
             /\ del.client = row.client /\ del.scopes = row.scopes
  BY DEF CodeRow
<1>2. \A k \in Code : codes[k] \in CodeRow
  BY DEF TypeOK
<1>. QED BY <1>1, <1>2 DEF RetireCode

LEMMA DeleteTokensRetires ==
    ASSUME TypeOK, NEW S, \A t \in Token : t \in S => Saved(refresh[t]),
           refresh' = [t \in Token |-> IF t \in S THEN [refresh[t] EXCEPT !.st = "deleted"]
                                                  ELSE refresh[t]]
    PROVE  refresh' \in [Token -> TokenRow] /\ \A t \in Token : RetireToken(t)
<1>1. ASSUME NEW row \in TokenRow
      PROVE  LET del == [row EXCEPT !.st = "deleted"] IN
             /\ del \in TokenRow /\ del.st = "deleted" /\ del.user = row.user
             /\ del.client = row.client /\ del.scopes = row.scopes /\ del.from = row.from
             /\ del.next = row.next /\ del.origin = row.origin
  BY DEF TokenRow
<1>2. \A t \in Token : refresh[t] \in TokenRow
  BY DEF TypeOK
<1>3. \A t \in Token : t \in S => refresh[t].st \in {"live", "revoked", "deleted"}
  BY <1>2 DEF Saved, TokenRow
<1>. QED BY <1>1, <1>2, <1>3 DEF RetireToken

LEMMA DeleteConsentsOK ==
    ASSUME TypeOK, RowsOK, NEW S, \A g \in Grant : g \in S => Saved(consents[g]),
           consents' = [g \in Grant |-> IF g \in S THEN [consents[g] EXCEPT !.st = "deleted"]
                                                   ELSE consents[g]]
    PROVE  consents' \in [Grant -> ConsentRow] /\ ConsentRowsOK'
<1>1. ASSUME NEW row \in ConsentRow
      PROVE  LET del == [row EXCEPT !.st = "deleted"] IN
             /\ del \in ConsentRow /\ Saved(del) /\ del.user = row.user /\ del.client = row.client
  BY DEF ConsentRow, Saved
<1>2. \A g \in Grant : consents[g] \in ConsentRow
  BY DEF TypeOK
<1>. QED BY <1>1, <1>2 DEF ConsentRowsOK, RowsOK

LEMMA DeleteUserGood ==
    ASSUME TypeOK, RequestOK, RowsOK, NEW u \in User, NEW apps \in SUBSET Client,
           DeleteUser(u, apps)
    PROVE  Good
<1>. USE NoneAssumption
<1>1. UNCHANGED <<req, known, bearer, allowed, appVersion>>
  BY DEF DeleteUser
<1>2. account' \in [User -> [active: BOOLEAN, ver: Version]]
  <2>1. [account[u] EXCEPT !.active = FALSE] \in [active: BOOLEAN, ver: Version]
    <3>1. account[u] \in [active: BOOLEAN, ver: Version]
      BY DEF TypeOK
    <3>. QED BY <3>1
  <2>2. account' = [account EXCEPT ![u] = [account[u] EXCEPT !.active = FALSE]]
    BY DEF DeleteUser
  <2>. QED BY <2>1, <2>2 DEF TypeOK
<1>3. /\ approved' \subseteq Client /\ allowed' \subseteq User \X Client
      /\ appVersion' \in [User \X Client -> Version]
  BY <1>1 DEF TypeOK, DeleteUser
<1>4. codes' \in [Code -> CodeRow] /\ \A k \in Code : RetireCode(k)
  <2>. DEFINE S == {k \in Code : codes[k].user = u \/ codes[k].client \in apps}
  <2>1. \A k \in Code : k \in S => codes[k].st \in {"fresh", "used", "deleted"}
    BY DEF RowsOK, Saved, TypeOK, CodeRow
  <2>2. codes' = [k \in Code |-> IF k \in S THEN [codes[k] EXCEPT !.st = "deleted"] ELSE codes[k]]
    BY DEF DeleteUser
  <2>. HIDE DEF S
  <2>. QED BY <2>1, <2>2, DeleteCodesRetires
<1>5. refresh' \in [Token -> TokenRow] /\ \A t \in Token : RetireToken(t)
  <2>. DEFINE S == {t \in Token : refresh[t].user = u \/ refresh[t].client \in apps}
  <2>1. \A t \in Token : t \in S => Saved(refresh[t])
    BY DEF RowsOK
  <2>2. refresh' = [t \in Token |-> IF t \in S THEN [refresh[t] EXCEPT !.st = "deleted"]
                                               ELSE refresh[t]]
    BY DEF DeleteUser
  <2>. HIDE DEF S
  <2>. QED BY <2>1, <2>2, DeleteTokensRetires
<1>6. consents' \in [Grant -> ConsentRow] /\ ConsentRowsOK'
  <2>. DEFINE S == {g \in Grant : consents[g].user = u \/ consents[g].client \in apps}
  <2>1. \A g \in Grant : g \in S => Saved(consents[g])
    BY DEF RowsOK
  <2>2. consents' = [g \in Grant |-> IF g \in S THEN [consents[g] EXCEPT !.st = "deleted"]
                                                ELSE consents[g]]
    BY DEF DeleteUser
  <2>. HIDE DEF S
  <2>. QED BY <2>1, <2>2, DeleteConsentsOK
<1>. QED BY <1>1, <1>2, <1>3, <1>4, <1>5, <1>6, OutsideGood

LEMMA MaintenanceGood ==
    ASSUME TypeOK, RequestOK, RowsOK,
           \/ CleanupCodes \/ CleanupTokens \/ CleanupConsents
           \/ \E c \in Code : ExpireCode(c)
           \/ \E t \in Token : ExpireToken(t)
    PROVE  Good
<1>1. UNCHANGED <<req, known, bearer, env>>
  BY DEF CleanupCodes, CleanupTokens, CleanupConsents, ExpireCode, ExpireToken
<1>2. /\ account' \in [User -> [active: BOOLEAN, ver: Version]] /\ approved' \subseteq Client
      /\ allowed' \subseteq User \X Client /\ appVersion' \in [User \X Client -> Version]
  BY <1>1 DEF TypeOK, env
<1>3. CASE CleanupCodes
  <2>. DEFINE S == {c \in Code : codes[c].st = "used" \/ (codes[c].st = "fresh" /\ codes[c].expired)}
  <2>1. \A k \in Code : k \in S => codes[k].st \in {"fresh", "used", "deleted"}
    OBVIOUS
  <2>2. codes' = [k \in Code |-> IF k \in S THEN [codes[k] EXCEPT !.st = "deleted"] ELSE codes[k]]
    BY <1>3 DEF CleanupCodes
  <2>. HIDE DEF S
  <2>3. codes' \in [Code -> CodeRow] /\ \A k \in Code : RetireCode(k)
    BY <2>1, <2>2, DeleteCodesRetires
  <2>4. UNCHANGED <<refresh, consents>>
    BY <1>3 DEF CleanupCodes
  <2>. QED BY <1>1, <1>2, <2>3, <2>4, Untouched, OutsideGood
<1>4. CASE CleanupTokens
  <2>. DEFINE S == {t \in Token : Saved(refresh[t]) /\ refresh[t].expired}
  <2>1. \A t \in Token : t \in S => Saved(refresh[t])
    OBVIOUS
  <2>2. refresh' = [t \in Token |-> IF t \in S THEN [refresh[t] EXCEPT !.st = "deleted"]
                                               ELSE refresh[t]]
    BY <1>4 DEF CleanupTokens
  <2>. HIDE DEF S
  <2>3. refresh' \in [Token -> TokenRow] /\ \A t \in Token : RetireToken(t)
    BY <2>1, <2>2, DeleteTokensRetires
  <2>4. UNCHANGED <<codes, consents>>
    BY <1>4 DEF CleanupTokens
  <2>. QED BY <1>1, <1>2, <2>3, <2>4, Untouched, OutsideGood
<1>5. CASE CleanupConsents
  <2>1. PICK S \in SUBSET {g \in Grant : consents[g].st = "revoked"} :
          consents' = [g \in Grant |-> IF g \in S THEN [consents[g] EXCEPT !.st = "deleted"]
                                                  ELSE consents[g]]
    BY <1>5 DEF CleanupConsents
  <2>2. \A g \in Grant : g \in S => Saved(consents[g])
    BY <2>1 DEF Saved
  <2>3. consents' \in [Grant -> ConsentRow] /\ ConsentRowsOK'
    BY <2>1, <2>2, DeleteConsentsOK
  <2>4. UNCHANGED <<codes, refresh>>
    BY <1>5 DEF CleanupConsents
  <2>. QED BY <1>1, <1>2, <2>3, <2>4, Untouched, OutsideGood
<1>6. ASSUME NEW c \in Code, ExpireCode(c) PROVE Good
  <2>1. ASSUME NEW row \in CodeRow
        PROVE  LET x == [row EXCEPT !.expired = TRUE] IN
               /\ x \in CodeRow /\ x.st = row.st /\ x.user = row.user
               /\ x.client = row.client /\ x.scopes = row.scopes
    BY DEF CodeRow
  <2>2. codes' = [codes EXCEPT ![c] = [codes[c] EXCEPT !.expired = TRUE]]
    BY <1>6 DEF ExpireCode
  <2>3. \A k \in Code : codes[k] \in CodeRow
    BY DEF TypeOK
  <2>4. codes' \in [Code -> CodeRow] /\ \A k \in Code : RetireCode(k)
    BY <2>1, <2>2, <2>3 DEF TypeOK, RetireCode
  <2>5. UNCHANGED <<refresh, consents>>
    BY <1>6 DEF ExpireCode
  <2>. QED BY <1>1, <1>2, <2>4, <2>5, Untouched, OutsideGood
<1>7. ASSUME NEW t \in Token, ExpireToken(t) PROVE Good
  <2>1. ASSUME NEW row \in TokenRow
        PROVE  LET x == [row EXCEPT !.expired = TRUE] IN
               /\ x \in TokenRow /\ x.st = row.st /\ x.user = row.user
               /\ x.client = row.client /\ x.scopes = row.scopes /\ x.from = row.from
               /\ x.next = row.next /\ x.origin = row.origin
    BY DEF TokenRow
  <2>2. refresh' = [refresh EXCEPT ![t] = [refresh[t] EXCEPT !.expired = TRUE]]
    BY <1>7 DEF ExpireToken
  <2>3. \A s \in Token : refresh[s] \in TokenRow
    BY DEF TypeOK
  <2>4. refresh' \in [Token -> TokenRow] /\ \A s \in Token : RetireToken(s)
    BY <2>1, <2>2, <2>3 DEF TypeOK, RetireToken
  <2>5. UNCHANGED <<codes, consents>>
    BY <1>7 DEF ExpireToken
  <2>. QED BY <1>1, <1>2, <2>4, <2>5, Untouched, OutsideGood
<1>. QED BY <1>3, <1>4, <1>5, <1>6, <1>7

-----------------------------------------------------------------------------
(* The theorems *)

LEMMA GoodIndInv ==
    ASSUME IndInv, Good
    PROVE  IndInv'
BY RetireTokenInv DEF Good, IndInv, TokenInv

LEMMA StepIndInv ==
    ASSUME IndInv, NEW w \in Worker, Step(w)
    PROVE  IndInv'
<1>. USE DEF IndInv
<1>0. TypeOK /\ RequestOK /\ RowsOK /\ TokenInv
  BY DEF TokenInv
<1>1. CASE AuthorizeAccess(w) \/ AuthorizeConsent(w)
  BY <1>1, AuthorizeReadGood, GoodIndInv
<1>2. CASE SaveAuthorizationCode(w)
  BY <1>0, <1>2, SaveCodeTokenInv, SaveCodeTyped DEF Typed, TokenInv
<1>3. CASE SaveConsent(w)
  BY <1>3, SaveConsentGood, GoodIndInv
<1>4. CASE ConsumeAuthorizationCode(w)
  <2>1. CASE Redeemable(req[w].code, req[w].client, req[w].ok)
    BY <1>0, <1>4, <2>1, ConsumeTokenInv, ConsumeTyped DEF Typed, TokenInv
  <2>2. CASE ~Redeemable(req[w].code, req[w].client, req[w].ok)
    BY <1>4, <2>2, ConsumeFails, GoodIndInv
  <2>. QED BY <2>1, <2>2
<1>5. CASE \/ ReadUser(w, "exchange.user", "exchange.access")
           \/ ReadUser(w, "refresh.user", "refresh.access")
  BY <1>5, ReadUserGood, GoodIndInv
<1>6. CASE \/ CheckAccess(w, "exchange.access", "exchange.version")
           \/ CheckAccess(w, "refresh.access", "refresh.version")
  BY <1>6, CheckAccessGood, GoodIndInv
<1>7. CASE ExchangeVersion(w)
  BY <1>7, ExchangeVersionGood, GoodIndInv
<1>8. CASE SaveRefreshToken(w)
  BY <1>0, <1>8, SaveTokenTokenInv, SaveTokenTyped DEF Typed, TokenInv
<1>9. CASE RotateRefreshToken(w)
  <2>1. CASE Rotatable(req[w].token, req[w].client)
    BY <1>0, <1>9, <2>1, RotateTokenInv, RotateTyped DEF Typed, TokenInv
  <2>2. CASE ~Rotatable(req[w].token, req[w].client)
    BY <1>9, <2>2, RotateFails, GoodIndInv
  <2>. QED BY <2>1, <2>2
<1>10. CASE RevokeOnReuse(w) \/ RevokeTokenWrite(w) \/ RevokeConsentTokens(w)
  BY <1>10, RevokeGood, GoodIndInv
<1>11. CASE RefreshRespond(w)
  BY <1>11, RefreshRespondGood, GoodIndInv
<1>12. CASE RevokeConsentWrite(w)
  BY <1>12, RevokeConsentWriteGood, GoodIndInv
<1>. QED BY <1>1, <1>2, <1>3, <1>4, <1>5, <1>6, <1>7, <1>8, <1>9, <1>10, <1>11, <1>12 DEF Step

LEMMA EnvironmentIndInv ==
    ASSUME IndInv, Environment
    PROVE  IndInv'
<1>. USE DEF IndInv
<1>1. CASE \E u \in User, apps \in SUBSET Client : DeleteUser(u, apps)
  BY <1>1, DeleteUserGood, GoodIndInv
<1>2. CASE \E u \in User, a \in BOOLEAN, v \in Version :
             UpdateUser(u, a, v) \/ UpdateUserAndInvalidateAuth(u, a, v)
  BY <1>2, AccountGood, GoodIndInv
<1>3. CASE \E u \in User, c \in Client :
             \/ RevokeRefreshTokensByUserClient(u, c)
             \/ ChangeAccess(u, c) \/ BumpAppUserAccessVersion(u, c)
  BY <1>3, RevokeOutsideGood, AccessGood, GoodIndInv
<1>4. CASE \/ CleanupCodes \/ CleanupTokens \/ CleanupConsents
           \/ \E c \in Code : ExpireCode(c)
           \/ \E t \in Token : ExpireToken(t)
  BY <1>4, MaintenanceGood, GoodIndInv
<1>5. CASE \E u \in User : RevokeRefreshTokensByUser(u)
  BY <1>5, RevokeOutsideGood, GoodIndInv
<1>6. CASE \E c \in Client : ChangeAppStatus(c)
  BY <1>6, AccessGood, GoodIndInv
<1>. QED BY <1>1, <1>2, <1>3, <1>4, <1>5, <1>6 DEF Environment

LEMMA InitIndInv == Init => IndInv
<1>. SUFFICES ASSUME Init PROVE IndInv
  OBVIOUS
<1>. USE NoneAssumption
<1>1. TypeOK
  <2>1. NoCode \in CodeRow /\ NoToken \in TokenRow /\ NoConsent \in ConsentRow
    BY DEF NoCode, CodeRow, NoToken, TokenRow, NoConsent, ConsentRow
  <2>2. 1 \in Version
    BY MaxVersionAssumption DEF Version
  <2>. QED BY <2>1, <2>2, IdleRequest DEF Init, TypeOK
<1>2. RequestOK
  BY IdleRequest DEF Init, RequestOK, WellFormed
<1>3. /\ \A k \in Code : ~Saved(codes[k]) /\ codes[k].user = None /\ codes[k].client = None
      /\ \A t \in Token : /\ ~Saved(refresh[t]) /\ refresh[t].st = "absent"
                          /\ refresh[t].user = None /\ refresh[t].client = None
                          /\ refresh[t].from = None /\ refresh[t].next = None
      /\ \A g \in Grant : ~Saved(consents[g]) /\ consents[g].user = None
                            /\ consents[g].client = None
  BY DEF Init, Saved, NoCode, NoToken, NoConsent
<1>4. RowsOK /\ AtMostOneLiveToken /\ RotationChain
  BY <1>3 DEF RowsOK, AtMostOneLiveToken, RotationChain
<1>5. \A w \in Worker, k \in Code : ~Redeeming(w, k)
  BY IdleRequest DEF Init, Redeeming
<1>6. RedeemingOK /\ RedeemedOnce
  BY <1>3, <1>5 DEF RedeemingOK, RedeemedOnce, Family
<1>. QED BY <1>1, <1>2, <1>4, <1>6 DEF IndInv

\* The inductive invariant holds in every reachable state: every step of every
\* handler, of the other services and of the clock keeps it.
THEOREM TokenStoreInvariant == Spec => []IndInv
<1>1. IndInv /\ [Next]_vars => IndInv'
  <2>. SUFFICES ASSUME IndInv, [Next]_vars PROVE IndInv'
    OBVIOUS
  <2>1. CASE UNCHANGED vars
    BY <2>1 DEF vars, IndInv, TypeOK, RequestOK, WellFormed, RowsOK, RedeemingOK, Redeeming,
                AtMostOneLiveToken, RedeemedOnce, Family, RotationChain, Saved
  <2>2. ASSUME NEW w \in Worker, Step(w) PROVE IndInv'
    BY <2>2, StepIndInv
  <2>3. ASSUME NEW w \in Worker, Arrive(w) PROVE IndInv'
    BY <2>3, ArriveGood, GoodIndInv DEF IndInv
  <2>4. ASSUME NEW w \in Worker, Abort(w) PROVE IndInv'
    BY <2>4, FailGood, GoodIndInv DEF IndInv, Abort
  <2>5. CASE Environment
    BY <2>5, EnvironmentIndInv
  <2>. QED BY <2>1, <2>2, <2>3, <2>4, <2>5 DEF Next
<1>. QED BY <1>1, InitIndInv, PTL DEF Spec

\* Every row, request and answer of the token endpoint keeps its type.
THEOREM TypeCorrect == Spec => []TypeOK
<1>1. IndInv => TypeOK
  BY DEF IndInv
<1>. QED BY <1>1, TokenStoreInvariant, PTL

\* However many requests exchange, rotate, replay and revoke concurrently, at
\* most one refresh token descending from an authorization code is live.
THEOREM OneLiveToken == Spec => []AtMostOneLiveToken
<1>1. IndInv => AtMostOneLiveToken
  BY DEF IndInv
<1>. QED BY <1>1, TokenStoreInvariant, PTL

\* An authorization code starts at most one family of refresh tokens, and at
\* most one request at a time is redeeming it.
THEOREM CodeRedeemedOnce == Spec => []RedeemedOnce
<1>1. IndInv => RedeemedOnce
  BY DEF IndInv
<1>. QED BY <1>1, TokenStoreInvariant, PTL

\* Rotation links the tokens of a family into a chain that never changes user,
\* client or scopes.
THEOREM RotationKeepsGrant == Spec => []RotationChain
<1>1. IndInv => RotationChain
  BY DEF IndInv
<1>. QED BY <1>1, TokenStoreInvariant, PTL
-----------------------------------------------------------------------------
(* What is held was granted *)

\* No step takes back a saved row or rewrites its columns.
ConsentsStay ==
    \A g \in Grant : Saved(consents[g]) =>
         /\ Saved(consents[g])'
         /\ consents'[g].user = consents[g].user
         /\ consents'[g].client = consents[g].client
         /\ consents'[g].scopes = consents[g].scopes

RowsStay ==
    /\ \A k \in Code : Saved(codes[k]) =>
         /\ Saved(codes[k])'
         /\ codes'[k].user = codes[k].user
         /\ codes'[k].client = codes[k].client
         /\ codes'[k].scopes = codes[k].scopes
    /\ ConsentsStay

\* A refresh token descends from a code that has left.
OriginsKnown ==
    \A t \in Token : Saved(refresh[t])' => refresh'[t].origin \in known'

\* The request of w is the one before, or carries what it must.
RequestStays(w) == req'[w] = req[w] \/ CarriesConsent(req[w])'

\* The steps that hand out no code: HeldInv is kept by keeping the rows.
LEMMA HeldStays ==
    ASSUME HeldInv, RequestOK, RowsStay, OriginsKnown, known \subseteq known',
           known' \cap Code \subseteq known,
           \A w \in Worker : RequestStays(w)
    PROVE  HeldInv'
<1>1. (\A k \in Code \cap known :
         Saved(codes[k]) /\ Consented(codes[k].user, codes[k].client, codes[k].scopes))'
  <2>. SUFFICES ASSUME NEW k \in Code, k \in known'
                PROVE  /\ Saved(codes[k])'
                       /\ Consented(codes[k].user, codes[k].client, codes[k].scopes)'
    OBVIOUS
  <2>1. Saved(codes[k]) /\ Consented(codes[k].user, codes[k].client, codes[k].scopes)
    BY DEF HeldInv
  <2>. QED BY <2>1 DEF RowsStay, ConsentsStay, Consented
<1>2. ASSUME NEW w \in Worker
      PROVE  CarriesConsent(req[w])'
  <2>1. CASE req'[w] = req[w]
    <3>1. CarriesConsent(req[w]) /\ WellFormed(req[w])
      BY DEF HeldInv, RequestOK
    <3>. QED BY <2>1, <3>1 DEF CarriesConsent, RowsStay, ConsentsStay, Consented, WellFormed
  <2>2. CASE CarriesConsent(req[w])'
    BY <2>2
  <2>. QED BY <2>1, <2>2 DEF RequestStays
<1>. QED BY <1>1, <1>2 DEF HeldInv, OriginsKnown
\* A step that only retires rows, of a handler or of another service.
LEMMA RetiringHeld ==
    ASSUME HeldInv, RequestOK, Retire, ConsentsStay, UNCHANGED known,
           \A w \in Worker : RequestStays(w)
    PROVE  HeldInv'
<1>1. RowsStay
  BY DEF Retire, RetireCode, RowsStay, Saved
<1>2. OriginsKnown
  BY DEF Retire, RetireToken, OriginsKnown, HeldInv, Saved
<1>. QED BY <1>1, <1>2, HeldStays

\* A step that only moves a request.
LEMMA ReadingHeld ==
    ASSUME HeldInv, RequestOK, UNCHANGED <<store, known>>,
           \A w \in Worker : RequestStays(w)
    PROVE  HeldInv'
<1>1. RowsStay /\ OriginsKnown
  BY DEF RowsStay, ConsentsStay, OriginsKnown, HeldInv, store, Saved
<1>. QED BY <1>1, HeldStays DEF store

LEMMA FinishStays ==
    ASSUME TypeOK, NEW w \in Worker, Finish(w)
    PROVE  \A v \in Worker : RequestStays(v)
<1>1. req'[w].pc = "idle" /\ \A v \in Worker \ {w} : req'[v] = req[v]
  BY IdleRequest DEF TypeOK, Finish
<1>. QED BY <1>1 DEF RequestStays, CarriesConsent

LEMMA FailHeld ==
    ASSUME TypeOK, HeldInv, RequestOK, NEW w \in Worker, Fail(w)
    PROVE  HeldInv'
BY FinishStays, ReadingHeld DEF Fail

LEMMA ArriveHeld ==
    ASSUME TypeOK, HeldInv, RequestOK, NEW w \in Worker, Arrive(w)
    PROVE  HeldInv'
<1>1. UNCHANGED <<store, known>>
  BY DEF Arrive, Authorize, ExchangeCode, RefreshToken, RevokeToken, RevokeConsent
<1>2. \A v \in Worker \ {w} : req'[v] = req[v]
  BY DEF Arrive, Authorize, ExchangeCode, RefreshToken, RevokeToken, RevokeConsent, TypeOK
<1>3. \/ /\ req'[w].pc = "exchange.consume"
         /\ req'[w].code \in known
      \/ req'[w].pc \in {"authorize.access", "refresh.rotate", "revoke.write", "consent.revoke"}
  <2>1. CASE \E u \in User, c \in Client, s \in Scopes, a \in BOOLEAN : Authorize(w, u, c, s, a)
    BY <2>1 DEF Authorize, TypeOK, Idle
  <2>2. CASE \E c \in Client, k \in Code, m \in BOOLEAN : ExchangeCode(w, c, k, m)
    BY <2>2 DEF ExchangeCode, TypeOK, Idle
  <2>3. CASE \E c \in Client, t \in Token : RefreshToken(w, c, t)
    BY <2>3 DEF RefreshToken, TypeOK, Idle
  <2>4. CASE \E c \in Client, t \in Token : RevokeToken(w, c, t)
    BY <2>4 DEF RevokeToken, TypeOK, Idle
  <2>5. CASE \E g \in Grant : RevokeConsent(w, g)
    BY <2>5 DEF RevokeConsent, TypeOK, Idle
  <2>. QED BY <2>1, <2>2, <2>3, <2>4, <2>5 DEF Arrive
<1>4. CarriesConsent(req[w])'
  BY <1>1, <1>3 DEF CarriesConsent
<1>. QED BY <1>1, <1>2, <1>4, ReadingHeld DEF RequestStays

\* The reads of the two handlers, whether they go on or fail.
LEMMA ReadsHeld ==
    ASSUME TypeOK, HeldInv, RequestOK, NEW w \in Worker,
           \/ AuthorizeAccess(w) \/ AuthorizeConsent(w) \/ ExchangeVersion(w)
           \/ ReadUser(w, "exchange.user", "exchange.access")
           \/ ReadUser(w, "refresh.user", "refresh.access")
           \/ CheckAccess(w, "exchange.access", "exchange.version")
           \/ CheckAccess(w, "refresh.access", "refresh.version")
    PROVE  HeldInv'
<1>0. CarriesConsent(req[w]) /\ req[w] \in Request
  BY DEF HeldInv, TypeOK
<1>1. CASE AuthorizeAccess(w) /\ ~Fail(w)
  <2>1. UNCHANGED <<store, known>> /\ req' = [req EXCEPT ![w].pc = "authorize.consent"]
    BY <1>1 DEF AuthorizeAccess, Goto
  <2>2. req'[w].pc = "authorize.consent" /\ \A v \in Worker \ {w} : req'[v] = req[v]
    BY <2>1, <1>0 DEF TypeOK, Request
  <2>. QED BY <2>1, <2>2, ReadingHeld DEF RequestStays, CarriesConsent
<1>2. CASE AuthorizeConsent(w) /\ ~Fail(w)
  <2>. DEFINE has == HasConsent(req[w].user, req[w].client, req[w].scopes)
  <2>1. /\ UNCHANGED <<store, known>>
        /\ req' = [req EXCEPT ![w].pc = "authorize.code", ![w].ok = has]
    BY <1>2 DEF AuthorizeConsent
  <2>2. /\ req'[w].pc = "authorize.code" /\ req'[w].ok = has
        /\ req'[w].user = req[w].user /\ req'[w].client = req[w].client
        /\ req'[w].scopes = req[w].scopes
        /\ \A v \in Worker \ {w} : req'[v] = req[v]
    BY <2>1, <1>0 DEF TypeOK, Request
  <2>3. has => Consented(req[w].user, req[w].client, req[w].scopes)
    BY DEF HasConsent, Consented, Saved
  <2>. HIDE DEF has
  <2>4. CarriesConsent(req[w])'
    BY <2>1, <2>2, <2>3 DEF CarriesConsent, Consented, Saved, store
  <2>. QED BY <2>1, <2>2, <2>4, ReadingHeld DEF RequestStays
<1>3. CASE /\ ~Fail(w)
           /\ \/ ReadUser(w, "exchange.user", "exchange.access")
              \/ CheckAccess(w, "exchange.access", "exchange.version")
              \/ ExchangeVersion(w)
  <2>1. /\ UNCHANGED <<store, known>>
        /\ req[w].pc \in {"exchange.user", "exchange.access", "exchange.version"}
        /\ req'[w].pc \in {"exchange.access", "exchange.version", "exchange.save"}
        /\ req'[w].code = req[w].code
        /\ \A v \in Worker \ {w} : req'[v] = req[v]
    BY <1>3, <1>0 DEF ReadUser, CheckAccess, ExchangeVersion, Goto, TypeOK, Request
  <2>2. CarriesConsent(req[w])'
    BY <2>1, <1>0 DEF CarriesConsent
  <2>. QED BY <2>1, <2>2, ReadingHeld DEF RequestStays
<1>4. CASE /\ ~Fail(w)
           /\ \/ ReadUser(w, "refresh.user", "refresh.access")
              \/ CheckAccess(w, "refresh.access", "refresh.version")
  <2>1. /\ UNCHANGED <<store, known>>
        /\ req'[w].pc \in {"refresh.access", "refresh.version"}
        /\ \A v \in Worker \ {w} : req'[v] = req[v]
    BY <1>4, <1>0 DEF ReadUser, CheckAccess, Goto, TypeOK, Request
  <2>. QED BY <2>1, ReadingHeld DEF RequestStays, CarriesConsent
<1>. QED BY <1>1, <1>2, <1>3, <1>4, FailHeld

\* The code leaves at once when a consent row was found, and stays when not.
LEMMA SaveCodeHeld ==
    ASSUME ~MayFail, TypeOK, HeldInv, RequestOK, NEW w \in Worker, SaveAuthorizationCode(w)
    PROVE  HeldInv'
<1>1. PICK c \in Code :
        /\ req[w].pc = "authorize.code"
        /\ codes[c].st = "absent"
        /\ codes' = [codes EXCEPT ![c] = [st |-> "fresh", user |-> req[w].user,
                                          client |-> req[w].client,
                                          scopes |-> req[w].scopes, expired |-> FALSE]]
        /\ IF req[w].ok
           THEN Finish(w) /\ known' = known \cup {c}
           ELSE /\ req' = [req EXCEPT ![w].pc = "authorize.grant", ![w].code = c]
                /\ UNCHANGED known
        /\ UNCHANGED <<refresh, consents>>
  BY DEF SaveAuthorizationCode, Insert
<1>2. /\ Saved(codes[c])' /\ codes'[c].user = req[w].user
      /\ codes'[c].client = req[w].client /\ codes'[c].scopes = req[w].scopes
      /\ \A k \in Code \ {c} : codes'[k] = codes[k]
  BY <1>1 DEF TypeOK, Saved
<1>3. RowsStay
  BY <1>1, <1>2 DEF RowsStay, ConsentsStay, Saved
<1>4. OriginsKnown
  BY <1>1 DEF OriginsKnown, HeldInv, Saved
<1>5. CASE ~req[w].ok
  <2>1. /\ req'[w].pc = "authorize.grant" /\ req'[w].code = c
        /\ req'[w].user = req[w].user /\ req'[w].client = req[w].client
        /\ req'[w].scopes = req[w].scopes
        /\ \A v \in Worker \ {w} : req'[v] = req[v]
    BY <1>1, <1>5 DEF TypeOK, Request
  <2>2. CarriesConsent(req[w])'
    BY <1>2, <2>1 DEF CarriesConsent
  <2>3. UNCHANGED known
    BY <1>1, <1>5
  <2>. QED BY <1>3, <1>4, <2>1, <2>2, <2>3, HeldStays DEF RequestStays
<1>6. CASE req[w].ok
  <2>1. Finish(w) /\ known' = known \cup {c}
    BY <1>1, <1>6
  <2>2. Consented(codes[c].user, codes[c].client, codes[c].scopes)'
    <3>1. Consented(req[w].user, req[w].client, req[w].scopes)
      BY <1>1, <1>6 DEF HeldInv, CarriesConsent
    <3>. QED BY <1>1, <1>2, <3>1 DEF Consented, Saved
  <2>3. ASSUME NEW k \in Code, k \in known, k # c
        PROVE  /\ Saved(codes[k])'
               /\ Consented(codes[k].user, codes[k].client, codes[k].scopes)'
    <3>1. Saved(codes[k]) /\ Consented(codes[k].user, codes[k].client, codes[k].scopes)
      BY <2>3 DEF HeldInv
    <3>2. codes'[k] = codes[k]
      BY <1>2, <2>3
    <3>. QED BY <1>1, <3>1, <3>2 DEF Consented, Saved
  <2>4. ASSUME NEW v \in Worker
        PROVE  CarriesConsent(req[v])'
    <3>1. CASE v = w
      BY <2>1, <3>1, IdleRequest DEF Finish, TypeOK, CarriesConsent
    <3>2. CASE v # w
      <4>1. req'[v] = req[v] /\ CarriesConsent(req[v]) /\ WellFormed(req[v])
        BY <2>1, <3>2 DEF Finish, TypeOK, HeldInv, RequestOK
      <4>. QED BY <1>1, <1>3, <2>1, <4>1
               DEF CarriesConsent, RowsStay, WellFormed, Consented, Saved
    <3>. QED BY <3>1, <3>2
  <2>. QED BY <1>2, <1>4, <2>1, <2>2, <2>3, <2>4 DEF HeldInv, OriginsKnown
<1>. QED BY <1>5, <1>6
\* The consent row is saved before the response carries the code out.
LEMMA SaveConsentHeld ==
    ASSUME ~MayFail, TypeOK, HeldInv, RequestOK, NEW w \in Worker, SaveConsent(w)
    PROVE  HeldInv'
<1>. DEFINE c == req[w].code
<1>1. PICK g \in Grant :
        /\ req[w].pc = "authorize.grant"
        /\ consents[g].st = "absent"
        /\ consents' = [consents EXCEPT ![g] = [st |-> "live", user |-> req[w].user,
                                                client |-> req[w].client,
                                                scopes |-> req[w].scopes]]
        /\ known' = known \cup {c}
        /\ Finish(w)
        /\ UNCHANGED <<codes, refresh>>
  BY DEF SaveConsent
<1>2. /\ consents'[g].st = "live" /\ consents'[g].user = req[w].user
      /\ consents'[g].client = req[w].client /\ consents'[g].scopes = req[w].scopes
      /\ \A h \in Grant \ {g} : consents'[h] = consents[h]
  BY <1>1 DEF TypeOK
<1>3. RowsStay
  BY <1>1, <1>2 DEF RowsStay, ConsentsStay, Saved
<1>4. OriginsKnown
  BY <1>1 DEF OriginsKnown, HeldInv, Saved
<1>5. /\ c \in Code /\ Saved(codes[c])
      /\ codes[c].user = req[w].user
      /\ codes[c].client = req[w].client
      /\ codes[c].scopes = req[w].scopes
      /\ req[w].scopes \subseteq req[w].scopes
  BY <1>1 DEF HeldInv, CarriesConsent, RequestOK, WellFormed
<1>6. ASSUME NEW k \in Code, k \in known'
      PROVE  /\ Saved(codes[k])'
             /\ Consented(codes[k].user, codes[k].client, codes[k].scopes)'
  <2>1. CASE k = c
    BY <1>1, <1>2, <1>5, <2>1 DEF Consented, Saved
  <2>2. CASE k # c
    <3>1. Saved(codes[k]) /\ Consented(codes[k].user, codes[k].client, codes[k].scopes)
      BY <1>1, <1>6, <2>2 DEF HeldInv
    <3>. QED BY <1>1, <1>3, <3>1 DEF RowsStay, ConsentsStay, Consented
  <2>. QED BY <2>1, <2>2
<1>7. ASSUME NEW v \in Worker
      PROVE  CarriesConsent(req[v])'
  <2>1. CASE v = w
    BY <1>1, <2>1, IdleRequest DEF Finish, TypeOK, CarriesConsent
  <2>2. CASE v # w
    <3>1. req'[v] = req[v] /\ CarriesConsent(req[v])
      BY <1>1, <2>2 DEF Finish, TypeOK, HeldInv
    <3>. QED BY <1>1, <1>3, <3>1
             DEF CarriesConsent, RowsStay, ConsentsStay, Consented, Saved
  <2>. QED BY <2>1, <2>2
<1>. QED BY <1>4, <1>6, <1>7 DEF HeldInv, OriginsKnown

LEMMA ConsumeHeld ==
    ASSUME TypeOK, HeldInv, RequestOK, NEW w \in Worker, ConsumeAuthorizationCode(w)
    PROVE  HeldInv'
<1>. DEFINE k == req[w].code
<1>1. CASE Redeemable(k, req[w].client, req[w].ok)
  <2>1. /\ req[w].pc = "exchange.consume"
        /\ codes[k].st = "fresh"
        /\ codes' = [codes EXCEPT ![k].st = "used"]
        /\ req' = [req EXCEPT ![w].pc = "exchange.user", ![w].user = codes[k].user,
                              ![w].scopes = codes[k].scopes]
        /\ UNCHANGED <<refresh, consents, known>>
    BY <1>1 DEF ConsumeAuthorizationCode, Redeemable
  <2>2. k \in Code /\ k \in known
    BY <2>1 DEF RequestOK, WellFormed, HeldInv, CarriesConsent
  <2>3. RowsStay /\ OriginsKnown
    BY <2>1, <2>2 DEF RowsStay, ConsentsStay, OriginsKnown, HeldInv, Saved, TypeOK, CodeRow
  <2>4. /\ req'[w].pc = "exchange.user" /\ req'[w].code = k
        /\ \A v \in Worker \ {w} : req'[v] = req[v]
    BY <2>1 DEF TypeOK, Request
  <2>5. CarriesConsent(req[w])'
    BY <2>1, <2>2, <2>4 DEF CarriesConsent
  <2>. QED BY <2>1, <2>3, <2>4, <2>5, HeldStays DEF RequestStays
<1>2. CASE ~Redeemable(k, req[w].client, req[w].ok)
  BY <1>2, FailHeld DEF ConsumeAuthorizationCode
<1>. QED BY <1>1, <1>2

LEMMA SaveTokenHeld ==
    ASSUME TypeOK, HeldInv, RequestOK, NEW w \in Worker, SaveRefreshToken(w)
    PROVE  HeldInv'
<1>1. PICK n \in Token :
        /\ \E row \in Insert([st |-> "live", user |-> req[w].user,
                              client |-> req[w].client, scopes |-> req[w].scopes,
                              from |-> None, next |-> None, expired |-> FALSE,
                              origin |-> req[w].code], NoToken) :
             refresh' = [refresh EXCEPT ![n] = row]
        /\ known' = known \cup {n}
  BY DEF SaveRefreshToken
<1>2. req[w].pc = "exchange.save" /\ Finish(w) /\ UNCHANGED <<codes, consents>>
  BY DEF SaveRefreshToken
<1>3. req[w].code \in known
  BY <1>2 DEF HeldInv, CarriesConsent
<1>4. /\ \A t \in Token \ {n} : refresh'[t] = refresh[t]
      /\ refresh'[n].origin = req[w].code \/ refresh'[n].st = "lost"
  BY <1>1 DEF TypeOK, Insert, NoToken
<1>5. OriginsKnown
  BY <1>1, <1>3, <1>4 DEF OriginsKnown, HeldInv, Saved
<1>6. RowsStay
  BY <1>2 DEF RowsStay, ConsentsStay, Saved
<1>7. known \subseteq known' /\ known' \cap Code \subseteq known
  BY <1>1, ValuesAssumption
<1>. QED BY <1>2, <1>5, <1>6, <1>7, FinishStays, HeldStays

LEMMA RotateHeld ==
    ASSUME TypeOK, HeldInv, RequestOK, NEW w \in Worker, RotateRefreshToken(w)
    PROVE  HeldInv'
<1>. DEFINE t == req[w].token
<1>1. CASE Rotatable(t, req[w].client)
  <2>1. /\ req[w].pc = "refresh.rotate"
        /\ refresh[t].st = "live"
        /\ UNCHANGED <<codes, consents, known>>
    BY <1>1 DEF RotateRefreshToken, Rotatable, Replayed, Fail, store
  <2>2. PICK n \in Token :
          /\ refresh[n].st = "absent"
          /\ Rotate(t, n)
          /\ req' = [req EXCEPT ![w].pc = "refresh.user", ![w].user = refresh[t].user,
                                ![w].scopes = refresh[t].scopes, ![w].token = n]
    BY <1>1 DEF RotateRefreshToken, Rotatable, Replayed
  <2>3. t \in Token /\ t # n
    BY <2>1, <2>2 DEF RequestOK, WellFormed
  <2>4. /\ \A s \in Token \ {t, n} : refresh'[s] = refresh[s]
        /\ refresh'[t].origin = refresh[t].origin
        /\ refresh'[n].origin = refresh[t].origin
    BY <2>2, <2>3 DEF Rotate, TypeOK, TokenRow
  <2>5. refresh[t].origin \in known
    BY <2>1, <2>3 DEF HeldInv, Saved
  <2>6. RowsStay /\ OriginsKnown
    BY <2>1, <2>4, <2>5 DEF RowsStay, ConsentsStay, OriginsKnown, HeldInv, Saved
  <2>7. req'[w].pc = "refresh.user" /\ \A v \in Worker \ {w} : req'[v] = req[v]
    BY <2>2 DEF TypeOK, Request
  <2>. QED BY <2>1, <2>6, <2>7, HeldStays DEF RequestStays, CarriesConsent
<1>2. CASE ~Rotatable(t, req[w].client) /\ Replayed(t, req[w].client) /\ ~Fail(w)
  <2>1. /\ UNCHANGED <<store, known>>
        /\ req' = [req EXCEPT ![w].pc = "refresh.reuse", ![w].user = refresh[t].user]
    BY <1>2 DEF RotateRefreshToken
  <2>2. req'[w].pc = "refresh.reuse" /\ \A v \in Worker \ {w} : req'[v] = req[v]
    BY <2>1 DEF TypeOK, Request
  <2>. QED BY <2>1, <2>2, ReadingHeld DEF RequestStays, CarriesConsent
<1>3. CASE Fail(w)
  BY <1>3, FailHeld
<1>. QED BY <1>1, <1>2, <1>3 DEF RotateRefreshToken

LEMMA RespondHeld ==
    ASSUME TypeOK, HeldInv, RequestOK, NEW w \in Worker, RefreshRespond(w)
    PROVE  HeldInv'
<1>1. /\ req[w].pc = "refresh.version" /\ known' = known \cup {req[w].token}
      /\ Finish(w) /\ UNCHANGED store
  BY DEF RefreshRespond
<1>2. req[w].token \in Token
  BY <1>1 DEF RequestOK, WellFormed
<1>3. known \subseteq known' /\ known' \cap Code \subseteq known
  BY <1>1, <1>2, ValuesAssumption
<1>4. RowsStay /\ OriginsKnown
  BY <1>1 DEF RowsStay, ConsentsStay, OriginsKnown, HeldInv, store, Saved
<1>. QED BY <1>1, <1>3, <1>4, FinishStays, HeldStays

LEMMA RevokingHeld ==
    ASSUME IndInv, HeldInv, NEW w \in Worker,
           \/ RevokeOnReuse(w) \/ RevokeTokenWrite(w) \/ RevokeConsentTokens(w)
           \/ RevokeConsentWrite(w)
    PROVE  HeldInv'
<1>. USE DEF IndInv
<1>1. Retire
  BY RevokeGood, RevokeConsentWriteGood DEF Good
<1>2. UNCHANGED known
  BY DEF RevokeOnReuse, RevokeTokenWrite, RevokeConsentTokens, RevokeConsentWrite
<1>3. ConsentsStay
  BY DEF RevokeOnReuse, RevokeTokenWrite, RevokeConsentTokens, RevokeConsentWrite,
         ConsentsStay, Saved, TypeOK, ConsentRow
<1>4. \A v \in Worker : RequestStays(v)
  <2>1. CASE Finish(w)
    BY <2>1, FinishStays
  <2>2. CASE Goto(w, "consent.tokens")
    <3>1. req'[w].pc = "consent.tokens" /\ \A v \in Worker \ {w} : req'[v] = req[v]
      BY <2>2 DEF Goto, TypeOK, Request
    <3>. QED BY <3>1 DEF RequestStays, CarriesConsent
  <2>. QED BY <2>1, <2>2
           DEF RevokeOnReuse, RevokeTokenWrite, RevokeConsentTokens, RevokeConsentWrite
<1>. QED BY <1>1, <1>2, <1>3, <1>4, RetiringHeld

\* The other services only retire rows and leave the requests alone.
LEMMA EnvironmentHeld ==
    ASSUME IndInv, HeldInv, Environment
    PROVE  HeldInv'
<1>. USE DEF IndInv
<1>1. Retire
  BY DeleteUserGood, AccountGood, RevokeOutsideGood, AccessGood, MaintenanceGood
     DEF Good, Environment
<1>2. UNCHANGED <<req, known>>
  BY DEF Environment, RevokeRefreshTokensByUser, RevokeRefreshTokensByUserClient, UpdateUser,
         UpdateUserAndInvalidateAuth, DeleteUser, ChangeAccess, BumpAppUserAccessVersion,
         ChangeAppStatus, CleanupCodes, CleanupTokens, CleanupConsents, ExpireCode, ExpireToken,
         store, env
<1>3. ConsentsStay
  <2>1. CASE UNCHANGED consents
    BY <2>1 DEF ConsentsStay, Saved
  <2>2. CASE CleanupConsents
    BY <2>2 DEF CleanupConsents, ConsentsStay, Saved, TypeOK, ConsentRow
  <2>3. ASSUME NEW u \in User, NEW apps \in SUBSET Client, DeleteUser(u, apps)
        PROVE  ConsentsStay
    BY <2>3 DEF DeleteUser, ConsentsStay, Saved, TypeOK, ConsentRow
  <2>. QED BY <2>1, <2>2, <2>3
           DEF Environment, RevokeRefreshTokensByUser, RevokeRefreshTokensByUserClient,
               UpdateUser, UpdateUserAndInvalidateAuth, ChangeAccess, BumpAppUserAccessVersion,
               ChangeAppStatus, CleanupCodes, CleanupTokens, ExpireCode, ExpireToken, store
<1>. QED BY <1>1, <1>2, <1>3, RetiringHeld DEF RequestStays

LEMMA NextHeld ==
    ASSUME ~MayFail, IndInv, HeldInv, [Next]_vars
    PROVE  HeldInv'
<1>1. CASE UNCHANGED vars
  BY <1>1, ReadingHeld DEF vars, store, RequestStays, IndInv
<1>2. ASSUME NEW w \in Worker, Step(w) \/ Arrive(w) \/ Abort(w)
      PROVE  HeldInv'
  <2>. USE DEF IndInv
  <2>. QED BY <1>2, ReadsHeld, SaveCodeHeld, SaveConsentHeld, ConsumeHeld, SaveTokenHeld,
              RotateHeld, RespondHeld, RevokingHeld, ArriveHeld, FailHeld DEF Step, Abort
<1>. QED BY <1>1, <1>2, EnvironmentHeld DEF Next

\* Whatever code or refresh token a client holds, a consent row of the user covers it, at
\* whatever statement the requests stop (SaveConsent runs before the redirect leaves). It
\* rests on the INSERTs that drop their error succeeding: SaveConsent answers either way.
THEOREM HeldTokensAreConsented ==
    ASSUME ~MayFail
    PROVE  Spec => []HeldIsConsented
<1>1. IndInv /\ HeldInv => HeldIsConsented
  <2>. SUFFICES ASSUME IndInv, HeldInv, NEW k \in Code, k \in known \/ Family(k) # {}
                PROVE  Consented(codes[k].user, codes[k].client, codes[k].scopes)
    BY DEF HeldIsConsented, Consented
  <2>1. k \in known
    BY DEF Family, HeldInv
  <2>. QED BY <2>1 DEF HeldInv
<1>2. Init => HeldInv
  BY IdleRequest DEF Init, HeldInv, CarriesConsent, Saved, NoToken
<1>3. IndInv /\ HeldInv /\ [Next]_vars => HeldInv'
  BY NextHeld
<1>. QED BY <1>1, <1>2, <1>3, TokenStoreInvariant, PTL DEF Spec
-----------------------------------------------------------------------------
(* The token endpoint implements the abstract grant *)

\* What is expired stays expired.
ExpiryStays ==
    /\ \A k \in Code : codes[k].expired => codes'[k].expired
    /\ \A t \in Token : refresh[t].expired => refresh'[t].expired

\* A grant stays where it is or ends.
StaysOrEnds(k) == Phase(k)' = Phase(k) \/ (Phase(k) # "none" /\ Phase(k)' = "over")

LiveIn(k) == \E t \in Family(k) : refresh[t].st = "live" /\ ~refresh[t].expired

LEMMA PhaseCases ==
    ASSUME NEW k \in Code
    PROVE  /\ Phase(k) = "none" <=> ~Saved(codes[k])
           /\ Phase(k) = "code" <=> codes[k].st = "fresh" /\ ~codes[k].expired
           /\ Phase(k) = "redeeming" <=>
                /\ Saved(codes[k]) /\ ~(codes[k].st = "fresh" /\ ~codes[k].expired)
                /\ \E w \in Worker : Redeeming(w, k)
           /\ Phase(k) = "token" <=>
                /\ Saved(codes[k]) /\ ~(codes[k].st = "fresh" /\ ~codes[k].expired)
                /\ ~\E w \in Worker : Redeeming(w, k)
                /\ LiveIn(k)
           /\ Phase(k) \in {"none", "code", "redeeming", "token", "over"}
BY DEF Phase, Saved, LiveIn

LEMMA RetireEnds ==
    ASSUME IndInv, Retire, ExpiryStays, NEW k \in Code
    PROVE  StaysOrEnds(k)
<1>. USE DEF IndInv
<1>1. Saved(codes[k])' <=> Saved(codes[k])
  BY DEF Retire, RetireCode, Saved
<1>2. (codes[k].st = "fresh" /\ ~codes[k].expired)' => codes[k].st = "fresh" /\ ~codes[k].expired
  BY DEF Retire, RetireCode, ExpiryStays
<1>3. (\E w \in Worker : Redeeming(w, k))' => \E w \in Worker : Redeeming(w, k)
  BY DEF Retire, NoRedemptionStarts
<1>4. LiveIn(k)' => LiveIn(k)
  BY DEF Retire, RetireToken, LiveIn, Family, Saved, ExpiryStays
<1>5. codes[k].st = "fresh" => ~LiveIn(k) /\ ~\E w \in Worker : Redeeming(w, k)
  BY DEF RedeemedOnce, LiveIn, Family, RedeemingOK
<1>6. (\E w \in Worker : Redeeming(w, k)) => ~LiveIn(k)
  BY DEF RedeemedOnce, LiveIn
<1>7. /\ (Phase(k) = "none")' <=> ~Saved(codes[k])'
      /\ (Phase(k) = "code")' <=> (codes[k].st = "fresh" /\ ~codes[k].expired)'
      /\ (Phase(k) = "redeeming")' <=>
           (/\ Saved(codes[k]) /\ ~(codes[k].st = "fresh" /\ ~codes[k].expired)
            /\ \E w \in Worker : Redeeming(w, k))'
      /\ (Phase(k) = "token")' <=>
           (/\ Saved(codes[k]) /\ ~(codes[k].st = "fresh" /\ ~codes[k].expired)
            /\ ~\E w \in Worker : Redeeming(w, k)
            /\ LiveIn(k))'
      /\ Phase(k)' \in {"none", "code", "redeeming", "token", "over"}
  BY DEF Phase, Saved, LiveIn
<1>. HIDE DEF IndInv
<1>. QED BY <1>1, <1>2, <1>3, <1>4, <1>5, <1>6, <1>7, PhaseCases DEF StaysOrEnds
\* A step of the token endpoint is a step of the abstract grant, or none.
StepMaps == Lifecycle!LifecycleNext \/ UNCHANGED [k \in Code |-> Phase(k)]

LEMMA EndingMaps ==
    ASSUME \A k \in Code : StaysOrEnds(k)
    PROVE  StepMaps
<1>. DEFINE S == {k \in Code : Phase(k)' # Phase(k)}
            phase == [k \in Code |-> Phase(k)]
<1>1. CASE S = {}
  <2>1. \A k \in Code : Phase(k)' = Phase(k)
    BY <1>1
  <2>. QED BY <2>1 DEF StepMaps
<1>2. CASE S # {}
  <2>1. \A k \in S : phase[k] # "none"
    BY DEF StaysOrEnds
  <2>2. \A k \in Code : Phase(k)' = IF k \in S THEN "over" ELSE phase[k]
    BY DEF StaysOrEnds
  <2>3. phase' = [k \in Code |-> IF k \in S THEN "over" ELSE phase[k]]
    BY <2>2
  <2>4. Lifecycle!End(S)
    BY <1>2, <2>1, <2>3 DEF Lifecycle!End
  <2>. QED BY <2>4 DEF StepMaps, Lifecycle!LifecycleNext
<1>. QED BY <1>1, <1>2

\* One grant moves from a phase to another, the others stay.
LEMMA MovingMaps ==
    ASSUME NEW k \in Code, \A j \in Code \ {k} : Phase(j)' = Phase(j),
           \/ Phase(k) = "none" /\ Phase(k)' = "code"
           \/ Phase(k) = "code" /\ Phase(k)' = "redeeming"
           \/ Phase(k) = "redeeming" /\ Phase(k)' = "token"
    PROVE  StepMaps
<1>. DEFINE phase == [j \in Code |-> Phase(j)]
<1>1. ASSUME NEW from, NEW to, Phase(k) = from, Phase(k)' = to
      PROVE  Lifecycle!Move(k, from, to)
  <2>1. phase[k] = from
    BY <1>1
  <2>2. \A j \in Code : Phase(j)' = [phase EXCEPT ![k] = to][j]
    BY <1>1
  <2>3. phase' = [phase EXCEPT ![k] = to]
    BY <2>2
  <2>. QED BY <2>1, <2>3 DEF Lifecycle!Move
<1>2. CASE Phase(k) = "none" /\ Phase(k)' = "code"
  BY <1>1, <1>2 DEF StepMaps, Lifecycle!LifecycleNext, Lifecycle!Issue
<1>3. CASE Phase(k) = "code" /\ Phase(k)' = "redeeming"
  BY <1>1, <1>3 DEF StepMaps, Lifecycle!LifecycleNext, Lifecycle!Redeem
<1>4. CASE Phase(k) = "redeeming" /\ Phase(k)' = "token"
  BY <1>1, <1>4 DEF StepMaps, Lifecycle!LifecycleNext, Lifecycle!Deliver
<1>. QED BY <1>2, <1>3, <1>4

LEMMA RetiringMaps ==
    ASSUME IndInv, Retire, ExpiryStays
    PROVE  StepMaps
BY RetireEnds, EndingMaps
\* A step that does not touch a grant leaves it where it is.
LEMMA UntouchedPhase ==
    ASSUME NEW j \in Code, codes'[j] = codes[j], Family(j)' = Family(j),
           \A t \in Family(j) : refresh'[t] = refresh[t],
           \A v \in Worker : Redeeming(v, j)' <=> Redeeming(v, j)
    PROVE  Phase(j)' = Phase(j)
<1>1. Saved(codes[j])' <=> Saved(codes[j])
  BY DEF Saved
<1>2. (\E v \in Worker : Redeeming(v, j))' <=> \E v \in Worker : Redeeming(v, j)
  OBVIOUS
<1>3. (\E t \in Family(j) : refresh[t].st = "live" /\ ~refresh[t].expired)'
        <=> \E t \in Family(j) : refresh[t].st = "live" /\ ~refresh[t].expired
  OBVIOUS
<1>. QED BY <1>1, <1>2, <1>3 DEF Phase

LEMMA SaveCodeMaps ==
    ASSUME IndInv, NEW w \in Worker, SaveAuthorizationCode(w)
    PROVE  StepMaps
<1>. USE DEF IndInv
<1>1. PICK c \in Code :
        /\ codes[c].st = "absent"
        /\ \E row \in Insert([st |-> "fresh", user |-> req[w].user, client |-> req[w].client,
                              scopes |-> req[w].scopes, expired |-> FALSE], NoCode) :
             codes' = [codes EXCEPT ![c] = row]
  BY DEF SaveAuthorizationCode
<1>2. /\ req[w].pc = "authorize.code"
      /\ UNCHANGED refresh
      /\ \/ req' = [req EXCEPT ![w] = Idle]
         \/ \E d \in Code : req' = [req EXCEPT ![w].pc = "authorize.grant", ![w].code = d]
  BY DEF SaveAuthorizationCode, Finish
<1>3. /\ \A j \in Code \ {c} : codes'[j] = codes[j]
      /\ \/ codes'[c].st = "fresh" /\ ~codes'[c].expired
         \/ codes'[c].st = "lost"
  BY <1>1 DEF TypeOK, Insert, NoCode
<1>4. \A v \in Worker, j \in Code : Redeeming(v, j)' <=> Redeeming(v, j)
  <2>1. \A v \in Worker \ {w} : req'[v] = req[v]
    BY <1>2 DEF TypeOK
  <2>2. req'[w].pc \in {"idle", "authorize.grant"}
    BY <1>2, IdleRequest DEF TypeOK, Request
  <2>. QED BY <1>2, <2>1, <2>2 DEF Redeeming
<1>5. \A j \in Code \ {c} : Phase(j)' = Phase(j)
  BY <1>2, <1>3, <1>4, UntouchedPhase DEF Family
<1>6. Phase(c) = "none"
  BY <1>1 DEF Phase, Saved
<1>7. CASE codes'[c].st = "fresh" /\ ~codes'[c].expired
  <2>1. Phase(c)' = "code"
    BY <1>7 DEF Phase, Saved
  <2>. HIDE DEF IndInv
  <2>. QED BY <1>5, <1>6, <2>1, MovingMaps
<1>8. CASE codes'[c].st = "lost"
  <2>1. Phase(c)' = "none"
    BY <1>8 DEF Phase, Saved
  <2>. HIDE DEF IndInv
  <2>. QED BY <1>5, <1>6, <2>1, EndingMaps DEF StaysOrEnds
<1>. QED BY <1>3, <1>7, <1>8

LEMMA ConsumeMaps ==
    ASSUME IndInv, NEW w \in Worker, ConsumeAuthorizationCode(w),
           Redeemable(req[w].code, req[w].client, req[w].ok)
    PROVE  StepMaps
<1>. USE DEF IndInv
<1>0. PICK k \in Code : k = req[w].code
  BY DEF ConsumeAuthorizationCode, RequestOK, WellFormed
<1>1. /\ req[w].pc = "exchange.consume"
      /\ codes[k].st = "fresh" /\ ~codes[k].expired
      /\ codes' = [codes EXCEPT ![k].st = "used"]
      /\ req' = [req EXCEPT ![w].pc = "exchange.user", ![w].user = codes[k].user,
                            ![w].scopes = codes[k].scopes]
      /\ UNCHANGED refresh
  BY <1>0 DEF ConsumeAuthorizationCode, Redeemable
<1>3. codes'[k].st = "used" /\ \A j \in Code \ {k} : codes'[j] = codes[j]
  BY <1>1 DEF TypeOK, CodeRow
<1>4. /\ req'[w].pc = "exchange.user" /\ req'[w].code = k
      /\ \A v \in Worker \ {w} : req'[v] = req[v]
  BY <1>0, <1>1 DEF TypeOK, Request
<1>5. \A v \in Worker, j \in Code \ {k} : Redeeming(v, j)' <=> Redeeming(v, j)
  BY <1>0, <1>1, <1>4 DEF Redeeming
<1>6. \A j \in Code \ {k} : Phase(j)' = Phase(j)
  BY <1>1, <1>3, <1>5, UntouchedPhase DEF Family
<1>7. Phase(k) = "code"
  BY <1>1 DEF Phase, Saved
<1>8. Phase(k)' = "redeeming"
  <2>1. Redeeming(w, k)'
    BY <1>4 DEF Redeeming
  <2>. QED BY <1>3, <2>1 DEF Phase, Saved
<1>. HIDE DEF IndInv
<1>. QED BY <1>6, <1>7, <1>8, MovingMaps

LEMMA SaveTokenMaps ==
    ASSUME IndInv, NEW w \in Worker, SaveRefreshToken(w)
    PROVE  StepMaps
<1>. USE DEF IndInv
<1>0. PICK k \in Code : k = req[w].code
  BY DEF SaveRefreshToken, RequestOK, WellFormed
<1>1. PICK n \in Token :
        /\ refresh[n].st = "absent"
        /\ \E row \in Insert([st |-> "live", user |-> req[w].user,
                              client |-> req[w].client, scopes |-> req[w].scopes,
                              from |-> None, next |-> None, expired |-> FALSE,
                              origin |-> k], NoToken) :
             refresh' = [refresh EXCEPT ![n] = row]
  BY <1>0 DEF SaveRefreshToken
<1>2. req[w].pc = "exchange.save" /\ UNCHANGED codes /\ req' = [req EXCEPT ![w] = Idle]
  BY DEF SaveRefreshToken, Finish
<1>3. Redeeming(w, k)
  BY <1>0, <1>2 DEF Redeeming
<1>4. /\ codes[k].st \in {"used", "deleted"} /\ Family(k) = {}
      /\ \A v \in Worker : Redeeming(v, k) => v = w
  BY <1>3 DEF RedeemingOK, RedeemedOnce
<1>5. /\ \A t \in Token \ {n} : refresh'[t] = refresh[t]
      /\ \/ refresh'[n].st = "live" /\ ~refresh'[n].expired /\ refresh'[n].origin = k
         \/ refresh'[n].st = "lost"
  BY <1>1 DEF TypeOK, Insert, NoToken
<1>6. req'[w].pc = "idle" /\ \A v \in Worker \ {w} : req'[v] = req[v]
  BY <1>2, IdleRequest DEF TypeOK
<1>7. \A v \in Worker, j \in Code \ {k} : Redeeming(v, j)' <=> Redeeming(v, j)
  BY <1>0, <1>6 DEF Redeeming
<1>8. \A j \in Code \ {k} : Family(j)' = Family(j) /\ n \notin Family(j)
  BY <1>1, <1>5 DEF Family, Saved
<1>9. \A j \in Code \ {k} : Phase(j)' = Phase(j)
  <2>1. \A j \in Code \ {k} : \A t \in Family(j) : refresh'[t] = refresh[t]
    BY <1>5, <1>8 DEF Family
  <2>. QED BY <1>2, <1>7, <1>8, <2>1, UntouchedPhase
<1>10. Phase(k) = "redeeming"
  BY <1>3, <1>4 DEF Phase, Saved
<1>11. \A v \in Worker : ~Redeeming(v, k)'
  BY <1>4, <1>6 DEF Redeeming
<1>12. CASE refresh'[n].st = "live" /\ ~refresh'[n].expired /\ refresh'[n].origin = k
  <2>1. n \in Family(k)'
    BY <1>12 DEF Family, Saved
  <2>2. Phase(k)' = "token"
    BY <1>2, <1>4, <1>11, <1>12, <2>1 DEF Phase, Saved
  <2>. HIDE DEF IndInv
  <2>. QED BY <1>3, <1>9, <1>10, <2>2, MovingMaps
<1>13. CASE refresh'[n].st = "lost"
  <2>1. Family(k)' = {}
    BY <1>4, <1>5, <1>13 DEF Family, Saved
  <2>2. Phase(k)' = "over"
    BY <1>2, <1>4, <1>11, <2>1 DEF Phase, Saved
  <2>. HIDE DEF IndInv
  <2>. QED BY <1>9, <1>10, <2>2, EndingMaps DEF StaysOrEnds
<1>. QED BY <1>5, <1>12, <1>13

\* Rotation replaces the value, not the credential.
LEMMA RotateMaps ==
    ASSUME IndInv, NEW w \in Worker, RotateRefreshToken(w),
           Rotatable(req[w].token, req[w].client)
    PROVE  StepMaps
<1>. USE DEF IndInv
<1>0. PICK t \in Token : t = req[w].token
  BY DEF RotateRefreshToken, RequestOK, WellFormed
<1>1. /\ req[w].pc = "refresh.rotate"
      /\ refresh[t].st = "live" /\ ~refresh[t].expired
      /\ UNCHANGED codes
  BY <1>0 DEF RotateRefreshToken, Rotatable, Replayed, Fail
<1>2. PICK n \in Token :
        /\ refresh[n].st = "absent"
        /\ Rotate(t, n)
        /\ req' = [req EXCEPT ![w].pc = "refresh.user", ![w].user = refresh[t].user,
                              ![w].scopes = refresh[t].scopes, ![w].token = n]
  BY <1>0, <1>1 DEF RotateRefreshToken, Rotatable, Replayed
<1>3. PICK k \in Code : k = refresh[t].origin
  BY <1>1 DEF RowsOK, Saved
<1>4. /\ \A s \in Token \ {t, n} : refresh'[s] = refresh[s]
      /\ refresh'[t].origin = k
      /\ refresh'[n].st = "live" /\ ~refresh'[n].expired /\ refresh'[n].origin = k
  BY <1>1, <1>2, <1>3 DEF Rotate, TypeOK, TokenRow
<1>5. t \in Family(k) /\ codes[k].st \in {"used", "deleted"}
  BY <1>1, <1>3 DEF RowsOK, Family, Saved
<1>6. \A v \in Worker : ~Redeeming(v, k)
  BY <1>5 DEF RedeemedOnce
<1>7. req'[w].pc = "refresh.user" /\ \A v \in Worker \ {w} : req'[v] = req[v]
  BY <1>2 DEF TypeOK, Request
<1>8. \A v \in Worker, j \in Code : Redeeming(v, j)' <=> Redeeming(v, j)
  BY <1>1, <1>7 DEF Redeeming
<1>9. \A j \in Code \ {k} : Family(j)' = Family(j) /\ t \notin Family(j) /\ n \notin Family(j)
  BY <1>2, <1>3, <1>4 DEF Family, Saved
<1>10. \A j \in Code \ {k} : Phase(j)' = Phase(j)
  <2>1. \A j \in Code \ {k} : \A s \in Family(j) : refresh'[s] = refresh[s]
    BY <1>4, <1>9 DEF Family
  <2>. QED BY <1>1, <1>8, <1>9, <2>1, UntouchedPhase
<1>11. Phase(k) = "token"
  BY <1>1, <1>5, <1>6 DEF Phase, Saved
<1>12. n \in Family(k)'
  BY <1>4 DEF Family, Saved
<1>13. (Phase(k) = "token")'
  BY <1>1, <1>4, <1>5, <1>6, <1>8, <1>12 DEF Phase, Saved
<1>. HIDE DEF IndInv
<1>. QED BY <1>10, <1>11, <1>13, EndingMaps DEF StaysOrEnds
LEMMA SetRevokedExpiry ==
    ASSUME TypeOK, NEW S, SetRevoked(S)
    PROVE  \A t \in Token : refresh[t].expired => refresh'[t].expired
BY DEF SetRevoked, TypeOK, TokenRow

\* The steps of a handler that only retire rows: all but the four that insert or spend.
LEMMA HandlerMaps ==
    ASSUME IndInv, NEW w \in Worker,
           \/ AuthorizeAccess(w) \/ AuthorizeConsent(w) \/ SaveConsent(w)
           \/ ReadUser(w, "exchange.user", "exchange.access")
           \/ CheckAccess(w, "exchange.access", "exchange.version")
           \/ ExchangeVersion(w)
           \/ RevokeOnReuse(w)
           \/ ReadUser(w, "refresh.user", "refresh.access")
           \/ CheckAccess(w, "refresh.access", "refresh.version")
           \/ RefreshRespond(w)
           \/ RevokeTokenWrite(w) \/ RevokeConsentWrite(w) \/ RevokeConsentTokens(w)
           \/ Arrive(w) \/ Fail(w)
    PROVE  StepMaps
<1>1. Retire
  BY AuthorizeReadGood, SaveConsentGood, ReadUserGood, CheckAccessGood, ExchangeVersionGood,
     RevokeGood, RefreshRespondGood, RevokeConsentWriteGood, ArriveGood, FailGood
     DEF Good, IndInv
<1>2. UNCHANGED codes
  BY DEF AuthorizeAccess, AuthorizeConsent, SaveConsent, ReadUser, CheckAccess, ExchangeVersion,
         RevokeOnReuse, RefreshRespond, RevokeTokenWrite, RevokeConsentWrite, RevokeConsentTokens,
         Arrive, Authorize, ExchangeCode, RefreshToken, RevokeToken, RevokeConsent, Fail, store
<1>3. UNCHANGED refresh \/ \E S : SetRevoked(S)
  BY DEF AuthorizeAccess, AuthorizeConsent, SaveConsent, ReadUser, CheckAccess, ExchangeVersion,
         RevokeOnReuse, RefreshRespond, RevokeTokenWrite, RevokeConsentWrite, RevokeConsentTokens,
         Arrive, Authorize, ExchangeCode, RefreshToken, RevokeToken, RevokeConsent, Fail, store
<1>4. ExpiryStays
  BY <1>2, <1>3, SetRevokedExpiry DEF ExpiryStays, IndInv
<1>. QED BY <1>1, <1>4, RetiringMaps

LEMMA EnvironmentMaps ==
    ASSUME IndInv, Environment
    PROVE  StepMaps
<1>1. TypeOK /\ RequestOK /\ RowsOK
  BY DEF IndInv
<1>2. Retire
  BY <1>1, DeleteUserGood, AccountGood, RevokeOutsideGood, AccessGood, MaintenanceGood
     DEF Good, Environment
<1>3. ExpiryStays
  <2>1. CASE UNCHANGED <<codes, refresh>>
    BY <2>1 DEF ExpiryStays
  <2>2. CASE UNCHANGED codes /\ \E S : SetRevoked(S)
    BY <1>1, <2>2, SetRevokedExpiry DEF ExpiryStays
  <2>3. ASSUME NEW u \in User, NEW a \in BOOLEAN, NEW v \in Version,
               UpdateUserAndInvalidateAuth(u, a, v)
        PROVE  ExpiryStays
    <3>1. \A k \in Code : codes[k].expired => codes'[k].expired
      BY <1>1, <2>3 DEF UpdateUserAndInvalidateAuth, TypeOK, CodeRow
    <3>. QED BY <1>1, <2>3, <3>1, SetRevokedExpiry DEF UpdateUserAndInvalidateAuth, ExpiryStays
  <2>4. ASSUME NEW u \in User, NEW apps \in SUBSET Client, DeleteUser(u, apps)
        PROVE  ExpiryStays
    BY <1>1, <2>4 DEF DeleteUser, TypeOK, CodeRow, TokenRow, ExpiryStays
  <2>5. CASE CleanupCodes
    BY <1>1, <2>5 DEF CleanupCodes, TypeOK, CodeRow, ExpiryStays
  <2>6. CASE CleanupTokens
    BY <1>1, <2>6 DEF CleanupTokens, TypeOK, TokenRow, ExpiryStays
  <2>7. ASSUME NEW c \in Code, ExpireCode(c)
        PROVE  ExpiryStays
    BY <1>1, <2>7 DEF ExpireCode, TypeOK, CodeRow, ExpiryStays
  <2>8. ASSUME NEW t \in Token, ExpireToken(t)
        PROVE  ExpiryStays
    BY <1>1, <2>8 DEF ExpireToken, TypeOK, TokenRow, ExpiryStays
  <2>9. CASE \E u \in User : RevokeRefreshTokensByUser(u)
    BY <2>2, <2>9 DEF RevokeRefreshTokensByUser
  <2>10. CASE \E u \in User, c \in Client : RevokeRefreshTokensByUserClient(u, c)
    BY <2>2, <2>10 DEF RevokeRefreshTokensByUserClient
  <2>11. CASE \/ \E u \in User, a \in BOOLEAN, v \in Version : UpdateUser(u, a, v)
              \/ \E u \in User, c \in Client :
                   ChangeAccess(u, c) \/ BumpAppUserAccessVersion(u, c)
              \/ \E c \in Client : ChangeAppStatus(c)
              \/ CleanupConsents
    BY <2>1, <2>11
       DEF UpdateUser, ChangeAccess, BumpAppUserAccessVersion, ChangeAppStatus, CleanupConsents,
           store
  <2>. QED BY <2>3, <2>4, <2>5, <2>6, <2>7, <2>8, <2>9, <2>10, <2>11 DEF Environment
<1>. QED BY <1>2, <1>3, RetiringMaps

LEMMA NextMaps ==
    ASSUME IndInv, [Next]_vars
    PROVE  StepMaps
<1>1. CASE UNCHANGED vars
  <2>1. \A k \in Code : Phase(k)' = Phase(k)
    BY <1>1 DEF vars, Phase, Saved, Redeeming, Family
  <2>. QED BY <2>1, EndingMaps DEF StaysOrEnds
<1>2. ASSUME NEW w \in Worker, Step(w)
      PROVE  StepMaps
  <2>1. CASE ConsumeAuthorizationCode(w) /\ ~Fail(w)
    <3>1. Redeemable(req[w].code, req[w].client, req[w].ok)
      BY <2>1 DEF ConsumeAuthorizationCode
    <3>. QED BY <2>1, <3>1, ConsumeMaps
  <2>2. CASE RotateRefreshToken(w) /\ Rotatable(req[w].token, req[w].client)
    BY <2>2, RotateMaps
  <2>3. CASE /\ RotateRefreshToken(w) /\ ~Fail(w)
             /\ ~Rotatable(req[w].token, req[w].client)
    <3>1. Retire
      BY <2>3, RotateFails DEF Good, IndInv
    <3>2. UNCHANGED <<codes, refresh>>
      BY <2>3 DEF RotateRefreshToken, store
    <3>3. ExpiryStays
      BY <3>2 DEF ExpiryStays
    <3>. QED BY <3>1, <3>3, RetiringMaps
  <2>. QED BY <1>2, <2>1, <2>2, <2>3, SaveCodeMaps, SaveTokenMaps, HandlerMaps DEF Step
<1>3. ASSUME NEW w \in Worker, Arrive(w) \/ Abort(w)
      PROVE  StepMaps
  BY <1>3, HandlerMaps DEF Abort
<1>. QED BY <1>1, <1>2, <1>3, EnvironmentMaps DEF Next

\* Every run of the token endpoint, whatever its requests, the other services and the clock
\* do, is a run of the grants of GrantLifecycle: a code, then its redemption, then one
\* refresh token, then nothing for good (ConsumeAuthorizationCode, RotateRefreshToken).
THEOREM EndpointImplementsLifecycle == Spec => ImplementsLifecycle
<1>1. Init => Lifecycle!LifecycleInit
  BY DEF Init, Lifecycle!LifecycleInit, Phase, Saved, NoCode
<1>2. IndInv /\ [Next]_vars => [Lifecycle!LifecycleNext]_([k \in Code |-> Phase(k)])
  BY NextMaps DEF StepMaps
<1>. QED BY <1>1, <1>2, TokenStoreInvariant, PTL
         DEF Spec, ImplementsLifecycle, Lifecycle!LifecycleSpec
=============================================================================
