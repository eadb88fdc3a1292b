------------------------------ MODULE UsersProofs ------------------------------
(***************************************************************************)
(* Proofs about Users, for any number of requests, expiries and failures.  *)
(***************************************************************************)
EXTENDS Users, TLAPS

-----------------------------------------------------------------------------
(* Requests that are active together have met: each has the kind of the    *)
(* other in its list.  And the kinds of requests that make a call.         *)
Fields == {"kind", "at", "user", "token", "met"}
ReqOK ==
    /\ DOMAIN req = Requests
    /\ \A r \in Requests : Fields \subseteq DOMAIN req[r] /\ req[r].at \in Calls \cup Ends \cup {"new"}

MetOK == \A r, q \in Active : r # q => Kind(q) \in req[r].met

KindAt(r) ==
    /\ req[r].at \in {"readProfile", "writeProfile", "updateList"} => Kind(r) \in Writers
    /\ req[r].at = "writeAccess" => Kind(r) \in Logins
    /\ req[r].at = "writeRefresh" => Kind(r) = "loginOffline"
    /\ req[r].at \in {"readRefresh", "writeBetter"} => Kind(r) = "loginNarrow"
    /\ req[r].at \in {"rereadRefresh", "storeRefreshed", "rereadAccess"} =>
           Kind(r) \in {"loginNarrow", "broadcast"}
    /\ req[r].at = "readAccess" => Kind(r) \in {"forget", "broadcast"}
    /\ req[r].at = "send" => Kind(r) = "broadcast"
    /\ req[r].at \in {"revoke", "deleteAccess", "deleteRefresh"} => Kind(r) = "forget"

Shape(token) ==
    /\ {"scope", "fresh"} \subseteq DOMAIN token
    /\ token = NoToken \/ token.scope \in {"narrow", "wide"}

BaseInv ==
    /\ ReqOK /\ MetOK /\ Shape(access)
    /\ \A r \in Requests : KindAt(r) /\ Shape(req[r].token)

\* A step of r, by which it comes to another call or to its end.
Moves(r, at) ==
    /\ r \in Active /\ ReqOK'
    /\ req'[r].at = at /\ req'[r].kind = req[r].kind /\ req'[r].met = req[r].met
    /\ \A q \in Requests : q # r => req'[q] = req[q]

Kept(r) == req'[r].user = req[r].user /\ req'[r].token = req[r].token

LEMMA SetAt ==
    ASSUME ReqOK, NEW r \in Active, NEW at \in Calls \cup Ends,
           req' = [req EXCEPT ![r].at = at]
    PROVE  Moves(r, at) /\ Kept(r)
  BY DEF ReqOK, Moves, Kept, Active, Fields

LEMMA SetUser ==
    ASSUME ReqOK, NEW r \in Active, NEW user, NEW at \in Calls \cup Ends, Keep(r, user, at)
    PROVE  Moves(r, at) /\ req'[r].user = user /\ req'[r].token = req[r].token
<1>1. req' = [req EXCEPT ![r] = [[req[r] EXCEPT !.user = user] EXCEPT !.at = at]]
  BY DEF Keep, ReqOK, Active
<1>. QED BY <1>1 DEF ReqOK, Moves, Active, Fields

LEMMA SetToken ==
    ASSUME ReqOK, NEW r \in Active, NEW token, NEW at \in Calls \cup Ends, Hold(r, token, at)
    PROVE  Moves(r, at) /\ req'[r].token = token /\ req'[r].user = req[r].user
<1>1. req' = [req EXCEPT ![r] = [[req[r] EXCEPT !.token = token] EXCEPT !.at = at]]
  BY DEF Hold, ReqOK, Active
<1>. QED BY <1>1 DEF ReqOK, Moves, Active, Fields

LEMMA MovesFacts ==
    ASSUME BaseInv, NEW r, NEW at, Moves(r, at)
    PROVE  /\ Active' \subseteq Active /\ Active \subseteq Active' \cup {r}
           /\ MetOK'
           /\ \A q \in Requests : q # r => KindAt(q)' /\ Shape(req[q].token)'
  BY DEF BaseInv, Moves, Active, MetOK, KindAt, Kind, ReqOK

\* The steps of a request, by its next call.
StepOf(r) ==
    \/ ReadProfile(r) \/ WriteProfile(r) \/ UpdateList(r)
    \/ WriteAccess(r) \/ WriteRefresh(r) \/ ReadRefresh(r) \/ WriteBetter(r)
    \/ RereadRefresh(r) \/ StoreRefreshed(r) \/ RereadAccess(r)
    \/ ReadAccess(r) \/ Send(r) \/ Revoke(r) \/ DeleteAccess(r) \/ DeleteRefresh(r)

LEMMA TokenFacts ==
    /\ Shape(Wide) /\ Wide.scope = "wide"
    /\ Shape(Narrow) /\ Narrow.scope = "narrow"
    /\ Shape(NoToken) /\ NoToken.scope = None
  BY DEF Shape, Wide, Narrow, NoToken, None

\* Every step of r is a move, to a call that its kind makes.
LEMMA StepMoves ==
    ASSUME BaseInv, NEW r \in Requests, StepOf(r)
    PROVE  /\ r \in Active
           /\ \E at \in Calls \cup Ends : Moves(r, at)
           /\ KindAt(r)' /\ Shape(req'[r].token) /\ Shape(access')
<1>. USE DEF Calls, Ends
<1>0. ReqOK /\ KindAt(r) /\ Shape(access) /\ Shape(req[r].token)
  BY DEF BaseInv
<1>a. r \in Active
  BY DEF StepOf, ReadProfile, WriteProfile, UpdateList, WriteAccess, WriteRefresh, ReadRefresh,
         WriteBetter, RereadRefresh, StoreRefreshed, RereadAccess, ReadAccess, Send, Revoke,
         DeleteAccess, DeleteRefresh, At, Active
<1>b. \A at \in Calls \cup Ends :
          req' = [req EXCEPT ![r].at = at] => Moves(r, at) /\ Shape(req'[r].token)
  BY <1>0, <1>a, SetAt DEF Kept
<1>1. CASE ReadProfile(r)
  <2>1. access' = access
    BY <1>1 DEF ReadProfile, data
  <2>2. \/ Kind(r) \in Logins /\ \E u : Keep(r, u, "writeAccess")
        \/ Kind(r) \in Saves /\ \E u : Keep(r, u, "writeProfile")
        \/ req' = [req EXCEPT ![r].at = "failed"]
    BY <1>1 DEF ReadProfile, End
  <2>3. /\ Shape(req'[r].token)
        /\ \/ Kind(r) \in Logins /\ Moves(r, "writeAccess")
           \/ Kind(r) \in Saves /\ Moves(r, "writeProfile")
           \/ Moves(r, "failed")
    BY <1>0, <1>a, <1>b, <2>2, SetUser
  <2>. QED BY <1>0, <1>a, <2>1, <2>3 DEF Moves, KindAt, Kind, Writers
<1>2. CASE WriteProfile(r) \/ UpdateList(r)
  <2>1. /\ access' = access /\ Kind(r) \in Writers
        /\ \/ req' = [req EXCEPT ![r].at = "updateList"]
           \/ req' = [req EXCEPT ![r].at = "done"]
    BY <1>0, <1>2 DEF WriteProfile, UpdateList, GoOn, End, KindAt, At
  <2>. QED BY <1>0, <1>a, <1>b, <2>1 DEF Moves, KindAt, Kind
<1>3. CASE WriteAccess(r)
  <2>1. /\ Shape(access')
        /\ \/ Kind(r) = "loginOffline" /\ req' = [req EXCEPT ![r].at = "writeRefresh"]
           \/ Kind(r) = "loginNarrow" /\ req' = [req EXCEPT ![r].at = "readRefresh"]
    BY <1>3, TokenFacts DEF WriteAccess, GoOn
  <2>. QED BY <1>a, <1>b, <2>1 DEF Moves, KindAt, Kind
<1>4. CASE WriteRefresh(r) \/ ReadRefresh(r)
  <2>1. /\ access' = access /\ Kind(r) \in Logins
        /\ \/ req' = [req EXCEPT ![r].at = "writeProfile"]
           \/ Kind(r) = "loginNarrow" /\ req' = [req EXCEPT ![r].at = "rereadRefresh"]
    BY <1>0, <1>4 DEF WriteRefresh, ReadRefresh, GoOn, KindAt, At, Logins, data
  <2>. QED BY <1>0, <1>a, <1>b, <2>1 DEF Moves, KindAt, Kind, Writers
<1>5. CASE WriteBetter(r)
  <2>1. /\ access' = req[r].token /\ Kind(r) = "loginNarrow"
        /\ req' = [req EXCEPT ![r].at = "writeProfile"]
    BY <1>0, <1>5 DEF WriteBetter, GoOn, KindAt, At
  <2>. QED BY <1>0, <1>a, <1>b, <2>1 DEF Moves, KindAt, Kind, Writers, Logins
<1>6. CASE RereadRefresh(r)
  <2>1. /\ access' = access /\ Kind(r) \in {"loginNarrow", "broadcast"}
        /\ \/ req' = [req EXCEPT ![r].at = "storeRefreshed"]
           \/ req' = [req EXCEPT ![r].at = "failed"]
    BY <1>0, <1>6 DEF RereadRefresh, GoOn, End, KindAt, At, data
  <2>. QED BY <1>0, <1>a, <1>b, <2>1 DEF Moves, KindAt, Kind
<1>7. CASE StoreRefreshed(r)
  <2>1. /\ access' = Wide /\ Kind(r) \in {"loginNarrow", "broadcast"}
        /\ req' = [req EXCEPT ![r].at = "rereadAccess"]
    BY <1>0, <1>7 DEF StoreRefreshed, GoOn, KindAt, At
  <2>. QED BY <1>a, <1>b, <2>1, TokenFacts DEF Moves, KindAt, Kind
<1>8. CASE RereadAccess(r)
  <2>1. /\ access' = access /\ Kind(r) \in {"loginNarrow", "broadcast"}
        /\ \/ req' = [req EXCEPT ![r].at = "failed"]
           \/ Kind(r) = "broadcast" /\ Hold(r, access, "send")
           \/ Kind(r) = "loginNarrow" /\ Hold(r, access, "writeBetter")
    BY <1>0, <1>8 DEF RereadAccess, End, KindAt, At, data
  <2>2. /\ Shape(req'[r].token)
        /\ \/ Moves(r, "failed")
           \/ Kind(r) = "broadcast" /\ Moves(r, "send")
           \/ Kind(r) = "loginNarrow" /\ Moves(r, "writeBetter")
    BY <1>0, <1>a, <1>b, <2>1, SetToken
  <2>. QED BY <1>0, <1>a, <2>1, <2>2 DEF Moves, KindAt, Kind
<1>9. CASE ReadAccess(r)
  <2>1. /\ access' = access
        /\ \/ req' = [req EXCEPT ![r].at = "failed"]
           \/ Kind(r) = "forget" /\ Hold(r, access, "deleteAccess")
           \/ Kind(r) = "forget" /\ Hold(r, access, "revoke")
           \/ Kind(r) = "broadcast" /\ Hold(r, access, "send")
           \/ Kind(r) = "broadcast" /\ Hold(r, access, "rereadRefresh")
    BY <1>0, <1>9 DEF ReadAccess, End, KindAt, At, data
  <2>2. /\ Shape(req'[r].token)
        /\ \/ Moves(r, "failed")
           \/ Kind(r) = "forget" /\ (Moves(r, "deleteAccess") \/ Moves(r, "revoke"))
           \/ Kind(r) = "broadcast" /\ (Moves(r, "send") \/ Moves(r, "rereadRefresh"))
    BY <1>0, <1>a, <1>b, <2>1, SetToken
  <2>. QED BY <1>0, <1>a, <2>1, <2>2 DEF Moves, KindAt, Kind
<1>10. CASE Send(r)
  <2>1. /\ access' = access
        /\ \/ req' = [req EXCEPT ![r].at = "done"]
           \/ req' = [req EXCEPT ![r].at = "failed"]
    BY <1>10 DEF Send, End, data
  <2>. QED BY <1>0, <1>a, <1>b, <2>1 DEF Moves, KindAt
<1>11. CASE Revoke(r) \/ DeleteAccess(r) \/ DeleteRefresh(r)
  <2>1. /\ access' \in {access, NoToken} /\ Kind(r) = "forget"
        /\ \/ req' = [req EXCEPT ![r].at = "deleteAccess"]
           \/ req' = [req EXCEPT ![r].at = "deleteRefresh"]
           \/ req' = [req EXCEPT ![r].at = "done"]
    BY <1>0, <1>11 DEF Revoke, DeleteAccess, DeleteRefresh, GoOn, End, KindAt, At, data
  <2>. QED BY <1>0, <1>a, <1>b, <2>1, TokenFacts DEF Moves, KindAt, Kind
<1>. QED
  BY <1>1, <1>2, <1>3, <1>4, <1>5, <1>6, <1>7, <1>8, <1>9, <1>10, <1>11 DEF StepOf

LEMMA StepBase ==
    ASSUME BaseInv, NEW r \in Requests, StepOf(r)
    PROVE  BaseInv'
<1>1. PICK at : Moves(r, at)
  BY StepMoves
<1>2. KindAt(r)' /\ Shape(req'[r].token) /\ Shape(access')
  BY StepMoves
<1>. QED BY <1>1, <1>2, MovesFacts DEF BaseInv, Moves

LEMMA FailMoves ==
    ASSUME BaseInv, NEW r \in Requests, Fail(r)
    PROVE  Moves(r, "failed") /\ Kept(r) /\ data' = data /\ sent' = sent /\ BaseInv'
<1>1. Moves(r, "failed") /\ Kept(r) /\ data' = data /\ sent' = sent
  BY SetAt DEF Fail, End, BaseInv, Ends
<1>2. KindAt(r)' /\ Shape(req'[r].token) /\ Shape(access')
  BY <1>1 DEF Moves, Kept, KindAt, Kind, data, BaseInv
<1>. QED BY <1>1, <1>2, MovesFacts DEF BaseInv, Moves

LEMMA StartFacts ==
    ASSUME BaseInv, NEW r \in Requests, NEW k \in Kinds, Start(r, k)
    PROVE  /\ r \notin Active /\ Active' = Active \cup {r} /\ ReqOK'
           /\ req'[r].kind = k /\ req'[r].at = FirstCall(k) /\ req'[r].token = NoToken
           /\ req'[r].met = KindsOf(Active)
           /\ \A q \in Requests : q # r =>
                 /\ req'[q].kind = req[q].kind /\ req'[q].at = req[q].at
                 /\ req'[q].user = req[q].user /\ req'[q].token = req[q].token
                 /\ q \in Active => req'[q].met = req[q].met \cup {k}
           /\ BaseInv'
<1>. USE DEF Calls, Ends
<1>1. /\ r \notin Active /\ ReqOK
      /\ req' = [q \in Requests |->
                    IF q = r THEN [NewRequest EXCEPT !.kind = k, !.at = FirstCall(k),
                                                     !.met = KindsOf(Active)]
                    ELSE IF q \in Active THEN [req[q] EXCEPT !.met = req[q].met \cup {k}]
                    ELSE req[q]]
      /\ access' = access
  BY DEF Start, Active, BaseInv, data
<1>2. Fields \subseteq DOMAIN NewRequest /\ NewRequest.token = NoToken
  BY DEF Fields, NewRequest
<1>3. /\ Fields \subseteq DOMAIN req'[r]
      /\ req'[r].kind = k /\ req'[r].at = FirstCall(k) /\ req'[r].token = NoToken
      /\ req'[r].met = KindsOf(Active)
  BY <1>1, <1>2 DEF Fields
<1>4. \A q \in Requests : q # r =>
         /\ Fields \subseteq DOMAIN req'[q]
         /\ req'[q].kind = req[q].kind /\ req'[q].at = req[q].at
         /\ req'[q].user = req[q].user /\ req'[q].token = req[q].token
         /\ q \in Active => req'[q].met = req[q].met \cup {k}
  BY <1>1 DEF Fields, ReqOK
<1>5. FirstCall(k) \in {"readProfile", "readAccess"}
      /\ (FirstCall(k) = "readProfile" => k \in Writers)
      /\ (FirstCall(k) = "readAccess" => k \in {"forget", "broadcast"})
  BY DEF FirstCall, Writers, Kinds, Logins, Saves
<1>6. ReqOK'
  BY <1>1, <1>3, <1>4, <1>5 DEF ReqOK
<1>7. Active' = Active \cup {r}
  BY <1>3, <1>4, <1>5 DEF Active
<1>8. MetOK'
  <2>. SUFFICES ASSUME NEW p \in Active', NEW q \in Active', p # q
                PROVE  req'[q].kind \in req'[p].met
    BY DEF MetOK, Kind
  <2>1. CASE p = r
    BY <1>3, <1>4, <1>7, <2>1 DEF KindsOf, Active
  <2>2. CASE q = r
    BY <1>3, <1>4, <1>7, <2>2 DEF Active
  <2>3. CASE p # r /\ q # r
    BY <1>4, <1>7, <2>3 DEF BaseInv, MetOK, Kind, Active
  <2>. QED BY <2>1, <2>2, <2>3
<1>9. \A q \in Requests : KindAt(q)' /\ Shape(req'[q].token)
  BY <1>3, <1>4, <1>5, TokenFacts DEF BaseInv, KindAt, Kind
<1>. QED BY <1>1, <1>3, <1>4, <1>6, <1>7, <1>8, <1>9 DEF BaseInv

LEMMA ExpireFacts ==
    ASSUME BaseInv, Expire
    PROVE  /\ access.scope # None /\ access'.scope = access.scope /\ Shape(access')
           /\ UNCHANGED <<profile, refresh, delegator, req, history>>
<1>1. Shape(access) /\ access' = [access EXCEPT !.fresh = FALSE] /\ access.fresh
      /\ UNCHANGED <<profile, refresh, delegator, req, history>>
  BY DEF Expire, BaseInv
<1>2. access # NoToken
  <2>1. ~NoToken.fresh
    BY DEF NoToken
  <2>. QED BY <1>1, <2>1
<1>. QED BY <1>1, <1>2 DEF Shape, None

LEMMA NextBase ==
    ASSUME BaseInv, [Next]_vars
    PROVE  BaseInv'
<1>1. CASE \E r \in Requests : StepOf(r) \/ Fail(r) \/ \E k \in Kinds : Start(r, k)
  BY <1>1, StepBase, FailMoves, StartFacts
<1>2. CASE Expire
  BY <1>2, ExpireFacts DEF BaseInv, ReqOK, MetOK, Active, KindAt, Kind
<1>3. CASE UNCHANGED vars
  BY <1>3 DEF vars, data, BaseInv, ReqOK, MetOK, Active, KindAt, Kind
<1>. QED BY <1>1, <1>2, <1>3 DEF Next, StepOf

LEMMA InitBase == Init => BaseInv
<1>. SUFFICES ASSUME Init PROVE BaseInv
  OBVIOUS
<1>1. req = [r \in Requests |-> NewRequest] /\ access \in {NoToken, Wide}
  BY DEF Init
<1>2. /\ Fields \subseteq DOMAIN NewRequest /\ NewRequest.token = NoToken
      /\ NewRequest.at = "new"
  BY DEF Fields, NewRequest
<1>3. Active = {}
  BY <1>1, <1>2 DEF Active, Calls
<1>. QED BY <1>1, <1>2, <1>3, TokenFacts DEF BaseInv, ReqOK, MetOK, KindAt

LEMMA UsersBase == Spec => []BaseInv
  BY InitBase, NextBase, PTL DEF Spec

-----------------------------------------------------------------------------
(* The scope of what is broadcast.  Whoever has stored a narrow token while *)
(* the publisher refreshes its own is a narrow login it has met.            *)
SendInv ==
    /\ \A r \in Requests :
          "loginNarrow" \in req[r].met \/
             /\ At(r, "rereadAccess") /\ Kind(r) = "broadcast" => access.scope # "narrow"
             /\ At(r, "send") => req[r].token.scope = "wide"
    /\ SentWithCheckedScope

\* Only logins store a narrow token.
LEMMA NarrowByLogin ==
    ASSUME BaseInv, NEW r \in Requests, StepOf(r)
    PROVE  \/ access'.scope = access.scope \/ access'.scope # "narrow"
           \/ Kind(r) = "loginNarrow" /\ r \in Active
<1>1. r \in Active /\ KindAt(r)
  BY StepMoves DEF BaseInv
<1>2. CASE WriteBetter(r) \/ WriteAccess(r)
  BY <1>1, <1>2, TokenFacts DEF WriteBetter, WriteAccess, KindAt, At
<1>3. CASE StoreRefreshed(r) \/ DeleteAccess(r)
  BY <1>3, TokenFacts DEF StoreRefreshed, DeleteAccess, None
<1>4. CASE UNCHANGED access
  BY <1>4
<1>. QED BY <1>2, <1>3, <1>4 DEF StepOf, ReadProfile, WriteProfile, UpdateList, WriteRefresh,
            ReadRefresh, RereadRefresh, RereadAccess, ReadAccess, Send, Revoke, DeleteRefresh, data

\* What a request waits to send is wide, or is read after the token was refreshed.
LEMMA HeldToSend ==
    ASSUME BaseInv, SendInv, NEW r \in Requests, StepOf(r), "loginNarrow" \notin req[r].met
    PROVE  /\ At(r, "rereadAccess")' /\ Kind(r) = "broadcast" => access'.scope # "narrow"
           /\ At(r, "send")' => req'[r].token.scope = "wide"
<1>. USE DEF Calls, Ends
<1>1. r \in Active /\ KindAt(r) /\ ReqOK /\ Shape(access)
  BY StepMoves DEF BaseInv
<1>2. CASE StoreRefreshed(r)
  <2>1. req' = [req EXCEPT ![r].at = "rereadAccess"] /\ access' = Wide
    BY <1>2 DEF StoreRefreshed, GoOn
  <2>2. Moves(r, "rereadAccess")
    BY <1>1, <2>1, SetAt
  <2>. QED BY <2>1, <2>2, TokenFacts DEF Moves, At
<1>3. CASE RereadAccess(r)
  <2>1. \/ Hold(r, access, "send") /\ Kind(r) = "broadcast" /\ access # NoToken
        \/ Hold(r, access, "writeBetter")
        \/ req' = [req EXCEPT ![r].at = "failed"]
    BY <1>3 DEF RereadAccess, End
  <2>2. \/ Moves(r, "send") /\ req'[r].token = access /\ Kind(r) = "broadcast" /\ access # NoToken
        \/ Moves(r, "writeBetter") \/ Moves(r, "failed")
    BY <1>1, <2>1, SetToken, SetAt
  <2>3. Kind(r) = "broadcast" => access.scope # "narrow"
    BY <1>3 DEF RereadAccess, SendInv
  <2>. QED BY <1>1, <2>2, <2>3 DEF Moves, At, Shape
<1>4. CASE ReadAccess(r)
  <2>1. \/ Hold(r, access, "send") /\ access.scope = "wide"
        \/ \E at \in {"deleteAccess", "revoke", "rereadRefresh"} : Hold(r, access, at)
        \/ req' = [req EXCEPT ![r].at = "failed"]
    BY <1>4 DEF ReadAccess, End
  <2>2. \/ Moves(r, "send") /\ req'[r].token = access /\ access.scope = "wide"
        \/ \E at \in {"deleteAccess", "revoke", "rereadRefresh", "failed"} : Moves(r, at)
    BY <1>1, <2>1, SetToken, SetAt
  <2>. QED BY <2>2 DEF Moves, At
<1>5. CASE ReadProfile(r)
  <2>1. \/ \E u, at : at \in {"writeAccess", "writeProfile"} /\ Keep(r, u, at)
        \/ req' = [req EXCEPT ![r].at = "failed"]
    BY <1>5 DEF ReadProfile, End
  <2>2. \E at \in {"writeAccess", "writeProfile", "failed"} : Moves(r, at)
    BY <1>1, <2>1, SetUser, SetAt
  <2>. QED BY <2>2 DEF Moves, At
<1>6. CASE \E at \in (Calls \cup Ends) \ {"send", "rereadAccess"} : req' = [req EXCEPT ![r].at = at]
  BY <1>1, <1>6, SetAt DEF Moves, At
<1>7. \/ \E at \in (Calls \cup Ends) \ {"send", "rereadAccess"} : req' = [req EXCEPT ![r].at = at]
      \/ StoreRefreshed(r) \/ RereadAccess(r) \/ ReadAccess(r) \/ ReadProfile(r)
  BY DEF StepOf, WriteProfile, UpdateList, WriteAccess, WriteRefresh, ReadRefresh, WriteBetter,
         RereadRefresh, Send, Revoke, DeleteAccess, DeleteRefresh, GoOn, End
<1>. QED BY <1>2, <1>3, <1>4, <1>5, <1>6, <1>7

LEMMA StepSend ==
    ASSUME BaseInv, SendInv, NEW r \in Requests, StepOf(r)
    PROVE  SendInv'
<1>1. PICK at : Moves(r, at)
  BY StepMoves
<1>2. SentWithCheckedScope'
  <2>1. CASE Send(r)
    <3>1. sent' = sent \cup {[scope |-> req[r].token.scope, met |-> req[r].met]}
          /\ (req[r].token.scope = "wide" \/ "loginNarrow" \in req[r].met)
      BY <2>1 DEF Send, SendInv
    <3>. QED BY <3>1 DEF SendInv, SentWithCheckedScope
  <2>2. CASE UNCHANGED sent
    BY <2>2 DEF SendInv, SentWithCheckedScope
  <2>. QED BY <2>1, <2>2 DEF StepOf, ReadProfile, WriteProfile, UpdateList, WriteAccess, WriteRefresh,
       ReadRefresh, WriteBetter, RereadRefresh, StoreRefreshed, RereadAccess, ReadAccess, Revoke,
       DeleteAccess, DeleteRefresh
<1>3. ASSUME NEW q \in Requests, "loginNarrow" \notin req'[q].met
      PROVE  /\ At(q, "rereadAccess")' /\ Kind(q)' = "broadcast" => access'.scope # "narrow"
             /\ At(q, "send")' => req'[q].token.scope = "wide"
  <2>1. CASE q = r
    BY <1>1, <1>3, <2>1, HeldToSend DEF Moves, Kind
  <2>2. CASE q # r
    <3>1. req'[q] = req[q]
      BY <1>1, <2>2 DEF Moves
    <3>2. At(q, "rereadAccess") => Kind(r) # "loginNarrow" \/ r \notin Active
      BY <1>3, <2>2, <3>1 DEF BaseInv, MetOK, At, Active, Calls
    <3>. QED BY <1>3, <3>1, <3>2, NarrowByLogin DEF SendInv, At, Kind
  <2>. QED BY <2>1, <2>2
<1>. QED BY <1>2, <1>3 DEF SendInv

LEMMA NextSend ==
    ASSUME BaseInv, SendInv, [Next]_vars
    PROVE  SendInv'
<1>1. CASE \E r \in Requests : StepOf(r)
  BY <1>1, StepSend
<1>2. ASSUME NEW r \in Requests, Fail(r)
      PROVE  SendInv'
  <2>1. Moves(r, "failed") /\ Kept(r) /\ access' = access /\ sent' = sent
    BY <1>2, FailMoves DEF data
  <2>. QED BY <2>1 DEF Moves, SendInv, SentWithCheckedScope, At, Kind
<1>3. ASSUME NEW r \in Requests, NEW k \in Kinds, Start(r, k)
      PROVE  SendInv'
  <2>1. access' = access /\ sent' = sent
    BY <1>3 DEF Start, data
  <2>2. FirstCall(k) \notin {"send", "rereadAccess"}
    BY DEF FirstCall
  <2>3. ASSUME NEW q \in Requests, "loginNarrow" \notin req'[q].met
        PROVE  /\ At(q, "rereadAccess")' /\ Kind(q)' = "broadcast" => access'.scope # "narrow"
               /\ At(q, "send")' => req'[q].token.scope = "wide"
    <3>1. CASE q = r
      BY <1>3, <2>2, <3>1, StartFacts DEF At
    <3>2. CASE q # r /\ q \in Active
      <4>1. /\ req'[q].kind = req[q].kind /\ req'[q].at = req[q].at
            /\ req'[q].token = req[q].token /\ "loginNarrow" \notin req[q].met
        BY <1>3, <2>3, <3>2, StartFacts
      <4>. QED BY <2>1, <4>1 DEF SendInv, At, Kind
    <3>3. CASE q # r /\ q \notin Active
      <4>1. req'[q].at = req[q].at /\ req[q].at \notin Calls
        BY <1>3, <3>3, StartFacts DEF Active
      <4>. QED BY <4>1 DEF At, Calls
    <3>. QED BY <3>1, <3>2, <3>3
  <2>. QED BY <2>1, <2>3 DEF SendInv, SentWithCheckedScope
<1>4. CASE Expire
  BY <1>4, ExpireFacts DEF SendInv, SentWithCheckedScope, At, Kind, history
<1>5. CASE UNCHANGED vars
  BY <1>5 DEF vars, data, history, SendInv, SentWithCheckedScope, At, Kind
<1>. QED BY <1>1, <1>2, <1>3, <1>4, <1>5 DEF Next, StepOf

(* Whatever requests overlap and fail, only a narrow login that stores its *)
(* token while the publisher refreshes its own makes the publisher send    *)
(* with a narrow one (UsersManager.ts:112-125, 172-173).                   *)
THEOREM UsersSentWithCheckedScope == Spec => []SentWithCheckedScope
<1>1. Init => SendInv
  <2>. SUFFICES ASSUME Init PROVE SendInv
    OBVIOUS
  <2>1. req = [r \in Requests |-> NewRequest] /\ NewRequest.at = "new" /\ sent = {}
    BY DEF Init, NewRequest
  <2>. QED BY <2>1 DEF SendInv, SentWithCheckedScope, At
<1>2. BaseInv /\ SendInv /\ [Next]_vars => SendInv'
  BY NextSend
<1>3. SendInv => SentWithCheckedScope
  BY DEF SendInv
<1>. QED BY <1>1, <1>2, <1>3, UsersBase, PTL DEF Spec

-----------------------------------------------------------------------------
(* What forgetUser leaves.  Once it has deleted the access token without   *)
(* having met anybody who stores tokens, nobody is left to store one: a    *)
(* broadcast that begins now finds none.                                   *)
NoTokens == access = NoToken /\ ~refresh

\* A request that stores no token: no login, and no broadcast beyond its first call.
Harmless(r) == Kind(r) \notin Logins /\ (Kind(r) = "broadcast" => At(r, "readAccess"))

ForgetInv ==
    /\ forgotten => NoTokens /\ \A r \in Active : Harmless(r)
    /\ \A r \in Requests : At(r, "deleteRefresh") /\ req[r].met \cap TokenWriters = {} =>
           access = NoToken

LEMMA HarmlessSteps ==
    ASSUME BaseInv, NEW r \in Requests, StepOf(r), Harmless(r), NoTokens
    PROVE  NoTokens' /\ (r \in Active' => Harmless(r)')
<1>. USE DEF Calls, Ends
<1>1. r \in Active /\ KindAt(r) /\ ReqOK
  BY StepMoves DEF BaseInv
<1>2. PICK at : Moves(r, at)
  BY StepMoves
<1>3. NoToken.scope # "wide"
  BY TokenFacts DEF None
<1>4. CASE Kind(r) = "broadcast"
  <2>1. ReadAccess(r)
    BY <1>1, <1>4 DEF Harmless, At, StepOf, ReadProfile, WriteProfile, UpdateList, WriteAccess,
       WriteRefresh, ReadRefresh, WriteBetter, RereadRefresh, StoreRefreshed, RereadAccess, Send,
       Revoke, DeleteAccess, DeleteRefresh
  <2>2. req' = [req EXCEPT ![r].at = "failed"] /\ UNCHANGED <<access, refresh>>
    BY <1>3, <1>4, <2>1 DEF ReadAccess, NoTokens, End, data
  <2>3. Moves(r, "failed")
    BY <1>1, <2>2, SetAt
  <2>. QED BY <2>2, <2>3 DEF NoTokens, Moves, Active
<1>5. CASE Kind(r) # "broadcast"
  <2>1. Harmless(r)'
    BY <1>2, <1>5 DEF Harmless, Kind, Moves
  <2>2. ~WriteAccess(r) /\ ~WriteRefresh(r) /\ ~WriteBetter(r) /\ ~StoreRefreshed(r)
    BY <1>1, <1>5 DEF Harmless, KindAt, At, WriteAccess, WriteRefresh, WriteBetter, StoreRefreshed,
                      Logins
  <2>3. access' \in {access, NoToken}
    BY <2>2 DEF StepOf, ReadProfile, WriteProfile, UpdateList, ReadRefresh, RereadRefresh, RereadAccess,
       ReadAccess, Send, Revoke, DeleteAccess, DeleteRefresh, data
  <2>4. CASE DeleteRefresh(r)
    BY <2>1, <2>3, <2>4 DEF DeleteRefresh, NoTokens
  <2>5. CASE UNCHANGED refresh
    BY <2>1, <2>3, <2>5 DEF NoTokens
  <2>. QED BY <2>2, <2>4, <2>5 DEF StepOf, ReadProfile, WriteProfile, UpdateList, ReadRefresh,
       RereadRefresh, RereadAccess, ReadAccess, Send, Revoke, DeleteAccess, data
<1>. QED BY <1>4, <1>5

\* Who stores a token is a login or a broadcast.
LEMMA StoresToken ==
    ASSUME BaseInv, NEW r \in Requests, StepOf(r)
    PROVE  r \in Active /\ (Kind(r) \in TokenWriters \/ access' \in {access, NoToken})
<1>1. r \in Active /\ KindAt(r)
  BY StepMoves DEF BaseInv
<1>2. CASE WriteAccess(r) \/ WriteBetter(r) \/ StoreRefreshed(r)
  BY <1>1, <1>2 DEF KindAt, At, WriteAccess, WriteBetter, StoreRefreshed, TokenWriters, Logins
<1>3. CASE access' \in {access, NoToken}
  BY <1>1, <1>3
<1>. QED BY <1>2, <1>3 DEF StepOf, ReadProfile, WriteProfile, UpdateList, WriteRefresh, ReadRefresh,
     RereadRefresh, RereadAccess, ReadAccess, Send, Revoke, DeleteAccess, DeleteRefresh, data

\* Where the steps that read the profile or the access token lead to.
LEMMA LeavesCall ==
    ASSUME BaseInv, NEW r \in Requests
    PROVE  /\ ReadProfile(r) => req'[r].at \in {"writeAccess", "writeProfile", "failed"}
           /\ ReadAccess(r) =>
                 req'[r].at \in {"revoke", "deleteAccess", "send", "rereadRefresh", "failed"}
           /\ RereadAccess(r) => req'[r].at \in {"send", "writeBetter", "failed"}
<1>. USE DEF Calls, Ends
<1>0. ReqOK
  BY DEF BaseInv
<1>1. ASSUME ReadProfile(r)
      PROVE  req'[r].at \in {"writeAccess", "writeProfile", "failed"}
  <2>1. \/ \E u, at : at \in {"writeAccess", "writeProfile"} /\ Keep(r, u, at)
        \/ req' = [req EXCEPT ![r].at = "failed"]
    BY <1>1 DEF ReadProfile, End
  <2>2. r \in Active
    BY <1>1 DEF ReadProfile, At, Active
  <2>3. \E at \in {"writeAccess", "writeProfile", "failed"} : Moves(r, at)
    BY <1>0, <2>1, <2>2, SetUser, SetAt
  <2>. QED BY <2>3 DEF Moves
<1>2. ASSUME ReadAccess(r)
      PROVE  req'[r].at \in {"revoke", "deleteAccess", "send", "rereadRefresh", "failed"}
  <2>1. \/ \E at \in {"revoke", "deleteAccess", "send", "rereadRefresh"} : Hold(r, access, at)
        \/ req' = [req EXCEPT ![r].at = "failed"]
    BY <1>2 DEF ReadAccess, End
  <2>2. r \in Active
    BY <1>2 DEF ReadAccess, At, Active
  <2>3. \E at \in {"revoke", "deleteAccess", "send", "rereadRefresh", "failed"} : Moves(r, at)
    BY <1>0, <2>1, <2>2, SetToken, SetAt
  <2>. QED BY <2>3 DEF Moves
<1>3. ASSUME RereadAccess(r)
      PROVE  req'[r].at \in {"send", "writeBetter", "failed"}
  <2>1. \/ \E at \in {"send", "writeBetter"} : Hold(r, access, at)
        \/ req' = [req EXCEPT ![r].at = "failed"]
    BY <1>3 DEF RereadAccess, End
  <2>2. r \in Active
    BY <1>3 DEF RereadAccess, At, Active
  <2>3. \E at \in {"send", "writeBetter", "failed"} : Moves(r, at)
    BY <1>0, <2>1, <2>2, SetToken, SetAt
  <2>. QED BY <2>3 DEF Moves
<1>. QED BY <1>1, <1>2, <1>3

LEMMA ToDeleteRefresh ==
    ASSUME BaseInv, NEW r \in Requests, StepOf(r), At(r, "deleteRefresh")'
    PROVE  access' = NoToken
<1>1. ~ReadProfile(r) /\ ~ReadAccess(r) /\ ~RereadAccess(r)
  BY LeavesCall DEF At
<1>2. ASSUME NEW at \in (Calls \cup Ends) \ {"deleteRefresh"}, req' = [req EXCEPT ![r].at = at]
      PROVE  FALSE
  BY <1>2, SetAt, StepMoves DEF At, Moves, BaseInv
<1>3. \/ \E at \in (Calls \cup Ends) \ {"deleteRefresh"} : req' = [req EXCEPT ![r].at = at]
      \/ DeleteAccess(r)
  BY <1>1 DEF StepOf, WriteProfile, UpdateList, WriteAccess, WriteRefresh, ReadRefresh, WriteBetter,
     RereadRefresh, StoreRefreshed, Send, Revoke, DeleteRefresh, GoOn, End, Calls, Ends
<1>. QED BY <1>2, <1>3 DEF DeleteAccess

\* forgetUser ends well by its last deletion only.
LEMMA ForgottenNow ==
    ASSUME BaseInv, NEW r \in Requests, StepOf(r), forgotten', ~forgotten
    PROVE  DeleteRefresh(r) /\ req[r].met \cap TokenWriters = {}
<1>1. KindAt(r)
  BY DEF BaseInv
<1>2. \E how : End(r, how) /\ Kind(r) = "forget" /\ how = "done" /\ req[r].met \cap TokenWriters = {}
  <2>1. ASSUME NEW how, End(r, how)
        PROVE  Kind(r) = "forget" /\ how = "done" /\ req[r].met \cap TokenWriters = {}
    BY <2>1, Zenon DEF End
  <2>2. \E how : End(r, how)
    BY DEF StepOf, ReadProfile, WriteProfile, UpdateList, WriteAccess, WriteRefresh, ReadRefresh,
       WriteBetter, RereadRefresh, StoreRefreshed, RereadAccess, ReadAccess, Send, Revoke,
       DeleteAccess, DeleteRefresh, GoOn, Keep, Hold
  <2>. QED BY <2>1, <2>2
<1>3. req'[r].at = "done"
  BY <1>2, SetAt, StepMoves DEF End, Ends, Moves, BaseInv
<1>4. CASE UpdateList(r) \/ Send(r)
  BY <1>1, <1>2, <1>4 DEF UpdateList, Send, KindAt, At, Writers, Logins, Saves
<1>5. CASE ReadProfile(r)
  BY <1>3, <1>5, LeavesCall
<1>6. CASE RereadAccess(r) \/ ReadAccess(r)
  BY <1>3, <1>6, LeavesCall
<1>7. ASSUME NEW at \in Calls \cup {"failed"}, req' = [req EXCEPT ![r].at = at]
      PROVE  FALSE
  BY <1>3, <1>7, SetAt, StepMoves DEF Calls, Ends, Moves, BaseInv
<1>8. \/ \E at \in Calls \cup {"failed"} : req' = [req EXCEPT ![r].at = at]
      \/ UpdateList(r) \/ Send(r) \/ DeleteRefresh(r)
      \/ ReadProfile(r) \/ RereadAccess(r) \/ ReadAccess(r)
  BY DEF StepOf, WriteProfile, WriteAccess, WriteRefresh, ReadRefresh, WriteBetter, RereadRefresh,
         StoreRefreshed, Revoke, DeleteAccess, GoOn, End, Calls
<1>. QED BY <1>2, <1>4, <1>5, <1>6, <1>7, <1>8

LEMMA StepForget ==
    ASSUME BaseInv, ForgetInv, NEW r \in Requests, StepOf(r)
    PROVE  ForgetInv'
<1>1. r \in Active /\ \A q \in Requests : q # r => req'[q] = req[q] /\ KindAt(q)
  BY StepMoves DEF Moves, BaseInv
<1>2. Active' \subseteq Active /\ Active \subseteq Active' \cup {r}
  BY StepMoves, MovesFacts
<1>3. ASSUME forgotten'
      PROVE  NoTokens' /\ \A q \in Active' : Harmless(q)'
  <2>1. CASE forgotten
    <3>1. NoTokens /\ \A q \in Active : Harmless(q)
      BY <2>1 DEF ForgetInv
    <3>2. NoTokens' /\ (r \in Active' => Harmless(r)')
      BY <1>1, <3>1, HarmlessSteps
    <3>3. \A q \in Active' : q # r => Harmless(q)'
      BY <1>1, <1>2, <3>1 DEF Harmless, Kind, At, Active
    <3>. QED BY <3>2, <3>3
  <2>2. CASE ~forgotten
    <3>1. DeleteRefresh(r) /\ req[r].met \cap TokenWriters = {}
      BY <1>3, <2>2, ForgottenNow
    <3>2. NoTokens'
      BY <3>1 DEF DeleteRefresh, ForgetInv, NoTokens
    <3>3. r \notin Active'
      <4>1. req' = [req EXCEPT ![r].at = "done"]
        BY <3>1 DEF DeleteRefresh, End
      <4>2. Moves(r, "done")
        BY <1>1, <4>1, SetAt DEF Ends, BaseInv
      <4>. QED BY <4>2 DEF Moves, Active, Calls
    <3>4. \A q \in Active' : Kind(q) \notin TokenWriters
      BY <1>1, <1>2, <3>1, <3>3 DEF BaseInv, MetOK
    <3>5. \A q \in Active' : q # r /\ q \in Requests
      BY <3>3 DEF Active
    <3>. QED BY <1>1, <3>2, <3>4, <3>5 DEF Harmless, Kind, TokenWriters
  <2>. QED BY <2>1, <2>2
<1>4. ASSUME NEW q \in Requests, At(q, "deleteRefresh")', req'[q].met \cap TokenWriters = {}
      PROVE  access' = NoToken
  <2>1. CASE q = r
    BY <1>4, <2>1, ToDeleteRefresh
  <2>2. CASE q # r
    <3>1. At(q, "deleteRefresh") /\ req[q].met \cap TokenWriters = {} /\ q \in Active
      BY <1>1, <1>4, <2>2 DEF At, Active, Calls
    <3>2. Kind(r) \notin TokenWriters
      BY <1>1, <2>2, <3>1 DEF BaseInv, MetOK
    <3>. QED BY <3>1, <3>2, StoresToken DEF ForgetInv
  <2>. QED BY <2>1, <2>2
<1>. QED BY <1>3, <1>4 DEF ForgetInv

LEMMA NextForget ==
    ASSUME BaseInv, ForgetInv, [Next]_vars
    PROVE  ForgetInv'
<1>1. CASE \E r \in Requests : StepOf(r)
  BY <1>1, StepForget
<1>2. ASSUME NEW r \in Requests, Fail(r)
      PROVE  ForgetInv'
  <2>1. Moves(r, "failed") /\ UNCHANGED <<access, refresh>>
    BY <1>2, FailMoves DEF data
  <2>2. forgotten' => forgotten
    <3>1. forgotten' = (forgotten \/ (/\ Kind(r) = "forget" /\ "failed" = "done"
                                      /\ req[r].met \cap TokenWriters = {}))
      BY <1>2 DEF Fail, End
    <3>. QED BY <3>1, Zenon
  <2>3. Active' \subseteq Active
    BY <1>2, <2>1, MovesFacts
  <2>4. \A q \in Active' : q # r
    BY <2>1 DEF Moves, Active, Calls
  <2>. QED BY <2>1, <2>2, <2>3, <2>4 DEF ForgetInv, NoTokens, Harmless, Kind, At, Moves, Active
<1>3. ASSUME NEW r \in Requests, NEW k \in Kinds, Start(r, k)
      PROVE  ForgetInv'
  <2>1. UNCHANGED <<access, refresh>> /\ FirstCall(k) # "deleteRefresh"
    BY <1>3 DEF Start, data, FirstCall
  <2>2. forgotten' => forgotten /\ k \notin Logins
    <3>1. forgotten' = (forgotten /\ k \notin Logins)
      BY <1>3 DEF Start
    <3>. QED BY <3>1, Zenon
  <2>3. forgotten' => \A q \in Active' : Harmless(q)'
    <3>. SUFFICES ASSUME forgotten', NEW q \in Active' PROVE Harmless(q)'
      OBVIOUS
    <3>1. CASE q = r
      BY <1>3, <2>2, <3>1, StartFacts DEF Harmless, Kind, At, FirstCall, Writers, Logins, Saves
    <3>2. CASE q # r
      <4>1. q \in Active /\ q \in Requests
        BY <1>3, <3>2, StartFacts DEF Active
      <4>2. req'[q].kind = req[q].kind /\ req'[q].at = req[q].at
        BY <1>3, <3>2, <4>1, StartFacts
      <4>. QED BY <2>2, <4>1, <4>2 DEF ForgetInv, Harmless, Kind, At
    <3>. QED BY <3>1, <3>2
  <2>4. ASSUME NEW q \in Requests, At(q, "deleteRefresh")', req'[q].met \cap TokenWriters = {}
        PROVE  access' = NoToken
    <3>1. q # r
      BY <1>3, <2>1, <2>4, StartFacts DEF At
    <3>2. req[q].at = "deleteRefresh" /\ q \in Active
      BY <1>3, <2>4, <3>1, StartFacts DEF At, Active, Calls
    <3>3. req'[q].met = req[q].met \cup {k}
      BY <1>3, <3>1, <3>2, StartFacts
    <3>. QED BY <2>1, <2>4, <3>2, <3>3 DEF ForgetInv, At
  <2>. QED BY <2>1, <2>2, <2>3, <2>4 DEF ForgetInv, NoTokens
<1>4. CASE Expire
  <2>1. access # NoToken /\ UNCHANGED <<req, forgotten>>
    BY <1>4, ExpireFacts, TokenFacts DEF history
  <2>2. ~forgotten' /\ \A q \in Requests : At(q, "deleteRefresh") => req[q].met \cap TokenWriters # {}
    BY <2>1 DEF ForgetInv, NoTokens
  <2>. QED BY <2>1, <2>2 DEF ForgetInv, At
<1>5. CASE UNCHANGED vars
  BY <1>5 DEF vars, data, history, ForgetInv, NoTokens, Harmless, Kind, At, Active
<1>. QED BY <1>1, <1>2, <1>3, <1>4, <1>5 DEF Next, StepOf

(* After a forgetUser that overlapped with no login and no broadcast there *)
(* is no token until somebody logs in, whatever else is requested and      *)
(* fails (UsersManager.ts:91-101, 143-174).                                *)
THEOREM UsersTokensStayForgotten == Spec => []TokensStayForgotten
<1>1. Init => ForgetInv
  <2>. SUFFICES ASSUME Init PROVE ForgetInv
    OBVIOUS
  <2>1. req = [r \in Requests |-> NewRequest] /\ NewRequest.at = "new" /\ ~forgotten
    BY DEF Init, NewRequest
  <2>. QED BY <2>1 DEF ForgetInv, At
<1>2. BaseInv /\ ForgetInv /\ [Next]_vars => ForgetInv'
  BY NextForget
<1>3. ForgetInv => TokensStayForgotten
  BY DEF ForgetInv, NoTokens, TokensStayForgotten
<1>. QED BY <1>1, <1>2, <1>3, UsersBase, PTL DEF Spec

-----------------------------------------------------------------------------
(* What a step of a request reads, and where it leads.                     *)
LEMMA NextCall ==
    ASSUME BaseInv, NEW r \in Requests
    PROVE  /\ WriteProfile(r) => req'[r].at = "updateList"
           /\ UpdateList(r) \/ DeleteRefresh(r) => req'[r].at = "done"
           /\ WriteAccess(r) =>
                 req'[r].at = IF Kind(r) = "loginOffline" THEN "writeRefresh" ELSE "readRefresh"
           /\ WriteRefresh(r) \/ WriteBetter(r) => req'[r].at = "writeProfile"
           /\ ReadRefresh(r) => req'[r].at = IF refresh THEN "rereadRefresh" ELSE "writeProfile"
           /\ RereadRefresh(r) => req'[r].at \in {"storeRefreshed", "failed"}
           /\ StoreRefreshed(r) => req'[r].at = "rereadAccess"
           /\ Send(r) => req'[r].at \in Ends
           /\ Revoke(r) => req'[r].at = "deleteAccess"
           /\ DeleteAccess(r) => req'[r].at = "deleteRefresh"
<1>. USE DEF Calls, Ends
<1>1. ReqOK
  BY DEF BaseInv
<1>2. \A at \in Calls \cup Ends : r \in Active /\ req' = [req EXCEPT ![r].at = at] => req'[r].at = at
  BY <1>1, SetAt DEF Moves
<1>3. \A call \in Calls : At(r, call) => r \in Active
  BY DEF At, Active
<1>. QED BY <1>2, <1>3 DEF WriteProfile, UpdateList, WriteAccess, WriteRefresh, ReadRefresh, WriteBetter,
         RereadRefresh, StoreRefreshed, Send, Revoke, DeleteAccess, DeleteRefresh, GoOn, End

LEMMA Remembers ==
    ASSUME BaseInv, NEW r \in Requests, StepOf(r)
    PROVE  /\ ReadProfile(r) \/ req'[r].user = req[r].user
           /\ ReadAccess(r) \/ RereadAccess(r) \/ req'[r].token = req[r].token
<1>. USE DEF Calls, Ends
<1>1. r \in Active /\ ReqOK
  BY StepMoves DEF BaseInv
<1>2. CASE \E at \in Calls \cup Ends : req' = [req EXCEPT ![r].at = at]
  BY <1>1, <1>2, SetAt DEF Kept
<1>3. CASE ReadProfile(r)
  <2>1. \/ \E u, at : at \in {"writeAccess", "writeProfile"} /\ Keep(r, u, at)
        \/ req' = [req EXCEPT ![r].at = "failed"]
    BY <1>3 DEF ReadProfile, End
  <2>. QED BY <1>1, <1>3, <2>1, SetUser, SetAt DEF Kept
<1>4. CASE (ReadAccess(r) \/ RereadAccess(r)) /\ \E token : \E at \in Calls : Hold(r, token, at)
  BY <1>1, <1>4, SetToken
<1>5. \/ \E at \in Calls \cup Ends : req' = [req EXCEPT ![r].at = at]
      \/ (ReadAccess(r) \/ RereadAccess(r)) /\ \E token : \E at \in Calls : Hold(r, token, at)
      \/ ReadProfile(r)
  BY DEF StepOf, WriteProfile, UpdateList, WriteAccess, WriteRefresh, ReadRefresh, WriteBetter,
         RereadRefresh, StoreRefreshed, RereadAccess, ReadAccess, Send, Revoke, DeleteAccess,
         DeleteRefresh, GoOn, End
<1>. QED BY <1>2, <1>3, <1>4, <1>5

\* What reading the profile makes of the user.
LEMMA ReadsUser ==
    ASSUME BaseInv, NEW r \in Requests, ReadProfile(r)
    PROVE  \/ req'[r].at = "failed"
           \/ /\ Kind(r) \in Logins /\ req'[r].at = "writeAccess"
              /\ profile # None => req'[r].user = profile
           \/ /\ Kind(r) \in Saves /\ req'[r].at = "writeProfile"
              /\ req'[r].user = IF Kind(r) = "saveOn" THEN "on" ELSE "off"
<1>. USE DEF Calls, Ends
<1>1. r \in Active /\ ReqOK
  BY DEF ReadProfile, At, Active, BaseInv
<1>2. \/ Kind(r) \in Logins /\ Keep(r, IF profile = None THEN "off" ELSE profile, "writeAccess")
      \/ Kind(r) \in Saves /\ Keep(r, IF Kind(r) = "saveOn" THEN "on" ELSE "off", "writeProfile")
      \/ req' = [req EXCEPT ![r].at = "failed"]
  BY DEF ReadProfile, End
<1>3. CASE Kind(r) \in Logins /\ Keep(r, IF profile = None THEN "off" ELSE profile, "writeAccess")
  BY <1>1, <1>3, SetUser DEF Moves
<1>4. CASE Kind(r) \in Saves /\ Keep(r, IF Kind(r) = "saveOn" THEN "on" ELSE "off", "writeProfile")
  BY <1>1, <1>4, SetUser DEF Moves
<1>5. CASE req' = [req EXCEPT ![r].at = "failed"]
  BY <1>1, <1>5, SetAt DEF Moves
<1>. QED BY <1>2, <1>3, <1>4, <1>5

LEMMA ReadsToken ==
    ASSUME BaseInv, NEW r \in Requests, RereadAccess(r)
    PROVE  req'[r].at \in {"send", "writeBetter"} => req'[r].token = access
<1>. USE DEF Calls, Ends
<1>1. r \in Active /\ ReqOK
  BY DEF RereadAccess, At, Active, BaseInv
<1>2. \/ Hold(r, access, "send") \/ Hold(r, access, "writeBetter")
      \/ req' = [req EXCEPT ![r].at = "failed"]
  BY DEF RereadAccess, End
<1>. QED BY <1>1, <1>2, SetToken, SetAt DEF Moves

-----------------------------------------------------------------------------
(* The settings that were saved.  A save that met no other writer leaves   *)
(* what it wrote, and a login that begins later writes back just that.     *)
LastSaveStands == saved.settings # None /\ ~saved.raced /\ KindsOf(Active) \cap Saves = {}

SaveInv ==
    /\ \A r \in Requests :
          At(r, "updateList") /\ req[r].met \cap Writers = {} => profile = req[r].user
    /\ LastSaveStands =>
          /\ profile = saved.settings
          /\ \A r \in Active : Kind(r) \in Logins /\ ~At(r, "readProfile") =>
                req[r].user = saved.settings

\* A save ends well by its last call only, with what it has saved.
LEMMA SaveEnds ==
    ASSUME BaseInv, NEW r \in Requests, StepOf(r)
    PROVE  \/ saved' = saved /\ (Kind(r) \in Saves => r \in Active')
           \/ Kind(r) \in Saves /\ saved'.raced
           \/ /\ Kind(r) \in Saves /\ UpdateList(r) /\ saved'.settings = req[r].user
              /\ saved'.raced = (req[r].met \cap Writers # {})
<1>. USE DEF Calls, Ends
<1>1. r \in Active /\ KindAt(r) /\ ReqOK
  BY StepMoves DEF BaseInv
<1>2. CASE Kind(r) \notin Saves
  BY <1>2 DEF StepOf, ReadProfile, WriteProfile, UpdateList, WriteAccess, WriteRefresh, ReadRefresh,
     WriteBetter, RereadRefresh, StoreRefreshed, RereadAccess, ReadAccess, Send, Revoke, DeleteAccess,
     DeleteRefresh, GoOn, Keep, Hold, End
<1>3. CASE Kind(r) \in Saves
  <2>1. ReadProfile(r) \/ WriteProfile(r) \/ UpdateList(r)
    BY <1>1, <1>3 DEF KindAt, At, Saves, Logins, Writers, StepOf, WriteAccess, WriteRefresh,
       ReadRefresh, WriteBetter, RereadRefresh, StoreRefreshed, RereadAccess, ReadAccess, Send, Revoke,
       DeleteAccess, DeleteRefresh
  <2>2. CASE WriteProfile(r)
    BY <2>2, NextCall DEF WriteProfile, GoOn, Active
  <2>3. CASE UpdateList(r)
    <3>1. saved' = [settings |-> req[r].user,
                    raced |-> "done" = "failed" \/ req[r].met \cap Writers # {}]
      BY <1>3, <2>3 DEF UpdateList, End
    <3>2. saved'.settings = req[r].user /\ saved'.raced = (req[r].met \cap Writers # {})
      BY <3>1, Zenon
    <3>. QED BY <1>3, <2>3, <3>2
  <2>4. CASE ReadProfile(r)
    <3>1. ASSUME NEW u, Keep(r, u, "writeProfile")
          PROVE  saved' = saved /\ r \in Active'
      <4>1. Moves(r, "writeProfile")
        BY <1>1, <3>1, SetUser
      <4>. QED BY <3>1, <4>1 DEF Keep, Moves, Active
    <3>2. CASE End(r, "failed")
      <4>1. saved' = [settings |-> req[r].user,
                      raced |-> "failed" = "failed" \/ req[r].met \cap Writers # {}]
        BY <1>3, <3>2 DEF End
      <4>. QED BY <1>3, <4>1
    <3>3. (\E u : Keep(r, u, "writeProfile")) \/ End(r, "failed")
      BY <1>3, <2>4 DEF ReadProfile, Logins, Saves
    <3>. QED BY <3>1, <3>2, <3>3
  <2>. QED BY <2>1, <2>2, <2>3, <2>4
<1>. QED BY <1>2, <1>3

\* Only WriteProfile changes the profile.
LEMMA WritesProfile ==
    ASSUME NEW r \in Requests, StepOf(r)
    PROVE  profile' = profile \/ WriteProfile(r)
  BY DEF StepOf, ReadProfile, UpdateList, WriteAccess, WriteRefresh, ReadRefresh, WriteBetter,
     RereadRefresh, StoreRefreshed, RereadAccess, ReadAccess, Send, Revoke, DeleteAccess, DeleteRefresh,
     data

\* Who comes to the list of delegators has just written the profile.
LEMMA ToUpdateList ==
    ASSUME BaseInv, NEW r \in Requests, StepOf(r), At(r, "updateList")'
    PROVE  WriteProfile(r) /\ profile' = req'[r].user
<1>1. WriteProfile(r)
  BY NextCall, LeavesCall DEF At, StepOf, Ends
<1>. QED BY <1>1, Remembers DEF WriteProfile, ReadProfile, At

LEMMA StepSave ==
    ASSUME BaseInv, SaveInv, NEW r \in Requests, StepOf(r)
    PROVE  SaveInv'
<1>1. /\ r \in Active /\ KindAt(r)
      /\ req'[r].kind = req[r].kind /\ req'[r].met = req[r].met
      /\ \A q \in Requests : q # r => req'[q] = req[q]
  BY StepMoves DEF Moves, BaseInv
<1>2. Active' \subseteq Active /\ Active \subseteq Active' \cup {r}
  BY StepMoves, MovesFacts
<1>3. ASSUME NEW q \in Requests, At(q, "updateList")', req'[q].met \cap Writers = {}
      PROVE  profile' = req'[q].user
  <2>1. CASE q = r
    BY <1>3, <2>1, ToUpdateList
  <2>2. CASE q # r
    <3>1. At(q, "updateList") /\ req[q].met \cap Writers = {} /\ q \in Active
      BY <1>1, <1>3, <2>2 DEF At, Active, Calls
    <3>2. Kind(r) \notin Writers
      BY <1>1, <2>2, <3>1 DEF BaseInv, MetOK
    <3>3. profile' = profile
      BY <1>1, <3>2, WritesProfile DEF WriteProfile, KindAt, At
    <3>. QED BY <1>1, <2>2, <3>1, <3>3 DEF SaveInv
  <2>. QED BY <2>1, <2>2
<1>4. ASSUME LastSaveStands'
      PROVE  /\ profile' = saved'.settings
             /\ \A q \in Active' : Kind(q)' \in Logins /\ ~At(q, "readProfile")' =>
                   req'[q].user = saved'.settings
  <2>1. saved'.settings # None /\ ~saved'.raced /\ \A q \in Active' : req'[q].kind \notin Saves
    BY <1>4 DEF LastSaveStands, KindsOf
  <2>2. CASE Kind(r) \in Saves
    <3>1. r \notin Active'
      BY <1>1, <2>1, <2>2 DEF Kind
    <3>2. /\ UpdateList(r) /\ saved'.settings = req[r].user
          /\ saved'.raced = (req[r].met \cap Writers # {})
      BY <2>1, <2>2, <3>1, SaveEnds
    <3>3. req[r].met \cap Writers = {}
      BY <2>1, <3>2, Zenon
    <3>4. profile' = profile /\ profile = req[r].user
      BY <3>2, <3>3 DEF UpdateList, SaveInv
    <3>5. \A q \in Active' : q # r /\ q \in Active
      BY <1>2, <3>1
    <3>6. \A q \in Active' : Kind(q)' \notin Writers
      BY <1>1, <3>3, <3>5 DEF BaseInv, MetOK, Kind, Active
    <3>. QED BY <3>2, <3>4, <3>6 DEF Writers
  <2>3. CASE Kind(r) \notin Saves
    <3>1. saved' = saved
      BY <2>3, SaveEnds
    <3>2. LastSaveStands
      <4>1. \A q \in Active : req[q].kind \notin Saves
        BY <1>1, <1>2, <2>1, <2>3 DEF Kind, Active
      <4>. QED BY <2>1, <3>1, <4>1 DEF LastSaveStands, KindsOf
    <3>3. /\ profile = saved.settings
          /\ \A q \in Active : Kind(q) \in Logins /\ ~At(q, "readProfile") =>
                req[q].user = saved.settings
      BY <3>2 DEF SaveInv
    <3>4. profile' = saved'.settings
      <4>1. CASE WriteProfile(r)
        BY <1>1, <2>3, <3>1, <3>3, <4>1 DEF WriteProfile, At, KindAt, Writers
      <4>. QED BY <3>1, <3>3, <4>1, WritesProfile
    <3>5. r \in Active' /\ Kind(r)' \in Logins /\ ~At(r, "readProfile")' =>
              req'[r].user = saved'.settings
      <4>1. CASE ReadProfile(r)
        BY <2>1, <2>3, <3>1, <3>3, <4>1, ReadsUser DEF Active, Calls
      <4>2. CASE ~ReadProfile(r)
        <5>1. req'[r].user = req[r].user
          BY <4>2, Remembers
        <5>2. ~At(r, "readProfile")
          BY <4>2 DEF At, StepOf, WriteProfile, UpdateList, WriteAccess, WriteRefresh, ReadRefresh,
             WriteBetter, RereadRefresh, StoreRefreshed, RereadAccess, ReadAccess, Send, Revoke,
             DeleteAccess, DeleteRefresh
        <5>. QED BY <1>1, <3>1, <3>3, <5>1, <5>2 DEF Kind
      <4>. QED BY <4>1, <4>2
    <3>6. \A q \in Active' : q # r /\ Kind(q)' \in Logins /\ ~At(q, "readProfile")' =>
              req'[q].user = saved'.settings
      BY <1>1, <1>2, <3>1, <3>3 DEF Kind, At, Active
    <3>. QED BY <3>4, <3>5, <3>6
  <2>. QED BY <2>2, <2>3
<1>. QED BY <1>3, <1>4 DEF SaveInv

LEMMA NextSave ==
    ASSUME BaseInv, SaveInv, [Next]_vars
    PROVE  SaveInv'
<1>1. CASE \E r \in Requests : StepOf(r)
  BY <1>1, StepSave
<1>2. ASSUME NEW r \in Requests, Fail(r)
      PROVE  SaveInv'
  <2>1. Moves(r, "failed") /\ Kept(r) /\ profile' = profile
    BY <1>2, FailMoves DEF data
  <2>2. Active' \subseteq Active /\ Active \subseteq Active' \cup {r} /\ r \notin Active'
    BY <1>2, <2>1, MovesFacts DEF Moves, Active, Calls
  <2>3. (Kind(r) \notin Saves /\ saved' = saved) \/ saved'.raced
    <3>1. CASE Kind(r) \in Saves
      <4>1. saved' = [settings |-> req[r].user,
                      raced |-> "failed" = "failed" \/ req[r].met \cap Writers # {}]
        BY <1>2, <3>1 DEF Fail, End
      <4>. QED BY <4>1
    <3>. QED BY <1>2, <3>1 DEF Fail, End
  <2>4. LastSaveStands' => LastSaveStands /\ saved' = saved
    BY <2>1, <2>2, <2>3 DEF LastSaveStands, KindsOf, Moves, Kind, Active
  <2>5. \A q \in Requests : At(q, "updateList")' => At(q, "updateList")
    BY <2>1 DEF At, Moves
  <2>. QED BY <2>1, <2>2, <2>4, <2>5 DEF SaveInv, Moves, Kept, Kind, At, Active
<1>3. ASSUME NEW r \in Requests, NEW k \in Kinds, Start(r, k)
      PROVE  SaveInv'
  <2>1. profile' = profile /\ saved' = saved /\ FirstCall(k) # "updateList"
    BY <1>3 DEF Start, data, FirstCall
  <2>2. ASSUME NEW q \in Requests, At(q, "updateList")', req'[q].met \cap Writers = {}
        PROVE  profile' = req'[q].user
    <3>1. q # r
      BY <1>3, <2>1, <2>2, StartFacts DEF At
    <3>2. req[q].at = "updateList" /\ q \in Active
      BY <1>3, <2>2, <3>1, StartFacts DEF At, Active, Calls
    <3>3. req'[q].met = req[q].met \cup {k} /\ req'[q].user = req[q].user
      BY <1>3, <3>1, <3>2, StartFacts
    <3>. QED BY <2>1, <2>2, <3>2, <3>3 DEF SaveInv, At
  <2>3. \A q \in Active : q # r /\ q \in Active' /\ q \in Requests
    BY <1>3, StartFacts DEF Active
  <2>4. LastSaveStands' => LastSaveStands
    BY <1>3, <2>1, <2>3, StartFacts DEF LastSaveStands, KindsOf
  <2>5. ASSUME LastSaveStands', NEW q \in Active', Kind(q)' \in Logins, ~At(q, "readProfile")'
        PROVE  req'[q].user = saved'.settings
    <3>1. q # r
      <4>1. CASE q = r
        BY <1>3, <2>5, <4>1, StartFacts DEF At, Kind, FirstCall, Writers
      <4>. QED BY <4>1
    <3>2. q \in Active /\ q \in Requests
      BY <1>3, <3>1, StartFacts DEF Active
    <3>. QED BY <1>3, <2>1, <2>4, <2>5, <3>1, <3>2, StartFacts DEF SaveInv, Kind, At
  <2>. QED BY <2>1, <2>2, <2>4, <2>5 DEF SaveInv
<1>4. CASE Expire
  BY <1>4, ExpireFacts DEF SaveInv, LastSaveStands, KindsOf, At, Kind, Active, history
<1>5. CASE UNCHANGED vars
  BY <1>5 DEF vars, data, history, SaveInv, LastSaveStands, KindsOf, At, Kind, Active
<1>. QED BY <1>1, <1>2, <1>3, <1>4, <1>5 DEF Next, StepOf

(* Saved settings are the user's until others are saved, however many      *)
(* logins read and write back the profile, unless a login or another save  *)
(* overlapped the saving (UsersManager.ts:56-61, 128-135, 176-184).        *)
THEOREM UsersSettingsLostOnlyToOverlaps == Spec => []SettingsLostOnlyToOverlaps
<1>1. Init => SaveInv
  <2>. SUFFICES ASSUME Init PROVE SaveInv
    OBVIOUS
  <2>1. /\ req = [r \in Requests |-> NewRequest] /\ NewRequest.at = "new"
        /\ saved.settings = None
    BY DEF Init, NewRequest
  <2>. QED BY <2>1 DEF SaveInv, LastSaveStands, At
<1>2. BaseInv /\ SaveInv /\ [Next]_vars => SaveInv'
  BY NextSave
<1>3. SaveInv => SettingsLostOnlyToOverlaps
  BY DEF SaveInv, LastSaveStands, SettingsLostOnlyToOverlaps
<1>. QED BY <1>1, <1>2, <1>3, UsersBase, PTL DEF Spec

-----------------------------------------------------------------------------
(* What a request has put in order when it has come so far alone, that is  *)
(* as long as it has met nobody.                                           *)
InOrder(r) ==
    /\ Kind(r) = "saveOn" /\ ~At(r, "readProfile") => req[r].user = "on"
    /\ Kind(r) = "saveOff" /\ ~At(r, "readProfile") => req[r].user = "off"
    /\ At(r, "updateList") => profile = req[r].user
    /\ At(r, "deleteRefresh") => access = NoToken
    /\ At(r, "rereadAccess") => access.scope = "wide"
    /\ At(r, "writeBetter") => req[r].token.scope = "wide"
    /\ At(r, "writeRefresh") => access.scope = "wide"
    /\ req[r].at \in {"writeProfile", "updateList"} /\ Kind(r) \in Logins /\ refresh =>
           access.scope = "wide"

AloneInv ==
    /\ last.at = "done" => Active = {}
    /\ \A r \in Active : req[r].met = {} => InOrder(r)
    /\ AloneLeavesOrder

\* What a step of a request alone puts in order.
LEMMA StepInOrder ==
    ASSUME BaseInv, NEW r \in Requests, StepOf(r), InOrder(r), r \in Active'
    PROVE  InOrder(r)'
<1>. USE DEF Calls, Ends
<1>1. KindAt(r) /\ req'[r].kind = req[r].kind /\ req'[r].at \notin Ends
  BY StepMoves DEF Moves, BaseInv, Active
<1>2. CASE ReadProfile(r)
  <2>1. profile' = profile /\ access' = access /\ refresh' = refresh
    BY <1>2 DEF ReadProfile, data
  <2>2. \/ Kind(r) \in Logins /\ req'[r].at = "writeAccess"
        \/ /\ Kind(r) \in Saves /\ req'[r].at = "writeProfile"
           /\ req'[r].user = IF Kind(r) = "saveOn" THEN "on" ELSE "off"
    BY <1>1, <1>2, ReadsUser
  <2>. QED BY <1>1, <2>1, <2>2 DEF InOrder, At, Kind, Logins, Saves
<1>3. CASE WriteProfile(r)
  <2>1. /\ req'[r].at = "updateList" /\ profile' = req[r].user /\ req'[r].user = req[r].user
        /\ access' = access /\ refresh' = refresh /\ req[r].at = "writeProfile"
    BY <1>3, NextCall, ToUpdateList DEF WriteProfile, At
  <2>. QED BY <1>1, <2>1 DEF InOrder, At, Kind
<1>4. CASE WriteAccess(r)
  <2>1. /\ req'[r].at = IF Kind(r) = "loginOffline" THEN "writeRefresh" ELSE "readRefresh"
        /\ Kind(r) = "loginOffline" => access'.scope = "wide"
        /\ Kind(r) \in Logins
    BY <1>1, <1>4, NextCall, TokenFacts DEF WriteAccess, KindAt, At, Logins
  <2>. QED BY <1>1, <2>1 DEF InOrder, At, Kind, Logins
<1>5. CASE WriteRefresh(r) \/ WriteBetter(r)
  <2>1. /\ req'[r].at = "writeProfile" /\ access'.scope = "wide" /\ Kind(r) \in Logins
    BY <1>1, <1>5, NextCall DEF WriteRefresh, WriteBetter, InOrder, KindAt, At, Logins
  <2>. QED BY <1>1, <2>1 DEF InOrder, At, Kind, Logins
<1>6. CASE ReadRefresh(r)
  <2>1. /\ req'[r].at = IF refresh THEN "rereadRefresh" ELSE "writeProfile"
        /\ refresh' = refresh /\ Kind(r) = "loginNarrow"
    BY <1>1, <1>6, NextCall DEF ReadRefresh, data, KindAt, At
  <2>. QED BY <1>1, <2>1 DEF InOrder, At, Kind
<1>7. CASE RereadRefresh(r) \/ StoreRefreshed(r)
  <2>1. /\ Kind(r) \in {"loginNarrow", "broadcast"}
        /\ \/ req'[r].at = "storeRefreshed"
           \/ req'[r].at = "rereadAccess" /\ access'.scope = "wide"
    BY <1>1, <1>7, NextCall, TokenFacts DEF StoreRefreshed, RereadRefresh, KindAt, At
  <2>. QED BY <1>1, <2>1 DEF InOrder, At, Kind
<1>8. CASE RereadAccess(r)
  <2>1. access.scope = "wide" /\ Kind(r) \in {"loginNarrow", "broadcast"}
    BY <1>1, <1>8 DEF RereadAccess, InOrder, KindAt, At
  <2>2. req'[r].at \in {"send", "writeBetter"} /\ req'[r].token = access
    BY <1>1, <1>8, LeavesCall, ReadsToken
  <2>. QED BY <1>1, <2>1, <2>2 DEF InOrder, At, Kind
<1>9. CASE ReadAccess(r) \/ Revoke(r)
  <2>1. /\ Kind(r) \in {"forget", "broadcast"}
        /\ req'[r].at \in {"revoke", "deleteAccess", "send", "rereadRefresh"}
    BY <1>1, <1>9, LeavesCall, NextCall DEF ReadAccess, Revoke, KindAt, At
  <2>. QED BY <1>1, <2>1 DEF InOrder, At, Kind, Logins
<1>10. CASE DeleteAccess(r)
  <2>1. Kind(r) = "forget" /\ req'[r].at = "deleteRefresh" /\ access' = NoToken
    BY <1>1, <1>10, NextCall DEF DeleteAccess, KindAt, At
  <2>. QED BY <1>1, <2>1 DEF InOrder, At, Kind, Logins
<1>11. ~UpdateList(r) /\ ~Send(r) /\ ~DeleteRefresh(r)
  BY <1>1, NextCall
<1>. QED BY <1>2, <1>3, <1>4, <1>5, <1>6, <1>7, <1>8, <1>9, <1>10, <1>11 DEF StepOf

\* The request that ends well, and leaves nobody, has put everything in order.
LEMMA LastInOrder ==
    ASSUME BaseInv, AloneInv, NEW r \in Requests, StepOf(r), last'.at = "done"
    PROVE  Active' = {} /\ AloneLeavesOrder'
<1>. USE DEF Calls, Ends
<1>1. r \in Active /\ KindAt(r) /\ last.at # "done"
  BY StepMoves DEF AloneInv, BaseInv
<1>2. /\ req'[r].kind = req[r].kind /\ req'[r].met = req[r].met
      /\ Active' \subseteq Active
  BY StepMoves, MovesFacts DEF Moves
<1>3. last' # last
  BY <1>1
<1>4. Active = {r} /\ last' = req'[r]
  <2>1. ASSUME NEW how, End(r, how)
        PROVE  Active = {r} /\ last' = req'[r]
    BY <2>1 DEF End, NewRequest
  <2>2. \E how : End(r, how)
    BY <1>3 DEF StepOf, ReadProfile, WriteProfile, UpdateList, WriteAccess, WriteRefresh, ReadRefresh,
       WriteBetter, RereadRefresh, StoreRefreshed, RereadAccess, ReadAccess, Send, Revoke,
       DeleteAccess, DeleteRefresh, GoOn, Keep, Hold
  <2>. QED BY <2>1, <2>2
<1>5. req'[r].at = "done"
  BY <1>4
<1>6. Active' = {}
  BY <1>2, <1>4, <1>5 DEF Active
<1>7. UpdateList(r) \/ Send(r) \/ DeleteRefresh(r)
  BY <1>5, NextCall, LeavesCall DEF StepOf
<1>8. ASSUME req[r].met = {}
      PROVE  AloneLeavesOrder'
  <2>1. InOrder(r)
    BY <1>1, <1>8 DEF AloneInv
  <2>2. CASE UpdateList(r)
    <3>1. /\ Kind(r) \in Writers /\ profile = req[r].user
          /\ UNCHANGED <<profile, access, refresh>>
      BY <1>1, <2>1, <2>2 DEF UpdateList, InOrder, KindAt, At
    <3>2. delegator' = (profile' = "on")
      BY <2>2, <3>1, Zenon DEF UpdateList
    <3>3. Kind(r) = "saveOn" => profile' = "on"
      BY <2>1, <2>2, <3>1 DEF UpdateList, InOrder, At
    <3>4. Kind(r) = "saveOff" => profile' = "off"
      BY <2>1, <2>2, <3>1 DEF UpdateList, InOrder, At
    <3>5. Kind(r) \in Logins /\ refresh' => access'.scope = "wide"
      BY <2>1, <2>2, <3>1 DEF UpdateList, InOrder, At
    <3>6. Kind(r) # "forget" /\ last'.kind = Kind(r)
      BY <1>2, <1>4, <3>1 DEF Writers, Logins, Saves, Kind
    <3>. QED BY <3>2, <3>3, <3>4, <3>5, <3>6, Zenon DEF AloneLeavesOrder
  <2>3. CASE Send(r)
    <3>1. last'.kind = "broadcast"
      BY <1>1, <1>2, <1>4, <2>3 DEF Send, KindAt, At, Kind
    <3>. QED BY <3>1 DEF AloneLeavesOrder, Logins, Writers, Saves
  <2>4. CASE DeleteRefresh(r)
    <3>1. last'.kind = "forget"
      BY <1>1, <1>2, <1>4, <2>4 DEF DeleteRefresh, KindAt, At, Kind
    <3>2. access' = NoToken /\ ~refresh'
      BY <2>1, <2>4 DEF DeleteRefresh, InOrder
    <3>. QED BY <3>1, <3>2 DEF AloneLeavesOrder, Logins, Writers, Saves
  <2>. QED BY <1>7, <2>2, <2>3, <2>4
<1>9. ASSUME req[r].met # {}
      PROVE  AloneLeavesOrder'
  BY <1>2, <1>4, <1>9 DEF AloneLeavesOrder
<1>. QED BY <1>6, <1>8, <1>9

LEMMA StepAlone ==
    ASSUME BaseInv, AloneInv, NEW r \in Requests, StepOf(r)
    PROVE  AloneInv'
<1>1. /\ r \in Active /\ Active' \subseteq Active
      /\ req'[r].met = req[r].met
      /\ \A q \in Requests : q # r => req'[q] = req[q]
  BY StepMoves, MovesFacts DEF Moves
<1>2. ASSUME NEW q \in Active', req'[q].met = {}
      PROVE  InOrder(q)'
  <2>1. q \in Active /\ q \in Requests
    BY <1>1 DEF Active
  <2>2. q = r
    BY <1>1, <1>2, <2>1 DEF BaseInv, MetOK
  <2>. QED BY <1>1, <1>2, <2>1, <2>2, StepInOrder DEF AloneInv
<1>3. last'.at # "done" => AloneLeavesOrder'
  BY DEF AloneLeavesOrder
<1>. QED BY <1>2, <1>3, LastInOrder DEF AloneInv

LEMMA NextAlone ==
    ASSUME BaseInv, AloneInv, [Next]_vars
    PROVE  AloneInv'
<1>1. CASE \E r \in Requests : StepOf(r)
  BY <1>1, StepAlone
<1>2. ASSUME NEW r \in Requests, Fail(r)
      PROVE  AloneInv'
  <2>1. Moves(r, "failed") /\ data' = data
    BY <1>2, FailMoves
  <2>2. last' = req'[r] \/ last' = NewRequest
    BY <1>2 DEF Fail, End
  <2>3. last'.at # "done"
    BY <2>1, <2>2 DEF Moves, NewRequest
  <2>4. \A q \in Active' : q \in Active /\ q # r /\ q \in Requests
    BY <1>2, <2>1, MovesFacts DEF Moves, Active, Calls
  <2>5. \A q \in Active' : req'[q].met = {} => InOrder(q)'
    BY <2>1, <2>4 DEF AloneInv, Moves, InOrder, data, At, Kind
  <2>. QED BY <2>3, <2>5 DEF AloneInv, AloneLeavesOrder
<1>3. ASSUME NEW r \in Requests, NEW k \in Kinds, Start(r, k)
      PROVE  AloneInv'
  <2>1. last'.at # "done"
    BY <1>3 DEF Start, NewRequest
  <2>2. ASSUME NEW q \in Active', req'[q].met = {}
        PROVE  InOrder(q)'
    <3>1. CASE q = r
      <4>1. req'[r].kind = k /\ req'[r].at = FirstCall(k)
        BY <1>3, StartFacts
      <4>2. FirstCall(k) \in {"readProfile", "readAccess"}
            /\ (k \in Saves => FirstCall(k) = "readProfile")
        BY DEF FirstCall, Writers
      <4>. QED BY <3>1, <4>1, <4>2 DEF InOrder, At, Kind, Saves
    <3>2. CASE q # r
      <4>1. q \in Active /\ q \in Requests
        BY <1>3, <3>2, StartFacts DEF Active
      <4>2. req'[q].met = req[q].met \cup {k}
        BY <1>3, <3>2, <4>1, StartFacts
      <4>. QED BY <2>2, <4>2
    <3>. QED BY <3>1, <3>2
  <2>. QED BY <2>1, <2>2 DEF AloneInv, AloneLeavesOrder
<1>4. CASE Expire
  <2>1. /\ access # NoToken /\ access'.scope = access.scope
        /\ UNCHANGED <<profile, refresh, delegator, req, last>>
    BY <1>4, ExpireFacts, TokenFacts DEF history
  <2>2. \A q \in Active : InOrder(q) => InOrder(q)'
    BY <2>1 DEF InOrder, At, Kind
  <2>3. AloneLeavesOrder'
    BY <2>1, Zenon DEF AloneInv, AloneLeavesOrder
  <2>. QED BY <2>1, <2>2, <2>3 DEF AloneInv, Active
<1>5. CASE UNCHANGED vars
  BY <1>5, Zenon DEF vars, data, history, AloneInv, AloneLeavesOrder, InOrder, At, Kind, Active
<1>. QED BY <1>1, <1>2, <1>3, <1>4, <1>5 DEF Next, StepOf

(* Whatever earlier and overlapping requests had left, a request that runs *)
(* alone to its end leaves a wide token where there is a refresh token,    *)
(* the list of delegators as the profile says, the settings that were      *)
(* asked for, or no tokens at all (UsersManager.ts:56-101, 128-135,        *)
(* 176-191).                                                               *)
THEOREM UsersAloneLeavesOrder == Spec => []AloneLeavesOrder
<1>1. Init => AloneInv
  <2>. SUFFICES ASSUME Init PROVE AloneInv
    OBVIOUS
  <2>1. req = [r \in Requests |-> NewRequest] /\ NewRequest.at = "new" /\ last = NewRequest
    BY DEF Init, NewRequest
  <2>2. Active = {}
    BY <2>1 DEF Active, Calls
  <2>. QED BY <2>1, <2>2 DEF AloneInv, AloneLeavesOrder
<1>2. BaseInv /\ AloneInv /\ [Next]_vars => AloneInv'
  BY NextAlone
<1>3. AloneInv => AloneLeavesOrder
  BY DEF AloneInv
<1>. QED BY <1>1, <1>2, <1>3, UsersBase, PTL DEF Spec

-----------------------------------------------------------------------------
(* Types.  That a profile is written only when it is known, and that what  *)
(* is sent with is a token, needs to be known of the calls before.         *)
Request ==
    [kind : Kinds \cup {None}, at : Calls \cup Ends \cup {"new"},
     user : Settings \cup {None}, token : Token \cup {NoToken}, met : SUBSET Kinds]

Known(r) ==
    /\ Kind(r) \in Writers /\ req[r].at \in Calls \ {"readProfile"} => req[r].user # None
    /\ At(r, "send") => req[r].token # NoToken

ReqTypeOK ==
    /\ DOMAIN req = Requests
    /\ \A r \in Requests : req[r] \in Request /\ Known(r)

DataOK ==
    /\ profile \in Settings \cup {None}
    /\ access \in Token \cup {NoToken}
    /\ refresh \in BOOLEAN /\ delegator \in BOOLEAN

SentOK == sent \subseteq [scope : {"narrow", "wide"}, met : SUBSET Kinds]

HistoryOK ==
    /\ forgotten \in BOOLEAN
    /\ saved \in [settings : Settings \cup {None}, raced : BOOLEAN]

CountsOK == expiries \in 0..MaxExpiries /\ faults \in 0..MaxFaults

TypeInv == ReqTypeOK /\ DataOK /\ SentOK /\ HistoryOK /\ CountsOK

LEMMA TokenTypes == Wide \in Token /\ Narrow \in Token
  BY DEF Token, Wide, Narrow

Becomes(r, user, token, at) ==
    req' = [req EXCEPT ![r] = [req[r] EXCEPT !.user = user, !.token = token, !.at = at]]

\* A request that goes on, or ends, stays one.
LEMMA GoesOnTyped ==
    ASSUME ReqTypeOK, NEW r \in Requests,
           NEW user \in Settings \cup {None}, NEW token \in Token \cup {NoToken},
           NEW at \in Calls \cup Ends,
           Kind(r) \in Writers /\ at \in Calls => user # None,
           at = "send" => token # NoToken,
           Becomes(r, user, token, at)
    PROVE  ReqTypeOK'
<1>1. [req[r] EXCEPT !.user = user, !.token = token, !.at = at] \in Request
  BY DEF ReqTypeOK, Request
<1>2. req'[r] \in Request /\ \A q \in Requests : q # r => req'[q] = req[q]
  BY <1>1 DEF ReqTypeOK, Becomes
<1>3. /\ req'[r].kind = req[r].kind /\ req'[r].at = at
      /\ req'[r].user = user /\ req'[r].token = token
  BY DEF ReqTypeOK, Request, Becomes
<1>4. Known(r)'
  BY <1>3 DEF Known, At, Kind
<1>5. DOMAIN req' = Requests
  BY DEF ReqTypeOK, Becomes
<1>6. \A q \in Requests : q # r => Known(q)'
  BY <1>2 DEF Known, ReqTypeOK, At, Kind
<1>. QED BY <1>2, <1>4, <1>5, <1>6 DEF ReqTypeOK

LEMMA AtTyped ==
    ASSUME ReqTypeOK, NEW r \in Requests, NEW at \in Calls \cup Ends,
           Kind(r) \in Writers /\ at \in Calls => req[r].user # None,
           at = "send" => req[r].token # NoToken,
           req' = [req EXCEPT ![r].at = at]
    PROVE  ReqTypeOK'
<1>1. req[r].user \in Settings \cup {None} /\ req[r].token \in Token \cup {NoToken}
  BY DEF ReqTypeOK, Request
<1>2. [req[r] EXCEPT !.at = at] =
          [req[r] EXCEPT !.user = req[r].user, !.token = req[r].token, !.at = at]
  BY DEF ReqTypeOK, Request
<1>3. Becomes(r, req[r].user, req[r].token, at)
  BY <1>2 DEF Becomes
<1>. QED BY <1>1, <1>3, GoesOnTyped

LEMMA KeepTyped ==
    ASSUME ReqTypeOK, NEW r \in Requests, NEW user \in Settings, NEW at \in Calls, at # "send",
           Keep(r, user, at)
    PROVE  ReqTypeOK'
<1>1. req[r].token \in Token \cup {NoToken} /\ user # None
  BY DEF ReqTypeOK, Request, Settings, None
<1>2. [[req[r] EXCEPT !.user = user] EXCEPT !.at = at] =
          [req[r] EXCEPT !.user = user, !.token = req[r].token, !.at = at]
  BY DEF ReqTypeOK, Request
<1>3. req' = [req EXCEPT ![r] = [[req[r] EXCEPT !.user = user] EXCEPT !.at = at]]
  BY DEF Keep, ReqTypeOK
<1>4. Becomes(r, user, req[r].token, at)
  BY <1>2, <1>3 DEF Becomes
<1>. QED BY <1>1, <1>4, GoesOnTyped

LEMMA HoldTyped ==
    ASSUME ReqTypeOK, NEW r \in Requests, NEW token \in Token \cup {NoToken}, NEW at \in Calls,
           Kind(r) \in Writers => req[r].user # None, at = "send" => token # NoToken,
           Hold(r, token, at)
    PROVE  ReqTypeOK'
<1>1. req[r].user \in Settings \cup {None}
  BY DEF ReqTypeOK, Request
<1>2. [[req[r] EXCEPT !.token = token] EXCEPT !.at = at] =
          [req[r] EXCEPT !.user = req[r].user, !.token = token, !.at = at]
  BY DEF ReqTypeOK, Request
<1>3. req' = [req EXCEPT ![r] = [[req[r] EXCEPT !.token = token] EXCEPT !.at = at]]
  BY DEF Hold, ReqTypeOK
<1>4. Becomes(r, req[r].user, token, at)
  BY <1>2, <1>3 DEF Becomes
<1>. QED BY <1>1, <1>4, GoesOnTyped

LEMMA EndTyped ==
    ASSUME ReqTypeOK, HistoryOK, NEW r \in Requests, NEW how \in Ends, End(r, how)
    PROVE  ReqTypeOK' /\ HistoryOK'
<1>1. ReqTypeOK'
  BY AtTyped DEF End, Ends, Calls
<1>2. forgotten' \in BOOLEAN
  <2>1. forgotten' = (forgotten \/ (/\ Kind(r) = "forget" /\ how = "done"
                                    /\ req[r].met \cap TokenWriters = {}))
    BY DEF End
  <2>. QED BY <2>1, Zenon
<1>3. saved' \in [settings : Settings \cup {None}, raced : BOOLEAN]
  <2>1. CASE Kind(r) \notin Saves
    BY <2>1 DEF End, HistoryOK
  <2>2. CASE Kind(r) \in Saves
    <3>1. PICK raced \in BOOLEAN : saved' = [settings |-> req[r].user, raced |-> raced]
      BY <2>2 DEF End
    <3>2. req[r].user \in Settings \cup {None}
      BY DEF ReqTypeOK, Request
    <3>. QED BY <3>1, <3>2
  <2>. QED BY <2>1, <2>2
<1>. QED BY <1>1, <1>2, <1>3 DEF HistoryOK

\* A call that goes on to another, from one that was not the first or knows its user.
LEMMA GoOnTyped ==
    ASSUME ReqTypeOK, NEW r \in Requests, NEW at \in Calls, at # "send",
           req[r].at \in Calls \ {"readProfile"}, GoOn(r, at)
    PROVE  ReqTypeOK'
<1>1. Kind(r) \in Writers => req[r].user # None
  BY DEF ReqTypeOK, Known
<1>. QED BY <1>1, AtTyped DEF GoOn

LEMMA StepTyped ==
    ASSUME BaseInv, TypeInv, NEW r \in Requests, StepOf(r)
    PROVE  TypeInv'
<1>. USE DEF Calls, Ends
<1>0. /\ ReqTypeOK /\ HistoryOK /\ SentOK /\ DataOK /\ CountsOK /\ KindAt(r) /\ Known(r)
      /\ req[r] \in Request
  BY DEF TypeInv, ReqTypeOK, BaseInv
<1>1. CASE ReadProfile(r)
  <2>1. SentOK' /\ DataOK' /\ CountsOK'
    BY <1>0, <1>1 DEF ReadProfile, data, SentOK, DataOK, CountsOK
  <2>2. CASE \E user \in Settings, at \in {"writeAccess", "writeProfile"} : Keep(r, user, at)
    <3>1. ReqTypeOK'
      BY <1>0, <2>2, KeepTyped
    <3>. QED BY <1>0, <2>1, <2>2, <3>1 DEF TypeInv, Keep, HistoryOK
  <2>3. CASE End(r, "failed")
    BY <1>0, <2>1, <2>3, EndTyped DEF TypeInv
  <2>4. /\ (IF profile = None THEN "off" ELSE profile) \in Settings
        /\ (IF Kind(r) = "saveOn" THEN "on" ELSE "off") \in Settings
    BY <1>0 DEF DataOK, Settings
  <2>. QED BY <1>1, <2>2, <2>3, <2>4 DEF ReadProfile
<1>2. CASE WriteProfile(r) \/ WriteAccess(r) \/ WriteRefresh(r) \/ WriteBetter(r)
           \/ StoreRefreshed(r) \/ DeleteAccess(r)
  <2>1. /\ req[r].at \in Calls \ {"readProfile"} /\ \E at \in Calls : at # "send" /\ GoOn(r, at)
        /\ UNCHANGED <<sent, expiries, faults>>
    BY <1>2 DEF WriteProfile, WriteAccess, WriteRefresh, WriteBetter, StoreRefreshed, DeleteAccess, At
  <2>2. ReqTypeOK'
    BY <1>0, <2>1, GoOnTyped
  <2>3. profile' \in Settings \cup {None}
    BY <1>0, <1>2 DEF DataOK, Request, WriteProfile, WriteAccess, WriteRefresh, WriteBetter,
           StoreRefreshed, DeleteAccess
  <2>4. access' \in Token \cup {NoToken}
    BY <1>0, <1>2, TokenTypes DEF DataOK, Request, WriteProfile, WriteAccess, WriteRefresh,
           WriteBetter, StoreRefreshed, DeleteAccess
  <2>5. refresh' \in BOOLEAN /\ delegator' \in BOOLEAN
    BY <1>0, <1>2 DEF DataOK, WriteProfile, WriteAccess, WriteRefresh, WriteBetter, StoreRefreshed,
           DeleteAccess
  <2>. QED BY <1>0, <2>1, <2>2, <2>3, <2>4, <2>5 DEF TypeInv, DataOK, SentOK, HistoryOK, CountsOK, GoOn
<1>3. CASE ReadRefresh(r) \/ RereadRefresh(r) \/ Revoke(r)
  <2>1. /\ req[r].at \in Calls \ {"readProfile"}
        /\ (\E at \in Calls : at # "send" /\ GoOn(r, at)) \/ End(r, "failed")
        /\ UNCHANGED <<profile, access, refresh, delegator, sent, expiries, faults>>
    BY <1>3 DEF ReadRefresh, RereadRefresh, Revoke, At, data
  <2>2. ReqTypeOK' /\ HistoryOK'
    <3>1. CASE End(r, "failed")
      BY <1>0, <3>1, EndTyped
    <3>2. CASE \E at \in Calls : at # "send" /\ GoOn(r, at)
      BY <1>0, <2>1, <3>2, GoOnTyped DEF GoOn, HistoryOK
    <3>. QED BY <2>1, <3>1, <3>2
  <2>. QED BY <1>0, <2>1, <2>2 DEF TypeInv, DataOK, SentOK, CountsOK
<1>4. CASE RereadAccess(r) \/ ReadAccess(r)
  <2>1. /\ req[r].at \in Calls \ {"readProfile"} /\ access \in Token \cup {NoToken}
        /\ UNCHANGED <<profile, access, refresh, delegator, sent, expiries, faults>>
        /\ \/ \E at \in Calls : (at = "send" => access # NoToken) /\ Hold(r, access, at)
           \/ End(r, "failed")
    <3>1. access.scope = "wide" => access # NoToken
      BY TokenFacts DEF None
    <3>. QED BY <1>0, <1>4, <3>1 DEF RereadAccess, ReadAccess, At, data, DataOK
  <2>2. ReqTypeOK' /\ HistoryOK'
    <3>1. CASE End(r, "failed")
      BY <1>0, <3>1, EndTyped
    <3>2. CASE \E at \in Calls : (at = "send" => access # NoToken) /\ Hold(r, access, at)
      <4>1. Kind(r) \in Writers => req[r].user # None
        BY <1>0, <2>1 DEF Known
      <4>. QED BY <1>0, <2>1, <3>2, <4>1, HoldTyped DEF Hold, HistoryOK
    <3>. QED BY <2>1, <3>1, <3>2
  <2>. QED BY <1>0, <2>1, <2>2 DEF TypeInv, DataOK, SentOK, CountsOK
<1>5. CASE UpdateList(r) \/ DeleteRefresh(r) \/ Send(r)
  <2>1. ReqTypeOK' /\ HistoryOK'
    BY <1>0, <1>5, EndTyped DEF UpdateList, DeleteRefresh, Send
  <2>2. DataOK' /\ CountsOK'
    BY <1>0, <1>5 DEF UpdateList, DeleteRefresh, Send, data, DataOK, CountsOK
  <2>3. SentOK'
    <3>1. CASE Send(r)
      <4>1. req[r].token.scope \in {"narrow", "wide"} /\ req[r].met \in SUBSET Kinds
        BY <1>0, <3>1 DEF Send, At, Known, Request, Token
      <4>. QED BY <1>0, <3>1, <4>1 DEF Send, SentOK
    <3>. QED BY <1>0, <1>5, <3>1 DEF UpdateList, DeleteRefresh, SentOK
  <2>. QED BY <2>1, <2>2, <2>3 DEF TypeInv
<1>. QED BY <1>1, <1>2, <1>3, <1>4, <1>5 DEF StepOf

LEMMA NextTyped ==
    ASSUME BaseInv, TypeInv, [Next]_vars
    PROVE  TypeInv'
<1>. USE UsersAssumption
<1>1. CASE \E r \in Requests : StepOf(r)
  BY <1>1, StepTyped
<1>2. ASSUME NEW r \in Requests, Fail(r)
      PROVE  TypeInv'
  <2>1. ReqTypeOK' /\ HistoryOK'
    BY <1>2, EndTyped DEF Fail, Ends, TypeInv
  <2>. QED BY <1>2, <2>1 DEF Fail, TypeInv, DataOK, SentOK, CountsOK, data
<1>3. ASSUME NEW r \in Requests, NEW k \in Kinds, Start(r, k)
      PROVE  TypeInv'
  <2>1. KindsOf(Active) \in SUBSET Kinds
    <3>1. \A q \in Active : req[q].kind \in Kinds
      BY DEF Active, BaseInv, KindAt, Kind, Calls, Kinds, Writers, Logins, Saves
    <3>. QED BY <3>1 DEF KindsOf
  <2>2. FirstCall(k) \in {"readProfile", "readAccess"} /\ (k \in Writers => FirstCall(k) = "readProfile")
    BY DEF FirstCall
  <2>3. [NewRequest EXCEPT !.kind = k, !.at = FirstCall(k), !.met = KindsOf(Active)] \in Request
    BY <2>1, <2>2 DEF NewRequest, Request, Calls
  <2>4. \A q \in Requests : [req[q] EXCEPT !.met = req[q].met \cup {k}] \in Request
    BY DEF TypeInv, ReqTypeOK, Request
  <2>5. DOMAIN req' = Requests /\ \A q \in Requests : req'[q] \in Request
    BY <1>3, <2>3, <2>4 DEF Start, TypeInv, ReqTypeOK
  <2>6. \A q \in Requests : Known(q)'
    BY <1>3, <2>2, StartFacts DEF Known, TypeInv, ReqTypeOK, Kind, At
  <2>7. forgotten' \in BOOLEAN
    <3>1. forgotten' = (forgotten /\ k \notin Logins)
      BY <1>3 DEF Start
    <3>. QED BY <3>1, Zenon
  <2>. QED BY <1>3, <2>5, <2>6, <2>7
       DEF Start, TypeInv, ReqTypeOK, DataOK, SentOK, HistoryOK, CountsOK, data
<1>4. CASE Expire
  <2>1. access' \in Token \cup {NoToken}
    <3>1. access \in Token
      BY <1>4, ExpireFacts, TokenFacts DEF TypeInv, DataOK
    <3>. QED BY <1>4, <3>1 DEF Expire, Token
  <2>2. expiries' \in 0..MaxExpiries /\ faults' \in 0..MaxFaults
    BY <1>4 DEF Expire, TypeInv, CountsOK
  <2>3. ReqTypeOK' /\ SentOK' /\ HistoryOK'
    BY <1>4 DEF Expire, TypeInv, ReqTypeOK, Known, At, Kind, SentOK, HistoryOK, history
  <2>. QED BY <1>4, <2>1, <2>2, <2>3 DEF Expire, TypeInv, DataOK, CountsOK
<1>5. CASE UNCHANGED vars
  BY <1>5 DEF vars, data, history, TypeInv, ReqTypeOK, Known, At, Kind, DataOK, SentOK, HistoryOK,
              CountsOK
<1>. QED BY <1>1, <1>2, <1>3, <1>4, <1>5 DEF Next, StepOf

(* Type correctness, with what is more than types in it: a profile is      *)
(* written only when it is known (UsersManager.ts:56-61, 128-135).         *)
THEOREM UsersTypeOK == Spec => []TypeOK
<1>1. Init => TypeInv
  <2>. SUFFICES ASSUME Init PROVE TypeInv
    OBVIOUS
  <2>1. req = [r \in Requests |-> NewRequest] /\ NewRequest \in Request /\ NewRequest.at = "new"
    BY DEF Init, NewRequest, Request
  <2>2. ReqTypeOK
    BY <2>1 DEF ReqTypeOK, Known, At, Calls
  <2>3. DataOK
    BY TokenTypes DEF Init, DataOK, Settings, None
  <2>4. SentOK /\ HistoryOK
    BY DEF Init, SentOK, HistoryOK, None
  <2>5. CountsOK
    BY UsersAssumption DEF Init, CountsOK
  <2>. QED BY <2>2, <2>3, <2>4, <2>5 DEF TypeInv
<1>2. BaseInv /\ TypeInv /\ [Next]_vars => TypeInv'
  BY NextTyped
<1>3. BaseInv /\ TypeInv => TypeOK
  <2>. SUFFICES ASSUME BaseInv, TypeInv PROVE TypeOK
    OBVIOUS
  <2>1. \A r \in Requests : At(r, "writeProfile") => req[r].user # None
    BY DEF BaseInv, KindAt, TypeInv, ReqTypeOK, Known, At, Calls
  <2>. QED BY <2>1 DEF TypeOK, TypeInv, ReqTypeOK, Request, DataOK, SentOK, HistoryOK, CountsOK
<1>. QED BY <1>1, <1>2, <1>3, UsersBase, PTL DEF Spec
===============================================================================
