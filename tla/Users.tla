--------------------------------- MODULE Users ---------------------------------
(***************************************************************************)
(* What the hub keeps of one user, and the requests that change it: the    *)
(* profile, the access token and the refresh token are three secrets in    *)
(* Vault, and whether the user is a delegator is a member of a Redis set.  *)
(* A request reads and writes them one at a time, the API serves requests  *)
(* concurrently, the publisher works on the same secrets, and nothing      *)
(* locks them.                                                             *)
(*                                                                         *)
(* From lib/UsersManager.ts, called by api/auth/AuthManager.ts (login,     *)
(* revoke_all), api/routes/UserRoutes.ts (settings) and the publisher      *)
(* (broadcast); both services set canIssueRefreshTokens (api/app.ts:63,    *)
(* publisher/index.ts:64).                                                 *)
(*                                                                         *)
(* A request is at the next call it makes to Vault, Redis or Steemconnect. *)
(* A token is wide when it allows custom_json and vote, which publishing   *)
(* needs; only the login with offline scope grants wide tokens.            *)
(***************************************************************************)
EXTENDS Naturals, FiniteSets

CONSTANTS
    Requests,    \* bound: the requests considered
    MaxExpiries, \* bound: how often the access token expires
    MaxFaults    \* bound: how many requests fail by a call that is rejected

ASSUME UsersAssumption == MaxExpiries \in Nat /\ MaxFaults \in Nat

Settings == {"on", "off"}  \* UserSettings.daemonEnabled
None == "none"
Logins == {"loginNarrow", "loginOffline"}
Saves == {"saveOn", "saveOff"}
Kinds == Logins \cup Saves \cup {"forget", "broadcast"}
Writers == Logins \cup Saves  \* the requests that write the profile
TokenWriters == Logins \cup {"broadcast"}  \* those that may store a token

Token == [scope : {"narrow", "wide"}, fresh : BOOLEAN]
NoToken == [scope |-> None, fresh |-> FALSE]
Narrow == [scope |-> "narrow", fresh |-> TRUE]
Wide == [scope |-> "wide", fresh |-> TRUE]

VARIABLES
    profile,    \* the settings in the user's profile, or None without a profile
    access,     \* the access token
    refresh,    \* whether there is a refresh token
    delegator,  \* whether the user is in the Redis set
    req,        \* the requests: their kind, their next call, what they have read,
                \* and the kinds of requests they overlapped with
    last,       \* history: the request that ended last, if none was left then
    forgotten,  \* history: forgetUser ended, overlapping with no request that
                \* stores tokens, and nobody has logged in since
    saved,      \* history: the settings whose saving ended last, and whether it
                \* failed or another request wrote the profile meanwhile
    sent,       \* history: the broadcasts sent, by scope and overlapped kinds
    expiries, faults

data == <<profile, access, refresh, delegator>>
history == <<last, forgotten, saved, sent>>
vars == <<data, req, history, expiries, faults>>

FirstCall(k) ==
    IF k \in Writers THEN "readProfile" ELSE "readAccess"

Calls == {"readProfile", "writeAccess", "writeRefresh", "readRefresh", "rereadRefresh",
          "storeRefreshed", "rereadAccess", "writeBetter", "writeProfile", "updateList",
          "readAccess", "revoke", "deleteAccess", "deleteRefresh", "send"}
Ends == {"done", "failed"}

NewRequest == [kind |-> None, at |-> "new", user |-> None, token |-> NoToken, met |-> {}]

Active == {r \in Requests : req[r].at \in Calls}
KindsOf(S) == {req[r].kind : r \in S}

\* A user who never logged in, or one with an offline login behind.
Init ==
    /\ \/ profile = None /\ access = NoToken /\ refresh = FALSE /\ delegator = FALSE
       \/ /\ profile \in Settings /\ delegator = (profile = "on")
          /\ access = Wide /\ refresh = TRUE
    /\ req = [r \in Requests |-> NewRequest]
    /\ last = NewRequest /\ forgotten = FALSE
    /\ saved = [settings |-> None, raced |-> FALSE] /\ sent = {}
    /\ expiries = 0 /\ faults = 0

-----------------------------------------------------------------------------
(***************************************************************************)
(* How requests come and go.                                               *)
(***************************************************************************)
Start(r, k) ==
    /\ req[r].at = "new"
    /\ req' = [q \in Requests |->
                  IF q = r THEN [NewRequest EXCEPT !.kind = k, !.at = FirstCall(k),
                                                   !.met = KindsOf(Active)]
                  ELSE IF q \in Active THEN [req[q] EXCEPT !.met = @ \cup {k}]
                  ELSE req[q]]
    /\ last' = NewRequest
    /\ forgotten' = (forgotten /\ k \notin Logins)
    /\ UNCHANGED <<data, saved, sent, expiries, faults>>

At(r, call) == req[r].at = call
Kind(r) == req[r].kind

\* The request goes on to its next call.
GoOn(r, call) == req' = [req EXCEPT ![r].at = call] /\ UNCHANGED <<last, forgotten, saved>>

\* It goes on with the profile or the token it has just read.
Keep(r, user, call) ==
    req' = [req EXCEPT ![r].user = user, ![r].at = call] /\ UNCHANGED <<last, forgotten, saved>>
Hold(r, token, call) ==
    req' = [req EXCEPT ![r].token = token, ![r].at = call] /\ UNCHANGED <<last, forgotten, saved>>

\* Its promise settles.
End(r, how) ==
    /\ req' = [req EXCEPT ![r].at = how]
    /\ last' = IF Active = {r} THEN req'[r] ELSE NewRequest
    /\ forgotten' = (forgotten \/ (/\ Kind(r) = "forget" /\ how = "done"
                                  /\ req[r].met \cap TokenWriters = {}))
    /\ saved' = IF Kind(r) \notin Saves THEN saved
                ELSE [settings |-> req[r].user,
                      raced |-> how = "failed" \/ req[r].met \cap Writers # {}]

\* The next call is rejected, or the process dies, and nothing is undone.  A
\* call that is executed before it is rejected fails as if before the next one.
Fail(r) ==
    /\ r \in Active
    /\ faults < MaxFaults
    /\ faults' = faults + 1
    /\ End(r, "failed")
    /\ UNCHANGED <<data, sent, expiries>>

\* Time passes.
Expire ==
    /\ access.fresh
    /\ expiries < MaxExpiries
    /\ expiries' = expiries + 1
    /\ access' = [access EXCEPT !.fresh = FALSE]
    /\ UNCHANGED <<profile, refresh, delegator, req, history, faults>>

-----------------------------------------------------------------------------
(***************************************************************************)
(* login and saveUserSettings begin with the profile and end with setUser. *)
(***************************************************************************)
\* Defect for the mutation check: the defaults win over the saved settings.
ReadProfileDefaults(r) ==
    /\ At(r, "readProfile")
    /\ CASE Kind(r) \in Logins -> Keep(r, "off", "writeAccess")
         [] Kind(r) \in Saves /\ profile # None ->
              Keep(r, IF Kind(r) = "saveOn" THEN "on" ELSE "off", "writeProfile")
         [] OTHER -> End(r, "failed")
    /\ UNCHANGED <<data, sent, expiries, faults>>

\* Defect for the mutation check: settings are saved for a user without profile.
ReadProfileUnchecked(r) ==
    /\ At(r, "readProfile")
    /\ IF Kind(r) \in Logins
         THEN Keep(r, IF profile = None THEN "off" ELSE profile, "writeAccess")
         ELSE Keep(r, profile, "writeProfile")
    /\ UNCHANGED <<data, sent, expiries, faults>>

ReadProfile(r) ==
    /\ At(r, "readProfile")
    /\ CASE Kind(r) \in Logins ->
              Keep(r, IF profile = None THEN "off" ELSE profile, "writeAccess")
         [] Kind(r) \in Saves /\ profile # None ->
              Keep(r, IF Kind(r) = "saveOn" THEN "on" ELSE "off", "writeProfile")
         [] OTHER -> End(r, "failed")
    /\ UNCHANGED <<data, sent, expiries, faults>>

\* setUser: the profile, then the list of delegators.
WriteProfile(r) ==
    /\ At(r, "writeProfile")
    /\ profile' = req[r].user
    /\ GoOn(r, "updateList")
    /\ UNCHANGED <<access, refresh, delegator, sent, expiries, faults>>

\* Defect for the mutation check: the list is only ever added to.
UpdateListAdding(r) ==
    /\ At(r, "updateList")
    /\ delegator' = (delegator \/ req[r].user = "on")
    /\ End(r, "done")
    /\ UNCHANGED <<profile, access, refresh, sent, expiries, faults>>

\* DelegatorManager.addDelegator or removeDelegator.
UpdateList(r) ==
    /\ At(r, "updateList")
    /\ delegator' = (req[r].user = "on")
    /\ End(r, "done")
    /\ UNCHANGED <<profile, access, refresh, sent, expiries, faults>>

-----------------------------------------------------------------------------
(***************************************************************************)
(* login: the token the user came with is stored first.  A login without   *)
(* refresh token then tries to get a wide one by an earlier refresh token. *)
(***************************************************************************)
WriteAccess(r) ==
    /\ At(r, "writeAccess")
    /\ \/ Kind(r) = "loginOffline" /\ access' = Wide /\ GoOn(r, "writeRefresh")
       \/ Kind(r) = "loginNarrow" /\ access' = Narrow /\ GoOn(r, "readRefresh")
    /\ UNCHANGED <<profile, refresh, delegator, sent, expiries, faults>>

WriteRefresh(r) ==
    /\ At(r, "writeRefresh")
    /\ refresh' = TRUE
    /\ GoOn(r, "writeProfile")
    /\ UNCHANGED <<profile, access, delegator, sent, expiries, faults>>

ReadRefresh(r) ==
    /\ At(r, "readRefresh")
    /\ GoOn(r, IF refresh THEN "rereadRefresh" ELSE "writeProfile")
    /\ UNCHANGED <<data, sent, expiries, faults>>

\* The token refreshAccessToken returned is stored once more.
WriteBetter(r) ==
    /\ At(r, "writeBetter")
    /\ access' = req[r].token
    /\ GoOn(r, "writeProfile")
    /\ UNCHANGED <<profile, refresh, delegator, sent, expiries, faults>>

-----------------------------------------------------------------------------
(***************************************************************************)
(* refreshAccessToken, called by a narrow login and by broadcast.          *)
(***************************************************************************)
RereadRefresh(r) ==
    /\ At(r, "rereadRefresh")
    /\ IF refresh THEN GoOn(r, "storeRefreshed") ELSE End(r, "failed")
    /\ UNCHANGED <<data, sent, expiries, faults>>

\* Steemconnect has issued a token.
StoreRefreshed(r) ==
    /\ At(r, "storeRefreshed")
    /\ access' = Wide
    /\ GoOn(r, "rereadAccess")
    /\ UNCHANGED <<profile, refresh, delegator, sent, expiries, faults>>

\* What is returned is read from Vault.
RereadAccess(r) ==
    /\ At(r, "rereadAccess")
    /\ IF access = NoToken
         THEN End(r, "failed")
         ELSE Hold(r, access, IF Kind(r) = "broadcast" THEN "send" ELSE "writeBetter")
    /\ UNCHANGED <<data, sent, expiries, faults>>

-----------------------------------------------------------------------------
(***************************************************************************)
(* broadcast and forgetUser begin with the access token.                   *)
(***************************************************************************)
\* Defect for the mutation check: the scope is not looked at.
ReadAccessUnchecked(r) ==
    /\ At(r, "readAccess")
    /\ IF Kind(r) = "forget"
         THEN Hold(r, access, IF access = NoToken THEN "deleteAccess" ELSE "revoke")
         ELSE IF access = NoToken
                THEN End(r, "failed")
                ELSE Hold(r, access, IF access.fresh THEN "send" ELSE "rereadRefresh")
    /\ UNCHANGED <<data, sent, expiries, faults>>

ReadAccess(r) ==
    /\ At(r, "readAccess")
    /\ IF Kind(r) = "forget"
         THEN Hold(r, access, IF access = NoToken THEN "deleteAccess" ELSE "revoke")
         ELSE IF access.scope # "wide"
                THEN End(r, "failed")
                ELSE Hold(r, access, IF access.fresh THEN "send" ELSE "rereadRefresh")
    /\ UNCHANGED <<data, sent, expiries, faults>>

Send(r) ==
    /\ At(r, "send")
    /\ sent' = sent \cup {[scope |-> req[r].token.scope, met |-> req[r].met]}
    /\ End(r, IF req[r].token.scope = "wide" THEN "done" ELSE "failed")
    /\ UNCHANGED <<data, expiries, faults>>

\* Steemconnect revokes the token, which Vault still has.
Revoke(r) ==
    /\ At(r, "revoke")
    /\ GoOn(r, "deleteAccess")
    /\ UNCHANGED <<data, sent, expiries, faults>>

\* Defect for the mutation check: the refresh token is not deleted.
DeleteAccessOnly(r) ==
    /\ At(r, "deleteAccess")
    /\ access' = NoToken
    /\ End(r, "done")
    /\ UNCHANGED <<profile, refresh, delegator, sent, expiries, faults>>

DeleteAccess(r) ==
    /\ At(r, "deleteAccess")
    /\ access' = NoToken
    /\ GoOn(r, "deleteRefresh")
    /\ UNCHANGED <<profile, refresh, delegator, sent, expiries, faults>>

DeleteRefresh(r) ==
    /\ At(r, "deleteRefresh")
    /\ refresh' = FALSE
    /\ End(r, "done")
    /\ UNCHANGED <<profile, access, delegator, sent, expiries, faults>>

-----------------------------------------------------------------------------
Next ==
    \/ \E r \in Requests :
          \/ \E k \in Kinds : Start(r, k)
          \/ Fail(r)
          \/ ReadProfile(r) \/ WriteProfile(r) \/ UpdateList(r)
          \/ WriteAccess(r) \/ WriteRefresh(r) \/ ReadRefresh(r) \/ WriteBetter(r)
          \/ RereadRefresh(r) \/ StoreRefreshed(r) \/ RereadAccess(r)
          \/ ReadAccess(r) \/ Send(r) \/ Revoke(r) \/ DeleteAccess(r) \/ DeleteRefresh(r)
    \/ Expire

Spec == Init /\ [][Next]_vars

-----------------------------------------------------------------------------
TypeOK ==
    /\ profile \in Settings \cup {None}
    /\ access \in Token \cup {NoToken}
    /\ refresh \in BOOLEAN /\ delegator \in BOOLEAN
    /\ \A r \in Requests : req[r] \in
          [kind : Kinds \cup {None}, at : Calls \cup Ends \cup {"new"},
           user : Settings \cup {None}, token : Token \cup {NoToken}, met : SUBSET Kinds]
    /\ forgotten \in BOOLEAN
    /\ saved \in [settings : Settings \cup {None}, raced : BOOLEAN]
    /\ sent \subseteq [scope : {"narrow", "wide"}, met : SUBSET Kinds]
    /\ expiries \in 0..MaxExpiries /\ faults \in 0..MaxFaults
    /\ \A r \in Requests : At(r, "writeProfile") => req[r].user # None

\* A request that has run alone to its end leaves everything in order, whatever
\* failed and overlapping requests had left behind: a login leaves a wide token
\* if there is a refresh token (UsersManager.ts:72-80), a login or save leaves
\* the list of delegators as the profile says (176-191), forgetUser no tokens (91-101).
AloneLeavesOrder ==
    last.at = "done" /\ last.met = {} =>
        /\ last.kind \in Logins /\ refresh => access.scope = "wide"
        /\ last.kind \in Writers => delegator = (profile = "on")
        /\ last.kind = "saveOn" => profile = "on"
        /\ last.kind = "saveOff" => profile = "off"
        /\ last.kind = "forget" => access = NoToken /\ ~refresh

\* After a forgetUser that overlapped with no login or broadcast, no token comes back unless
\* the user logs in, whatever is broadcast or saved (UsersManager.ts:91-101, 143-174).
TokensStayForgotten == forgotten => access = NoToken /\ ~refresh

\* Saved settings stay until other settings are saved, through any number of
\* logins, revocations and failures, unless a login or another save overlapped the
\* saving (UsersManager.ts:56-61, 128-135, 176-184).
SettingsLostOnlyToOverlaps ==
    saved.settings # None /\ ~saved.raced /\ KindsOf(Active) \cap Saves = {} =>
        profile = saved.settings

\* Operations are sent with a token whose scope suffices, unless a narrow login
\* stored its token while the publisher was refreshing its own
\* (UsersManager.ts:112-125, 172-173).
SentWithCheckedScope ==
    \A b \in sent : b.scope = "wide" \/ "loginNarrow" \in b.met

\* "do not let narrower scoped access token override previous wide scope access
\* token" (comment, UsersManager.ts:72): with a refresh token, once no request is
\* left, the access token is not a narrow one.
NarrowNeverOverridesWide == Active = {} /\ refresh => access.scope # "narrow"

=============================================================================
