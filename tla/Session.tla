------------------------------ MODULE Session ------------------------------
(***************************************************************************)
(* The session as one browser tab knows it: the auth store with its calls  *)
(* to the API, the account statistics of the status store, and the panel   *)
(* that turns the daemon on and off.  A call is sent, served by the API    *)
(* and answered in three steps, so that answers overtake one another; a    *)
(* call can fail with or without having been served.  The session cookie   *)
(* is shared with other tabs.                                              *)
(*                                                                         *)
(* slips is a history variable.  It names the races and failures a         *)
(* behaviour has gone through; the properties of Frontend say what holds   *)
(* in behaviours without them.                                             *)
(***************************************************************************)
EXTENDS Naturals

CONSTANTS
    Accounts,   \* Steem accounts
    None,       \* no account
    Scoped,     \* the accounts whose login has the three scopes of the daemon
    Stats,      \* the statistics asked for an account
    General,    \* the statistics asked once
    Cookies,    \* the accounts the session cookie may stand for at first
    MaxClicks   \* bound on clicks, failures and what other tabs do, together

ASSUME AccountsAssumption ==
    None \notin Accounts /\ Scoped \subseteq Accounts /\ Cookies \subseteq Accounts \cup {None}
ASSUME ClicksAssumption == MaxClicks \in Nat
ASSUME KindsAssumption == (Stats \cup General) \cap {"getUser", "logout", "save"} = {}

VARIABLES
    username,     \* auth.username, kept across page loads
    user,         \* auth.user
    authLoading,  \* auth.loading
    authError,    \* auth.error is not empty
    statsFor,     \* status.accountStats.loadedFor
    stats,        \* per statistic: is it loading, and whose value is shown
    page,         \* the account whose daemon page is open, and its enable_daemon query
    settings,     \* the data of the daemon settings panel
    calls,        \* calls to the API and to wiseSQL under way
    cookie,       \* the account the session cookie stands for
    daemonOn,     \* the settings that the API keeps
    clicks,       \* clicks, failures and changes by other tabs so far
    slips         \* history: the races and failures so far

authVars   == <<username, user, authLoading, authError>>
statusVars == <<statsFor, stats>>
panelVars  == <<page, settings>>
serverVars == <<cookie, daemonOn>>
sessionVars == <<authVars, statusVars, panelVars, calls, serverVars>>

NoUser == [account |-> None, enabled |-> FALSE]
NoPage == [account |-> None, query |-> FALSE]

\* A call; reply is "sent" until the API has served it.
Call(kind, n, arg, from) ==
    [kind |-> kind, n |-> n, arg |-> arg, from |-> from, reply |-> "sent", user |-> NoUser]

\* A panel that has just appeared; open are the alerts on show: to enable (TRUE), to disable.
Panel(n, busy, query) ==
    [n |-> n, loading |-> busy, success |-> FALSE, open |-> IF query THEN {TRUE} ELSE {}]

Click == clicks < MaxClicks /\ clicks' = clicks + 1

SessionInit ==
    /\ cookie \in Cookies
    /\ daemonOn = [a \in Accounts |-> FALSE]
    /\ username \in {None, cookie}
    /\ user = NoUser
    /\ authLoading = TRUE
    /\ authError = FALSE
    /\ statsFor = None
    /\ stats = [s \in Stats \cup General |-> [loading |-> TRUE, of |-> None]]
    /\ page = NoPage
    /\ settings = Panel(0, FALSE, FALSE)
    /\ calls = {Call("getUser", 0, FALSE, 0)} \cup {Call(s, 0, None, 0) : s \in General}
    /\ clicks = 0
    /\ slips = {}

\* DelegateView shows the panel to the owner of the page only.
IsItMe(u, p) == p.account # None /\ u.account = p.account
HasCorrectScope(u) == u.account \in Scoped

(* The user shown becomes u and the page p.  A panel that appears starts   *)
(* afresh, and turns the daemon on by itself when the query asks for it.   *)
Show(u, p, others) ==
    LET appears == ~IsItMe(user, page) /\ IsItMe(u, p)
        enables == appears /\ p.query /\ HasCorrectScope(u)
    IN /\ user' = u
       /\ page' = p
       /\ settings' = IF appears THEN Panel(clicks', enables, p.query) ELSE settings
       /\ calls' = others \cup IF enables THEN {Call("save", clicks', TRUE, clicks')} ELSE {}

\* /@account/daemon is opened, from a link or after the permissions were granted.
OpenDaemon(a, query) ==
    /\ Click
    /\ Show(user, [account |-> a, query |-> query], calls)
    /\ UNCHANGED <<username, authLoading, authError, statusVars, serverVars, slips>>

(* Enable or disable, confirmed in the panel's alert.  Only the alert to   *)
(* disable closes by itself afterwards.                                    *)
SaveSettings(on) ==
    /\ Click
    /\ IsItMe(user, page) /\ ~settings.loading
    /\ user.enabled # on \/ on \in settings.open
    /\ on => HasCorrectScope(user)
    /\ settings' = [settings EXCEPT !.loading = TRUE, !.open = @ \cup {on}]
    /\ calls' = calls \cup {Call("save", clicks', on, settings.n)}
    /\ UNCHANGED <<authVars, statusVars, page, serverVars, slips>>

Logout ==
    /\ Click
    /\ user # NoUser
    /\ authError' = FALSE
    /\ authLoading' = TRUE
    /\ calls' = calls \cup {Call("logout", clicks', FALSE, 0)}
    /\ UNCHANGED <<username, user, statusVars, panelVars, serverVars, slips>>

\* Somebody logs in or out in another tab.
OtherTab(a) ==
    /\ Click
    /\ a # cookie
    /\ cookie' = a
    /\ slips' = slips \cup {"other tab"}
    /\ UNCHANGED <<authVars, statusVars, panelVars, calls, daemonOn>>

\* The API serves a call: what it answers is what it knows at this moment.
Serve(c) ==
    /\ c \in calls /\ c.kind \in {"getUser", "logout", "save"} /\ c.reply = "sent"
    /\ calls' = (calls \ {c}) \cup
         {[c EXCEPT !.reply = IF c.kind = "save" /\ cookie = None THEN "refused" ELSE "served",
                    !.user = IF c.kind = "getUser" /\ cookie # None
                             THEN [account |-> cookie, enabled |-> daemonOn[cookie]] ELSE NoUser]}
    /\ cookie' = IF c.kind = "logout" THEN None ELSE cookie
    /\ daemonOn' = IF c.kind = "save" /\ cookie # None
                   THEN [daemonOn EXCEPT ![cookie] = c.arg] ELSE daemonOn
    /\ UNCHANGED <<authVars, statusVars, panelVars, clicks, slips>>

\* An answer about the session that others are still to follow.
Overtaken(c) == IF \E o \in calls \ {c} : o.kind \in {"getUser", "logout", "save"}
                THEN {"late answer"} ELSE {}

\* setAccountName: the statistics are asked for when the account is another one.
StatCalls(a, n) == IF a = statsFor THEN {} ELSE {Call(s, n, a, 0) : s \in Stats}

UserAnswer(c) ==
    /\ c \in calls /\ c.kind = "getUser" /\ c.reply = "served"
    /\ authLoading' = FALSE
    /\ username' = c.user.account
    /\ LET asks == IF c.user = NoUser THEN {} ELSE StatCalls(c.user.account, c.n)
       IN /\ clicks' = clicks
          /\ Show(c.user, page, (calls \ {c}) \cup asks)
          /\ statsFor' = IF asks = {} THEN statsFor ELSE c.user.account
          /\ stats' = IF asks = {} THEN stats
                      ELSE [s \in Stats \cup General |->
                                IF s \in Stats THEN [loading |-> TRUE, of |-> None] ELSE stats[s]]
          /\ slips' = slips \cup Overtaken(c)
                 \cup IF asks # {} /\ \E o \in calls : o.kind \in Stats
                      THEN {"late statistics"} ELSE {}
    /\ UNCHANGED <<authError, serverVars>>

LogoutAnswer(c) ==
    /\ c \in calls /\ c.kind = "logout" /\ c.reply = "served"
    /\ clicks' = clicks
    /\ Show(NoUser, page, calls \ {c})
    /\ authLoading' = FALSE
    /\ username' = None
    /\ slips' = slips \cup Overtaken(c)
    /\ UNCHANGED <<authError, statusVars, serverVars>>

\* Defect for the mutation check: the user is not fetched again.
SaveAnswerOnly(c) ==
    /\ c \in calls /\ c.kind = "save" /\ c.reply = "served"
    /\ calls' = calls \ {c}
    /\ settings' = IF settings.n = c.from THEN [settings EXCEPT !.loading = FALSE, !.success = TRUE]
                   ELSE settings
    /\ slips' = slips \cup Overtaken(c)
    /\ UNCHANGED <<authVars, statusVars, page, serverVars, clicks>>

\* "Settings saved": the user is fetched again, without waiting for the answer.
SaveAnswer(c) ==
    /\ c \in calls /\ c.kind = "save" /\ c.reply = "served"
    /\ authError' = FALSE
    /\ authLoading' = TRUE
    /\ calls' = (calls \ {c}) \cup {Call("getUser", c.n, FALSE, 0)}
    /\ settings' = IF settings.n = c.from
                   THEN [settings EXCEPT !.loading = FALSE, !.success = TRUE, !.open = @ \ {FALSE}]
                   ELSE settings
    /\ slips' = slips \cup Overtaken(c)
    /\ UNCHANGED <<username, user, statusVars, page, serverVars, clicks>>

(* A call fails, before or after it was served.  getUser shows nobody,     *)
(* logout keeps the user; the settings panel stays busy for good.          *)
CallFails(c) ==
    /\ Click
    /\ c \in calls /\ c.kind \in {"getUser", "logout", "save"}
    /\ slips' = slips \cup {"call failed"}
    /\ authError' = (authError \/ c.kind # "save")
    /\ authLoading' = (authLoading /\ c.kind = "save")
    /\ username' = IF c.kind = "getUser" THEN None ELSE username
    /\ Show(IF c.kind = "getUser" THEN NoUser ELSE user, page, calls \ {c})
    /\ UNCHANGED <<statusVars, serverVars>>

(* A statistic arrives, whatever account is selected by now.  The handler  *)
(* of a failed "supporting" commits an object where the store wants text:  *)
(* the commit throws and the statistic goes on loading.                    *)
StatAnswer(c, ok) ==
    /\ c \in calls /\ c.kind \in Stats \cup General
    /\ calls' = calls \ {c}
    /\ stats' = IF ~ok /\ c.kind = "supporting" THEN stats
                ELSE [stats EXCEPT ![c.kind] =
                        [loading |-> FALSE, of |-> IF ok THEN c.arg ELSE None]]
    /\ UNCHANGED <<authVars, statsFor, panelVars, serverVars, clicks, slips>>

SessionNext ==
    \/ \E a \in Accounts, query \in BOOLEAN : OpenDaemon(a, query)
    \/ \E on \in BOOLEAN : SaveSettings(on)
    \/ Logout
    \/ \E a \in Accounts \cup {None} : OtherTab(a)
    \/ \E c \in calls :
         \/ Serve(c) \/ UserAnswer(c) \/ LogoutAnswer(c) \/ SaveAnswer(c) \/ CallFails(c)
         \/ \E ok \in BOOLEAN : StatAnswer(c, ok)
=============================================================================
