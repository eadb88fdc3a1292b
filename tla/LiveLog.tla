------------------------------ MODULE LiveLog ------------------------------
(***************************************************************************)
(* The two views of a browser tab that load a log and go on with what the  *)
(* realtime server sends: the daemon log (RealtimeLogComponent) and the    *)
(* history of operations (RealtimeHistoryComponent with the realtime       *)
(* store).  One page is open at a time; the store and its socket live on   *)
(* when its page is left.                                                  *)
(***************************************************************************)
EXTENDS DaemonLog

CONSTANTS
    LogTail,      \* the length at which the daemon log drops its oldest entry
    TailLength    \* tailLength of the history

ASSUME ViewBounds == LogTail \in Nat \ {0} /\ TailLength \in Nat \ {0}

VARIABLES
    page,         \* the view on show and its account; None shows all accounts
    log,          \* the data of RealtimeLogComponent: log, loading, error
    logRequests,  \* calls of getLog under way
    messages, status,   \* of the realtime store
    first,        \* the component whose functions are the params of the store
    preload       \* the preload under way: a set of at most one request

logViewVars == <<log, logRequests>>
historyVars == <<messages, status, first, preload>>
viewVars == <<page, logViewVars, historyVars>>
vars == <<logVars, viewVars>>

Page(v, a) == [view |-> v, account |-> a]
Pages == {Page(v, a) : v \in Views, a \in Rooms}
Request(n, a) == [n |-> n, for |-> a, served |-> FALSE, reply |-> <<>>]
Served(r, reply) == [r EXCEPT !.served = TRUE, !.reply = reply]
Slip(race, name) == slips' = slips \cup IF race THEN {name} ELSE {}

\* The history of an account has the operations of which it is the delegator or the voter.
Touches(m, a) == m.voter # None /\ a \in {None, m.delegator, m.voter}
Capped(s, n)  == IF Len(s) > n THEN SubSeq(s, 1, n) ELSE s

\* Messages with different numbers in the order of their numbers: the k-th is the one with k - 1 newer ones.
NewestFirst(S) ==
    [k \in 1 .. Cardinality(S) |-> CHOOSE m \in S : Cardinality({x \in S : x.n >= m.n}) = k]

Loading == [entries |-> <<>>, loading |-> TRUE, error |-> FALSE]

Init ==
    /\ LogInit
    /\ page = Page("other", None)
    /\ log = Loading
    /\ logRequests = {}
    /\ messages = <<>>
    /\ status = [loading |-> TRUE, connecting |-> TRUE]
    /\ first = [account |-> None, mounted |-> FALSE, set |-> FALSE]
    /\ preload = {}

\* Pages of accounts share a route, so that one component stays; it reloads on the change.
Stays(p) == page.view = p.view /\ None \notin {page.account, p.account}

\* Defect for the mutation check: the socket of the earlier account is kept.
KeptSocket(a) == IF sockets["log"].open THEN sockets["log"] ELSE NewSocket(a)

\* reload closes the socket it had; packets under way to it are dropped.
LogSocket(a) == NewSocket(a)

(* RealtimeLogComponent.reload: what the log shows stays until the answer. *)
Reload(p) ==
    /\ log' = IF Stays(p) THEN [log EXCEPT !.loading = TRUE, !.error = FALSE] ELSE Loading
    /\ logRequests' = (IF Stays(p) THEN logRequests ELSE {}) \cup {Request(events', p.account)}

\* Defect for the mutation check: the functions are compared by identity.
SetParamsAlways(p) ==
    /\ first' = [account |-> p.account, mounted |-> TRUE, set |-> TRUE]
    /\ messages' = <<>>
    /\ status' = [status EXCEPT !.loading = TRUE]
    /\ preload' = {Request(events', p.account)}

(* RealtimeHistoryComponent.reload, setParams: functions are compared by   *)
(* their source, so only the first params ever differ from those in the    *)
(* store.  The functions in the store go on reading the account of the     *)
(* component they were made in, which changes while that is mounted.       *)
SetParams(p) ==
    IF ~first.set
    THEN /\ first' = [account |-> p.account, mounted |-> TRUE, set |-> TRUE]
         /\ messages' = <<>>
         /\ status' = [status EXCEPT !.loading = TRUE]
         /\ preload' = {Request(events', p.account)}
    ELSE /\ first' = IF Stays(p) /\ first.mounted THEN [first EXCEPT !.account = p.account]
                     ELSE [first EXCEPT !.mounted = FALSE]
         /\ UNCHANGED <<messages, status, preload>>

\* Another page is opened; the component of the page that is left is destroyed.
Open(p) ==
    /\ Event
    /\ p # page
    /\ page' = p
    /\ \/ /\ p.view = "log"
          /\ Reload(p)
          /\ first' = [first EXCEPT !.mounted = FALSE]
          /\ sockets' = [sockets EXCEPT !["log"] = LogSocket(p.account)]
          /\ Slip(Stays(p) /\ logRequests # {}, "answers overlap")
          /\ UNCHANGED <<messages, status, preload>>
       \/ /\ p.view = "history"
          /\ SetParams(p)
          /\ log' = Loading
          /\ logRequests' = {}
          /\ sockets' = [sockets EXCEPT !["log"] = NoSocket,
                                        !["history"] = IF first.set THEN @ ELSE NewSocket(None)]
          /\ Slip(first.set /\ p.account # first.account, "history kept")
    /\ UNCHANGED <<redisVars, pipe, emitted, channel>>

\* Messages of emissions not done, and all that a socket is still to get (a preload publishes nothing).
Unfinished  == {m \in UNION {{pipe[s][i][1].msg : i \in DOMAIN pipe[s]} : s \in Services} : m.n > 0}
OnTheWay(v) == Unfinished \cup ToSet(channel) \cup ToSet(sockets[v].inbox)

\* DaemonRoutes: the whole list.
ServeLog(r) ==
    /\ r \in logRequests /\ ~r.served
    /\ LET reply == lists[IF r.for = None THEN "general" ELSE r.for]
       IN /\ logRequests' = (logRequests \ {r}) \cup {Served(r, reply)}
          /\ Slip(ToSet(reply) \cap OnTheWay("log") # {}, "read ahead")
    /\ UNCHANGED <<redisVars, pipe, emitted, channel, sockets, events, page, log, historyVars>>

\* The answer replaces the log, whatever it is an answer to.
LogAnswer(r) ==
    /\ r \in logRequests /\ r.served
    /\ logRequests' = logRequests \ {r}
    /\ log' = [entries |-> r.reply, loading |-> FALSE, error |-> FALSE]
    /\ UNCHANGED <<logVars, page, historyVars>>

\* An entry from the socket.
LogMessage ==
    /\ sockets["log"].inbox # <<>>
    /\ sockets' = [sockets EXCEPT !["log"].inbox = Tail(@)]
    /\ LET entries == <<Head(sockets["log"].inbox)>> \o log.entries
       IN log' = [log EXCEPT !.entries = IF Len(entries) > LogTail THEN Front(entries) ELSE entries]
    /\ Slip(logRequests # {}, "early")
    /\ UNCHANGED <<redisVars, pipe, emitted, channel, events, page, logRequests, historyVars>>

\* External: wiseSQL knows the operations the daemon has reported and those before.
Known == ToSet(said["ops"]) \cup ToSet(Past)
KnownOf(a) == {m \in Known : Touches(m, a)}

ServePreload(r) ==
    /\ r \in preload /\ ~r.served
    /\ preload' = {Served(r, Capped(NewestFirst(KnownOf(r.for)), TailLength))}
    /\ Slip(Known \cap OnTheWay("history") # {}, "read ahead")
    /\ UNCHANGED <<redisVars, pipe, emitted, channel, sockets, events, page, logViewVars,
                   messages, status, first>>

\* appendMessages puts them first, the preloaded ones as well as those from the socket.
AppendMessages(new) == messages' = Capped(new \o messages, TailLength)

PreloadAnswer(r) ==
    /\ r \in preload /\ r.served
    /\ preload' = {}
    /\ AppendMessages(r.reply)
    /\ status' = [status EXCEPT !.loading = FALSE]
    /\ UNCHANGED <<logVars, page, logViewVars, first>>

HistoryMessage ==
    /\ sockets["history"].inbox # <<>>
    /\ sockets' = [sockets EXCEPT !["history"].inbox = Tail(@)]
    /\ LET m == Head(sockets["history"].inbox)
       IN IF Touches(m, first.account) THEN AppendMessages(<<m>>) ELSE UNCHANGED messages
    /\ Slip(preload # {}, "early")
    /\ UNCHANGED <<redisVars, pipe, emitted, channel, events, page, logViewVars,
                   status, first, preload>>

\* A request fails: the view shows an error beside what it has.
RequestFails(r) ==
    /\ Event
    /\ r \in logRequests \cup preload
    /\ slips' = slips \cup {"lost"}
    /\ logRequests' = logRequests \ {r}
    /\ preload' = preload \ {r}
    /\ log' = IF r \in logRequests THEN [log EXCEPT !.loading = FALSE, !.error = TRUE] ELSE log
    /\ status' = IF r \in preload THEN [status EXCEPT !.loading = FALSE] ELSE status
    /\ UNCHANGED <<redisVars, pipe, emitted, channel, sockets, page, messages, first>>

\* A step of the backend; the store follows its socket as it connects and reconnects.
Backend ==
    /\ LogNext
    /\ status' = [status EXCEPT !.connecting =
                     IF sockets'["history"].joined # sockets["history"].joined
                     THEN ~sockets'["history"].joined ELSE @]
    /\ UNCHANGED <<page, logViewVars, messages, first, preload>>

Next ==
    \/ Backend
    \/ \E p \in Pages : Open(p)
    \/ \E r \in logRequests : ServeLog(r) \/ LogAnswer(r)
    \/ \E r \in preload : ServePreload(r) \/ PreloadAnswer(r)
    \/ \E r \in logRequests \cup preload : RequestFails(r)
    \/ LogMessage \/ HistoryMessage

Spec == Init /\ [][Next]_vars

-----------------------------------------------------------------------------
\* Messages that were pushed to a list and wait for the trim that comes next.
Pending(l) == UNION {{pipe[s][i][1].msg : i \in {i \in DOMAIN pipe[s] : pipe[s][i][1].do = Trim(l)}} :
                        s \in Services}

\* The newest first, each once.
Descending(s) == \A i, j \in DOMAIN s : i < j => s[i].n > s[j].n

(* NewestKept: although emissions push and trim in separate commands that  *)
(* interleave, each list holds the newest of all entries pushed to it,     *)
(* never fewer than MaxHistory + 1 of them while there are as many, and    *)
(* never more than one too many per trim under way unless an emission was  *)
(* cut off or a push sent twice (DaemonLog.ts:38).  The list of operations *)
(* is in the order of the emissions, though emit does not wait, and holds  *)
(* an operation once: a preload that a crash cut off is never made up for  *)
(* nor done again (WiseOperationsLog.ts:19).                               *)
NewestKept ==
    /\ \A l \in Lists :
         /\ IsPrefix(lists[l], said[l])
         /\ Len(lists[l]) > MaxHistory \/ lists[l] = said[l]
         /\ slips \cap {"lost", "resent"} = {} => Len(lists[l]) <= MaxHistory + 1 + Cardinality(Pending(l))
    /\ "resent" \notin slips => Descending(lists["ops"])

Quiet(v) == /\ \A s \in Services : pipe[s] = <<>>
            /\ channel = <<>> /\ sockets[v].inbox = <<>>

NoDuplicates(s) == \A i, j \in DOMAIN s : i # j => s[i] # s[j]

LogShown ==
    page.view = "log" /\ Quiet("log") /\ logRequests = {} =>
        LET list == lists[IF page.account = None THEN "general" ELSE page.account]
        IN /\ ~log.loading /\ ~log.error
           /\ \A m \in ToSet(log.entries) : page.account \in {None, m.delegator}
           /\ NoDuplicates(log.entries)
           /\ Len(log.entries) < LogTail => ToSet(list) \subseteq ToSet(log.entries)

HistoryShown ==
    page.view = "history" /\ Quiet("history") /\ preload = {} =>
        /\ ~status.loading
        /\ \A m \in ToSet(messages) : Touches(m, page.account)
        /\ Descending(messages)
        /\ Len(messages) < TailLength => KnownOf(page.account) \subseteq ToSet(messages)

(* ViewsShown: when all is quiet, the daemon log shows entries of the      *)
(* delegator of the page only, each once, and all that Redis keeps unless  *)
(* the log is full; the history shows operations of the account of the     *)
(* page, each once and the newest first, and all that are known unless it  *)
(* is full.  It takes a race or a failure (slips) to break this: an answer *)
(* replaces what the socket brought meanwhile                              *)
(* (RealtimeLogComponent.vue:83), the preload is put before it             *)
(* (RealtimeModuleImpl.ts:114), the list is read between the push and the  *)
(* publication of a message, or a message passes before the socket has     *)
(* joined its room.  The history has one more: it was loaded for the       *)
(* account of another page.                                                *)
ViewsShown ==
    /\ slips \ {"history kept"} = {} => LogShown
    /\ slips = {} => HistoryShown

(* HistoryLoadedOnce: the history of the first page that shows one is      *)
(* loaded, and nothing ever loads another or opens another socket for it:  *)
(* setParams takes the params of every later page for equal                *)
(* (RealtimeModuleImpl.ts:94), so that these go on showing the operations  *)
(* of the first account.  What was loaded is never cleared either.         *)
HistoryLoadedOnce ==
    [][first.set => /\ Cardinality(preload') <= Cardinality(preload)
                    /\ sockets'["history"].room = sockets["history"].room
                    /\ messages # <<>> => messages' # <<>>]_vars
=============================================================================
