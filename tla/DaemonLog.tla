----------------------------- MODULE DaemonLog -----------------------------
(***************************************************************************)
(* The log of the daemon: emit pushes a message to lists in Redis, trims   *)
(* them and publishes it to the realtime server, which sends it to the     *)
(* browsers.  emit returns at once; each command waits for the reply to    *)
(* the one before it, and a connection to Redis answers in order, so the   *)
(* emissions of a service take turns, one command each.  The daemon and    *)
(* the publisher have a connection of their own.  WiseOperationsLog fills  *)
(* the list of operations when the daemon finds it empty at its start.     *)
(*                                                                         *)
(* slips is a history variable that names the races and failures so far.   *)
(***************************************************************************)
EXTENDS Integers, SequencesExt

CONSTANTS
    Accounts, None,
    Says,         \* what a service has to say: [Services -> set of [delegator, voter]]
    Past,         \* the operations wiseSQL knows at the start, the newest first: numbers up to 0
    MaxHistory,   \* maxHistoryLength of common.ts
    MaxEmits,     \* bound on emissions
    MaxEvents     \* bound on failures and pages opened, together

Services == {"daemon", "publisher"}
Lists    == Accounts \cup {"general", "ops"}
Views    == {"log", "history"}
Rooms    == Accounts \cup {None}
Messages == [n : Int, delegator : Rooms, voter : Rooms]

ASSUME LogBounds == MaxHistory \in Nat /\ MaxEmits \in Nat /\ MaxEvents \in Nat

\* The lists have keys of their own: those of the delegators carry a prefix.
ASSUME AccountsAssumption == None \notin Accounts /\ "general" \notin Accounts /\ "ops" \notin Accounts

(* A wiseOp has a delegator, to whose list emit pushes its message.  What  *)
(* the publisher says has none.                                            *)
ASSUME SaysAssumption ==
    /\ Says \in [Services -> SUBSET [delegator : Rooms, voter : Rooms]]
    /\ \A s \in Services : \A what \in Says[s] :
          what.voter # None => s = "daemon" /\ what.delegator # None

ASSUME PastAssumption ==
    /\ Past \in Seq(Messages)
    /\ \A i \in DOMAIN Past : Past[i].n <= 0 /\ Past[i].voter # None /\ Past[i].delegator # None
    /\ \A i, j \in DOMAIN Past : i < j => Past[i].n > Past[j].n

VARIABLES
    lists,     \* the lists in Redis, the newest entry first
    pipe,      \* per service: emissions whose next command waits for its turn
    emitted,   \* emissions so far
    channel,   \* published and not yet handled by the realtime server
    sockets,   \* the sockets of the browser tab: room, joined or not, packets under way
    events,    \* failures and pages opened so far
    said,      \* history: all entries ever pushed to a list, the newest first
    slips

redisVars == <<lists, said>>
logVars   == <<redisVars, pipe, emitted, channel, sockets, events, slips>>

\* A message; voter # None stands for a message with a wiseOp of delegator and voter.
Message(n, delegator, voter) == [n |-> n, delegator |-> delegator, voter |-> voter]
Push(list) == [command |-> "lpush", list |-> list]
Trim(list) == [command |-> "ltrim", list |-> list]
PushTrim(list) == <<Push(list), Trim(list)>>
Publish    == [command |-> "publish", list |-> "general"]

\* _emit: the commands for a message, in order.
Commands(m) ==
    (IF m.delegator # None THEN PushTrim(m.delegator) ELSE <<>>)
        \o (IF m.voter # None THEN PushTrim("ops") ELSE <<>>)
        \o PushTrim("general") \o <<Publish>>

\* Work of a service, one command at a time: pairs of a message and a command.
Work(m, commands) == [i \in DOMAIN commands |-> [msg |-> m, do |-> commands[i]]]
Preloading == \E i \in DOMAIN pipe["daemon"] : pipe["daemon"][i][1].msg.n <= 0

\* The past operations, the oldest first, each pushed and the list trimmed.
PastWork ==
    [i \in 1 .. 2 * Len(Past) |->
        [msg |-> Past[Len(Past) - (i - 1) \div 2],
         do  |-> IF i % 2 = 1 THEN Push("ops") ELSE Trim("ops")]]

\* Defect for the mutation check: the list is filled at every start of the daemon.
AlwaysPreload == IF Past = <<>> THEN <<>> ELSE <<PastWork>>

\* doPreload: unless the list has entries.
Preload == IF lists["ops"] # <<>> \/ Past = <<>> THEN <<>> ELSE <<PastWork>>

\* A failure, or a page opened.
Event == events < MaxEvents /\ events' = events + 1

NoSocket == [room |-> None, open |-> FALSE, joined |-> FALSE, inbox |-> <<>>]
NewSocket(room) == [NoSocket EXCEPT !.room = room, !.open = TRUE]

LogInit ==
    /\ lists = [l \in Lists |-> <<>>]
    /\ said = lists
    /\ pipe = [s \in Services |-> IF s = "daemon" THEN Preload ELSE <<>>]
    /\ emitted = 0
    /\ channel = <<>>
    /\ sockets = [v \in Views |-> NoSocket]
    /\ events = 0
    /\ slips = {}

(* emit: the first command is issued at once.  The daemon has no           *)
(* operation to report before the preload is done.                         *)
Emit(s, what) ==
    /\ emitted < MaxEmits
    /\ s = "daemon" /\ what.voter # None => ~Preloading
    /\ emitted' = emitted + 1
    /\ LET m == Message(emitted', what.delegator, what.voter)
       IN pipe' = [pipe EXCEPT ![s] = Append(@, Work(m, Commands(m)))]
    /\ UNCHANGED <<redisVars, channel, sockets, events, slips>>

\* Defect for the mutation check: the trim leaves out the newest entry.
TrimOff(w) ==
    /\ lists' = CASE w.do.command = "lpush" -> [lists EXCEPT ![w.do.list] = <<w.msg>> \o @]
                  [] w.do.command = "ltrim" ->
                       [lists EXCEPT ![w.do.list] =
                           IF Len(@) > MaxHistory + 1 THEN Tail(@) ELSE @]
                  [] OTHER -> lists
    /\ said' = IF w.do.command = "lpush" THEN [said EXCEPT ![w.do.list] = <<w.msg>> \o @] ELSE said
    /\ channel' = IF w.do.command = "publish" THEN Append(channel, w.msg) ELSE channel

\* Redis executes a command; LTRIM key 0 MaxHistory keeps one entry more than its bound says.
Execute(w) ==
    /\ lists' = CASE w.do.command = "lpush" -> [lists EXCEPT ![w.do.list] = <<w.msg>> \o @]
                  [] w.do.command = "ltrim" ->
                       [lists EXCEPT ![w.do.list] =
                           IF Len(@) > MaxHistory + 1 THEN SubSeq(@, 1, MaxHistory + 1) ELSE @]
                  [] OTHER -> lists
    /\ said' = IF w.do.command = "lpush" THEN [said EXCEPT ![w.do.list] = <<w.msg>> \o @] ELSE said
    /\ channel' = IF w.do.command = "publish" THEN Append(channel, w.msg) ELSE channel

\* The reply makes the emission issue its next command, behind those of the others.
Reply(s) ==
    /\ pipe[s] # <<>>
    /\ Execute(Head(Head(pipe[s])))
    /\ LET rest == Tail(Head(pipe[s]))
       IN pipe' = [pipe EXCEPT ![s] = Tail(@) \o IF rest = <<>> THEN <<>> ELSE <<rest>>]
    /\ UNCHANGED <<emitted, sockets, events, slips>>

\* The connection is lost after the command: ioredis sends the command again.
Resend(s) ==
    /\ pipe[s] # <<>>
    /\ Execute(Head(Head(pipe[s])))
    /\ Event
    /\ slips' = slips \cup {"resent"}
    /\ UNCHANGED <<pipe, emitted, sockets>>

(* All the commands of a connection are rejected; the emissions log the    *)
(* error and end, and so does a preload.                                   *)
Rejected(s) ==
    /\ pipe[s] # <<>>
    /\ Event
    /\ slips' = slips \cup {"lost"}
    /\ pipe' = [pipe EXCEPT ![s] = <<>>]
    /\ UNCHANGED <<redisVars, emitted, channel, sockets>>

\* A service is killed and started again.
Restart(s) ==
    /\ Event
    /\ slips' = slips \cup {"lost"}
    /\ pipe' = [pipe EXCEPT ![s] = IF s = "daemon" THEN Preload ELSE <<>>]
    /\ UNCHANGED <<redisVars, emitted, channel, sockets>>

InRoom(v, m) == sockets[v].joined /\ sockets[v].room \in {None, m.delegator}

(* The realtime server handles a message: to the general room, and to the  *)
(* room of its delegator.  A socket that has not joined misses it.         *)
Dispatch ==
    /\ channel # <<>>
    /\ channel' = Tail(channel)
    /\ sockets' = [v \in Views |-> IF InRoom(v, Head(channel))
                                   THEN [sockets[v] EXCEPT !.inbox = Append(@, Head(channel))]
                                   ELSE sockets[v]]
    /\ slips' = slips \cup IF \E v \in Views : sockets[v].open /\ ~sockets[v].joined
                           THEN {"not joined"} ELSE {}
    /\ UNCHANGED <<redisVars, pipe, emitted, events>>

\* A socket connects, or connects again, and joins its room.
Join(v) ==
    /\ sockets[v].open /\ ~sockets[v].joined
    /\ sockets' = [sockets EXCEPT ![v].joined = TRUE]
    /\ UNCHANGED <<redisVars, pipe, emitted, channel, events, slips>>

\* The realtime server restarts: messages under way and subscriptions are gone.
RealtimeRestart ==
    /\ Event
    /\ slips' = slips \cup {"lost"}
    /\ channel' = <<>>
    /\ sockets' = [v \in Views |-> [sockets[v] EXCEPT !.joined = FALSE, !.inbox = <<>>]]
    /\ UNCHANGED <<redisVars, pipe, emitted>>

LogNext ==
    \/ \E s \in Services :
         \/ \E what \in Says[s] : Emit(s, what)
         \/ Reply(s) \/ Resend(s) \/ Rejected(s) \/ Restart(s)
    \/ Dispatch \/ RealtimeRestart
    \/ \E v \in Views : Join(v)
=============================================================================
