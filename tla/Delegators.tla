------------------------------- MODULE Delegators -------------------------------
(***************************************************************************)
(* The list of delegators: a Redis set the API changes when a user         *)
(* switches the daemon on or off, and the copy of it in the daemon's       *)
(* memory, which decides whose voteorders are handled.  The daemon loads   *)
(* the set, then subscribes to a channel on which the API announces every  *)
(* change, and loads the set again with each announcement and every hour.  *)
(*                                                                         *)
(* From lib/DelegatorManager.ts, called by lib/UsersManager.ts (setUser)   *)
(* in the API and by daemon/index.ts in the daemon.                        *)
(*                                                                         *)
(* Nobody awaits the reloads that follow the first, so several may be on   *)
(* their way; they share one connection, which answers in order.  The      *)
(* announcements come over a connection of their own and are not repeated. *)
(***************************************************************************)
EXTENDS Naturals, Sequences, SequencesExt

CONSTANTS
    Names,       \* the accounts
    MaxUpdates,  \* bound: how often the API adds or removes an account
    MaxDeaths,   \* bound: how often the daemon dies by itself
    MaxFaults    \* bound: how many commands and connections fail

ASSUME DelegatorsAssumption ==
    MaxUpdates \in Nat /\ MaxDeaths \in Nat /\ MaxFaults \in Nat

VARIABLES
    members,     \* the Redis set, with the number of changes it has seen
    announcing,  \* how many changes still have to be published by the API
    phase,       \* of the daemon
    delegators,  \* DelegatorManager.delegators, with the changes it reflects
    asked,       \* how many SMEMBERS were sent and not executed
    answers,     \* the answers that were not yet handled
    subscribed,  \* whether Redis knows the subscription
    notices,     \* how many messages are on their way to the daemon
    timers,      \* how many hourly timers run
    heard,       \* history: how many messages this process has handled
    missed,      \* history: a change was not announced to the daemon, and no
                 \* SMEMBERS has been executed since
    updates, deaths, faults

list == <<members, announcing, updates>>
reloads == <<delegators, asked, answers, timers>>
channel == <<subscribed, notices, heard>>
vars == <<list, phase, reloads, channel, missed, deaths, faults>>

Snapshot == [list : SUBSET Names, version : Nat]
Nobody == [list |-> {}, version |-> 0]

Init ==
    /\ \E start \in SUBSET Names : members = [list |-> start, version |-> 0]
    /\ announcing = 0 /\ updates = 0
    /\ phase = "down"
    /\ delegators = Nobody /\ asked = 0 /\ answers = <<>> /\ timers = 0
    /\ subscribed = FALSE /\ notices = 0 /\ heard = 0
    /\ missed = FALSE /\ deaths = 0 /\ faults = 0

-----------------------------------------------------------------------------
(***************************************************************************)
(* The API.  SADD and SREM tell whether they changed anything; only then   *)
(* is there something to publish.                                          *)
(***************************************************************************)
\* Defect for the mutation check: removals are not announced.
ChangeAnnouncingAdditions(newList) ==
    /\ updates < MaxUpdates
    /\ updates' = updates + 1
    /\ IF newList = members.list
         THEN UNCHANGED <<members, announcing>>
         ELSE /\ members' = [list |-> newList, version |-> members.version + 1]
              /\ announcing' = IF members.list \subseteq newList THEN announcing + 1 ELSE announcing
    /\ UNCHANGED <<phase, reloads, channel, missed, deaths, faults>>

Change(newList) ==
    /\ updates < MaxUpdates
    /\ updates' = updates + 1
    /\ IF newList = members.list
         THEN UNCHANGED <<members, announcing>>
         ELSE /\ members' = [list |-> newList, version |-> members.version + 1]
              /\ announcing' = announcing + 1
    /\ UNCHANGED <<phase, reloads, channel, missed, deaths, faults>>

AddDelegator(n) == Change(members.list \cup {n})

RemoveDelegator(n) == Change(members.list \ {n})

\* PUBLISH reaches those who are subscribed at this moment.
Publish ==
    /\ announcing > 0
    /\ announcing' = announcing - 1
    /\ IF subscribed
         THEN notices' = notices + 1 /\ UNCHANGED missed
         ELSE missed' = TRUE /\ UNCHANGED notices
    /\ UNCHANGED <<members, updates, phase, reloads, subscribed, heard, deaths, faults>>

\* The API dies before the PUBLISH, or either command is rejected after the
\* set has changed: nothing repeats the announcement.
PublishLost ==
    /\ announcing > 0
    /\ faults < MaxFaults
    /\ faults' = faults + 1
    /\ announcing' = announcing - 1
    /\ missed' = TRUE
    /\ UNCHANGED <<members, updates, phase, reloads, channel, deaths>>

-----------------------------------------------------------------------------
(***************************************************************************)
(* The daemon: init, awaited by daemon/index.ts, then the reloads.         *)
(***************************************************************************)
\* new DelegatorManager, init calls reloadDelegators.
Boot ==
    /\ phase = "down"
    /\ phase' = "loading"
    /\ asked' = 1
    /\ UNCHANGED <<list, delegators, answers, timers, channel, missed, deaths, faults>>

\* Redis executes SMEMBERS.
ServeReload ==
    /\ asked > 0
    /\ asked' = asked - 1
    /\ answers' = Append(answers, members)
    /\ missed' = FALSE
    /\ UNCHANGED <<list, phase, delegators, timers, channel, deaths, faults>>

\* Defect for the mutation check: answers are handled as they please.
HandleReloadUnordered ==
    /\ answers # <<>>
    /\ \E i \in DOMAIN answers :
          delegators' = answers[i] /\ answers' = RemoveAt(answers, i)
    /\ timers' = timers + 1
    /\ phase' = IF phase = "loading" THEN "subscribing" ELSE phase
    /\ UNCHANGED <<list, asked, channel, missed, deaths, faults>>

\* Defect for the mutation check: only messages lead to a reload.
HandleReloadWithoutTimer ==
    /\ answers # <<>>
    /\ delegators' = Head(answers)
    /\ answers' = Tail(answers)
    /\ phase' = IF phase = "loading" THEN "subscribing" ELSE phase
    /\ UNCHANGED <<list, asked, timers, channel, missed, deaths, faults>>

\* reloadDelegators goes on: it replaces the list and sets a timer.
HandleReload ==
    /\ answers # <<>>
    /\ delegators' = Head(answers)
    /\ answers' = Tail(answers)
    /\ timers' = timers + 1
    /\ phase' = IF phase = "loading" THEN "subscribing" ELSE phase
    /\ UNCHANGED <<list, asked, channel, missed, deaths, faults>>

\* Redis executes SUBSCRIBE: the first one of init, or the one ioredis sends
\* after a reconnect.
ServeSubscribe ==
    /\ phase \in {"subscribing", "running"}
    /\ ~subscribed
    /\ subscribed' = TRUE
    /\ UNCHANGED <<list, phase, reloads, notices, heard, missed, deaths, faults>>

\* The promise of subscribe() resolves and the handler of messages is set.
\* Messages that came in the same chunk as the answer found no handler.
Subscribed ==
    /\ phase = "subscribing" /\ subscribed
    /\ phase' = "running"
    /\ \E dropped \in 0..notices :
          /\ notices' = notices - dropped
          /\ missed' = (missed \/ dropped > 0)
    /\ UNCHANGED <<list, reloads, subscribed, heard, deaths, faults>>

\* A message: reloadDelegators is called and not awaited.
HandleNotice ==
    /\ phase = "running"
    /\ notices > 0
    /\ notices' = notices - 1
    /\ heard' = heard + 1
    /\ asked' = asked + 1
    /\ UNCHANGED <<list, phase, delegators, answers, timers, subscribed, missed, deaths, faults>>

\* Defect for the mutation check: the timer is an interval.
TimerFiresRepeatedly ==
    /\ timers > 0
    /\ asked' = asked + 1
    /\ UNCHANGED <<list, phase, delegators, answers, timers, channel, missed, deaths, faults>>

\* setTimeout of reloadDelegators calls it again.
TimerFires ==
    /\ timers > 0
    /\ timers' = timers - 1
    /\ asked' = asked + 1
    /\ UNCHANGED <<list, phase, delegators, answers, channel, missed, deaths, faults>>

\* The subscriber's connection breaks, with what was on it.  ioredis will
\* subscribe again, but nothing asks what was missed.
SubscriberLost ==
    /\ phase = "running" /\ subscribed
    /\ faults < MaxFaults
    /\ faults' = faults + 1
    /\ subscribed' = FALSE
    /\ missed' = (missed \/ notices > 0)
    /\ notices' = 0
    /\ UNCHANGED <<list, phase, reloads, heard, deaths>>

Die ==
    /\ phase' = "down"
    /\ delegators' = Nobody /\ asked' = 0 /\ answers' = <<>> /\ timers' = 0
    /\ subscribed' = FALSE /\ notices' = 0 /\ heard' = 0

\* A rejected SMEMBERS or SUBSCRIBE ends the process: nobody handles the
\* rejection of a reload, and index.ts exits when init rejects.
CommandRejected ==
    /\ asked > 0 \/ phase = "subscribing"
    /\ faults < MaxFaults
    /\ faults' = faults + 1
    /\ Die
    /\ UNCHANGED <<list, missed, deaths>>

Crash ==
    /\ phase # "down"
    /\ deaths < MaxDeaths
    /\ deaths' = deaths + 1
    /\ Die
    /\ UNCHANGED <<list, missed, faults>>

-----------------------------------------------------------------------------
Next ==
    \/ \E n \in Names : AddDelegator(n) \/ RemoveDelegator(n)
    \/ Publish \/ PublishLost
    \/ Boot
    \/ ServeReload \/ HandleReload
    \/ ServeSubscribe \/ Subscribed \/ HandleNotice
    \/ TimerFires
    \/ SubscriberLost \/ CommandRejected \/ Crash

Spec == Init /\ [][Next]_vars

\* The API goes on with a request, Docker restarts the daemon, Redis answers,
\* ioredis subscribes again, and timers fire.
Fairness ==
    /\ WF_vars(Publish)
    /\ WF_vars(Boot)
    /\ WF_vars(ServeReload) /\ WF_vars(HandleReload)
    /\ WF_vars(ServeSubscribe) /\ WF_vars(Subscribed) /\ WF_vars(HandleNotice)
    /\ WF_vars(TimerFires)

FairSpec == Spec /\ Fairness

-----------------------------------------------------------------------------
SnapshotsOK ==
    /\ members \in Snapshot /\ delegators \in Snapshot /\ answers \in Seq(Snapshot)
    /\ delegators.version <= members.version

CountsOK ==
    /\ asked \in Nat /\ timers \in Nat
    /\ announcing \in Nat /\ notices \in Nat /\ heard \in Nat
    /\ announcing + notices + heard <= members.version
    /\ members.version <= updates
    /\ updates \in 0..MaxUpdates /\ deaths \in 0..MaxDeaths /\ faults \in 0..MaxFaults

FlagsOK ==
    /\ phase \in {"down", "loading", "subscribing", "running"}
    /\ subscribed \in BOOLEAN /\ missed \in BOOLEAN

\* Types; and the copy reflects no change that was not made, and no change is
\* announced twice (DelegatorManager.ts:9-21).
TypeOK == SnapshotsOK /\ CountsOK /\ FlagsOK

\* The newest list that has reached the process, handled or not.
Newest == IF answers = <<>> THEN delegators ELSE Last(answers)

\* Once init has loaded the list, the daemon is not wrong about it without a
\* remedy on its way: a change still to be announced, a message, or a reload; or
\* it is one of those whose announcement got lost, which only the hourly reload
\* finds out (DelegatorManager.ts:31-44, 54-76).
StaleOnlyForAReason ==
    phase \in {"subscribing", "running"} =>
        Newest = members \/ asked > 0 \/ notices > 0 \/ announcing > 0 \/ missed

\* Every message starts one more chain of hourly reloads, and a chain neither
\* forks nor ends while the process lives (DelegatorManager.ts:73-75).
OneChainPerMessage ==
    phase # "down" => timers + asked + Len(answers) = 1 + heard

\* Reloads that overlap never bring an older list back (DelegatorManager.ts:54-59).
NeverOlder == [][phase' = "down" \/ delegators.version <= delegators'.version]_vars

\* When the list no longer changes, the daemon comes to know it for good, whatever
\* announcements were lost (DelegatorManager.ts:73-75).
CopyConverges == <>[](phase = "running" /\ delegators = members)

=============================================================================
