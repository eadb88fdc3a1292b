------------------------------ MODULE Publisher ------------------------------
(***************************************************************************)
(* The publisher service: the daemon pushes jobs on a Redis list, the      *)
(* publisher moves them to a second list, broadcasts them through          *)
(* Steemconnect in spawned runs, retries, and removes them when done; a    *)
(* restart puts what the previous process had taken back on the first list.*)
(*                                                                         *)
(* Composed here, from publisher/: queue/BlockingQueueConsumerImpl.ts (the *)
(* main loop and the spawned runs), queue/PublisherQueueImpl.ts and        *)
(* queue/RedisDualQueueImpl.ts (the two lists), broadcaster/               *)
(* BroadcasterImpl.ts (tries and retries), and the wiring of index.ts.     *)
(*                                                                         *)
(* All queue commands of the process share one Redis connection            *)
(* (index.ts:59), so a BRPOPLPUSH that blocks holds up the LREMs behind    *)
(* it; wire is the FIFO of the commands that are sent and not answered.    *)
(***************************************************************************)
EXTENDS RedisDualQueue

CONSTANTS
    Jobs,        \* the distinct job strings (JSON of a PublishJob)
    Slots,       \* identities for the runs alive at once; as a process takes an
                 \* entry at most once, MaxPushes of them never run out
    Retries,     \* length of StaticConfig.RETRIES_DELAYS_SECONDS
    MaxPushes,   \* bound: how many jobs the daemon pushes
    MaxCrashes,  \* bound: how often the process dies
    MaxFaults    \* bound: how often a Redis command fails or its answer is lost

\* The BRPOPLPUSH command on the wire; an LREM is named by the run that sent it.
Take == "BRPOPLPUSH"

ASSUME PublisherAssumption ==
    /\ Take \notin Slots /\ IsFiniteSet(Slots)
    /\ Retries \in Nat
    /\ MaxPushes \in Nat
    /\ MaxCrashes \in Nat
    /\ MaxFaults \in Nat

VARIABLES
    waiting,     \* the list common.redis.toPublishQueue
    processing,  \* the list common.redis.publishProcessingQueue
    loop,        \* where BlockingQueueConsumerImpl.start stands
    wire,        \* the commands sent on the connection and not yet answered
    runs,        \* the spawned runs, by slot
    scheduled,   \* history: the pushes of the daemon, in order
    taken,       \* history: the jobs the server has handed to some process
    ended,       \* history: the jobs of which a run came to an end
    applied,     \* history: how often the blockchain applied each job
    surplus,     \* history: requeues and unacknowledged applications per job
    crashes,     \* counts against MaxCrashes
    faults       \* counts against MaxFaults

queues == <<waiting, processing>>
history == <<scheduled, taken, ended, applied, surplus>>
vars == <<queues, loop, wire, runs, history, crashes, faults>>

LoopStates == {"down", "resetting", "taking", "throttle", "errorSleep", "over"}
Phases == {"idle", "sending", "retryDelay", "finishing"}

\* A run: processItemInSpawnedAsync for one taken job; try is the tryNum of
\* BroadcasterImpl.doBroadcast, which stays below Retries before a retry.
Idle == [phase |-> "idle"]
Run == [phase : {"sending", "finishing"}, job : Jobs, try : 0..Retries]
       \cup [phase : {"retryDelay"}, job : Jobs, try : 0..(Retries - 1)]

NoRuns == [s \in Slots |-> Idle]
Busy == {s \in Slots : runs[s] # Idle}
InPhase(phase) == {s \in Slots : runs[s].phase = phase}
Pushes(j) == Cardinality({i \in DOMAIN scheduled : scheduled[i] = j})

Init ==
    /\ waiting = <<>> /\ processing = <<>>
    /\ loop = "down"
    /\ wire = <<>>
    /\ runs = NoRuns
    /\ scheduled = <<>> /\ taken = {} /\ ended = {}
    /\ applied = [j \in Jobs |-> 0] /\ surplus = [j \in Jobs |-> 0]
    /\ crashes = 0 /\ faults = 0

-----------------------------------------------------------------------------
(***************************************************************************)
(* The daemon, over a connection of its own: PublisherQueueImpl.scheduleJob.*)
(***************************************************************************)
Schedule(j) ==
    /\ Len(scheduled) < MaxPushes
    /\ waiting' = LPush(waiting, j)
    /\ scheduled' = Append(scheduled, j)
    /\ UNCHANGED <<processing, loop, wire, runs, taken, ended, applied, surplus,
                   crashes, faults>>

-----------------------------------------------------------------------------
(***************************************************************************)
(* The main loop.  Start runs callbacks.init, which moves what an earlier  *)
(* process left in the processing list back, oldest first, with one        *)
(* RPOPLPUSH after the other (pushAllFromProcessingQueueToWaitingQueue);   *)
(* the daemon may push in between.  An error there ends the loop for good. *)
(***************************************************************************)
Start ==
    /\ loop = "down"
    /\ loop' = "resetting"
    /\ UNCHANGED <<queues, wire, runs, history, crashes, faults>>

Requeue ==
    /\ processing # <<>>
    /\ waiting' = LPush(waiting, Oldest(processing))
    /\ processing' = WithoutOldest(processing)
    /\ surplus' = [surplus EXCEPT ![Oldest(processing)] = @ + 1]

ResetStep ==
    /\ loop = "resetting"
    /\ Requeue
    /\ UNCHANGED <<loop, wire, runs, scheduled, taken, ended, applied, crashes, faults>>

\* Defects for the mutation check: the reset ends with entries left over, or
\* deletes the list.
ResetDoneEarly ==
    /\ loop = "resetting"
    /\ loop' = "taking"
    /\ wire' = Append(wire, Take)
    /\ UNCHANGED <<queues, runs, history, crashes, faults>>
ResetDoneDeleting ==
    /\ loop = "resetting"
    /\ processing' = <<>>
    /\ loop' = "taking"
    /\ wire' = Append(wire, Take)
    /\ UNCHANGED <<waiting, runs, history, crashes, faults>>

ResetDone ==
    /\ loop = "resetting"
    /\ processing = <<>>
    /\ loop' = "taking"
    /\ wire' = Append(wire, Take)
    /\ UNCHANGED <<queues, runs, history, crashes, faults>>

ResetRejected ==
    /\ loop = "resetting"
    /\ faults < MaxFaults
    /\ faults' = faults + 1
    /\ loop' = "over"
    /\ \/ Requeue
       \/ UNCHANGED <<queues, surplus>>
    /\ UNCHANGED <<wire, runs, scheduled, taken, ended, applied, crashes>>

\* Defects for the mutation check: BRPOP without the backup, a peek that leaves
\* the entry waiting, BLPOP's end of the list.
PopJobWithoutBackup ==
    /\ waiting # <<>>
    /\ waiting' = WithoutOldest(waiting)
    /\ taken' = taken \cup {Oldest(waiting)}
    /\ UNCHANGED processing
PopJobPeeking ==
    /\ waiting # <<>>
    /\ processing' = LPush(processing, Oldest(waiting))
    /\ taken' = taken \cup {Oldest(waiting)}
    /\ UNCHANGED waiting
PopNewestJob ==
    /\ waiting # <<>>
    /\ processing' = LPush(processing, Head(waiting))
    /\ waiting' = Tail(waiting)
    /\ taken' = taken \cup {Head(waiting)}

\* The server executes BRPOPLPUSH: the oldest waiting job moves over.
PopJob ==
    /\ waiting # <<>>
    /\ processing' = LPush(processing, Oldest(waiting))
    /\ waiting' = WithoutOldest(waiting)
    /\ taken' = taken \cup {Oldest(waiting)}

\* takeJob resolves with a job: a run is spawned for it and the loop throttles.
TakeJob(s) ==
    /\ wire # <<>> /\ Head(wire) = Take
    /\ runs[s] = Idle
    /\ PopJob
    /\ runs' = [runs EXCEPT ![s] = [phase |-> "sending", job |-> Oldest(waiting), try |-> 0]]
    /\ wire' = Tail(wire)
    /\ loop' = "throttle"
    /\ UNCHANGED <<scheduled, ended, applied, surplus, crashes, faults>>

\* Defect for the mutation check: BRPOPLPUSH with timeout 0 blocks for ever.
TakeTimeoutNever ==
    /\ wire # <<>> /\ Head(wire) = Take
    /\ waiting = <<>>
    /\ UNCHANGED vars

\* takeJob resolves with undefined after JOB_BLOCKINGWAIT_SECONDS: the loop
\* takes again at once, behind whatever was sent in the meantime.
TakeTimeout ==
    /\ wire # <<>> /\ Head(wire) = Take
    /\ waiting = <<>>
    /\ wire' = Append(Tail(wire), Take)
    /\ UNCHANGED <<queues, loop, runs, history, crashes, faults>>

\* takeJob rejects; the server may have executed the command all the same.
TakeRejected ==
    /\ wire # <<>> /\ Head(wire) = Take
    /\ faults < MaxFaults
    /\ faults' = faults + 1
    /\ PopJob \/ UNCHANGED <<queues, taken>>
    /\ wire' = Tail(wire)
    /\ loop' = "errorSleep"
    /\ UNCHANGED <<runs, scheduled, ended, applied, surplus, crashes>>

\* The connection breaks after the server executed the command; ioredis
\* reconnects and sends the unanswered command again.
TakeResent ==
    /\ wire # <<>> /\ Head(wire) = Take
    /\ faults < MaxFaults
    /\ faults' = faults + 1
    /\ PopJob
    /\ UNCHANGED <<loop, wire, runs, scheduled, ended, applied, surplus, crashes>>

\* A sleep of the loop ends: sleepBeforeNextTakeMs or sleepAfterErrorMs.
Wake ==
    /\ loop \in {"throttle", "errorSleep"}
    /\ loop' = "taking"
    /\ wire' = Append(wire, Take)
    /\ UNCHANGED <<queues, runs, history, crashes, faults>>

-----------------------------------------------------------------------------
(***************************************************************************)
(* A run: BroadcasterImpl.doBroadcast, then onProcessSuccess or            *)
(* onProcessFailure, which both send the LREM of finishJob.                *)
(***************************************************************************)
Conclude(s) ==
    /\ runs' = [runs EXCEPT ![s].phase = "finishing"]
    /\ ended' = ended \cup {runs[s].job}
    /\ wire' = Append(wire, s)

Applied(s) == applied' = [applied EXCEPT ![runs[s].job] = @ + 1]

BroadcastSucceeds(s) ==
    /\ runs[s].phase = "sending"
    /\ Applied(s)
    /\ Conclude(s)
    /\ UNCHANGED <<queues, loop, scheduled, taken, surplus, crashes, faults>>

\* The SDKError "server_error", which is never retried, or the error of the
\* last try.  The transaction may have been applied all the same.
BroadcastFails(s) ==
    /\ runs[s].phase = "sending"
    /\ Applied(s) \/ UNCHANGED applied
    /\ Conclude(s)
    /\ UNCHANGED <<queues, loop, scheduled, taken, surplus, crashes, faults>>

\* Defect for the mutation check: one retry more than there are delays.
BroadcastRetriesOnceMore(s) ==
    /\ runs[s].phase = "sending"
    /\ runs[s].try <= Retries
    /\ runs' = [runs EXCEPT ![s].phase = "retryDelay"]
    /\ UNCHANGED <<queues, loop, wire, history, crashes, faults>>

\* Any other error: getRetryDelayMs yields a delay while tryNum is below the
\* number of delays.  An answer that was lost, or that did not have the
\* expected shape, is such an error although the transaction was applied.
BroadcastRetries(s) ==
    /\ runs[s].phase = "sending"
    /\ runs[s].try < Retries
    /\ \/ /\ Applied(s)
          /\ surplus' = [surplus EXCEPT ![runs[s].job] = @ + 1]
       \/ UNCHANGED <<applied, surplus>>
    /\ runs' = [runs EXCEPT ![s].phase = "retryDelay"]
    /\ UNCHANGED <<queues, loop, wire, scheduled, taken, ended, crashes, faults>>

SendAgain(s) ==
    /\ runs[s].phase = "retryDelay"
    /\ runs' = [runs EXCEPT ![s].phase = "sending", ![s].try = @ + 1]
    /\ UNCHANGED <<queues, loop, wire, history, crashes, faults>>

\* Defect for the mutation check: RPOP in place of LREM.
FinishRemovingOldest(s) ==
    /\ wire # <<>> /\ Head(wire) = s
    /\ processing' = IF processing = <<>> THEN <<>> ELSE WithoutOldest(processing)
    /\ wire' = Tail(wire)
    /\ runs' = [runs EXCEPT ![s] = Idle]
    /\ UNCHANGED <<waiting, loop, history, crashes, faults>>

\* The server executes the LREM of finishJob.  When it removes nothing,
\* finishJob throws; onError only logs, so the run is over either way.
Finish(s) ==
    /\ wire # <<>> /\ Head(wire) = s
    /\ processing' = LRemAll(processing, runs[s].job)
    /\ wire' = Tail(wire)
    /\ runs' = [runs EXCEPT ![s] = Idle]
    /\ UNCHANGED <<waiting, loop, history, crashes, faults>>

\* finishJob rejects, executed or not; nothing tries again.
FinishRejected(s) ==
    /\ wire # <<>> /\ Head(wire) = s
    /\ faults < MaxFaults
    /\ faults' = faults + 1
    /\ processing' \in {processing, LRemAll(processing, runs[s].job)}
    /\ wire' = Tail(wire)
    /\ runs' = [runs EXCEPT ![s] = Idle]
    /\ UNCHANGED <<waiting, loop, history, crashes>>

-----------------------------------------------------------------------------
(***************************************************************************)
(* The process dies (a signal, process.exit(1) of unhandledRejection): the *)
(* two lists are all that is left.  A broadcast that was on its way may    *)
(* still be applied.                                                       *)
(***************************************************************************)
Die(landed) ==
    /\ loop' = "down"
    /\ wire' = <<>>
    /\ runs' = NoRuns
    /\ applied' = [j \in Jobs |->
                      applied[j] + Cardinality({s \in landed : runs[s].job = j})]

Crash ==
    /\ loop # "down"
    /\ crashes < MaxCrashes
    /\ crashes' = crashes + 1
    /\ \E landed \in SUBSET InPhase("sending") : Die(landed)
    /\ UNCHANGED <<queues, scheduled, taken, ended, surplus, faults>>

\* A loop that is over sends no heartbeat: the container's health check fails
\* and Docker replaces the process.
WatchdogKill ==
    /\ loop = "over"
    /\ Die({})
    /\ UNCHANGED <<queues, scheduled, taken, ended, surplus, crashes, faults>>

-----------------------------------------------------------------------------
BroadcastSettles(s) == BroadcastSucceeds(s) \/ BroadcastFails(s) \/ BroadcastRetries(s)

ServeTake == TakeTimeout \/ \E s \in Slots : TakeJob(s)

Next ==
    \/ \E j \in Jobs : Schedule(j)
    \/ Start \/ ResetStep \/ ResetDone \/ ResetRejected
    \/ TakeTimeout \/ TakeRejected \/ TakeResent \/ Wake
    \/ \E s \in Slots :
          \/ TakeJob(s)
          \/ BroadcastSucceeds(s) \/ BroadcastFails(s) \/ BroadcastRetries(s)
          \/ SendAgain(s)
          \/ Finish(s) \/ FinishRejected(s)
    \/ Crash \/ WatchdogKill

Spec == Init /\ [][Next]_vars

(***************************************************************************)
(* What may be relied on to happen: Docker starts the container again and  *)
(* replaces an unhealthy one, Redis answers (a blocking take after its     *)
(* timeout at the latest), timers fire, and a request settles.  Nothing    *)
(* obliges the daemon to push, a process to die or a command to fail.      *)
(***************************************************************************)
Fairness ==
    /\ WF_vars(Start) /\ WF_vars(ResetStep) /\ WF_vars(ResetDone)
    /\ WF_vars(ServeTake) /\ WF_vars(Wake) /\ WF_vars(WatchdogKill)
    /\ \A s \in Slots :
         /\ WF_vars(BroadcastSettles(s))
         /\ WF_vars(SendAgain(s))
         /\ WF_vars(Finish(s))

FairSpec == Spec /\ Fairness

-----------------------------------------------------------------------------
TypeOK ==
    /\ waiting \in Seq(Jobs) /\ processing \in Seq(Jobs)
    /\ loop \in LoopStates
    /\ wire \in Seq(Slots \cup {Take})
    /\ runs \in [Slots -> Run \cup {Idle}]
    /\ scheduled \in Seq(Jobs)
    /\ taken \in SUBSET Jobs /\ ended \in SUBSET Jobs
    /\ applied \in [Jobs -> Nat] /\ surplus \in [Jobs -> Nat]
    /\ crashes \in 0..MaxCrashes /\ faults \in 0..MaxFaults

\* How often a job stands in a list, and how many runs hold it.
Occurrences(list, j) == Cardinality({i \in DOMAIN list : list[i] = j})
Holders(j) == {s \in Busy : runs[s].job = j}

\* A job the daemon pushed is in one of the two lists until a run of it came
\* to an end: no crash, interrupted reset, lost answer, failed command or
\* removal of equal entries makes it disappear (PublisherQueueImpl.ts:17-67).
NoJobVanishes ==
    Entries(scheduled) \subseteq Entries(waiting) \cup Entries(processing) \cup ended

\* As long as no Redis command failed, the processing list holds nothing that
\* no run is working on: what an earlier process left there has been put back
\* before the first take, so no job waits for the next restart.
NothingStranded ==
    faults = 0 /\ loop \in {"taking", "throttle"} =>
        \A j \in Jobs : Occurrences(processing, j) <= Cardinality(Holders(j))

\* A job string that was pushed once and is being worked on has one run, is
\* in the processing list until the LREM of that run, where a restart would
\* find it, and is not also waiting to be taken again.
OneRunPerJob ==
    \A s \in Busy :
        Pushes(runs[s].job) = 1 =>
            /\ Holders(runs[s].job) = {s}
            /\ runs[s].job \in Entries(processing)
            /\ runs[s].job \notin Entries(waiting)

\* The blockchain applies a job once per push, plus once per time a restart
\* put it back and per try whose effect was not acknowledged: nothing else in
\* takes, retries and resets duplicates a vote.
DuplicatesExplained == \A j \in Jobs : applied[j] <= Pushes(j) + surplus[j]

\* Jobs are first handed out in the order of their pushes, also when restarts
\* put taken ones back (LPUSH at the head, BRPOPLPUSH at the tail).
FirstTakesInOrder ==
    [][\A j \in taken' \ taken, i \in DOMAIN scheduled :
          j \in Entries(SubSeq(scheduled, 1, i)) \/ scheduled[i] \in taken]_vars

\* The two lists and the consumer implement the abstract delivery service.
Delivery == INSTANCE JobDelivery
    WITH owed <- Entries(waiting) \cup Entries(processing), concluded <- ended

ImplementsDelivery == Delivery!Spec

\* With finitely many crashes and no failing command after the reset, every
\* job the daemon pushed is concluded and leaves Redis.
EveryJobConcluded == Delivery!EveryJobConcluded

\* The LREM that ends a run is never starved by the blocking takes that share
\* its connection: the timeout of BRPOPLPUSH lets it through.
FinishNotStarved ==
    \A s \in Slots : runs[s].phase = "finishing" ~> runs[s] = Idle

=============================================================================
