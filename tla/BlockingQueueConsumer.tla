------------------------ MODULE BlockingQueueConsumer ------------------------
(***************************************************************************)
(* The generic consumer of publisher/queue/BlockingQueueConsumerImpl.ts:   *)
(* start() spawns a loop that takes items and spawns a run for each;       *)
(* stop() clears the flag the loop looks at between two takes.  Whatever   *)
(* the callbacks do is left open: each call resolves or rejects.           *)
(***************************************************************************)
EXTENDS Naturals

CONSTANTS
    Items,      \* the items take() yields, each once; bounds the runs
    MaxStarts,  \* bound: how often start() is called, one loop each
    MaxStops,   \* bound: how often stop() is called
    MaxErrors   \* bound: how often init(), and how often take(), rejects

ASSUME ConsumerAssumption ==
    MaxStarts \in Nat /\ MaxStops \in Nat /\ MaxErrors \in Nat

VARIABLES
    running,  \* the flag this.running
    loop,     \* where the loop of each start() stands
    run,      \* where the spawned run of each item stands
    starts, stops,
    initErrors, takeErrors,
    stopped,  \* history: stop() was called, and start() was not called since
    late      \* history: the items each loop took since then

errors == <<initErrors, takeErrors>>
calls == <<starts, stops>>
vars == <<running, loop, run, calls, errors, stopped, late>>

Loops == 1..MaxStarts

\* check: about to look at the flag.  takeError and initError: awaiting onError.
LoopStates == {"unborn", "init", "check", "take", "throttle", "takeError", "errorSleep",
               "initError", "over"}
Active(l) == loop[l] \notin {"unborn", "over"}

\* succeeded and failed: awaiting onProcessSuccess or onProcessFailure.
\* reporting: that callback rejected and onError is awaited.
RunStates == {"untaken", "processing", "succeeded", "failed", "reporting", "done"}

Move(l, to) == loop' = [loop EXCEPT ![l] = to]

Init ==
    /\ running = FALSE
    /\ loop = [l \in Loops |-> "unborn"]
    /\ run = [i \in Items |-> "untaken"]
    /\ starts = 0 /\ stops = 0
    /\ initErrors = 0 /\ takeErrors = 0
    /\ stopped = FALSE /\ late = [l \in Loops |-> 0]

-----------------------------------------------------------------------------
\* start(): up to the await of init() it runs in the caller.
Start ==
    /\ starts < MaxStarts
    /\ starts' = starts + 1
    /\ running' = TRUE
    /\ Move(starts + 1, "init")
    /\ stopped' = FALSE /\ late' = [l \in Loops |-> 0]
    /\ UNCHANGED <<run, stops, errors>>

\* Defect for the mutation check: the flag is not cleared.
StopForgetful ==
    /\ stops < MaxStops
    /\ stops' = stops + 1
    /\ stopped' = TRUE
    /\ UNCHANGED <<running, loop, run, starts, errors, late>>

\* stop(): the flag it would wait on is the one it has just cleared, so it
\* returns without waiting.
Stop ==
    /\ stops < MaxStops
    /\ stops' = stops + 1
    /\ running' = FALSE
    /\ stopped' = TRUE
    /\ UNCHANGED <<loop, run, starts, errors, late>>

InitResolves(l) ==
    /\ loop[l] = "init"
    /\ Move(l, "check")
    /\ UNCHANGED <<running, run, calls, errors, stopped, late>>

\* The outer catch: onError, and then the loop is over.
InitRejects(l) ==
    /\ loop[l] = "init"
    /\ initErrors < MaxErrors
    /\ initErrors' = initErrors + 1
    /\ Move(l, "initError")
    /\ UNCHANGED <<running, run, calls, takeErrors, stopped, late>>

\* Defect for the mutation check: the loop takes without looking at the flag.
IterateBlindly(l) ==
    /\ loop[l] = "check"
    /\ Move(l, "take")
    /\ UNCHANGED <<running, run, calls, errors, stopped, late>>

\* while (this.running): heartbeat() and the call of take() follow at once.
Iterate(l) ==
    /\ loop[l] = "check" /\ running
    /\ Move(l, "take")
    /\ UNCHANGED <<running, run, calls, errors, stopped, late>>

\* take() resolves with an item: its run is spawned, then the loop sleeps.
TakeItem(l, i) ==
    /\ loop[l] = "take"
    /\ run[i] = "untaken"
    /\ run' = [run EXCEPT ![i] = "processing"]
    /\ Move(l, "throttle")
    /\ late' = IF stopped THEN [late EXCEPT ![l] = @ + 1] ELSE late
    /\ UNCHANGED <<running, calls, errors, stopped>>

TakeNothing(l) ==
    /\ loop[l] = "take"
    /\ Move(l, "check")
    /\ UNCHANGED <<running, run, calls, errors, stopped, late>>

\* Defect for the mutation check: one try block around the whole loop.
TakeRejectsFatally(l) ==
    /\ loop[l] = "take"
    /\ takeErrors < MaxErrors
    /\ takeErrors' = takeErrors + 1
    /\ Move(l, "initError")
    /\ UNCHANGED <<running, run, calls, initErrors, stopped, late>>

\* The inner catch: onError, a sleep, and the next iteration.
TakeRejects(l) ==
    /\ loop[l] = "take"
    /\ takeErrors < MaxErrors
    /\ takeErrors' = takeErrors + 1
    /\ Move(l, "takeError")
    /\ UNCHANGED <<running, run, calls, initErrors, stopped, late>>

\* onError settles (its own errors are swallowed), or a sleep ends.
Proceed(l) ==
    /\ \/ loop[l] = "takeError" /\ Move(l, "errorSleep")
       \/ loop[l] \in {"throttle", "errorSleep"} /\ Move(l, "check")
    /\ UNCHANGED <<running, run, calls, errors, stopped, late>>

\* The finally block: it clears the flag that all loops share.
End(l) ==
    /\ \/ loop[l] = "check" /\ ~running
       \/ loop[l] = "initError"
    /\ Move(l, "over")
    /\ running' = FALSE
    /\ UNCHANGED <<run, calls, errors, stopped, late>>

-----------------------------------------------------------------------------
\* The spawned run of an item: process, then one of the two callbacks; an
\* error of that callback goes to onError.
RunStep(i) ==
    /\ \/ /\ run[i] = "processing"
          /\ run' \in {[run EXCEPT ![i] = "succeeded"], [run EXCEPT ![i] = "failed"]}
       \/ /\ run[i] \in {"succeeded", "failed"}
          /\ run' \in {[run EXCEPT ![i] = "done"], [run EXCEPT ![i] = "reporting"]}
       \/ /\ run[i] = "reporting"
          /\ run' = [run EXCEPT ![i] = "done"]
    /\ UNCHANGED <<running, loop, calls, errors, stopped, late>>

-----------------------------------------------------------------------------
LoopStep(l) ==
    \/ InitResolves(l) \/ InitRejects(l) \/ Iterate(l)
    \/ \E i \in Items : TakeItem(l, i)
    \/ TakeNothing(l) \/ TakeRejects(l)
    \/ Proceed(l) \/ End(l)

Next ==
    \/ Start \/ Stop
    \/ \E l \in Loops : LoopStep(l)
    \/ \E i \in Items : RunStep(i)

\* Every callback settles and every timer fires; nobody has to start or stop.
Fairness ==
    /\ \A l \in Loops : WF_vars(LoopStep(l))
    /\ \A i \in Items : WF_vars(RunStep(i))

Spec == Init /\ [][Next]_vars /\ Fairness

-----------------------------------------------------------------------------
FlagsOK == running \in BOOLEAN /\ stopped \in BOOLEAN
StatesOK == loop \in [Loops -> LoopStates] /\ run \in [Items -> RunStates]
CountsOK ==
    /\ starts \in 0..MaxStarts /\ stops \in 0..MaxStops
    /\ initErrors \in 0..MaxErrors /\ takeErrors \in 0..MaxErrors
    /\ late \in [Loops -> Nat]

\* Types, and: isRunning() answers true only while some loop is alive.
TypeOK == FlagsOK /\ StatesOK /\ CountsOK /\ (running => \E l \in Loops : Active(l))

\* After stop(), and until start() is called again, a loop lets at most the
\* take it is waiting for through (BlockingQueueConsumerImpl.ts:25-33): no
\* sleep, error or other loop makes it take once more.
OneTakeOutlivesStop == \A l \in Loops : late[l] <= 1

\* Errors of take, of the runs and of the error handler never end a loop:
\* one that is over was stopped, or some init rejected (lines 26-40).
LoopsEndForAReason ==
    (\E l \in Loops : loop[l] = "over") => stops > 0 \/ initErrors > 0

\* After stop() every loop comes to its end, or start() is called again.
StopEndsLoops == stopped ~> (~stopped \/ \A l \in Loops : ~Active(l))

\* What BlockingQueueConsumer.spec.test.ts:279 expects of stop() ("the second
\* is awaited by stop"): when stop() has returned no take is outstanding.
StopAwaitsTake == stopped => \A l \in Loops : loop[l] # "take"

=============================================================================
