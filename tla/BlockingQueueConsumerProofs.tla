--------------------- MODULE BlockingQueueConsumerProofs ---------------------
(***************************************************************************)
(* Proofs about BlockingQueueConsumer, for any items, starts, stops and    *)
(* rejected calls, and so for any number of loops that share the flag.     *)
(***************************************************************************)
EXTENDS BlockingQueueConsumer, TLAPS

\* Somebody stopped the consumer, or an init rejected.
Reason == stops > 0 \/ initErrors > 0

\* The flag is down for a reason as soon as there is a loop, and so is a loop.
ReasonInv ==
    /\ \A l \in Loops : loop[l] # "unborn" => starts > 0
    /\ starts > 0 /\ ~running => Reason
    /\ \A l \in Loops : loop[l] \in {"initError", "over"} => Reason

\* A loop that waits for a take has taken nothing since the stop: the flag that
\* let it go on was up, and it goes up only with the start() that ends the count.
LateInv ==
    /\ stopped => ~running
    /\ ~stopped => \A l \in Loops : late[l] = 0
    /\ \A l \in Loops : late[l] <= 1 /\ (loop[l] = "take" => late[l] = 0)

LoopInv == TypeOK /\ ReasonInv /\ LateInv

-----------------------------------------------------------------------------
LEMMA InitLoopInv == Init => LoopInv
<1> SUFFICES ASSUME Init PROVE LoopInv
  OBVIOUS
<1>1. FlagsOK
  BY Zenon DEF Init, FlagsOK
<1>2. StatesOK /\ CountsOK /\ ~running
  BY ConsumerAssumption DEF Init, StatesOK, CountsOK, LoopStates, RunStates
<1>3. ReasonInv /\ LateInv
  BY DEF Init, ReasonInv, LateInv
<1>. QED BY <1>1, <1>2, <1>3, Zenon DEF LoopInv, TypeOK

\* What moving a loop does.
LEMMA MoveFacts ==
    ASSUME StatesOK, NEW l \in Loops, NEW to \in LoopStates, Move(l, to)
    PROVE  /\ loop' \in [Loops -> LoopStates] /\ loop'[l] = to
           /\ \A m \in Loops : m # l => loop'[m] = loop[m]
  BY DEF Move, StatesOK

\* A step of a loop moves that loop; the flag goes down when the loop is over.
LEMMA LoopStepMoves ==
    ASSUME StatesOK, NEW l \in Loops, LoopStep(l)
    PROVE  /\ loop' \in [Loops -> LoopStates] /\ loop[l] # "unborn" /\ loop'[l] # "unborn"
           /\ \A m \in Loops : m # l => loop'[m] = loop[m]
           /\ UNCHANGED <<calls, stopped>>
           /\ IF loop'[l] = "over" THEN End(l) /\ running' = FALSE ELSE UNCHANGED running
<1>1. CASE InitResolves(l) \/ InitRejects(l)
  BY <1>1, MoveFacts DEF InitResolves, InitRejects, LoopStates
<1>2. CASE Iterate(l) \/ TakeNothing(l) \/ TakeRejects(l)
  BY <1>2, MoveFacts DEF Iterate, TakeNothing, TakeRejects, LoopStates
<1>3. CASE \E i \in Items : TakeItem(l, i)
  BY <1>3, MoveFacts DEF TakeItem, LoopStates
<1>4. CASE Proceed(l)
  BY <1>4, MoveFacts DEF Proceed, LoopStates
<1>5. CASE End(l)
  BY <1>5, MoveFacts DEF End, LoopStates
<1>. QED BY <1>1, <1>2, <1>3, <1>4, <1>5 DEF LoopStep

LEMMA NextFlagsOK == ASSUME TypeOK, [Next]_vars PROVE FlagsOK'
<1>0. FlagsOK /\ StatesOK
  BY DEF TypeOK
<1>1. CASE Start \/ Stop
  BY <1>0, <1>1, Zenon DEF Start, Stop, FlagsOK
<1>2. ASSUME NEW l \in Loops, LoopStep(l) PROVE FlagsOK'
  <2>1. stopped' = stopped /\ (running' = running \/ running' = FALSE)
    BY <1>0, <1>2, LoopStepMoves
  <2>. QED BY <1>0, <2>1, Zenon DEF FlagsOK
<1>3. ASSUME NEW i \in Items, RunStep(i) PROVE FlagsOK'
  BY <1>0, <1>3, Zenon DEF RunStep, FlagsOK
<1>4. CASE UNCHANGED vars
  BY <1>0, <1>4, Zenon DEF vars, FlagsOK
<1>. QED BY <1>1, <1>2, <1>3, <1>4 DEF Next

LEMMA NextStatesOK == ASSUME TypeOK, [Next]_vars PROVE StatesOK'
<1>0. StatesOK /\ CountsOK
  BY DEF TypeOK
<1>1. CASE Start
  <2>1. starts + 1 \in Loops
    BY <1>0, <1>1, ConsumerAssumption DEF Start, CountsOK, Loops
  <2>. QED BY <1>0, <1>1, <2>1, MoveFacts DEF Start, StatesOK, LoopStates
<1>2. ASSUME NEW l \in Loops, LoopStep(l) PROVE StatesOK'
  <2>1. loop' \in [Loops -> LoopStates]
    BY <1>0, <1>2, LoopStepMoves
  <2>2. run' \in [Items -> RunStates]
    BY <1>0, <1>2 DEF LoopStep, InitResolves, InitRejects, Iterate, TakeItem, TakeNothing,
       TakeRejects, Proceed, End, StatesOK, RunStates
  <2>. QED BY <2>1, <2>2 DEF StatesOK
<1>3. ASSUME NEW i \in Items, RunStep(i) PROVE StatesOK'
  BY <1>0, <1>3 DEF RunStep, StatesOK, RunStates
<1>4. CASE Stop \/ UNCHANGED vars
  BY <1>0, <1>4 DEF Stop, vars, StatesOK
<1>. QED BY <1>1, <1>2, <1>3, <1>4 DEF Next

LEMMA NextCountsOK == ASSUME TypeOK, [Next]_vars PROVE CountsOK'
<1>. USE ConsumerAssumption
<1>0. CountsOK
  BY DEF TypeOK
<1>1. CASE Start \/ Stop
  BY <1>0, <1>1 DEF Start, Stop, CountsOK, errors
<1>2. ASSUME NEW l \in Loops, LoopStep(l) PROVE CountsOK'
  <2>1. CASE InitRejects(l) \/ TakeRejects(l)
    BY <1>0, <2>1 DEF InitRejects, TakeRejects, CountsOK, calls
  <2>2. CASE \E i \in Items : TakeItem(l, i)
    BY <1>0, <2>2 DEF TakeItem, CountsOK, calls, errors
  <2>3. CASE InitResolves(l) \/ Iterate(l) \/ TakeNothing(l) \/ Proceed(l) \/ End(l)
    BY <1>0, <2>3 DEF InitResolves, Iterate, TakeNothing, Proceed, End, CountsOK, calls, errors
  <2>. QED BY <1>2, <2>1, <2>2, <2>3 DEF LoopStep
<1>3. ASSUME NEW i \in Items, RunStep(i) PROVE CountsOK'
  BY <1>0, <1>3 DEF RunStep, CountsOK, calls, errors
<1>4. CASE UNCHANGED vars
  BY <1>0, <1>4 DEF vars, CountsOK, calls, errors
<1>. QED BY <1>1, <1>2, <1>3, <1>4 DEF Next

LEMMA NextTypeOK == ASSUME TypeOK, [Next]_vars PROVE TypeOK'
<1>0. StatesOK /\ CountsOK /\ (running => \E l \in Loops : Active(l))
  BY DEF TypeOK
<1>1. (running => \E l \in Loops : Active(l))'
  <2>1. CASE Start
    <3>1. starts + 1 \in Loops
      BY <1>0, <2>1, ConsumerAssumption DEF Start, CountsOK, Loops
    <3>2. loop'[starts + 1] = "init"
      BY <1>0, <2>1, <3>1, MoveFacts DEF Start, LoopStates
    <3>. QED BY <3>1, <3>2 DEF Active
  <2>2. ASSUME NEW l \in Loops, LoopStep(l), running' PROVE (\E m \in Loops : Active(m))'
    BY <1>0, <2>2, LoopStepMoves DEF Active
  <2>3. ASSUME NEW i \in Items, RunStep(i), running' PROVE (\E m \in Loops : Active(m))'
    BY <1>0, <2>3 DEF RunStep, Active
  <2>4. CASE Stop \/ UNCHANGED vars
    BY <1>0, <2>4 DEF Stop, vars, Active
  <2>. QED BY <2>1, <2>2, <2>3, <2>4 DEF Next
<1>. QED BY <1>1, NextFlagsOK, NextStatesOK, NextCountsOK, Zenon DEF TypeOK

LEMMA NextReasonInv == ASSUME TypeOK, ReasonInv, [Next]_vars PROVE ReasonInv'
<1>0. StatesOK /\ CountsOK
  BY DEF TypeOK
<1>1. CASE Start
  <2>1. starts + 1 \in Loops /\ starts' > 0
    BY <1>0, <1>1, ConsumerAssumption DEF Start, CountsOK, Loops
  <2>2. \A l \in Loops : loop'[l] = "init" \/ loop'[l] = loop[l]
    BY <1>0, <1>1, <2>1, MoveFacts DEF Start, LoopStates
  <2>. QED BY <1>1, <2>1, <2>2 DEF Start, ReasonInv, Reason, errors
<1>2. CASE Stop
  <2>1. stops' > 0
    BY <1>0, <1>2 DEF Stop, CountsOK
  <2>. QED BY <1>2, <2>1 DEF Stop, ReasonInv, Reason
<1>3. ASSUME NEW l \in Loops, LoopStep(l) PROVE ReasonInv'
  <2>1. starts > 0 /\ starts' = starts /\ stops' = stops
    BY <1>0, <1>3, LoopStepMoves DEF ReasonInv, calls
  <2>2. Reason => Reason'
    <3>1. initErrors' = initErrors \/ initErrors' = initErrors + 1
      BY <1>3 DEF LoopStep, InitResolves, InitRejects, Iterate, TakeItem, TakeNothing,
         TakeRejects, Proceed, End, errors
    <3>. QED BY <1>0, <2>1, <3>1, ConsumerAssumption DEF Reason, CountsOK
  <2>3. loop'[l] = "initError" => Reason'
    <3>1. loop'[l] = "initError" => InitRejects(l)
      BY <1>0, <1>3, MoveFacts DEF LoopStep, InitResolves, InitRejects, Iterate, TakeItem,
         TakeNothing, TakeRejects, Proceed, End, LoopStates
    <3>2. InitRejects(l) => initErrors' > 0
      BY <1>0, ConsumerAssumption DEF InitRejects, CountsOK
    <3>. QED BY <3>1, <3>2 DEF Reason
  <2>4. loop'[l] = "over" => Reason
    BY <1>0, <1>3, <2>1, LoopStepMoves DEF End, ReasonInv
  <2>. QED BY <1>0, <1>3, <2>1, <2>2, <2>3, <2>4, LoopStepMoves DEF ReasonInv
<1>4. CASE UNCHANGED <<running, loop, starts, stops, initErrors>>
  BY <1>4 DEF ReasonInv, Reason
<1>5. ASSUME NEW i \in Items, RunStep(i) PROVE UNCHANGED <<running, loop, starts, stops, initErrors>>
  BY <1>5 DEF RunStep, calls, errors
<1>6. UNCHANGED vars => UNCHANGED <<running, loop, starts, stops, initErrors>>
  BY DEF vars, calls, errors
<1>. QED BY <1>1, <1>2, <1>3, <1>4, <1>5, <1>6 DEF Next

LEMMA NextLateInv == ASSUME TypeOK, LateInv, [Next]_vars PROVE LateInv'
<1>0. StatesOK /\ CountsOK
  BY DEF TypeOK
<1>1. CASE Start
  BY <1>1 DEF Start, LateInv
<1>2. CASE Stop
  BY <1>2 DEF Stop, LateInv
<1>3. ASSUME NEW l \in Loops, LoopStep(l) PROVE LateInv'
  <2>0. stopped' = stopped /\ (running' => running)
    BY <1>0, <1>3, LoopStepMoves
  <2>1. CASE Iterate(l)
    <3>1. ~stopped /\ late' = late
      BY <2>1 DEF Iterate, LateInv
    <3>. QED BY <2>0, <3>1 DEF LateInv
  <2>2. ASSUME NEW i \in Items, TakeItem(l, i) PROVE LateInv'
    <3>1. \A m \in Loops : loop'[m] = "take" => m # l /\ loop[m] = "take"
      BY <1>0, <2>2, MoveFacts DEF TakeItem, LoopStates
    <3>2. late'[l] <= 1 /\ \A m \in Loops : m # l => late'[m] = late[m]
      BY <1>0, <2>2 DEF TakeItem, CountsOK, LateInv
    <3>3. ~stopped => late' = late
      BY <2>2 DEF TakeItem
    <3>. QED BY <2>0, <3>1, <3>2, <3>3 DEF LateInv
  <2>3. CASE late' = late /\ \A m \in Loops : loop'[m] = "take" => loop[m] = "take"
    BY <2>0, <2>3 DEF LateInv
  <2>4. CASE InitResolves(l) \/ InitRejects(l) \/ TakeNothing(l)
    BY <1>0, <2>3, <2>4, MoveFacts DEF InitResolves, InitRejects, TakeNothing, LoopStates
  <2>5. CASE TakeRejects(l) \/ Proceed(l) \/ End(l)
    BY <1>0, <2>3, <2>5, MoveFacts DEF TakeRejects, Proceed, End, LoopStates
  <2>. QED BY <1>3, <2>1, <2>2, <2>4, <2>5 DEF LoopStep
<1>4. CASE UNCHANGED <<running, loop, stopped, late>>
  BY <1>4 DEF LateInv
<1>5. ASSUME NEW i \in Items, RunStep(i) PROVE UNCHANGED <<running, loop, stopped, late>>
  BY <1>5 DEF RunStep
<1>6. UNCHANGED vars => UNCHANGED <<running, loop, stopped, late>>
  BY DEF vars
<1>. QED BY <1>1, <1>2, <1>3, <1>4, <1>5, <1>6 DEF Next

LEMMA ConsumerLoopInv == Spec => []LoopInv
<1>1. Init => LoopInv
  BY InitLoopInv
<1>2. LoopInv /\ [Next]_vars => LoopInv'
  BY NextTypeOK, NextReasonInv, NextLateInv DEF LoopInv
<1>. QED BY <1>1, <1>2, PTL DEF Spec

-----------------------------------------------------------------------------
\* The state keeps its types, and the flag is up only while some loop is alive.
THEOREM ConsumerTypeOK == Spec => []TypeOK
<1>1. LoopInv => TypeOK
  BY DEF LoopInv
<1>. QED BY <1>1, ConsumerLoopInv, PTL

\* However many loops there are, each lets at most one take through after a stop
\* (BlockingQueueConsumerImpl.ts:25-33).
THEOREM ConsumerOneTakeOutlivesStop == Spec => []OneTakeOutlivesStop
<1>1. LoopInv => OneTakeOutlivesStop
  BY DEF LoopInv, LateInv, OneTakeOutlivesStop
<1>. QED BY <1>1, ConsumerLoopInv, PTL

\* No error of take, of a run or of the error handler ends a loop
\* (BlockingQueueConsumerImpl.ts:26-40).
THEOREM ConsumerLoopsEndForAReason == Spec => []LoopsEndForAReason
<1>1. LoopInv => LoopsEndForAReason
  BY DEF LoopInv, ReasonInv, Reason, LoopsEndForAReason
<1>. QED BY <1>1, ConsumerLoopInv, PTL

=============================================================================
