-------------------------- MODULE PublisherProofs --------------------------
(***************************************************************************)
(* Proofs about the list commands and about the publisher: its types, its  *)
(* safety properties, and that it implements the delivery service, for any *)
(* sets of jobs and slots and any bounds.                                  *)
(***************************************************************************)
EXTENDS Publisher, FiniteSetTheorems, SequenceTheorems, TLAPS

-----------------------------------------------------------------------------
(***************************************************************************)
(* What the list commands do to the entries of a list, for every list.     *)
(***************************************************************************)
\* LPUSH adds one entry (RedisDualQueueImpl.pushToWaitingQueue).
LEMMA LPushEntries ==
    ASSUME NEW S, NEW l \in Seq(S), NEW e \in S
    PROVE  /\ LPush(l, e) \in Seq(S)
           /\ Entries(LPush(l, e)) = Entries(l) \cup {e}
<1>1. LPush(l, e) \in Seq(S)
  BY DEF LPush
<1>2. /\ Len(LPush(l, e)) = Len(l) + 1
      /\ LPush(l, e)[1] = e
      /\ \A i \in 1..Len(l) : LPush(l, e)[i + 1] = l[i]
  BY DEF LPush
<1>3. \A i \in 2..(Len(l) + 1) : LPush(l, e)[i] = l[i - 1]
  BY DEF LPush
<1>4. Entries(LPush(l, e)) \subseteq Entries(l) \cup {e}
  <2> SUFFICES ASSUME NEW i \in 1..(Len(l) + 1)
               PROVE  LPush(l, e)[i] \in Entries(l) \cup {e}
    BY <1>1, <1>2 DEF Entries
  <2>1. CASE i = 1
    BY <2>1, <1>2
  <2>2. CASE i # 1
    <3>1. i \in 2..(Len(l) + 1) /\ i - 1 \in DOMAIN l
      BY <2>2
    <3> QED
      BY <3>1, <1>3 DEF Entries
  <2> QED
    BY <2>1, <2>2
<1>5. e \in Entries(LPush(l, e))
  BY <1>1, <1>2 DEF Entries
<1>6. Entries(l) \subseteq Entries(LPush(l, e))
  <2> SUFFICES ASSUME NEW i \in 1..Len(l)
               PROVE  l[i] \in Entries(LPush(l, e))
    BY DEF Entries
  <2>1. i + 1 \in DOMAIN LPush(l, e)
    BY <1>1, <1>2
  <2> QED
    BY <2>1, <1>2 DEF Entries
<1> QED
  BY <1>1, <1>4, <1>5, <1>6

\* RPOP takes one entry off a nonempty list: the list had that entry and
\* what is left (the source side of RPOPLPUSH and BRPOPLPUSH).
LEMMA OldestEntries ==
    ASSUME NEW S, NEW l \in Seq(S), l # <<>>
    PROVE  /\ Oldest(l) \in S
           /\ WithoutOldest(l) \in Seq(S)
           /\ Entries(l) = Entries(WithoutOldest(l)) \cup {Oldest(l)}
<1>1. Len(l) \in Nat /\ Len(l) > 0 /\ DOMAIN l = 1..Len(l)
  OBVIOUS
<1>2. Oldest(l) \in S
  BY <1>1 DEF Oldest
<1>3. /\ WithoutOldest(l) \in Seq(S)
      /\ Len(WithoutOldest(l)) = Len(l) - 1
      /\ \A i \in 1..(Len(l) - 1) : WithoutOldest(l)[i] = l[i]
  BY <1>1 DEF WithoutOldest
<1>4. Entries(l) = Entries(WithoutOldest(l)) \cup {Oldest(l)}
  BY <1>1, <1>3 DEF Entries, Oldest
<1> QED
  BY <1>2, <1>3, <1>4

\* The positions LREM keeps are finitely many positions of the list.
LEMMA KeptIsFinite ==
    ASSUME NEW S, NEW l \in Seq(S), NEW e
    PROVE  /\ Kept(l, e) \subseteq 1..Len(l)
           /\ IsFiniteSet(Kept(l, e))
           /\ Cardinality(Kept(l, e)) \in Nat
<1>1. /\ Kept(l, e) \subseteq 1..Len(l)
      /\ IsFiniteSet(1..Len(l))
  BY FS_Interval DEF Kept
<1> QED
  BY <1>1, FS_Subset, FS_CardinalityType

\* The rank of a kept position is one of the positions of the result.
LEMMA RankInRange ==
    ASSUME NEW S, NEW l \in Seq(S), NEW e, NEW i \in Kept(l, e)
    PROVE  Rank(l, e, i) \in 1..Cardinality(Kept(l, e))
<1> DEFINE K == Kept(l, e)
           B == {j \in K : j <= i}
<1>1. IsFiniteSet(K) /\ Cardinality(K) \in Nat /\ i \in Nat
  BY KeptIsFinite
<1>2. IsFiniteSet(B) /\ Cardinality(B) <= Cardinality(K) /\ Cardinality(B) \in Nat
  BY <1>1, FS_Subset, FS_CardinalityType
<1>3. B # {}
  BY <1>1
<1>4. Cardinality(B) # 0
  BY <1>2, <1>3, FS_EmptySet
<1> QED
  BY <1>1, <1>2, <1>4 DEF Rank

\* Ranks follow the order of the positions, so LREM keeps the order.
LEMMA RankIncreases ==
    ASSUME NEW S, NEW l \in Seq(S), NEW e,
           NEW i \in Kept(l, e), NEW j \in Kept(l, e), i < j
    PROVE  Rank(l, e, i) < Rank(l, e, j)
<1> DEFINE K == Kept(l, e)
           B == {m \in K : m <= i}
           C == {m \in K : m <= j}
<1>1. IsFiniteSet(K) /\ K \subseteq Nat
  BY KeptIsFinite
<1>2. B \subseteq C /\ j \in C /\ j \notin B
  BY <1>1
<1>3. IsFiniteSet(C) /\ C # B
  BY <1>1, <1>2, FS_Subset
<1>4. Cardinality(B) < Cardinality(C)
  BY <1>2, <1>3, FS_Subset, FS_CardinalityType
<1> QED
  BY <1>4 DEF Rank

\* Every position of the result is the rank of some kept position.
LEMMA RankIsOnto ==
    ASSUME NEW S, NEW l \in Seq(S), NEW e,
           NEW k \in 1..Cardinality(Kept(l, e))
    PROVE  \E i \in Kept(l, e) : Rank(l, e, i) = k
<1> DEFINE K == Kept(l, e)
           n == Cardinality(K)
           R == [i \in K |-> Rank(l, e, i)]
<1>1. n \in Nat /\ K \subseteq Nat
  BY KeptIsFinite
<1>2. R \in [K -> 1..n]
  BY RankInRange
<1>3. \A i, j \in K : R[i] = R[j] => i = j
  <2> SUFFICES ASSUME NEW i \in K, NEW j \in K, R[i] = R[j]
               PROVE  i = j
    OBVIOUS
  <2>1. ~(R[i] < R[j]) /\ ~(R[j] < R[i])
    BY <1>1, <1>2
  <2>2. ~(i < j) /\ ~(j < i)
    BY <2>1, RankIncreases
  <2> QED
    BY <2>2, <1>1
<1>4. R \in Injection(K, 1..n)
  BY <1>2, <1>3 DEF Injection, IsInjective
<1>5. IsFiniteSet(1..n) /\ Cardinality(1..n) = n
  BY <1>1, FS_Interval
<1>6. R \in Surjection(K, 1..n)
  BY <1>4, <1>5, FS_Injection
<1> QED
  BY <1>6 DEF Surjection

\* LREM key 0 entry removes that entry, however often the list held it, and
\* no other (RedisDualQueueImpl.removeFromProcessingQueue).
LEMMA LRemAllEntries ==
    ASSUME NEW S, NEW l \in Seq(S), NEW e
    PROVE  /\ LRemAll(l, e) \in Seq(S)
           /\ Entries(LRemAll(l, e)) = Entries(l) \ {e}
<1> DEFINE K == Kept(l, e)
           n == Cardinality(K)
           at == [k \in 1..n |-> CHOOSE i \in K : Rank(l, e, i) = k]
<1>1. K \subseteq DOMAIN l /\ K \subseteq Nat /\ n \in Nat
  BY KeptIsFinite
<1>2. \A k \in 1..n : at[k] \in K /\ Rank(l, e, at[k]) = k
  BY RankIsOnto
<1>3. LRemAll(l, e) = [k \in 1..n |-> l[at[k]]]
  BY DEF LRemAll
<1>4. \A i \in K : l[i] \in S \ {e} /\ l[i] \in Entries(l)
  BY DEF Kept, Entries
<1>5. \A i \in K : Rank(l, e, i) \in 1..n /\ at[Rank(l, e, i)] = i
  <2> TAKE i \in K
  <2> DEFINE r == Rank(l, e, i)
  <2>1. r \in 1..n
    BY RankInRange
  <2>2. at[r] \in K /\ Rank(l, e, at[r]) = r
    BY <1>2, <2>1
  <2>3. ~(at[r] < i) /\ ~(i < at[r])
    BY <2>1, <2>2, RankIncreases
  <2> QED
    BY <2>1, <2>2, <2>3, <1>1
<1>6. \A i \in DOMAIN l : l[i] # e => i \in K
  BY DEF Kept
<1> HIDE DEF K, n, at
<1>7. LRemAll(l, e) \in Seq(S)
  BY <1>1, <1>2, <1>3, <1>4, IsASeq
<1>8. Entries(LRemAll(l, e)) \subseteq Entries(l) \ {e}
  BY <1>2, <1>3, <1>4 DEF Entries
<1>9. Entries(l) \ {e} \subseteq Entries(LRemAll(l, e))
  <2> SUFFICES ASSUME NEW i \in DOMAIN l, l[i] # e
               PROVE  l[i] \in Entries(LRemAll(l, e))
    BY DEF Entries
  <2>1. Rank(l, e, i) \in 1..n /\ at[Rank(l, e, i)] = i
    BY <1>5, <1>6
  <2> QED
    BY <2>1, <1>3 DEF Entries
<1> QED
  BY <1>7, <1>8, <1>9


-----------------------------------------------------------------------------
\* The initial state is well typed.
LEMMA InitTypeOK == Init => TypeOK
BY PublisherAssumption DEF Init, TypeOK, NoRuns, LoopStates

\* Every step of the program keeps the types.
LEMMA NextTypeOK == TypeOK /\ [Next]_vars => TypeOK'
<1> SUFFICES ASSUME TypeOK, [Next]_vars PROVE TypeOK'
  OBVIOUS
<1> USE PublisherAssumption
<1>1. ASSUME NEW j \in Jobs, Schedule(j) PROVE TypeOK'
  BY <1>1, LPushEntries DEF Schedule, TypeOK
<1>2. CASE Start
  BY <1>2 DEF Start, TypeOK, queues, history, LoopStates
<1>3. ASSUME Requeue
      PROVE  /\ waiting' \in Seq(Jobs) /\ processing' \in Seq(Jobs)
             /\ surplus' \in [Jobs -> Nat]
  <2>1. /\ Oldest(processing) \in Jobs
        /\ WithoutOldest(processing) \in Seq(Jobs)
    BY <1>3, OldestEntries DEF Requeue, TypeOK
  <2>2. LPush(waiting, Oldest(processing)) \in Seq(Jobs)
    BY <2>1, LPushEntries DEF TypeOK
  <2>3. surplus' \in [Jobs -> Nat]
    BY <2>1, <1>3 DEF Requeue, TypeOK
  <2> QED
    BY <1>3, <2>1, <2>2, <2>3 DEF Requeue
<1>4. CASE ResetStep
  BY <1>3, <1>4 DEF ResetStep, TypeOK
<1>5. CASE ResetDone
  BY <1>5 DEF ResetDone, TypeOK, queues, history, LoopStates
<1>6. CASE ResetRejected
  <2>1. /\ waiting' \in Seq(Jobs) /\ processing' \in Seq(Jobs)
        /\ surplus' \in [Jobs -> Nat]
    BY <1>3, <1>6 DEF ResetRejected, TypeOK, queues
  <2>2. faults' \in 0..MaxFaults
    BY <1>6 DEF ResetRejected, TypeOK
  <2> QED
    BY <2>1, <2>2, <1>6 DEF ResetRejected, TypeOK, LoopStates
<1>7. ASSUME PopJob
      PROVE  /\ waiting' \in Seq(Jobs) /\ processing' \in Seq(Jobs)
             /\ taken' \in SUBSET Jobs
             /\ Oldest(waiting) \in Jobs
  <2>1. /\ Oldest(waiting) \in Jobs
        /\ WithoutOldest(waiting) \in Seq(Jobs)
    BY <1>7, OldestEntries DEF PopJob, TypeOK
  <2> QED
    BY <1>7, <2>1, LPushEntries DEF PopJob, TypeOK
<1>8. ASSUME wire # <<>>
      PROVE  /\ Tail(wire) \in Seq(Slots \cup {Take})
             /\ Append(Tail(wire), Take) \in Seq(Slots \cup {Take})
  BY <1>8 DEF TypeOK
<1>9. ASSUME NEW s \in Slots, TakeJob(s) PROVE TypeOK'
  <2>1. [phase |-> "sending", job |-> Oldest(waiting), try |-> 0] \in Run
    BY <1>7, <1>9 DEF TakeJob, Run
  <2>2. runs' \in [Slots -> Run \cup {Idle}]
    BY <2>1, <1>9 DEF TakeJob, TypeOK
  <2> QED
    BY <2>2, <1>7, <1>8, <1>9 DEF TakeJob, TypeOK, LoopStates
<1>10. CASE TakeTimeout
  BY <1>8, <1>10 DEF TakeTimeout, TypeOK, queues, history
<1>11. CASE TakeRejected
  BY <1>7, <1>8, <1>11 DEF TakeRejected, TypeOK, queues, LoopStates
<1>12. CASE TakeResent
  BY <1>7, <1>12 DEF TakeResent, TypeOK
<1>13. CASE Wake
  BY <1>13 DEF Wake, TypeOK, queues, history, LoopStates
<1>14. ASSUME NEW s \in Slots, runs[s].phase \in {"sending", "retryDelay", "finishing"}
       PROVE  runs[s] \in Run
  BY <1>14 DEF TypeOK, Idle
<1>15. ASSUME NEW s \in Slots, runs[s].phase = "sending", Conclude(s)
       PROVE  /\ runs' \in [Slots -> Run \cup {Idle}]
              /\ ended' \in SUBSET Jobs
              /\ wire' \in Seq(Slots \cup {Take})
  <2>1. runs[s] \in Run
    BY <1>14, <1>15
  <2>2. [runs[s] EXCEPT !.phase = "finishing"] \in Run /\ runs[s].job \in Jobs
    BY <2>1 DEF Run
  <2> QED
    BY <1>15, <2>2 DEF Conclude, TypeOK
<1>16. ASSUME NEW s \in Slots, runs[s].phase = "sending", Applied(s)
       PROVE  applied' \in [Jobs -> Nat]
  BY <1>14, <1>16 DEF Applied, TypeOK, Run
<1>17. ASSUME NEW s \in Slots, BroadcastSucceeds(s) PROVE TypeOK'
  BY <1>15, <1>16, <1>17 DEF BroadcastSucceeds, TypeOK, queues
<1>18. ASSUME NEW s \in Slots, BroadcastFails(s) PROVE TypeOK'
  BY <1>15, <1>16, <1>18 DEF BroadcastFails, TypeOK, queues
<1>19. ASSUME NEW s \in Slots, BroadcastRetries(s) PROVE TypeOK'
  <2>1. runs[s] \in Run
    BY <1>14, <1>19 DEF BroadcastRetries
  <2>2. runs' \in [Slots -> Run \cup {Idle}]
    <3>1. [runs[s] EXCEPT !.phase = "retryDelay"] \in Run
      BY <2>1, <1>19 DEF BroadcastRetries, Run
    <3> QED
      BY <3>1, <1>19 DEF BroadcastRetries, TypeOK
  <2>3. applied' \in [Jobs -> Nat]
    BY <1>16, <1>19 DEF BroadcastRetries, TypeOK
  <2>4. runs[s].job \in Jobs
    BY <2>1 DEF Run
  <2>5. surplus' \in [Jobs -> Nat]
    <3>1. surplus \in [Jobs -> Nat]
      BY DEF TypeOK
    <3>2. [surplus EXCEPT ![runs[s].job] = @ + 1] \in [Jobs -> Nat]
      BY <2>4, <3>1
    <3> QED
      BY <3>1, <3>2, <1>19 DEF BroadcastRetries
  <2> QED
    BY <2>2, <2>3, <2>5, <1>19 DEF BroadcastRetries, TypeOK, queues
<1>20. ASSUME NEW s \in Slots, SendAgain(s) PROVE TypeOK'
  <2>1. runs[s] \in Run
    BY <1>14, <1>20 DEF SendAgain
  <2>2. runs[s].job \in Jobs /\ runs[s].try + 1 \in 0..Retries
    BY <2>1, <1>20 DEF SendAgain, Run
  <2>3. [runs[s] EXCEPT !.phase = "sending", !.try = @ + 1] \in Run
    BY <2>1, <2>2 DEF Run
  <2>4. runs' \in [Slots -> Run \cup {Idle}]
    BY <2>3, <1>20 DEF SendAgain, TypeOK
  <2> QED
    BY <2>4, <1>20 DEF SendAgain, TypeOK, queues, history
<1>21. ASSUME NEW s \in Slots
       PROVE  /\ [runs EXCEPT ![s] = Idle] \in [Slots -> Run \cup {Idle}]
              /\ LRemAll(processing, runs[s].job) \in Seq(Jobs)
  BY LRemAllEntries DEF TypeOK
<1>22. ASSUME NEW s \in Slots, Finish(s) PROVE TypeOK'
  BY <1>8, <1>21, <1>22 DEF Finish, TypeOK, history
<1>23. ASSUME NEW s \in Slots, FinishRejected(s) PROVE TypeOK'
  <2>1. runs' \in [Slots -> Run \cup {Idle}] /\ processing' \in Seq(Jobs)
    BY <1>21, <1>23 DEF FinishRejected, TypeOK
  <2>2. faults' \in 0..MaxFaults
    BY <1>23 DEF FinishRejected, TypeOK
  <2> QED
    BY <2>1, <2>2, <1>8, <1>23 DEF FinishRejected, TypeOK, history
<1>24. ASSUME NEW landed \in SUBSET Slots, Die(landed)
       PROVE  /\ runs' \in [Slots -> Run \cup {Idle}]
              /\ wire' \in Seq(Slots \cup {Take})
              /\ loop' \in LoopStates
              /\ applied' \in [Jobs -> Nat]
  <2>1. \A j \in Jobs : Cardinality({s \in landed : runs[s].job = j}) \in Nat
    <3> TAKE j \in Jobs
    <3>1. IsFiniteSet({s \in landed : runs[s].job = j})
      BY FS_Subset
    <3> QED
      BY <3>1, FS_CardinalityType
  <2>2. \A j \in Jobs :
          applied[j] + Cardinality({s \in landed : runs[s].job = j}) \in Nat
    <3>1. \A j \in Jobs : applied[j] \in Nat
      BY DEF TypeOK
    <3>2. \A j \in Jobs : Cardinality({s \in landed : runs[s].job = j}) \in Nat
                          /\ applied[j] \in Nat
      BY <2>1, <3>1
    <3>3. \A m, n \in Nat : m + n \in Nat
      OBVIOUS
    <3> QED
      BY <3>2, <3>3
  <2>3. applied' \in [Jobs -> Nat]
    BY <2>2, <1>24 DEF Die
  <2> QED
    BY <2>3, <1>24 DEF Die, NoRuns, LoopStates
<1>25. CASE Crash
  <2>1. PICK landed \in SUBSET InPhase("sending") : Die(landed)
    BY <1>25 DEF Crash
  <2>2. landed \in SUBSET Slots
    BY <2>1 DEF InPhase
  <2> QED
    BY <2>1, <2>2, <1>24, <1>25 DEF Crash, TypeOK, queues
<1>27. CASE WatchdogKill
  BY <1>24, <1>27 DEF WatchdogKill, TypeOK, queues
<1>26. CASE UNCHANGED vars
  BY <1>26 DEF vars, queues, history, TypeOK
<1> QED
  BY <1>1, <1>2, <1>4, <1>5, <1>6, <1>9, <1>10, <1>11, <1>12, <1>13, <1>17, <1>18,
     <1>19, <1>20, <1>22, <1>23, <1>25, <1>26, <1>27 DEF Next

\* Every reachable state of the publisher is well typed.
THEOREM PublisherTypeOK == Spec => []TypeOK
BY InitTypeOK, NextTypeOK, PTL DEF Spec

-----------------------------------------------------------------------------
(***************************************************************************)
(* The invariant behind the delivery service: the LREMs on the wire are    *)
(* those of the runs that are finishing, one each, and a finishing run has *)
(* come to an end.  So the LREM the server executes takes an ended job out *)
(* of the processing list.                                                 *)
(***************************************************************************)
WireCarriesFinishing ==
    /\ \A i \in DOMAIN wire : wire[i] \in Slots => runs[wire[i]].phase = "finishing"
    /\ \A i, k \in DOMAIN wire : wire[i] \in Slots /\ wire[i] = wire[k] => i = k

FinishingHasEnded ==
    \A s \in Slots : runs[s].phase = "finishing" => runs[s].job \in ended

DeliveryInv == TypeOK /\ WireCarriesFinishing /\ FinishingHasEnded

\* Nothing is on the wire at the start.
LEMMA InitDeliveryInv == Init => DeliveryInv
BY InitTypeOK DEF Init, DeliveryInv, WireCarriesFinishing, FinishingHasEnded, NoRuns, Idle

\* Putting a take, or the LREM of a run that was not finishing, at the end of
\* the wire and taking the first command off it keep the wire in order.
LEMMA NextWire ==
    ASSUME DeliveryInv, [Next]_vars
    PROVE  WireCarriesFinishing'
<1> USE PublisherAssumption
<1>1. /\ wire \in Seq(Slots \cup {Take})
      /\ runs \in [Slots -> Run \cup {Idle}]
      /\ WireCarriesFinishing
  BY DEF DeliveryInv, TypeOK
<1>2. ASSUME wire' = wire,
             \A s \in Slots : runs[s].phase = "finishing" => runs'[s].phase = "finishing"
      PROVE  WireCarriesFinishing'
  BY <1>1, <1>2 DEF WireCarriesFinishing
<1>3. ASSUME wire' = Append(wire, Take), runs' = runs
      PROVE  WireCarriesFinishing'
  BY <1>1, <1>3 DEF WireCarriesFinishing
<1>4. ASSUME wire # <<>>, Head(wire) = Take, wire' = Tail(wire),
             \A s \in Slots : runs[s].phase = "finishing" => runs'[s].phase = "finishing"
      PROVE  WireCarriesFinishing'
  BY <1>1, <1>4 DEF WireCarriesFinishing
<1>5. ASSUME NEW s \in Slots, runs[s].phase = "sending", Conclude(s)
      PROVE  WireCarriesFinishing'
  <2>1. \A i \in DOMAIN wire : wire[i] # s
    BY <1>1, <1>5 DEF WireCarriesFinishing
  <2>2. runs'[s].phase = "finishing" /\ \A r \in Slots \ {s} : runs'[r] = runs[r]
    BY <1>1, <1>5 DEF Conclude, Idle, Run
  <2>3. wire' = Append(wire, s)
    BY <1>5 DEF Conclude
  <2> QED
    BY <1>1, <2>1, <2>2, <2>3 DEF WireCarriesFinishing
<1>6. ASSUME NEW s \in Slots, wire # <<>>, Head(wire) = s, wire' = Tail(wire),
             runs' = [runs EXCEPT ![s] = Idle]
      PROVE  WireCarriesFinishing'
  <2>1. \A i \in DOMAIN Tail(wire) : Tail(wire)[i] = wire[i + 1] /\ i + 1 \in DOMAIN wire
    BY <1>1, <1>6
  <2>2. \A i \in DOMAIN Tail(wire) : Tail(wire)[i] # s
    BY <1>1, <1>6, <2>1 DEF WireCarriesFinishing
  <2>3. \A r \in Slots \ {s} : runs'[r] = runs[r]
    BY <1>1, <1>6
  <2> QED
    BY <1>1, <1>6, <2>1, <2>2, <2>3 DEF WireCarriesFinishing
<1>7. ASSUME wire' = <<>> PROVE WireCarriesFinishing'
  BY <1>7 DEF WireCarriesFinishing
<1>8. ASSUME NEW j \in Jobs, Schedule(j) PROVE WireCarriesFinishing'
  BY <1>2, <1>8 DEF Schedule
<1>9. CASE Start \/ ResetStep \/ ResetRejected \/ TakeResent
  BY <1>2, <1>9 DEF Start, ResetStep, ResetRejected, TakeResent
<1>10. CASE ResetDone \/ Wake
  BY <1>3, <1>10 DEF ResetDone, Wake
<1>11. CASE TakeRejected
  BY <1>4, <1>11 DEF TakeRejected
<1>12. CASE TakeTimeout
  BY <1>1, <1>12 DEF TakeTimeout, WireCarriesFinishing
<1>13. ASSUME NEW s \in Slots, TakeJob(s) PROVE WireCarriesFinishing'
  <2>1. \A r \in Slots : runs[r].phase = "finishing" => runs'[r].phase = "finishing"
    BY <1>1, <1>13 DEF TakeJob, Idle
  <2> QED
    BY <2>1, <1>4, <1>13 DEF TakeJob
<1>14. ASSUME NEW s \in Slots, BroadcastSucceeds(s) \/ BroadcastFails(s)
       PROVE  WireCarriesFinishing'
  BY <1>5, <1>14 DEF BroadcastSucceeds, BroadcastFails
<1>15. ASSUME NEW s \in Slots, BroadcastRetries(s) \/ SendAgain(s)
       PROVE  WireCarriesFinishing'
  <2>1. \A r \in Slots : runs[r].phase = "finishing" => runs'[r].phase = "finishing"
    BY <1>1, <1>15 DEF BroadcastRetries, SendAgain
  <2> QED
    BY <2>1, <1>2, <1>15 DEF BroadcastRetries, SendAgain
<1>16. ASSUME NEW s \in Slots, Finish(s) \/ FinishRejected(s)
       PROVE  WireCarriesFinishing'
  BY <1>6, <1>16 DEF Finish, FinishRejected
<1>17. CASE Crash \/ WatchdogKill
  BY <1>7, <1>17 DEF Crash, WatchdogKill, Die
<1>18. CASE UNCHANGED vars
  BY <1>2, <1>18 DEF vars
<1> QED
  BY <1>8, <1>9, <1>10, <1>11, <1>12, <1>13, <1>14, <1>15, <1>16, <1>17, <1>18 DEF Next

\* A run is on its way out only after its job has been marked as ended.
LEMMA NextFinishing ==
    ASSUME DeliveryInv, [Next]_vars
    PROVE  FinishingHasEnded'
<1>1. /\ runs \in [Slots -> Run \cup {Idle}]
      /\ FinishingHasEnded
  BY DEF DeliveryInv, TypeOK
<1>2. ASSUME runs' = runs, ended' = ended
      PROVE  FinishingHasEnded'
  BY <1>1, <1>2 DEF FinishingHasEnded
<1>3. ASSUME NEW s \in Slots, ended' = ended, runs'[s].phase # "finishing",
             \A r \in Slots \ {s} : runs'[r] = runs[r]
      PROVE  FinishingHasEnded'
  BY <1>1, <1>3 DEF FinishingHasEnded
<1>4. ASSUME NEW s \in Slots, runs[s].phase = "sending", Conclude(s)
      PROVE  FinishingHasEnded'
  <2>1. runs'[s].job \in ended' /\ ended \subseteq ended'
    BY <1>1, <1>4 DEF Conclude, Idle, Run
  <2>2. \A r \in Slots \ {s} : runs'[r] = runs[r]
    BY <1>1, <1>4 DEF Conclude
  <2> QED
    BY <1>1, <2>1, <2>2 DEF FinishingHasEnded
<1>5. ASSUME NEW j \in Jobs, Schedule(j) PROVE FinishingHasEnded'
  BY <1>2, <1>5 DEF Schedule
<1>6. CASE Start \/ ResetStep \/ ResetDone \/ ResetRejected
  BY <1>2, <1>6 DEF Start, ResetStep, ResetDone, ResetRejected, history
<1>7. CASE TakeTimeout \/ TakeRejected \/ TakeResent \/ Wake
  BY <1>2, <1>7 DEF TakeTimeout, TakeRejected, TakeResent, Wake, history
<1>8. ASSUME NEW s \in Slots, TakeJob(s) PROVE FinishingHasEnded'
  BY <1>1, <1>3, <1>8 DEF TakeJob
<1>9. ASSUME NEW s \in Slots, BroadcastSucceeds(s) \/ BroadcastFails(s)
      PROVE  FinishingHasEnded'
  BY <1>4, <1>9 DEF BroadcastSucceeds, BroadcastFails
<1>10. ASSUME NEW s \in Slots, BroadcastRetries(s) PROVE FinishingHasEnded'
  <2>1. runs'[s].phase # "finishing"
    BY <1>1, <1>10 DEF BroadcastRetries, Idle, Run
  <2> QED
    BY <1>1, <1>3, <1>10, <2>1 DEF BroadcastRetries
<1>11. ASSUME NEW s \in Slots, SendAgain(s) PROVE FinishingHasEnded'
  <2>1. runs'[s].phase # "finishing"
    BY <1>1, <1>11 DEF SendAgain, Idle, Run
  <2> QED
    BY <1>1, <1>3, <1>11, <2>1 DEF SendAgain, history
<1>12. ASSUME NEW s \in Slots, Finish(s) \/ FinishRejected(s)
       PROVE  FinishingHasEnded'
  <2>1. runs'[s] = Idle /\ \A r \in Slots \ {s} : runs'[r] = runs[r]
    BY <1>1, <1>12 DEF Finish, FinishRejected
  <2>2. ended' = ended
    BY <1>12 DEF Finish, FinishRejected, history
  <2> QED
    BY <1>3, <2>1, <2>2 DEF Idle
<1>13. CASE Crash \/ WatchdogKill
  BY <1>13 DEF Crash, WatchdogKill, Die, NoRuns, Idle, FinishingHasEnded
<1>14. CASE UNCHANGED vars
  BY <1>2, <1>14 DEF vars, history
<1> QED
  BY <1>5, <1>6, <1>7, <1>8, <1>9, <1>10, <1>11, <1>12, <1>13, <1>14 DEF Next

\* The invariant holds in every reachable state.
THEOREM PublisherDeliveryInv == Spec => []DeliveryInv
<1>1. DeliveryInv /\ [Next]_vars => DeliveryInv'
  BY NextTypeOK, NextWire, NextFinishing DEF DeliveryInv
<1> QED
  BY <1>1, InitDeliveryInv, PTL DEF Spec

-----------------------------------------------------------------------------
(***************************************************************************)
(* The refinement: owed is what the two lists hold together.               *)
(***************************************************************************)
Owed == Entries(waiting) \cup Entries(processing)

\* BRPOPLPUSH and RPOPLPUSH move an entry from one list to the other.
LEMMA MoveKeepsOwed ==
    ASSUME TypeOK, PopJob \/ Requeue
    PROVE  Owed' = Owed
<1>1. CASE PopJob
  <2>1. /\ Oldest(waiting) \in Jobs
        /\ Entries(waiting) = Entries(WithoutOldest(waiting)) \cup {Oldest(waiting)}
    BY <1>1, OldestEntries DEF PopJob, TypeOK
  <2>2. Entries(LPush(processing, Oldest(waiting))) = Entries(processing) \cup {Oldest(waiting)}
    BY <2>1, LPushEntries DEF TypeOK
  <2> QED
    BY <1>1, <2>1, <2>2 DEF PopJob, Owed
<1>2. CASE Requeue
  <2>1. /\ Oldest(processing) \in Jobs
        /\ Entries(processing) = Entries(WithoutOldest(processing)) \cup {Oldest(processing)}
    BY <1>2, OldestEntries DEF Requeue, TypeOK
  <2>2. Entries(LPush(waiting, Oldest(processing))) = Entries(waiting) \cup {Oldest(processing)}
    BY <2>1, LPushEntries DEF TypeOK
  <2> QED
    BY <1>2, <2>1, <2>2 DEF Requeue, Owed
<1> QED
  BY <1>1, <1>2

\* Every step of the publisher is a step of the delivery service or leaves
\* what that service sees unchanged.
LEMMA DeliveryStep ==
    ASSUME DeliveryInv, [Next]_vars
    PROVE  Delivery!Next \/ (Owed' = Owed /\ ended' = ended)
<1> DEFINE Stutters == Owed' = Owed /\ ended' = ended
<1> USE PublisherAssumption
<1>1. TypeOK
  BY DEF DeliveryInv
<1>2. ASSUME UNCHANGED queues, ended' = ended PROVE Stutters
  BY <1>2 DEF queues, Owed
<1>3. ASSUME NEW j \in Jobs, Schedule(j) PROVE Delivery!Next
  <2>1. Entries(waiting') = Entries(waiting) \cup {j}
    BY <1>1, <1>3, LPushEntries DEF Schedule, TypeOK
  <2>2. Delivery!Accept(j)
    BY <2>1, <1>3 DEF Schedule, Delivery!Accept
  <2> QED
    BY <2>2 DEF Delivery!Next
<1>4. ASSUME NEW s \in Slots, BroadcastSucceeds(s) \/ BroadcastFails(s)
      PROVE  Delivery!Next
  <2>1. runs[s].job \in Jobs
    BY <1>1, <1>4 DEF BroadcastSucceeds, BroadcastFails, TypeOK, Run, Idle
  <2>2. Delivery!Conclude(runs[s].job)
    BY <1>4 DEF BroadcastSucceeds, BroadcastFails, Conclude, queues, Delivery!Conclude
  <2> QED
    BY <2>1, <2>2 DEF Delivery!Next
<1>5. ASSUME NEW s \in Slots, Finish(s) \/ FinishRejected(s)
      PROVE  Delivery!Next \/ Stutters
  <2> DEFINE j == runs[s].job
  <2>1. /\ waiting' = waiting /\ ended' = ended
        /\ processing' \in {processing, LRemAll(processing, j)}
        /\ wire # <<>> /\ Head(wire) = s
    BY <1>5 DEF Finish, FinishRejected, history
  <2>2. 1 \in DOMAIN wire /\ wire[1] = s
    BY <1>1, <2>1 DEF TypeOK
  <2>3. runs[s].phase = "finishing"
    BY <2>2 DEF DeliveryInv, WireCarriesFinishing
  <2>4. j \in ended /\ j \in Jobs
    BY <1>1, <2>3 DEF DeliveryInv, FinishingHasEnded, TypeOK
  <2>5. Entries(LRemAll(processing, j)) = Entries(processing) \ {j}
    BY <1>1, LRemAllEntries DEF TypeOK
  <2>6. CASE processing' = processing
    BY <2>1, <2>6 DEF Owed
  <2>7. CASE processing' = LRemAll(processing, j) /\ j \in Entries(waiting)
    BY <2>1, <2>5, <2>7 DEF Owed
  <2>8. CASE processing' = LRemAll(processing, j) /\ j \notin Entries(waiting)
    <3>1. Delivery!Discharge(j)
      BY <2>1, <2>4, <2>5, <2>8 DEF Delivery!Discharge
    <3> QED
      BY <2>4, <3>1 DEF Delivery!Next
  <2> QED
    BY <2>1, <2>6, <2>7, <2>8
<1>6. CASE Start \/ ResetDone
  BY <1>2, <1>6 DEF Start, ResetDone, history
<1>7. CASE ResetStep
  BY <1>1, <1>7, MoveKeepsOwed DEF ResetStep
<1>8. CASE ResetRejected
  <2>1. ended' = ended
    BY <1>8 DEF ResetRejected
  <2>2. Requeue \/ UNCHANGED queues
    BY <1>8 DEF ResetRejected
  <2> QED
    BY <1>1, <1>2, <2>1, <2>2, MoveKeepsOwed
<1>9. CASE TakeTimeout \/ Wake
  BY <1>2, <1>9 DEF TakeTimeout, Wake, history
<1>10. CASE TakeRejected
  <2>1. ended' = ended
    BY <1>10 DEF TakeRejected
  <2>2. PopJob \/ UNCHANGED queues
    BY <1>10 DEF TakeRejected
  <2> QED
    BY <1>1, <1>2, <2>1, <2>2, MoveKeepsOwed
<1>11. CASE TakeResent
  BY <1>1, <1>11, MoveKeepsOwed DEF TakeResent
<1>12. ASSUME NEW s \in Slots, TakeJob(s) PROVE Stutters
  BY <1>1, <1>12, MoveKeepsOwed DEF TakeJob
<1>13. ASSUME NEW s \in Slots, BroadcastRetries(s) \/ SendAgain(s) PROVE Stutters
  BY <1>2, <1>13 DEF BroadcastRetries, SendAgain, history
<1>14. CASE Crash \/ WatchdogKill
  BY <1>2, <1>14 DEF Crash, WatchdogKill
<1>15. CASE UNCHANGED vars
  BY <1>2, <1>15 DEF vars, history
<1> QED
  BY <1>3, <1>4, <1>5, <1>6, <1>7, <1>8, <1>9, <1>10, <1>11, <1>12, <1>13, <1>14, <1>15
     DEF Next

\* The publisher implements the delivery service: a job leaves Redis only
\* after a run of it came to an end.
THEOREM PublisherImplementsDelivery == Spec => ImplementsDelivery
<1>1. Init => Delivery!Init
  BY DEF Init, Delivery!Init, Entries
<1>2. DeliveryInv /\ [Next]_vars => [Delivery!Next]_(Delivery!vars)
  BY DeliveryStep DEF Delivery!vars, Owed
<1> QED
  BY <1>1, <1>2, PublisherDeliveryInv, PTL DEF Spec, ImplementsDelivery, Delivery!Spec

-----------------------------------------------------------------------------
\* No step of the delivery service makes a job vanish that is owed or
\* concluded, and a push adds to what is owed.
LEMMA NextNoJobVanishes ==
    ASSUME DeliveryInv, NoJobVanishes, [Next]_vars
    PROVE  NoJobVanishes'
<1>1. Owed \cup ended \subseteq Owed' \cup ended'
  <2>1. CASE Delivery!Next
    BY <2>1 DEF Delivery!Next, Delivery!Accept, Delivery!Conclude, Delivery!Discharge, Owed
  <2> QED
    BY <2>1, DeliveryStep
<1>2. Entries(scheduled) \subseteq Owed' \cup ended'
  BY <1>1 DEF NoJobVanishes, Owed
<1>3. ASSUME NEW j \in Jobs, Schedule(j) PROVE NoJobVanishes'
  <2>1. Entries(scheduled') \subseteq Entries(scheduled) \cup {j}
    BY <1>3 DEF Schedule, Entries, DeliveryInv, TypeOK
  <2>2. j \in Entries(waiting')
    BY <1>3, LPushEntries DEF Schedule, DeliveryInv, TypeOK
  <2> QED
    BY <1>2, <2>1, <2>2 DEF NoJobVanishes, Owed
<1>4. ASSUME scheduled' = scheduled PROVE NoJobVanishes'
  BY <1>2, <1>4 DEF NoJobVanishes, Owed
<1>5. CASE Start \/ ResetStep \/ ResetDone \/ ResetRejected
  BY <1>4, <1>5 DEF Start, ResetStep, ResetDone, ResetRejected, history
<1>6. CASE TakeTimeout \/ TakeRejected \/ TakeResent \/ Wake
  BY <1>4, <1>6 DEF TakeTimeout, TakeRejected, TakeResent, Wake, history
<1>7. ASSUME NEW s \in Slots,
             TakeJob(s) \/ BroadcastSucceeds(s) \/ BroadcastFails(s) \/ BroadcastRetries(s)
      PROVE  NoJobVanishes'
  BY <1>4, <1>7 DEF TakeJob, BroadcastSucceeds, BroadcastFails, BroadcastRetries
<1>8. ASSUME NEW s \in Slots, SendAgain(s) \/ Finish(s) \/ FinishRejected(s)
      PROVE  NoJobVanishes'
  BY <1>4, <1>8 DEF SendAgain, Finish, FinishRejected, history
<1>9. CASE Crash \/ WatchdogKill
  BY <1>4, <1>9 DEF Crash, WatchdogKill
<1>10. CASE UNCHANGED vars
  BY <1>4, <1>10 DEF vars, history
<1> QED
  BY <1>3, <1>5, <1>6, <1>7, <1>8, <1>9, <1>10 DEF Next

\* A pushed job is in one of the two lists until a run of it came to an end,
\* whatever crashes, failed commands and duplicate pushes there are.
THEOREM PublisherNoJobVanishes == Spec => []NoJobVanishes
<1>1. Init => NoJobVanishes
  BY DEF Init, NoJobVanishes, Entries
<1>2. DeliveryInv /\ NoJobVanishes /\ [Next]_vars => NoJobVanishes'
  BY NextNoJobVanishes
<1> QED
  BY <1>1, <1>2, PublisherDeliveryInv, PTL DEF Spec

-----------------------------------------------------------------------------
(***************************************************************************)
(* How often a job stands in a list, after each list command.              *)
(***************************************************************************)
Places(list, e) == {i \in DOMAIN list : list[i] = e}

LEMMA PlacesFinite ==
    ASSUME NEW S, NEW l \in Seq(S), NEW e
    PROVE  /\ Places(l, e) \subseteq 1..Len(l) /\ IsFiniteSet(Places(l, e))
           /\ Occurrences(l, e) = Cardinality(Places(l, e)) /\ Occurrences(l, e) \in Nat
           /\ e \in Entries(l) <=> Occurrences(l, e) # 0
<1>1. Places(l, e) \subseteq 1..Len(l) /\ IsFiniteSet(1..Len(l))
  BY FS_Interval DEF Places
<1>2. IsFiniteSet(Places(l, e))
  BY <1>1, FS_Subset
<1>3. Occurrences(l, e) = Cardinality(Places(l, e))
  BY DEF Occurrences, Places
<1>4. Occurrences(l, e) \in Nat /\ (Occurrences(l, e) = 0 <=> Places(l, e) = {})
  BY <1>2, <1>3, FS_CardinalityType, FS_EmptySet
<1>5. e \in Entries(l) <=> Places(l, e) # {}
  BY DEF Entries, Places
<1>. QED BY <1>1, <1>2, <1>3, <1>4, <1>5

\* Whether e is the job that is looked for, as a number.
Hit(e, j) == IF e = j THEN 1 ELSE 0

LEMMA LPushCount ==
    ASSUME NEW S, NEW l \in Seq(S), NEW e \in S, NEW j
    PROVE  Occurrences(LPush(l, e), j) = Occurrences(l, j) + Hit(e, j)
<1>. DEFINE P == Places(l, j)
            Q == {i + 1 : i \in P}
            f == [i \in P |-> i + 1]
<1>1. LPush(l, e) \in Seq(S) /\ IsFiniteSet(P) /\ P \subseteq 1..Len(l)
  BY LPushEntries, PlacesFinite
<1>2. /\ Len(LPush(l, e)) = Len(l) + 1 /\ LPush(l, e)[1] = e
      /\ \A i \in 1..Len(l) : LPush(l, e)[i + 1] = l[i]
  BY DEF LPush
<1>3. f \in Bijection(P, Q)
  <2>1. f \in [P -> Q] /\ \A a, b \in P : f[a] = f[b] => a = b
    BY <1>1
  <2>2. \A q \in Q : \E p \in P : f[p] = q
    OBVIOUS
  <2>. QED BY <2>1, <2>2 DEF Bijection, Injection, IsInjective, Surjection
<1>4. IsFiniteSet(Q) /\ Cardinality(Q) = Cardinality(P)
  BY <1>1, <1>3, FS_Bijection DEF ExistsBijection
<1>5. 1 \notin Q
  BY <1>1
<1>6. Places(LPush(l, e), j) = IF e = j THEN Q \cup {1} ELSE Q
  <2>1. ASSUME NEW i \in 1..(Len(l) + 1)
        PROVE  LPush(l, e)[i] = j <=> (i = 1 /\ e = j) \/ i \in Q
    <3>1. CASE i = 1
      BY <3>1, <1>2, <1>5
    <3>2. CASE i # 1
      <4>1. i - 1 \in 1..Len(l) /\ i = (i - 1) + 1
        BY <3>2
      <4>2. LPush(l, e)[i] = l[i - 1]
        BY <4>1, <1>2
      <4>3. i - 1 \in P <=> l[i - 1] = j
        BY <4>1 DEF Places
      <4>4. i \in Q <=> i - 1 \in P
        BY <4>1, <1>1
      <4>. QED BY <3>2, <4>2, <4>3, <4>4
    <3>. QED BY <3>1, <3>2
  <2>2. DOMAIN LPush(l, e) = 1..(Len(l) + 1)
    BY <1>1, <1>2
  <2>3. Q \subseteq 1..(Len(l) + 1) /\ 1 \in 1..(Len(l) + 1)
    BY <1>1
  <2>. QED BY <2>1, <2>2, <2>3 DEF Places
<1>7. Cardinality(Q \cup {1}) = Cardinality(Q) + 1
  BY <1>4, <1>5, FS_AddElement
<1>8. /\ Occurrences(l, j) = Cardinality(P) /\ Occurrences(l, j) \in Nat
      /\ Occurrences(LPush(l, e), j) = Cardinality(Places(LPush(l, e), j))
  BY <1>1, PlacesFinite
<1>. QED BY <1>4, <1>6, <1>7, <1>8 DEF Hit

LEMMA OldestCount ==
    ASSUME NEW S, NEW l \in Seq(S), l # <<>>, NEW j
    PROVE  Occurrences(l, j) = Occurrences(WithoutOldest(l), j) + Hit(Oldest(l), j)
<1>. DEFINE r == WithoutOldest(l)
            n == Len(l)
<1>1. n \in Nat /\ n > 0 /\ DOMAIN l = 1..n /\ r \in Seq(S)
  BY OldestEntries
<1>2. Len(r) = n - 1 /\ \A i \in 1..(n - 1) : r[i] = l[i]
  BY <1>1 DEF WithoutOldest
<1>3. DOMAIN r = 1..(n - 1)
  BY <1>1, <1>2
<1>. HIDE DEF r
<1>4. Places(l, j) = IF Oldest(l) = j THEN Places(r, j) \cup {n} ELSE Places(r, j)
  <2>1. ASSUME NEW i \in 1..n
        PROVE  i \in Places(l, j) <=> i \in Places(r, j) \/ (i = n /\ Oldest(l) = j)
    <3>1. CASE i = n
      <4>1. i \notin DOMAIN r /\ i \in DOMAIN l /\ Oldest(l) = l[i]
        BY <3>1, <1>1, <1>3 DEF Oldest
      <4>. QED BY <3>1, <4>1 DEF Places
    <3>2. CASE i # n
      <4>2. i \in 1..(n - 1)
        <5>1. n \in Nat /\ i \in 1..n /\ i # n
          BY <3>2
        <5>. HIDE DEF n
        <5>. QED BY <5>1
      <4>1. i \in 1..(n - 1) /\ r[i] = l[i]
        BY <4>2, <1>2
      <4>. QED BY <3>2, <4>1, <1>1, <1>3 DEF Places
    <3>. QED BY <3>1, <3>2
  <2>2. Places(l, j) \subseteq 1..n /\ Places(r, j) \subseteq 1..n /\ n \in 1..n
    BY <1>1, <1>3 DEF Places
  <2>. QED BY <2>1, <2>2
<1>5. n \notin Places(r, j) /\ IsFiniteSet(Places(r, j))
  <2>1. n \notin DOMAIN r
    BY <1>1, <1>3
  <2>. QED BY <2>1, <1>1, PlacesFinite DEF Places
<1>6. Cardinality(Places(r, j) \cup {n}) = Cardinality(Places(r, j)) + 1
  BY <1>5, FS_AddElement
<1>7. /\ Occurrences(l, j) = Cardinality(Places(l, j))
      /\ Occurrences(r, j) = Cardinality(Places(r, j)) /\ Occurrences(r, j) \in Nat
  BY <1>1, PlacesFinite
<1>8. CASE Oldest(l) = j
  BY <1>8, <1>4, <1>6, <1>7 DEF Hit, r
<1>9. CASE Oldest(l) # j
  BY <1>9, <1>4, <1>7 DEF Hit, r
<1>. QED BY <1>8, <1>9

LEMMA AppendCount ==
    ASSUME NEW S, NEW l \in Seq(S), NEW e \in S, NEW j
    PROVE  Occurrences(Append(l, e), j) = Occurrences(l, j) + Hit(e, j)
<1>. DEFINE r == Append(l, e)
<1>1. r \in Seq(S) /\ r # <<>> /\ Len(r) = Len(l) + 1 /\ r[Len(r)] = e
  OBVIOUS
<1>2. WithoutOldest(r) = l
  <2>1. SubSeq(r, 1, Len(l)) \in Seq(S) /\ Len(SubSeq(r, 1, Len(l))) = Len(l)
    BY <1>1
  <2>2. \A i \in 1..Len(l) : SubSeq(r, 1, Len(l))[i] = l[i]
    BY <1>1
  <2>3. SubSeq(r, 1, Len(l)) = l
    BY <2>1, <2>2
  <2>. QED BY <1>1, <2>3 DEF WithoutOldest
<1>. QED BY <1>1, <1>2, OldestCount DEF Oldest

\* LREM removes all of one job, and adds none of another.
LEMMA LRemAllCount ==
    ASSUME NEW S, NEW l \in Seq(S), NEW e, NEW j
    PROVE  /\ Occurrences(LRemAll(l, e), e) = 0
           /\ Occurrences(LRemAll(l, e), j) <= Occurrences(l, j)
<1>. DEFINE r == LRemAll(l, e)
            K == Kept(l, e)
            at == [k \in 1..Cardinality(K) |-> CHOOSE i \in K : Rank(l, e, i) = k]
            f == [k \in Places(r, j) |-> at[k]]
<1>1. r \in Seq(S) /\ Entries(r) = Entries(l) \ {e}
  BY LRemAllEntries
<1>2. Occurrences(r, e) = 0
  BY <1>1, PlacesFinite
<1>3. \A k \in 1..Cardinality(K) : at[k] \in K /\ Rank(l, e, at[k]) = k
  BY RankIsOnto
<1>4. r = [k \in 1..Cardinality(K) |-> l[at[k]]]
  BY DEF LRemAll
<1>5. \A k \in Places(r, j) : k \in 1..Cardinality(K) /\ at[k] \in Places(l, j)
  BY <1>3, <1>4 DEF Places, Kept
<1>6. f \in [Places(r, j) -> Places(l, j)]
  BY <1>5
<1>7. \A a, b \in Places(r, j) : f[a] = f[b] => a = b
  BY <1>3, <1>5
<1>8. f \in Injection(Places(r, j), Places(l, j))
  BY <1>6, <1>7 DEF Injection, IsInjective
<1>9. Cardinality(Places(r, j)) <= Cardinality(Places(l, j))
  BY <1>8, PlacesFinite, FS_Injection
<1>. QED BY <1>1, <1>2, <1>9, PlacesFinite

-----------------------------------------------------------------------------
(***************************************************************************)
(* What the commands on the two lists, and the steps of the runs, do to    *)
(* the counts of a job.                                                    *)
(***************************************************************************)
LEMMA ListCounts ==
    ASSUME TypeOK, NEW j \in Jobs
    PROVE  /\ Occurrences(waiting, j) \in Nat /\ Occurrences(processing, j) \in Nat /\ Pushes(j) \in Nat
           /\ j \in Entries(waiting) <=> Occurrences(waiting, j) # 0
           /\ j \in Entries(processing) <=> Occurrences(processing, j) # 0
           /\ j \in Entries(scheduled) <=> Pushes(j) # 0
<1>1. waiting \in Seq(Jobs) /\ processing \in Seq(Jobs) /\ scheduled \in Seq(Jobs)
  BY DEF TypeOK
<1>2. Pushes(j) = Occurrences(scheduled, j)
  BY DEF Pushes, Occurrences
<1>. QED BY <1>1, <1>2, PlacesFinite

LEMMA ScheduleCounts ==
    ASSUME TypeOK, NEW k \in Jobs, Schedule(k), NEW j \in Jobs
    PROVE  /\ Occurrences(waiting', j) = Occurrences(waiting, j) + Hit(k, j)
           /\ Pushes(j)' = Pushes(j) + Hit(k, j)
<1>1. waiting \in Seq(Jobs) /\ scheduled \in Seq(Jobs)
  BY DEF TypeOK
<1>2. Occurrences(Append(scheduled, k), j) = Occurrences(scheduled, j) + Hit(k, j)
  BY <1>1, AppendCount
<1>3. Pushes(j)' = Pushes(j) + Hit(k, j)
  BY <1>2 DEF Schedule, Pushes, Occurrences
<1>. QED BY <1>1, <1>3, LPushCount DEF Schedule

LEMMA PopCounts ==
    ASSUME TypeOK, PopJob, NEW j \in Jobs
    PROVE  /\ Oldest(waiting) \in Jobs
           /\ Occurrences(waiting, j) = Occurrences(waiting', j) + Hit(Oldest(waiting), j)
           /\ Occurrences(processing', j) = Occurrences(processing, j) + Hit(Oldest(waiting), j)
           /\ Occurrences(waiting', j) \in Nat
<1>1. waiting \in Seq(Jobs) /\ processing \in Seq(Jobs) /\ waiting # <<>>
  BY DEF TypeOK, PopJob
<1>2. Oldest(waiting) \in Jobs /\ WithoutOldest(waiting) \in Seq(Jobs)
  BY <1>1, OldestEntries
<1>3. Occurrences(LPush(processing, Oldest(waiting)), j)
        = Occurrences(processing, j) + Hit(Oldest(waiting), j)
  BY <1>1, <1>2, LPushCount
<1>4. Occurrences(waiting, j) = Occurrences(WithoutOldest(waiting), j) + Hit(Oldest(waiting), j)
  BY <1>1, OldestCount
<1>5. Occurrences(WithoutOldest(waiting), j) \in Nat
  BY <1>2, PlacesFinite
<1>. QED BY <1>2, <1>3, <1>4, <1>5 DEF PopJob

LEMMA RequeueCounts ==
    ASSUME TypeOK, Requeue, NEW j \in Jobs
    PROVE  /\ Oldest(processing) \in Jobs
           /\ Occurrences(processing, j) = Occurrences(processing', j) + Hit(Oldest(processing), j)
           /\ Occurrences(waiting', j) = Occurrences(waiting, j) + Hit(Oldest(processing), j)
           /\ Occurrences(processing', j) \in Nat
           /\ surplus'[j] = surplus[j] + Hit(Oldest(processing), j)
<1>1. waiting \in Seq(Jobs) /\ processing \in Seq(Jobs) /\ processing # <<>>
  BY DEF TypeOK, Requeue
<1>2. Oldest(processing) \in Jobs /\ WithoutOldest(processing) \in Seq(Jobs)
  BY <1>1, OldestEntries
<1>3. Occurrences(LPush(waiting, Oldest(processing)), j)
        = Occurrences(waiting, j) + Hit(Oldest(processing), j)
  BY <1>1, <1>2, LPushCount
<1>4. Occurrences(processing, j)
        = Occurrences(WithoutOldest(processing), j) + Hit(Oldest(processing), j)
  BY <1>1, OldestCount
<1>5. Occurrences(WithoutOldest(processing), j) \in Nat
  BY <1>2, PlacesFinite
<1>6. surplus'[j] = surplus[j] + Hit(Oldest(processing), j)
  BY <1>2 DEF Requeue, TypeOK, Hit
<1>. QED BY <1>2, <1>3, <1>4, <1>5, <1>6 DEF Requeue

\* The runs of a job that are not over, and those of them that may still apply it.
InHands(j) == {s \in Holders(j) : runs[s].phase # "finishing"}

LEMMA HoldersFinite ==
    ASSUME NEW j
    PROVE  /\ Holders(j) \subseteq Slots /\ IsFiniteSet(Holders(j))
           /\ IsFiniteSet(InHands(j)) /\ InHands(j) \subseteq Holders(j)
           /\ Cardinality(Holders(j)) \in Nat /\ Cardinality(InHands(j)) \in Nat
<1>1. Holders(j) \subseteq Slots /\ InHands(j) \subseteq Holders(j)
  BY DEF Holders, Busy, InHands
<1>2. IsFiniteSet(Holders(j)) /\ IsFiniteSet(InHands(j))
  BY <1>1, PublisherAssumption, FS_Subset
<1>. QED BY <1>1, <1>2, FS_CardinalityType

LEMMA BusyRuns ==
    ASSUME TypeOK, NEW s \in Slots
    PROVE  /\ runs[s].phase # "idle" => runs[s] \in Run /\ runs[s].job \in Jobs /\ s \in Busy
           /\ runs[s] = Idle => runs[s].phase = "idle"
           /\ s \in Busy => runs[s].phase # "idle"
<1>1. runs[s] \in Run \cup {Idle}
  BY DEF TypeOK
<1>2. Idle.phase = "idle" /\ \A r \in Run : r.phase # "idle" /\ r.job \in Jobs
  BY DEF Idle, Run
<1>. QED BY <1>1, <1>2 DEF Busy

\* A run begins ...
LEMMA TakeHolders ==
    ASSUME TypeOK, NEW s \in Slots, TakeJob(s), NEW j \in Jobs
    PROVE  /\ s \notin Holders(j)
           /\ Holders(j)' = IF Oldest(waiting) = j THEN Holders(j) \cup {s} ELSE Holders(j)
           /\ InHands(j)' = IF Oldest(waiting) = j THEN InHands(j) \cup {s} ELSE InHands(j)
<1>1. /\ runs[s] = Idle /\ runs'[s].phase = "sending" /\ runs'[s].job = Oldest(waiting)
      /\ \A t \in Slots : t # s => runs'[t] = runs[t]
  BY DEF TakeJob, TypeOK
<1>2. Idle.phase = "idle"
  BY DEF Idle
<1>3. runs'[s] # Idle
  BY <1>1, <1>2
<1>. QED BY <1>1, <1>3 DEF Holders, InHands, Busy

\* ... goes on ...
LEMMA MoveHolders ==
    ASSUME TypeOK, NEW s \in Slots, s \in Busy, NEW j \in Jobs,
           runs'[s].phase # "idle", runs'[s].job = runs[s].job,
           \A t \in Slots : t # s => runs'[t] = runs[t]
    PROVE  /\ Holders(j)' = Holders(j)
           /\ runs[s].phase # "finishing" /\ runs'[s].phase # "finishing" => InHands(j)' = InHands(j)
           /\ runs'[s].phase = "finishing" => InHands(j)' = InHands(j) \ {s}
<1>1. Idle.phase = "idle"
  BY DEF Idle
<1>2. runs'[s] # Idle /\ runs[s] # Idle
  BY <1>1 DEF Busy
<1>. QED BY <1>2 DEF Holders, InHands, Busy

\* ... and is over.
LEMMA EndHolders ==
    ASSUME TypeOK, NEW s \in Slots, NEW j \in Jobs, runs' = [runs EXCEPT ![s] = Idle],
           runs[s].phase = "finishing"
    PROVE  Holders(j)' = Holders(j) \ {s} /\ InHands(j)' = InHands(j)
<1>1. runs'[s] = Idle /\ \A t \in Slots : t # s => runs'[t] = runs[t]
  BY DEF TypeOK
<1>. QED BY <1>1 DEF Holders, InHands, Busy

LEMMA DieHolders ==
    ASSUME NEW landed, Die(landed), NEW j \in Jobs
    PROVE  Busy' = {} /\ Holders(j)' = {} /\ InHands(j)' = {}
BY DEF Die, NoRuns, Holders, InHands, Busy

\* The four kinds of steps of a run that leave its job and the lists alone.
Proceeds(s) == BroadcastSucceeds(s) \/ BroadcastFails(s) \/ BroadcastRetries(s) \/ SendAgain(s)

LEMMA ProceedsMoves ==
    ASSUME TypeOK, NEW s \in Slots, Proceeds(s)
    PROVE  /\ s \in Busy /\ runs[s].job \in Jobs /\ runs[s].phase # "finishing"
           /\ runs'[s].phase # "idle" /\ runs'[s].job = runs[s].job
           /\ \A t \in Slots : t # s => runs'[t] = runs[t]
           /\ UNCHANGED <<queues, loop, scheduled, taken, crashes, faults>>
           /\ BroadcastRetries(s) \/ SendAgain(s) => runs'[s].phase # "finishing"
           /\ BroadcastSucceeds(s) \/ BroadcastFails(s) => runs'[s].phase = "finishing"
<1>1. runs[s].phase \in {"sending", "retryDelay"}
  BY DEF Proceeds, BroadcastSucceeds, BroadcastFails, BroadcastRetries, SendAgain
<1>2. s \in Busy /\ runs[s] \in Run /\ runs[s].job \in Jobs
  BY <1>1, BusyRuns
<1>3. CASE BroadcastSucceeds(s) \/ BroadcastFails(s)
  BY <1>1, <1>2, <1>3 DEF BroadcastSucceeds, BroadcastFails, BroadcastRetries, SendAgain,
     Conclude, TypeOK, queues, Run
<1>4. CASE BroadcastRetries(s)
  BY <1>1, <1>2, <1>4 DEF BroadcastSucceeds, BroadcastFails, BroadcastRetries, Conclude,
     TypeOK, queues, Run
<1>5. CASE SendAgain(s)
  BY <1>1, <1>2, <1>5 DEF BroadcastSucceeds, BroadcastFails, SendAgain, TypeOK, queues, history, Run
<1>. QED BY <1>3, <1>4, <1>5 DEF Proceeds

-----------------------------------------------------------------------------
(***************************************************************************)
(* The steps by what they do to lists and runs.                            *)
(***************************************************************************)
Serves(s) == Finish(s) \/ FinishRejected(s)
Dies == Crash \/ WatchdogKill

LEMMA ServesFinishing ==
    ASSUME DeliveryInv, NEW s \in Slots, Serves(s)
    PROVE  /\ runs[s].phase = "finishing" /\ runs[s].job \in Jobs /\ s \in Holders(runs[s].job)
           /\ runs' = [runs EXCEPT ![s] = Idle]
           /\ processing' \in {processing, LRemAll(processing, runs[s].job)}
           /\ Finish(s) => processing' = LRemAll(processing, runs[s].job)
           /\ UNCHANGED <<waiting, loop, scheduled, taken, applied, surplus>>
           /\ faults' = faults \/ faults' = faults + 1
           /\ FinishRejected(s) => faults' = faults + 1
<1>1. wire # <<>> /\ wire[1] = s
  BY DEF Serves, Finish, FinishRejected, DeliveryInv, TypeOK
<1>2. 1 \in DOMAIN wire
  BY <1>1 DEF DeliveryInv, TypeOK
<1>3. runs[s].phase = "finishing"
  BY <1>1, <1>2 DEF DeliveryInv, WireCarriesFinishing
<1>4. runs[s].job \in Jobs /\ s \in Busy
  BY <1>3, BusyRuns DEF DeliveryInv
<1>. QED BY <1>3, <1>4 DEF Serves, Finish, FinishRejected, history, Holders

LEMMA DiesFacts ==
    ASSUME Dies
    PROVE  /\ UNCHANGED <<queues, scheduled, taken, ended, surplus, faults>> /\ loop' = "down"
           /\ \E landed \in SUBSET InPhase("sending") : Die(landed)
<1>1. {} \in SUBSET InPhase("sending")
  OBVIOUS
<1>. QED BY <1>1 DEF Dies, Crash, WatchdogKill, Die

\* A removal leaves the entries of other jobs, and adds none.
LEMMA ServesCounts ==
    ASSUME DeliveryInv, NEW s \in Slots, Serves(s), NEW j \in Jobs
    PROVE  /\ Occurrences(processing', j) <= Occurrences(processing, j)
           /\ Occurrences(processing', j) \in Nat
           /\ Finish(s) => Occurrences(processing', runs[s].job) = 0
           /\ j # runs[s].job /\ j \in Entries(processing) => j \in Entries(processing')
<1>1. processing \in Seq(Jobs)
  BY DEF DeliveryInv, TypeOK
<1>2. processing' \in Seq(Jobs)
  BY <1>1, LRemAllEntries, ServesFinishing
<1>3. Occurrences(processing', j) \in Nat /\ Occurrences(processing, j) \in Nat
  BY <1>1, <1>2, PlacesFinite
<1>4. Occurrences(processing', j) <= Occurrences(processing, j)
  BY <1>1, <1>3, LRemAllCount, ServesFinishing
<1>. QED BY <1>1, <1>3, <1>4, LRemAllCount, LRemAllEntries, ServesFinishing

-----------------------------------------------------------------------------
(***************************************************************************)
(* Nothing is stranded.  While the loop has not begun to take, no run is   *)
(* alive and no command sent, and it begins with an empty processing list. *)
(***************************************************************************)
AtRest == loop \in {"down", "resetting", "over"} => Busy = {} /\ wire = <<>>

HeldInv ==
    faults = 0 /\ loop \notin {"down", "resetting"} =>
        \A j \in Jobs : Occurrences(processing, j) <= Cardinality(Holders(j))

LEMMA NextAtRest == DeliveryInv /\ AtRest /\ [Next]_vars => AtRest'
<1>. SUFFICES ASSUME DeliveryInv, AtRest, [Next]_vars PROVE AtRest'
  OBVIOUS
<1>1. TypeOK
  BY DEF DeliveryInv
<1>2. CASE UNCHANGED vars
  BY <1>2 DEF vars, AtRest, Busy
<1>3. CASE Dies
  BY <1>3, DiesFacts DEF Die, NoRuns, AtRest, Busy
<1>4. ASSUME NEW s \in Slots, Proceeds(s) PROVE AtRest'
  BY <1>1, <1>4, ProceedsMoves DEF AtRest
<1>5. ASSUME NEW s \in Slots, Serves(s) PROVE AtRest'
  <2>1. s \in Busy /\ loop' = loop
    BY <1>5, ServesFinishing DEF Holders
  <2>. QED BY <2>1 DEF AtRest
<1>6. ASSUME NEW s \in Slots, TakeJob(s) PROVE AtRest'
  BY <1>6 DEF TakeJob, AtRest
<1>7. CASE ResetStep \/ ResetRejected \/ TakeRejected \/ TakeResent
  BY <1>7 DEF ResetStep, ResetRejected, TakeRejected, TakeResent, AtRest, Busy
<1>8. CASE Start \/ ResetDone \/ Wake \/ TakeTimeout
  BY <1>8 DEF Start, ResetDone, Wake, TakeTimeout, AtRest, Busy
<1>9. ASSUME NEW j \in Jobs, Schedule(j) PROVE AtRest'
  BY <1>9 DEF Schedule, AtRest, Busy
<1>. QED BY <1>2, <1>3, <1>4, <1>5, <1>6, <1>7, <1>8, <1>9 DEF Next, Proceeds, Serves, Dies

LEMMA NextHeldInv == DeliveryInv /\ AtRest /\ HeldInv /\ [Next]_vars => HeldInv'
<1>. SUFFICES ASSUME DeliveryInv, AtRest, HeldInv, [Next]_vars,
                     faults' = 0, loop' \notin {"down", "resetting"}, NEW j \in Jobs
              PROVE  Occurrences(processing', j) <= Cardinality(Holders(j)')
  BY DEF HeldInv
<1>. DEFINE Held == Occurrences(processing, j) <= Cardinality(Holders(j))
<1>1. TypeOK /\ faults \in Nat
  BY DEF DeliveryInv, TypeOK
<1>2. /\ Occurrences(processing, j) \in Nat /\ Cardinality(Holders(j)) \in Nat
  BY <1>1, ListCounts, HoldersFinite
<1>3. ASSUME processing' = processing, Holders(j)' = Holders(j), Held
      PROVE  Occurrences(processing', j) <= Cardinality(Holders(j)')
  BY <1>3
<1>4. ASSUME Held => processing' = processing /\ Holders(j)' = Holders(j),
              faults = 0 /\ loop \notin {"down", "resetting"}
      PROVE  Occurrences(processing', j) <= Cardinality(Holders(j)')
  BY <1>3, <1>4 DEF HeldInv
<1>5. CASE TakeTimeout \/ Wake \/ UNCHANGED vars \/ \E k \in Jobs : Schedule(k)
  BY <1>4, <1>5 DEF TakeTimeout, Wake, vars, queues, history, Schedule, Holders, Busy
<1>6. CASE ResetDone
  <2>1. processing' = <<>> /\ <<>> \in Seq(Jobs) /\ ~(j \in Entries(<<>>))
    BY <1>6 DEF ResetDone, queues, Entries
  <2>2. Occurrences(processing', j) = 0
    BY <2>1, PlacesFinite
  <2>3. Holders(j)' = Holders(j)
    BY <1>6 DEF ResetDone, Holders, Busy
  <2>. QED BY <1>2, <2>2, <2>3
<1>7. CASE Start \/ ResetStep \/ ResetRejected \/ TakeRejected \/ TakeResent
  BY <1>1, <1>7 DEF Start, ResetStep, ResetRejected, TakeRejected, TakeResent
<1>8. CASE Dies
  BY <1>8, DiesFacts
<1>9. ASSUME NEW s \in Slots, TakeJob(s)
      PROVE  Occurrences(processing', j) <= Cardinality(Holders(j)')
  <2>1. PopJob /\ faults = 0
    BY <1>9 DEF TakeJob
  <2>2. loop \notin {"down", "resetting"}
    BY <1>9 DEF TakeJob, AtRest
  <2>3. /\ Occurrences(processing', j) = Occurrences(processing, j) + Hit(Oldest(waiting), j)
        /\ Held
    BY <1>1, <2>1, <2>2, PopCounts DEF HeldInv
  <2>4. CASE Oldest(waiting) = j
    <3>1. Cardinality(Holders(j) \cup {s}) = Cardinality(Holders(j)) + 1
      BY <1>1, <1>9, TakeHolders, HoldersFinite, FS_AddElement
    <3>. QED BY <3>1, <2>3, <2>4, <1>1, <1>2, <1>9, TakeHolders DEF Hit
  <2>5. CASE Oldest(waiting) # j
    BY <2>3, <2>5, <1>1, <1>2, <1>9, TakeHolders DEF Hit
  <2>. QED BY <2>4, <2>5
<1>10. ASSUME NEW s \in Slots, Proceeds(s)
       PROVE  Occurrences(processing', j) <= Cardinality(Holders(j)')
  BY <1>1, <1>4, <1>10, ProceedsMoves, MoveHolders DEF queues
<1>11. ASSUME NEW s \in Slots, Serves(s)
       PROVE  Occurrences(processing', j) <= Cardinality(Holders(j)')
  <2>1. Finish(s) /\ loop' = loop /\ faults = 0
    BY <1>1, <1>11, ServesFinishing DEF Serves, Finish
  <2>2. Holders(j)' = Holders(j) \ {s}
    BY <1>1, <1>11, ServesFinishing, EndHolders
  <2>3. CASE j = runs[s].job
    <3>1. Occurrences(processing', j) = 0
      BY <2>1, <2>3, <1>11, ServesCounts
    <3>2. Cardinality(Holders(j) \ {s}) \in Nat
      BY HoldersFinite, FS_Subset, FS_CardinalityType
    <3>. QED BY <3>1, <3>2, <2>2
  <2>4. CASE j # runs[s].job
    <3>1. Holders(j)' = Holders(j)
      BY <2>2, <2>4 DEF Holders
    <3>2. Held
      BY <2>1 DEF HeldInv
    <3>3. /\ Occurrences(processing', j) <= Occurrences(processing, j)
          /\ Occurrences(processing', j) \in Nat
      BY <1>11, ServesCounts
    <3>. QED BY <3>1, <3>2, <3>3, <1>2
  <2>. QED BY <2>3, <2>4
<1>. QED BY <1>5, <1>6, <1>7, <1>8, <1>9, <1>10, <1>11 DEF Next, Proceeds, Serves, Dies

\* As long as no command failed, what is in the processing list has a run.
THEOREM PublisherNothingStranded == Spec => []NothingStranded
<1>1. Init => AtRest /\ HeldInv
  BY DEF Init, AtRest, HeldInv, Busy, NoRuns
<1>2. HeldInv => NothingStranded
  BY DEF HeldInv, NothingStranded
<1>. QED BY <1>1, <1>2, NextAtRest, NextHeldInv, PublisherDeliveryInv, PTL DEF Spec

-----------------------------------------------------------------------------
(***************************************************************************)
(* One run per job.  The lists never hold a job more often than it was     *)
(* pushed, so that a run of a job pushed once holds its only entry.        *)
(***************************************************************************)
OneInv(j) ==
    /\ Occurrences(waiting, j) + Occurrences(processing, j) <= Pushes(j)
    /\ Holders(j) # {} => Pushes(j) # 0
    /\ \A s \in Holders(j) : Pushes(j) = 1 => Holders(j) = {s} /\ j \in Entries(processing)

LEMMA NextOneInv ==
    ASSUME DeliveryInv, AtRest, [Next]_vars, NEW j \in Jobs, OneInv(j)
    PROVE  OneInv(j)'
<1>1. TypeOK /\ TypeOK'
  BY NextTypeOK DEF DeliveryInv
<1>2. /\ Occurrences(waiting, j) \in Nat /\ Occurrences(processing, j) \in Nat /\ Pushes(j) \in Nat
      /\ j \in Entries(waiting) <=> Occurrences(waiting, j) # 0
      /\ j \in Entries(processing) <=> Occurrences(processing, j) # 0
  BY <1>1, ListCounts
<1>3. /\ Occurrences(waiting', j) \in Nat /\ Occurrences(processing', j) \in Nat /\ Pushes(j)' \in Nat
      /\ j \in Entries(waiting') <=> Occurrences(waiting', j) # 0
      /\ j \in Entries(processing') <=> Occurrences(processing', j) # 0
  <2>1. waiting' \in Seq(Jobs) /\ processing' \in Seq(Jobs) /\ scheduled' \in Seq(Jobs)
    BY <1>1 DEF TypeOK
  <2>2. Pushes(j)' = Occurrences(scheduled', j)
    BY DEF Pushes, Occurrences
  <2>. QED BY <2>1, <2>2, PlacesFinite
<1>4. ASSUME UNCHANGED <<queues, scheduled>>, Holders(j)' = Holders(j)
      PROVE  OneInv(j)'
  BY <1>4 DEF OneInv, queues, Pushes
<1>5. CASE UNCHANGED vars \/ Start \/ ResetDone \/ Wake \/ TakeTimeout
  BY <1>4, <1>5 DEF vars, Start, ResetDone, Wake, TakeTimeout, queues, history, Holders, Busy
<1>6. ASSUME NEW k \in Jobs, Schedule(k)
      PROVE  OneInv(j)'
  <2>1. processing' = processing /\ Holders(j)' = Holders(j)
    BY <1>6 DEF Schedule, Holders, Busy
  <2>2. /\ Occurrences(waiting', j) = Occurrences(waiting, j) + Hit(k, j)
        /\ Pushes(j)' = Pushes(j) + Hit(k, j)
    BY <1>1, <1>6, ScheduleCounts
  <2>3. CASE k = j
    BY <2>1, <2>2, <2>3, <1>2 DEF OneInv, Hit
  <2>4. CASE k # j
    BY <2>1, <2>2, <2>4, <1>2 DEF OneInv, Hit
  <2>. QED BY <2>3, <2>4
<1>7. ASSUME Requeue, UNCHANGED <<scheduled, runs>>, Busy = {}
      PROVE  OneInv(j)'
  <2>1. /\ Occurrences(processing, j) = Occurrences(processing', j) + Hit(Oldest(processing), j)
        /\ Occurrences(waiting', j) = Occurrences(waiting, j) + Hit(Oldest(processing), j)
        /\ Pushes(j)' = Pushes(j) /\ Holders(j)' = {}
    BY <1>1, <1>7, RequeueCounts DEF Pushes, Holders, Busy
  <2>. QED BY <2>1, <1>2, <1>3 DEF OneInv, Hit
<1>8. ASSUME PopJob, UNCHANGED <<scheduled, runs>>
      PROVE  OneInv(j)'
  <2>1. /\ Occurrences(waiting, j) = Occurrences(waiting', j) + Hit(Oldest(waiting), j)
        /\ Occurrences(processing', j) = Occurrences(processing, j) + Hit(Oldest(waiting), j)
        /\ Pushes(j)' = Pushes(j) /\ Holders(j)' = Holders(j)
    BY <1>1, <1>8, PopCounts DEF Pushes, Holders, Busy
  <2>2. Hit(Oldest(waiting), j) \in {0, 1}
    BY DEF Hit
  <2>3. \A s \in Holders(j) : Pushes(j) = 1 => Holders(j)' = {s} /\ Occurrences(processing', j) # 0
    BY <2>1, <2>2, <1>2 DEF OneInv
  <2>. QED BY <2>1, <2>2, <2>3, <1>2, <1>3 DEF OneInv
<1>9. CASE ResetStep \/ ResetRejected
  <2>1. Busy = {} /\ UNCHANGED <<scheduled, runs>> /\ (Requeue \/ UNCHANGED queues)
    BY <1>9 DEF ResetStep, ResetRejected, AtRest
  <2>. QED BY <2>1, <1>4, <1>7 DEF Holders, Busy
<1>10. CASE TakeRejected \/ TakeResent
  <2>1. UNCHANGED <<scheduled, runs>> /\ (PopJob \/ UNCHANGED queues)
    BY <1>10 DEF TakeRejected, TakeResent
  <2>. QED BY <2>1, <1>4, <1>8 DEF Holders, Busy
<1>11. ASSUME NEW s \in Slots, TakeJob(s)
       PROVE  OneInv(j)'
  <2>1. /\ Occurrences(waiting, j) = Occurrences(waiting', j) + Hit(Oldest(waiting), j)
        /\ Occurrences(processing', j) = Occurrences(processing, j) + Hit(Oldest(waiting), j)
        /\ Pushes(j)' = Pushes(j)
    BY <1>1, <1>11, PopCounts DEF TakeJob, Pushes
  <2>2. CASE Oldest(waiting) = j
    <3>1. Holders(j)' = Holders(j) \cup {s}
      BY <2>2, <1>1, <1>11, TakeHolders
    <3>2. Occurrences(waiting, j) # 0 /\ Occurrences(processing', j) # 0 /\ Pushes(j) # 0
      BY <2>1, <2>2, <1>2, <1>3 DEF Hit, OneInv
    <3>3. Pushes(j) = 1 => Holders(j) = {}
      BY <3>2, <1>2 DEF OneInv
    <3>. QED BY <3>1, <3>2, <3>3, <2>1, <2>2, <1>2, <1>3 DEF OneInv, Hit
  <2>3. CASE Oldest(waiting) # j
    <3>1. Holders(j)' = Holders(j)
      BY <2>3, <1>1, <1>11, TakeHolders
    <3>. QED BY <3>1, <2>1, <2>3, <1>2, <1>3 DEF OneInv, Hit
  <2>. QED BY <2>2, <2>3
<1>12. ASSUME NEW s \in Slots, Proceeds(s)
       PROVE  OneInv(j)'
  BY <1>1, <1>4, <1>12, ProceedsMoves, MoveHolders
<1>13. ASSUME NEW s \in Slots, Serves(s)
       PROVE  OneInv(j)'
  <2>1. UNCHANGED <<waiting, scheduled>> /\ Holders(j)' = Holders(j) \ {s}
    BY <1>1, <1>13, ServesFinishing, EndHolders
  <2>2. Occurrences(processing', j) <= Occurrences(processing, j)
    BY <1>13, ServesCounts
  <2>3. Pushes(j)' = Pushes(j)
    BY <2>1 DEF Pushes
  <2>4. ASSUME NEW t \in Holders(j)', Pushes(j) = 1
        PROVE  Holders(j)' = {t} /\ j \in Entries(processing')
    <3>1. Holders(j) = {t} /\ t # s /\ j \in Entries(processing)
      BY <2>1, <2>4 DEF OneInv
    <3>2. runs[s].job # j
      BY <3>1, <1>13, ServesFinishing
    <3>. QED BY <3>1, <3>2, <2>1, <1>13, ServesCounts
  <2>. QED BY <2>1, <2>2, <2>3, <2>4, <1>2, <1>3 DEF OneInv
<1>14. CASE Dies
  <2>1. Holders(j)' = {} /\ UNCHANGED <<queues, scheduled>>
    BY <1>14, DiesFacts, DieHolders
  <2>. QED BY <2>1 DEF OneInv, queues, Pushes
<1>. QED BY <1>5, <1>6, <1>9, <1>10, <1>11, <1>12, <1>13, <1>14 DEF Next, Proceeds, Serves, Dies

\* A job string pushed once has one run, one entry, and does not wait as well.
THEOREM PublisherOneRunPerJob == Spec => []OneRunPerJob
<1>. DEFINE Inv == \A j \in Jobs : OneInv(j)
<1>1. Init => AtRest /\ Inv
  <2>1. \A j : Occurrences(<<>>, j) = 0
    <3>1. \A j : {i \in DOMAIN <<>> : <<>>[i] = j} = {}
      OBVIOUS
    <3>. QED BY <3>1, FS_EmptySet DEF Occurrences
  <2>. QED BY <2>1 DEF Init, AtRest, OneInv, Holders, Busy, NoRuns, Pushes, Occurrences
<1>2. DeliveryInv /\ AtRest /\ Inv /\ [Next]_vars => Inv'
  BY NextOneInv
<1>3. DeliveryInv /\ Inv => OneRunPerJob
  <2>. SUFFICES ASSUME DeliveryInv, Inv, NEW s \in Busy, Pushes(runs[s].job) = 1
                PROVE  /\ Holders(runs[s].job) = {s}
                       /\ runs[s].job \in Entries(processing) /\ runs[s].job \notin Entries(waiting)
    BY DEF OneRunPerJob
  <2>. DEFINE j == runs[s].job
  <2>1. j \in Jobs /\ s \in Holders(j) /\ TypeOK
    BY BusyRuns DEF DeliveryInv, Busy, Holders
  <2>. QED BY <2>1, ListCounts DEF OneInv
<1>. QED BY <1>1, <1>2, <1>3, NextAtRest, PublisherDeliveryInv, PTL DEF Spec

-----------------------------------------------------------------------------
(***************************************************************************)
(* Duplicates are explained.  Each time a job waits, or is in the hands of *)
(* a run that has not concluded it, stands for one application to come.    *)
(***************************************************************************)
DueInv(j) ==
    applied[j] + Occurrences(waiting, j) + Cardinality(InHands(j)) <= Pushes(j) + surplus[j]

LEMMA NextDueInv ==
    ASSUME DeliveryInv, [Next]_vars, NEW j \in Jobs, DueInv(j)
    PROVE  DueInv(j)'
<1>1. TypeOK /\ TypeOK'
  BY NextTypeOK DEF DeliveryInv
<1>2. /\ Occurrences(waiting, j) \in Nat /\ Pushes(j) \in Nat /\ Cardinality(InHands(j)) \in Nat
      /\ applied[j] \in Nat /\ surplus[j] \in Nat /\ applied'[j] \in Nat /\ surplus'[j] \in Nat
  BY <1>1, ListCounts, HoldersFinite DEF TypeOK
<1>3. ASSUME UNCHANGED <<scheduled, applied, runs>>,
             \/ waiting' = waiting /\ surplus' = surplus
             \/ Occurrences(waiting', j) <= Occurrences(waiting, j) /\ surplus' = surplus
             \/ Requeue
      PROVE  DueInv(j)'
  <2>1. Pushes(j)' = Pushes(j) /\ InHands(j)' = InHands(j) /\ Occurrences(waiting', j) \in Nat
    <3>1. waiting' \in Seq(Jobs)
      BY <1>1 DEF TypeOK
    <3>. QED BY <3>1, <1>3, PlacesFinite DEF Pushes, InHands, Holders, Busy
  <2>2. CASE Requeue
    <3>1. /\ Occurrences(waiting', j) = Occurrences(waiting, j) + Hit(Oldest(processing), j)
          /\ surplus'[j] = surplus[j] + Hit(Oldest(processing), j)
      BY <2>2, <1>1, RequeueCounts
    <3>. QED BY <3>1, <2>1, <1>2, <1>3 DEF DueInv, Hit
  <2>3. CASE ~Requeue
    BY <2>1, <2>3, <1>2, <1>3 DEF DueInv
  <2>. QED BY <2>2, <2>3
<1>4. CASE UNCHANGED vars \/ Start \/ ResetDone \/ Wake \/ TakeTimeout \/ ResetStep \/ ResetRejected
  BY <1>3, <1>4 DEF vars, Start, ResetDone, Wake, TakeTimeout, ResetStep, ResetRejected, queues, history
<1>5. ASSUME NEW k \in Jobs, Schedule(k)
      PROVE  DueInv(j)'
  <2>1. /\ Occurrences(waiting', j) = Occurrences(waiting, j) + Hit(k, j)
        /\ Pushes(j)' = Pushes(j) + Hit(k, j)
        /\ InHands(j)' = InHands(j) /\ applied' = applied /\ surplus' = surplus
    BY <1>1, <1>5, ScheduleCounts DEF Schedule, InHands, Holders, Busy
  <2>. QED BY <2>1, <1>2 DEF DueInv, Hit
<1>6. ASSUME PopJob
      PROVE  /\ Occurrences(waiting', j) <= Occurrences(waiting, j)
             /\ Occurrences(waiting, j) = Occurrences(waiting', j) + Hit(Oldest(waiting), j)
  BY <1>1, <1>6, PopCounts DEF Hit
<1>7. CASE TakeRejected \/ TakeResent
  <2>1. UNCHANGED <<scheduled, applied, runs, surplus>> /\ (PopJob \/ waiting' = waiting)
    BY <1>7 DEF TakeRejected, TakeResent, queues
  <2>. QED BY <2>1, <1>3, <1>6
<1>8. ASSUME NEW s \in Slots, TakeJob(s)
      PROVE  DueInv(j)'
  <2>1. /\ Occurrences(waiting, j) = Occurrences(waiting', j) + Hit(Oldest(waiting), j)
        /\ Pushes(j)' = Pushes(j) /\ applied' = applied /\ surplus' = surplus
    BY <1>6, <1>8 DEF TakeJob, Pushes
  <2>2. CASE Oldest(waiting) = j
    <3>1. Cardinality(InHands(j) \cup {s}) = Cardinality(InHands(j)) + 1
      <4>1. s \notin InHands(j) /\ IsFiniteSet(InHands(j))
        BY <1>1, <1>8, TakeHolders, HoldersFinite
      <4>. QED BY <4>1, FS_AddElement
    <3>2. InHands(j)' = InHands(j) \cup {s}
      BY <2>2, <1>1, <1>8, TakeHolders
    <3>3. Occurrences(waiting', j) \in Nat
      BY <1>1, <1>8, PopCounts DEF TakeJob
    <3>. QED BY <3>1, <3>2, <3>3, <2>1, <2>2, <1>2 DEF DueInv, Hit
  <2>3. CASE Oldest(waiting) # j
    <3>1. InHands(j)' = InHands(j)
      BY <2>3, <1>1, <1>8, TakeHolders
    <3>2. Occurrences(waiting', j) \in Nat
      BY <1>1, <1>8, PopCounts DEF TakeJob
    <3>. QED BY <3>1, <3>2, <2>1, <2>3, <1>2 DEF DueInv, Hit
  <2>. QED BY <2>2, <2>3
<1>9. ASSUME NEW s \in Slots, Proceeds(s)
      PROVE  DueInv(j)'
  <2>1. /\ s \in Busy /\ runs[s].job \in Jobs /\ runs[s].phase # "finishing"
        /\ UNCHANGED <<waiting, scheduled>>
    BY <1>1, <1>9, ProceedsMoves DEF queues
  <2>2. Pushes(j)' = Pushes(j)
    BY <2>1 DEF Pushes
  <2>3. CASE BroadcastSucceeds(s) \/ BroadcastFails(s)
    <3>1. InHands(j)' = InHands(j) \ {s}
      BY <2>3, <1>1, <1>9, ProceedsMoves, MoveHolders
    <3>2. Cardinality(InHands(j)') = Cardinality(InHands(j)) - Hit(runs[s].job, j)
      <4>1. s \in InHands(j) <=> runs[s].job = j
        BY <2>1 DEF InHands, Holders
      <4>2. Cardinality(InHands(j) \ {s}) =
              IF s \in InHands(j) THEN Cardinality(InHands(j)) - 1 ELSE Cardinality(InHands(j))
        BY HoldersFinite, FS_RemoveElement
      <4>. QED BY <3>1, <4>1, <4>2, <1>2 DEF Hit
    <3>3. /\ surplus' = surplus
          /\ applied'[j] = applied[j] \/ applied'[j] = applied[j] + Hit(runs[s].job, j)
      BY <2>1, <2>3, <1>1 DEF BroadcastSucceeds, BroadcastFails, Applied, TypeOK, Hit
    <3>. QED BY <3>2, <3>3, <2>1, <2>2, <1>2 DEF DueInv, Hit
  <2>4. CASE BroadcastRetries(s) \/ SendAgain(s)
    <3>1. InHands(j)' = InHands(j)
      BY <2>4, <1>1, <1>9, ProceedsMoves, MoveHolders
    <3>2. \/ applied'[j] = applied[j] /\ surplus'[j] = surplus[j]
          \/ /\ applied'[j] = applied[j] + Hit(runs[s].job, j)
             /\ surplus'[j] = surplus[j] + Hit(runs[s].job, j)
      BY <2>1, <2>4, <1>1 DEF BroadcastRetries, SendAgain, Applied, TypeOK, history, Hit
    <3>. QED BY <3>1, <3>2, <2>1, <2>2, <1>2 DEF DueInv, Hit
  <2>. QED BY <2>3, <2>4, <1>9 DEF Proceeds
<1>10. ASSUME NEW s \in Slots, Serves(s)
       PROVE  DueInv(j)'
  BY <1>1, <1>10, ServesFinishing, EndHolders DEF DueInv, Pushes
<1>11. CASE Dies
  <2>1. UNCHANGED <<queues, scheduled, surplus>> /\ \E landed \in SUBSET InPhase("sending") : Die(landed)
    BY <1>11, DiesFacts
  <2>2. PICK landed \in SUBSET InPhase("sending") : Die(landed)
    BY <2>1
  <2>. DEFINE hit == {s \in landed : runs[s].job = j}
  <2>3. hit \subseteq InHands(j)
    <3>. SUFFICES ASSUME NEW s \in hit PROVE s \in InHands(j)
      OBVIOUS
    <3>1. s \in Slots /\ runs[s].phase = "sending" /\ runs[s].job = j
      BY <2>2 DEF InPhase
    <3>. QED BY <3>1, <1>1, BusyRuns DEF InHands, Holders
  <2>4. Cardinality(hit) <= Cardinality(InHands(j)) /\ Cardinality(hit) \in Nat
    BY <2>3, HoldersFinite, FS_Subset, FS_CardinalityType
  <2>5. applied'[j] = applied[j] + Cardinality(hit) /\ Cardinality(InHands(j)') = 0
    BY <2>2, DieHolders, FS_EmptySet DEF Die
  <2>6. Pushes(j)' = Pushes(j) /\ waiting' = waiting /\ surplus' = surplus
    BY <2>1 DEF Pushes, queues
  <2>. QED BY <2>4, <2>5, <2>6, <1>2 DEF DueInv
<1>. QED BY <1>4, <1>5, <1>7, <1>8, <1>9, <1>10, <1>11 DEF Next, Proceeds, Serves, Dies

\* Only pushes, requeues and unacknowledged tries make the blockchain apply a job.
THEOREM PublisherDuplicatesExplained == Spec => []DuplicatesExplained
<1>. DEFINE Inv == \A j \in Jobs : DueInv(j)
<1>1. Init => Inv
  <2>1. \A j : Occurrences(<<>>, j) = 0
    <3>1. \A j : {i \in DOMAIN <<>> : <<>>[i] = j} = {}
      OBVIOUS
    <3>. QED BY <3>1, FS_EmptySet DEF Occurrences
  <2>2. Init => \A j : Holders(j) = {} /\ InHands(j) = {}
    BY DEF Init, Holders, Busy, NoRuns, InHands
  <2>. QED BY <2>1, <2>2, FS_EmptySet DEF Init, DueInv, Pushes, Occurrences
<1>2. DeliveryInv /\ Inv /\ [Next]_vars => Inv'
  BY NextDueInv
<1>3. DeliveryInv /\ Inv => DuplicatesExplained
  <2>. SUFFICES ASSUME DeliveryInv, Inv, NEW j \in Jobs
                PROVE  applied[j] <= Pushes(j) + surplus[j]
    BY DEF DuplicatesExplained
  <2>1. /\ Occurrences(waiting, j) \in Nat /\ Cardinality(InHands(j)) \in Nat /\ Pushes(j) \in Nat
        /\ applied[j] \in Nat /\ surplus[j] \in Nat
    BY ListCounts, HoldersFinite DEF DeliveryInv, TypeOK
  <2>. QED BY <2>1 DEF DueInv
<1>. QED BY <1>1, <1>2, <1>3, PublisherDeliveryInv, PTL DEF Spec

-----------------------------------------------------------------------------
(***************************************************************************)
(* First takes are in order.  Of the jobs that were never taken, those     *)
(* that wait behind another were pushed no later: requeued jobs go to the  *)
(* end of the list, but have been taken before.                            *)
(***************************************************************************)
OrderInv ==
    /\ Entries(scheduled) \subseteq Entries(waiting) \cup taken
    /\ Entries(waiting) \subseteq Entries(scheduled)
    /\ Entries(processing) \subseteq taken
    /\ taken \subseteq Entries(scheduled)
    /\ \A p \in DOMAIN waiting, i \in DOMAIN scheduled :
          waiting[p] \notin taken /\ scheduled[i] \notin taken =>
              \/ waiting[p] \in Entries(SubSeq(scheduled, 1, i))
              \/ \E q \in DOMAIN waiting : p < q /\ waiting[q] = scheduled[i]

\* The shape of the two commands that move an entry.
LEMMA LPushShape ==
    ASSUME NEW S, NEW l \in Seq(S), NEW e \in S
    PROVE  /\ DOMAIN LPush(l, e) = 1..(Len(l) + 1) /\ DOMAIN l = 1..Len(l) /\ Len(l) \in Nat
           /\ LPush(l, e)[1] = e
           /\ \A p \in DOMAIN l : LPush(l, e)[p + 1] = l[p]
           /\ \A p \in DOMAIN LPush(l, e) : p # 1 => p - 1 \in DOMAIN l /\ LPush(l, e)[p] = l[p - 1]
<1>1. /\ LPush(l, e) \in Seq(S) /\ Len(LPush(l, e)) = Len(l) + 1 /\ LPush(l, e)[1] = e
      /\ \A i \in 1..Len(l) : LPush(l, e)[i + 1] = l[i]
  BY DEF LPush
<1>2. \A p \in 2..(Len(l) + 1) : LPush(l, e)[p] = l[p - 1]
  BY DEF LPush
<1>. QED BY <1>1, <1>2

LEMMA PopShape ==
    ASSUME NEW S, NEW l \in Seq(S), l # <<>>
    PROVE  /\ DOMAIN WithoutOldest(l) = 1..(Len(l) - 1) /\ DOMAIN l = 1..Len(l) /\ Len(l) \in Nat
           /\ Len(l) > 0 /\ Oldest(l) = l[Len(l)]
           /\ \A p \in DOMAIN WithoutOldest(l) : WithoutOldest(l)[p] = l[p]
<1>1. /\ Len(l) \in Nat /\ Len(l) > 0 /\ DOMAIN l = 1..Len(l)
  OBVIOUS
<1>2. /\ WithoutOldest(l) \in Seq(S) /\ Len(WithoutOldest(l)) = Len(l) - 1
      /\ \A i \in 1..(Len(l) - 1) : WithoutOldest(l)[i] = l[i]
  BY <1>1 DEF WithoutOldest
<1>. QED BY <1>1, <1>2 DEF Oldest

LEMMA PopOrder ==
    ASSUME TypeOK, OrderInv, PopJob, scheduled' = scheduled
    PROVE  /\ OrderInv'
           /\ \A j \in taken' \ taken, i \in DOMAIN scheduled :
                 j \in Entries(SubSeq(scheduled, 1, i)) \/ scheduled[i] \in taken
<1>. DEFINE e == Oldest(waiting)
            n == Len(waiting)
<1>1. /\ waiting \in Seq(Jobs) /\ processing \in Seq(Jobs) /\ waiting # <<>> /\ e \in Jobs
      /\ waiting' = WithoutOldest(waiting) /\ processing' = LPush(processing, e)
      /\ taken' = taken \cup {e}
  BY OldestEntries DEF TypeOK, PopJob
<1>2. /\ Entries(waiting) = Entries(waiting') \cup {e}
      /\ Entries(processing') = Entries(processing) \cup {e}
  <2>1. Entries(waiting) = Entries(WithoutOldest(waiting)) \cup {Oldest(waiting)}
    BY <1>1, OldestEntries
  <2>2. Entries(LPush(processing, e)) = Entries(processing) \cup {e}
    BY <1>1, LPushEntries
  <2>. QED BY <1>1, <2>1, <2>2
<1>3. /\ DOMAIN waiting' = 1..(n - 1) /\ DOMAIN waiting = 1..n /\ n \in Nat /\ n > 0 /\ e = waiting[n]
      /\ \A p \in DOMAIN waiting' : waiting'[p] = waiting[p]
  BY <1>1, PopShape
<1>. HIDE DEF e, n
<1>4. ASSUME NEW p \in DOMAIN waiting', NEW i \in DOMAIN scheduled',
             waiting'[p] \notin taken', scheduled'[i] \notin taken'
      PROVE  \/ waiting'[p] \in Entries(SubSeq(scheduled', 1, i))
             \/ \E q \in DOMAIN waiting' : p < q /\ waiting'[q] = scheduled'[i]
  <2>1. p \in DOMAIN waiting /\ waiting'[p] = waiting[p] /\ waiting[p] \notin taken
    BY <1>1, <1>3, <1>4
  <2>2. i \in DOMAIN scheduled /\ scheduled[i] \notin taken /\ scheduled[i] # e
    BY <1>1, <1>4
  <2>3. CASE \E q \in DOMAIN waiting : p < q /\ waiting[q] = scheduled[i]
    <3>1. PICK q \in DOMAIN waiting : p < q /\ waiting[q] = scheduled[i]
      BY <2>3
    <3>2. q # n
      BY <3>1, <2>2, <1>3
    <3>3. q \in DOMAIN waiting'
      BY <3>2, <1>3
    <3>4. waiting'[q] = scheduled'[i]
      BY <3>1, <3>3, <1>3
    <3>. QED BY <3>1, <3>3, <3>4
  <2>. QED BY <2>1, <2>2, <2>3 DEF OrderInv
<1>5. e \in Entries(scheduled)
  BY <1>2 DEF OrderInv
<1>6. OrderInv'
  BY <1>1, <1>2, <1>4, <1>5 DEF OrderInv
<1>7. ASSUME NEW j \in taken' \ taken, NEW i \in DOMAIN scheduled, scheduled[i] \notin taken
      PROVE  j \in Entries(SubSeq(scheduled, 1, i))
  <2>1. j = waiting[n] /\ n \in DOMAIN waiting
    BY <1>1, <1>3
  <2>2. ~ \E q \in DOMAIN waiting : n < q
    BY <1>3
  <2>. QED BY <2>1, <2>2, <1>7 DEF OrderInv
<1>. QED BY <1>6, <1>7

LEMMA RequeueOrder ==
    ASSUME TypeOK, OrderInv, Requeue, UNCHANGED <<scheduled, taken>>
    PROVE  OrderInv'
<1>. DEFINE e == Oldest(processing)
            n == Len(waiting)
<1>1. /\ waiting \in Seq(Jobs) /\ processing \in Seq(Jobs) /\ processing # <<>> /\ e \in Jobs
      /\ waiting' = LPush(waiting, e) /\ processing' = WithoutOldest(processing)
  BY OldestEntries DEF TypeOK, Requeue
<1>2. /\ Entries(processing) = Entries(processing') \cup {e}
      /\ Entries(waiting') = Entries(waiting) \cup {e}
  <2>1. Entries(processing) = Entries(WithoutOldest(processing)) \cup {Oldest(processing)}
    BY <1>1, OldestEntries
  <2>2. Entries(LPush(waiting, e)) = Entries(waiting) \cup {e}
    BY <1>1, LPushEntries
  <2>. QED BY <1>1, <2>1, <2>2
<1>3. /\ DOMAIN waiting' = 1..(n + 1) /\ DOMAIN waiting = 1..n /\ n \in Nat /\ waiting'[1] = e
      /\ \A p \in DOMAIN waiting : waiting'[p + 1] = waiting[p]
      /\ \A p \in DOMAIN waiting' : p # 1 => p - 1 \in DOMAIN waiting /\ waiting'[p] = waiting[p - 1]
  BY <1>1, LPushShape
<1>4. e \in taken /\ e \in Entries(scheduled)
  BY <1>2 DEF OrderInv
<1>. HIDE DEF e, n
<1>5. ASSUME NEW p \in DOMAIN waiting', NEW i \in DOMAIN scheduled',
             waiting'[p] \notin taken', scheduled'[i] \notin taken'
      PROVE  \/ waiting'[p] \in Entries(SubSeq(scheduled', 1, i))
             \/ \E q \in DOMAIN waiting' : p < q /\ waiting'[q] = scheduled'[i]
  <2>1. p # 1
    BY <1>3, <1>4, <1>5
  <2>2. p - 1 \in DOMAIN waiting /\ waiting'[p] = waiting[p - 1]
    BY <2>1, <1>3, <1>5
  <2>3. CASE \E q \in DOMAIN waiting : p - 1 < q /\ waiting[q] = scheduled[i]
    <3>1. PICK q \in DOMAIN waiting : p - 1 < q /\ waiting[q] = scheduled[i]
      BY <2>3
    <3>2. q + 1 \in DOMAIN waiting' /\ p < q + 1
      BY <3>1, <1>3
    <3>3. waiting'[q + 1] = scheduled'[i]
      BY <3>1, <1>3
    <3>. QED BY <3>2, <3>3
  <2>. QED BY <2>2, <2>3, <1>5 DEF OrderInv
<1>. QED BY <1>2, <1>4, <1>5 DEF OrderInv

LEMMA ScheduleOrder ==
    ASSUME TypeOK, OrderInv, NEW k \in Jobs, Schedule(k)
    PROVE  OrderInv'
<1>. DEFINE n == Len(waiting)
            m == Len(scheduled)
<1>1. /\ waiting \in Seq(Jobs) /\ scheduled \in Seq(Jobs) /\ waiting' = LPush(waiting, k)
      /\ scheduled' = Append(scheduled, k) /\ processing' = processing /\ taken' = taken
  BY DEF TypeOK, Schedule
<1>2. /\ DOMAIN waiting' = 1..(n + 1) /\ DOMAIN waiting = 1..n /\ n \in Nat /\ waiting'[1] = k
      /\ \A p \in DOMAIN waiting : waiting'[p + 1] = waiting[p]
      /\ \A p \in DOMAIN waiting' : p # 1 => p - 1 \in DOMAIN waiting /\ waiting'[p] = waiting[p - 1]
  BY <1>1, LPushShape
<1>3. Entries(waiting') = Entries(waiting) \cup {k}
  BY <1>1, LPushEntries
<1>4. /\ scheduled' \in Seq(Jobs) /\ DOMAIN scheduled' = 1..(m + 1) /\ m \in Nat
      /\ DOMAIN scheduled = 1..m /\ scheduled'[m + 1] = k
      /\ \A i \in DOMAIN scheduled : scheduled'[i] = scheduled[i]
  BY <1>1
<1>5. Entries(scheduled') = Entries(scheduled) \cup {k}
  <2>1. DOMAIN scheduled' = DOMAIN scheduled \cup {m + 1}
    BY <1>4
  <2>. QED BY <2>1, <1>4 DEF Entries
<1>6. \A i \in DOMAIN scheduled : SubSeq(scheduled', 1, i) = SubSeq(scheduled, 1, i)
  <2>. SUFFICES ASSUME NEW i \in 1..m PROVE SubSeq(scheduled', 1, i) = SubSeq(scheduled, 1, i)
    BY <1>4
  <2>1. /\ SubSeq(scheduled', 1, i) = [x \in 1..i |-> scheduled'[x]]
        /\ SubSeq(scheduled, 1, i) = [x \in 1..i |-> scheduled[x]]
    BY <1>1, <1>4
  <2>2. \A x \in 1..i : scheduled'[x] = scheduled[x]
    BY <1>4
  <2>. QED BY <2>1, <2>2
<1>7. Entries(scheduled) \cup {k} \subseteq Entries(SubSeq(scheduled', 1, m + 1))
  <2>1. SubSeq(scheduled', 1, m + 1) = [x \in 1..(m + 1) |-> scheduled'[x]]
    BY <1>4
  <2>. QED BY <2>1, <1>4, <1>5 DEF Entries
<1>. HIDE DEF n, m
<1>8. ASSUME NEW p \in DOMAIN waiting', NEW i \in DOMAIN scheduled',
             waiting'[p] \notin taken', scheduled'[i] \notin taken'
      PROVE  \/ waiting'[p] \in Entries(SubSeq(scheduled', 1, i))
             \/ \E q \in DOMAIN waiting' : p < q /\ waiting'[q] = scheduled'[i]
  <2>1. waiting'[p] \in Entries(scheduled) \cup {k}
    BY <1>3, <1>8 DEF Entries, OrderInv
  <2>2. CASE i = m + 1
    BY <2>1, <2>2, <1>7
  <2>3. CASE i # m + 1
    <3>1. i \in DOMAIN scheduled
      BY <2>3, <1>4
    <3>2. scheduled'[i] = scheduled[i] /\ scheduled[i] \notin taken
      BY <3>1, <1>1, <1>4, <1>8
    <3>3. CASE p = 1
      <4>1. scheduled[i] \in Entries(waiting)
        BY <3>1, <3>2 DEF OrderInv, Entries
      <4>2. PICK q \in DOMAIN waiting : waiting[q] = scheduled[i]
        BY <4>1 DEF Entries
      <4>3. q + 1 \in DOMAIN waiting' /\ p < q + 1 /\ waiting'[q + 1] = scheduled'[i]
        BY <4>2, <3>2, <3>3, <1>2
      <4>. QED BY <4>3
    <3>4. CASE p # 1
      <4>1. p - 1 \in DOMAIN waiting /\ waiting'[p] = waiting[p - 1] /\ waiting[p - 1] \notin taken
        BY <3>4, <1>1, <1>2, <1>8
      <4>2. CASE waiting[p - 1] \in Entries(SubSeq(scheduled, 1, i))
        BY <4>1, <4>2, <3>1, <1>6
      <4>3. CASE \E q \in DOMAIN waiting : p - 1 < q /\ waiting[q] = scheduled[i]
        <5>1. PICK q \in DOMAIN waiting : p - 1 < q /\ waiting[q] = scheduled[i]
          BY <4>3
        <5>2. q + 1 \in DOMAIN waiting' /\ p < q + 1 /\ waiting'[q + 1] = scheduled'[i]
          BY <5>1, <3>2, <1>2
        <5>. QED BY <5>2
      <4>. QED BY <4>1, <4>2, <4>3, <3>1, <3>2 DEF OrderInv
    <3>. QED BY <3>3, <3>4
  <2>. QED BY <2>2, <2>3
<1>. QED BY <1>1, <1>3, <1>5, <1>8 DEF OrderInv

LEMMA NextOrderInv ==
    ASSUME DeliveryInv, OrderInv, [Next]_vars
    PROVE  /\ OrderInv'
           /\ taken' = taken \/ (PopJob /\ scheduled' = scheduled)
<1>1. TypeOK
  BY DEF DeliveryInv
<1>2. ASSUME UNCHANGED <<queues, scheduled, taken>>
      PROVE  OrderInv'
  BY <1>2 DEF OrderInv, queues
<1>3. CASE UNCHANGED vars \/ Start \/ ResetDone \/ Wake \/ TakeTimeout
  BY <1>2, <1>3 DEF vars, Start, ResetDone, Wake, TakeTimeout, queues, history
<1>4. ASSUME NEW k \in Jobs, Schedule(k)
      PROVE  OrderInv' /\ taken' = taken
  BY <1>1, <1>4, ScheduleOrder DEF Schedule
<1>5. CASE ResetStep \/ ResetRejected
  <2>1. UNCHANGED <<scheduled, taken>> /\ (Requeue \/ UNCHANGED queues)
    BY <1>5 DEF ResetStep, ResetRejected
  <2>. QED BY <2>1, <1>1, <1>2, RequeueOrder
<1>6. CASE TakeRejected \/ TakeResent \/ \E s \in Slots : TakeJob(s)
  <2>1. scheduled' = scheduled /\ (PopJob \/ UNCHANGED <<queues, taken>>)
    BY <1>6 DEF TakeRejected, TakeResent, TakeJob
  <2>. QED BY <2>1, <1>1, <1>2, PopOrder
<1>7. ASSUME NEW s \in Slots, Proceeds(s)
      PROVE  OrderInv' /\ taken' = taken
  BY <1>1, <1>2, <1>7, ProceedsMoves
<1>8. ASSUME NEW s \in Slots, Serves(s)
      PROVE  OrderInv' /\ taken' = taken
  <2>1. processing \in Seq(Jobs) /\ UNCHANGED <<waiting, scheduled, taken>>
    BY <1>1, <1>8, ServesFinishing DEF TypeOK
  <2>2. Entries(processing') \subseteq Entries(processing)
    BY <2>1, <1>8, ServesFinishing, LRemAllEntries
  <2>. QED BY <2>1, <2>2 DEF OrderInv
<1>9. CASE Dies
  BY <1>2, <1>9, DiesFacts
<1>. QED BY <1>3, <1>4, <1>5, <1>6, <1>7, <1>8, <1>9 DEF Next, Proceeds, Serves, Dies

\* A job is taken for the first time after all that were pushed before it.
THEOREM PublisherFirstTakesInOrder == Spec => FirstTakesInOrder
<1>. DEFINE Step == \A j \in taken' \ taken, i \in DOMAIN scheduled :
                       j \in Entries(SubSeq(scheduled, 1, i)) \/ scheduled[i] \in taken
<1>1. Init => OrderInv
  BY DEF Init, OrderInv, Entries
<1>2. DeliveryInv /\ OrderInv /\ [Next]_vars => OrderInv' /\ [Step]_vars
  BY NextOrderInv, PopOrder DEF DeliveryInv
<1>. QED BY <1>1, <1>2, PublisherDeliveryInv, PTL DEF Spec, FirstTakesInOrder

=============================================================================
