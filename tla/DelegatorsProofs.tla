---------------------------- MODULE DelegatorsProofs ----------------------------
(***************************************************************************)
(* Proofs about Delegators, for any accounts and any number of updates,    *)
(* deaths and faults.                                                      *)
(*                                                                         *)
(* That the copy is stale only for a reason rests on the order of answers: *)
(* the newest list the process has is the last one in the queue, so one    *)
(* that is handled may be old, but then a newer one follows.               *)
(***************************************************************************)
EXTENDS Delegators, TLAPS

\* The answers on their way are in the order of the changes.
AnswersInOrder ==
    /\ \A i \in DOMAIN answers : delegators.version <= answers[i].version
    /\ \A i \in DOMAIN answers : answers[i].version <= members.version
    /\ \A i, j \in DOMAIN answers : i <= j => answers[i].version <= answers[j].version

\* A process that is not there has no memory.
DownIsEmpty == phase = "down" => asked = 0 /\ answers = <<>> /\ timers = 0 /\ heard = 0

\* StaleOnlyForAReason, from the first answer on.
StaleForAReason ==
    phase \in {"subscribing", "running"} \/ answers # <<>> =>
        Newest = members \/ asked > 0 \/ notices > 0 \/ announcing > 0 \/ missed

ListInv == TypeOK /\ AnswersInOrder /\ DownIsEmpty
CopyInv == ListInv /\ StaleForAReason /\ OneChainPerMessage

-----------------------------------------------------------------------------
\* What Append and Last do to a queue of answers.
LEMMA AppendFacts ==
    ASSUME NEW s \in Seq(Snapshot), NEW x \in Snapshot
    PROVE  /\ Append(s, x) \in Seq(Snapshot) /\ Append(s, x) # <<>>
           /\ Len(Append(s, x)) = Len(s) + 1
           /\ Last(Append(s, x)) = x
           /\ \A i \in DOMAIN Append(s, x) : IF i = Len(s) + 1 THEN Append(s, x)[i] = x
                                             ELSE i \in DOMAIN s /\ Append(s, x)[i] = s[i]
  BY DEF Last

\* What Head, Tail and Last do to one that is not empty.
LEMMA TailFacts ==
    ASSUME NEW s \in Seq(Snapshot), s # <<>>
    PROVE  /\ Head(s) \in Snapshot /\ Head(s) = s[1] /\ 1 \in DOMAIN s
           /\ Tail(s) \in Seq(Snapshot) /\ Len(Tail(s)) = Len(s) - 1
           /\ \A i \in DOMAIN Tail(s) : i \in Nat /\ i + 1 \in DOMAIN s /\ Tail(s)[i] = s[i + 1]
           /\ IF Tail(s) = <<>> THEN Last(s) = Head(s) ELSE Last(Tail(s)) = Last(s)
  BY DEF Last

LEMMA InitListInv == Init => ListInv
<1> SUFFICES ASSUME Init PROVE ListInv
  OBVIOUS
<1>1. PICK start \in SUBSET Names : members = [list |-> start, version |-> 0]
  BY DEF Init
<1>2. members \in Snapshot /\ members.version = 0 /\ Nobody \in Snapshot /\ Nobody.version = 0
  BY <1>1 DEF Snapshot, Nobody
<1>3. SnapshotsOK
  BY <1>2 DEF Init, SnapshotsOK
<1>4. CountsOK
  BY <1>2, DelegatorsAssumption DEF Init, CountsOK
<1>5. FlagsOK
  BY DEF Init, FlagsOK
<1>6. AnswersInOrder /\ DownIsEmpty
  BY DEF Init, AnswersInOrder, DownIsEmpty
<1>. QED BY <1>3, <1>4, <1>5, <1>6 DEF ListInv, TypeOK

-----------------------------------------------------------------------------
\* Versions are numbers, also those of the answers.
LEMMA VersionTypes ==
    ASSUME TypeOK
    PROVE  /\ members.version \in Nat /\ delegators.version \in Nat
           /\ \A i \in DOMAIN answers : answers[i] \in Snapshot /\ answers[i].version \in Nat
<1>1. \A x \in Snapshot : x.version \in Nat
  BY DEF Snapshot
<1>2. \A i \in DOMAIN answers : answers[i] \in Snapshot
  BY DEF TypeOK, SnapshotsOK
<1>. QED BY <1>1, <1>2 DEF TypeOK, SnapshotsOK

LEMMA NextListInv ==
    ASSUME ListInv, [Next]_vars
    PROVE  ListInv'
<1>0. SnapshotsOK /\ CountsOK /\ FlagsOK /\ TypeOK /\ AnswersInOrder /\ DownIsEmpty
  BY DEF ListInv, TypeOK
<1>1. ASSUME UNCHANGED <<members, delegators, answers>>
      PROVE  SnapshotsOK' /\ AnswersInOrder'
  BY <1>0, <1>1 DEF SnapshotsOK, AnswersInOrder
<1>2. ASSUME NEW n \in Names, AddDelegator(n) \/ RemoveDelegator(n) PROVE ListInv'
  <2>1. members.list \in SUBSET Names
    BY <1>0 DEF SnapshotsOK, Snapshot
  <2>2. PICK newList \in SUBSET Names : Change(newList)
    BY <1>2, <2>1 DEF AddDelegator, RemoveDelegator
  <2>3. /\ members' \in Snapshot /\ announcing' \in Nat
        /\ members'.version \in {members.version, members.version + 1}
        /\ announcing' - announcing = members'.version - members.version
    <3>0. announcing \in Nat /\ members \in Snapshot /\ members.version \in Nat
      BY <1>0, VersionTypes DEF SnapshotsOK, CountsOK
    <3>1. CASE newList = members.list
      BY <3>0, <3>1, <2>2 DEF Change
    <3>2. CASE newList # members.list
      <4>1. members' = [list |-> newList, version |-> members.version + 1]
            /\ announcing' = announcing + 1
        BY <3>2, <2>2 DEF Change
      <4>. QED BY <4>1, <3>0 DEF Snapshot
    <3>. QED BY <3>1, <3>2
  <2>4. /\ updates' = updates + 1 /\ updates < MaxUpdates
        /\ UNCHANGED <<phase, delegators, asked, answers, timers, subscribed, notices, heard,
                       missed, deaths, faults>>
    BY <2>2 DEF Change, reloads, channel
  <2>5. SnapshotsOK'
    BY <2>3, <2>4, <1>0, VersionTypes DEF SnapshotsOK
  <2>6. CountsOK'
    BY <2>3, <2>4, <1>0, VersionTypes, DelegatorsAssumption DEF CountsOK
  <2>7. FlagsOK' /\ DownIsEmpty'
    BY <2>4, <1>0 DEF FlagsOK, DownIsEmpty
  <2>8. AnswersInOrder'
    BY <2>3, <2>4, <1>0, VersionTypes DEF AnswersInOrder
  <2>. QED BY <2>5, <2>6, <2>7, <2>8 DEF ListInv, TypeOK
<1>3. CASE Publish
  <2>1. CountsOK'
    BY <1>0, <1>3, VersionTypes DEF Publish, CountsOK, list, reloads, channel
  <2>2. FlagsOK'
    BY <1>0, <1>3 DEF Publish, FlagsOK, channel
  <2>3. DownIsEmpty'
    BY <1>0, <1>3 DEF Publish, DownIsEmpty, FlagsOK, CountsOK, list, reloads, channel
  <2>. QED BY <2>1, <2>2, <2>3, <1>1, <1>3 DEF Publish, list, reloads, ListInv, TypeOK
<1>4. CASE PublishLost
  <2>1. CountsOK'
    BY <1>0, <1>4, VersionTypes, DelegatorsAssumption DEF PublishLost, CountsOK, list, reloads, channel
  <2>2. FlagsOK'
    BY <1>0, <1>4 DEF PublishLost, FlagsOK, channel
  <2>3. DownIsEmpty'
    BY <1>0, <1>4 DEF PublishLost, DownIsEmpty, FlagsOK, CountsOK, list, reloads, channel
  <2>. QED BY <2>1, <2>2, <2>3, <1>1, <1>4 DEF PublishLost, list, reloads, ListInv, TypeOK
<1>5. CASE Boot
  <2>1. CountsOK'
    BY <1>0, <1>5, VersionTypes DEF Boot, CountsOK, list, reloads, channel
  <2>2. FlagsOK'
    BY <1>0, <1>5 DEF Boot, FlagsOK, channel
  <2>3. DownIsEmpty'
    BY <1>0, <1>5 DEF Boot, DownIsEmpty, FlagsOK, CountsOK, list, reloads, channel
  <2>. QED BY <2>1, <2>2, <2>3, <1>1, <1>5 DEF Boot, list, reloads, ListInv, TypeOK
<1>6. CASE ServeReload
  <2>0. /\ answers \in Seq(Snapshot) /\ members \in Snapshot
        /\ delegators.version <= members.version
        /\ answers' = Append(answers, members)
        /\ UNCHANGED <<members, delegators>>
    BY <1>0, <1>6 DEF ServeReload, SnapshotsOK, list
  <2>1. /\ answers' \in Seq(Snapshot) /\ answers' # <<>>
        /\ \A i \in DOMAIN answers' : IF i = Len(answers) + 1 THEN answers'[i] = members
                                      ELSE i \in DOMAIN answers /\ answers'[i] = answers[i]
    BY <2>0, AppendFacts
  <2>2. SnapshotsOK'
    BY <1>0, <2>0, <2>1 DEF SnapshotsOK
  <2>3. CountsOK'
    BY <1>0, <1>6 DEF ServeReload, CountsOK, list, channel
  <2>9. FlagsOK'
    BY <1>0, <1>6 DEF ServeReload, FlagsOK, channel
  <2>4. \A i \in DOMAIN answers' : /\ delegators.version <= answers'[i].version
                                   /\ answers'[i].version <= members.version
    BY <1>0, <2>0, <2>1, VersionTypes DEF AnswersInOrder
  <2>5. ASSUME NEW i \in DOMAIN answers', NEW j \in DOMAIN answers', i <= j
        PROVE  answers'[i].version <= answers'[j].version
    <3>1. CASE j = Len(answers) + 1
      BY <3>1, <2>1, <2>4
    <3>2. CASE j # Len(answers) + 1
      <4>1. i # Len(answers) + 1
        BY <3>2, <2>0, <2>1, <2>5
      <4>. QED BY <4>1, <3>2, <2>1, <2>5, <1>0 DEF AnswersInOrder
    <3>. QED BY <3>1, <3>2
  <2>6. AnswersInOrder'
    BY <2>0, <2>4, <2>5 DEF AnswersInOrder
  <2>7. DownIsEmpty'
    BY <1>0, <1>6 DEF ServeReload, DownIsEmpty, CountsOK
  <2>. QED BY <2>2, <2>3, <2>6, <2>7, <2>9 DEF ListInv, TypeOK
<1>7. CASE HandleReload
  <2>0. /\ answers \in Seq(Snapshot) /\ answers # <<>>
        /\ delegators' = Head(answers) /\ answers' = Tail(answers)
        /\ UNCHANGED members
    BY <1>0, <1>7 DEF HandleReload, SnapshotsOK, list
  <2>1. /\ answers' \in Seq(Snapshot) /\ delegators' \in Snapshot
        /\ delegators' = answers[1] /\ 1 \in DOMAIN answers
        /\ \A i \in DOMAIN answers' : /\ i \in Nat /\ i + 1 \in DOMAIN answers
                                      /\ answers'[i] = answers[i + 1]
    BY <2>0, TailFacts
  <2>2. delegators'.version <= members.version
    BY <1>0, <2>1 DEF AnswersInOrder
  <2>3. SnapshotsOK'
    BY <1>0, <2>0, <2>1, <2>2 DEF SnapshotsOK
  <2>4. CountsOK' /\ FlagsOK'
    BY <1>0, <1>7 DEF HandleReload, CountsOK, FlagsOK, list, channel
  <2>5. \A i \in DOMAIN answers' : /\ delegators'.version <= answers'[i].version
                                   /\ answers'[i].version <= members.version
    <3>1. ASSUME NEW i \in DOMAIN answers' PROVE 1 <= i + 1
      BY <3>1, <2>1
    <3>. QED BY <1>0, <2>1, <3>1 DEF AnswersInOrder
  <2>6. ASSUME NEW i \in DOMAIN answers', NEW j \in DOMAIN answers', i <= j
        PROVE  answers'[i].version <= answers'[j].version
    <3>1. i + 1 \in DOMAIN answers /\ j + 1 \in DOMAIN answers /\ i + 1 <= j + 1
      BY <2>1, <2>6
    <3>. QED BY <3>1, <2>1, <1>0 DEF AnswersInOrder
  <2>7. AnswersInOrder'
    BY <2>0, <2>5, <2>6 DEF AnswersInOrder
  <2>8. DownIsEmpty'
    BY <1>0, <1>7 DEF HandleReload, DownIsEmpty
  <2>. QED BY <2>3, <2>4, <2>7, <2>8 DEF ListInv, TypeOK
<1>8. CASE ServeSubscribe
  <2>1. CountsOK'
    BY <1>0, <1>8, VersionTypes DEF ServeSubscribe, CountsOK, list, reloads, channel
  <2>2. FlagsOK'
    BY <1>0, <1>8 DEF ServeSubscribe, FlagsOK, channel
  <2>3. DownIsEmpty'
    BY <1>0, <1>8 DEF ServeSubscribe, DownIsEmpty, FlagsOK, CountsOK, list, reloads, channel
  <2>. QED BY <2>1, <2>2, <2>3, <1>1, <1>8 DEF ServeSubscribe, list, reloads, ListInv, TypeOK
<1>9. CASE Subscribed
  <2>1. CountsOK'
    BY <1>0, <1>9, VersionTypes DEF Subscribed, CountsOK, list, reloads, channel
  <2>2. FlagsOK'
    BY <1>0, <1>9 DEF Subscribed, FlagsOK, channel
  <2>3. DownIsEmpty'
    BY <1>0, <1>9 DEF Subscribed, DownIsEmpty, FlagsOK, CountsOK, list, reloads, channel
  <2>. QED BY <2>1, <2>2, <2>3, <1>1, <1>9 DEF Subscribed, list, reloads, ListInv, TypeOK
<1>10. CASE HandleNotice
  <2>1. CountsOK'
    BY <1>0, <1>10, VersionTypes DEF HandleNotice, CountsOK, list, reloads, channel
  <2>2. FlagsOK'
    BY <1>0, <1>10 DEF HandleNotice, FlagsOK, channel
  <2>3. DownIsEmpty'
    BY <1>0, <1>10 DEF HandleNotice, DownIsEmpty, FlagsOK, CountsOK, list, reloads, channel
  <2>. QED BY <2>1, <2>2, <2>3, <1>1, <1>10 DEF HandleNotice, list, reloads, ListInv, TypeOK
<1>11. CASE TimerFires
  <2>1. CountsOK'
    BY <1>0, <1>11, VersionTypes DEF TimerFires, CountsOK, list, reloads, channel
  <2>2. FlagsOK'
    BY <1>0, <1>11 DEF TimerFires, FlagsOK, channel
  <2>3. DownIsEmpty'
    BY <1>0, <1>11 DEF TimerFires, DownIsEmpty, FlagsOK, CountsOK, list, reloads, channel
  <2>. QED BY <2>1, <2>2, <2>3, <1>1, <1>11 DEF TimerFires, list, reloads, ListInv, TypeOK
<1>12. CASE SubscriberLost
  <2>1. CountsOK'
    BY <1>0, <1>12, VersionTypes, DelegatorsAssumption DEF SubscriberLost, CountsOK, list, reloads, channel
  <2>2. FlagsOK'
    BY <1>0, <1>12 DEF SubscriberLost, FlagsOK, channel
  <2>3. DownIsEmpty'
    BY <1>0, <1>12 DEF SubscriberLost, DownIsEmpty, FlagsOK, CountsOK, list, reloads, channel
  <2>. QED BY <2>1, <2>2, <2>3, <1>1, <1>12 DEF SubscriberLost, list, reloads, ListInv, TypeOK
<1>13. CASE CommandRejected \/ Crash
  <2>1. Die /\ UNCHANGED <<list, missed>>
    BY <1>13 DEF CommandRejected, Crash
  <2>2. deaths' \in 0..MaxDeaths /\ faults' \in 0..MaxFaults
    BY <1>0, <1>13, DelegatorsAssumption DEF CommandRejected, Crash, CountsOK
  <2>3. Nobody \in Snapshot /\ Nobody.version = 0
    BY DEF Nobody, Snapshot
  <2>4. SnapshotsOK'
    BY <1>0, <2>1, <2>3, VersionTypes DEF Die, SnapshotsOK, list
  <2>5. CountsOK'
    <3>1. /\ asked' = 0 /\ timers' = 0 /\ notices' = 0 /\ heard' = 0
          /\ UNCHANGED <<members, announcing, updates>>
      BY <2>1 DEF Die, list
    <3>2. announcing <= members.version
      BY <1>0, VersionTypes DEF CountsOK
    <3>. QED BY <3>1, <3>2, <1>0, <2>2 DEF CountsOK
  <2>6. FlagsOK'
    BY <1>0, <2>1 DEF Die, FlagsOK
  <2>7. AnswersInOrder' /\ DownIsEmpty'
    BY <2>1 DEF Die, AnswersInOrder, DownIsEmpty
  <2>. QED BY <2>4, <2>5, <2>6, <2>7 DEF ListInv, TypeOK
<1>14. CASE UNCHANGED vars
  <2>1. CountsOK' /\ FlagsOK' /\ DownIsEmpty'
    BY <1>0, <1>14 DEF vars, list, reloads, channel, CountsOK, FlagsOK, DownIsEmpty
  <2>. QED BY <2>1, <1>1, <1>14 DEF vars, list, reloads, ListInv, TypeOK
<1>. QED BY <1>2, <1>3, <1>4, <1>5, <1>6, <1>7, <1>8, <1>9, <1>10, <1>11, <1>12, <1>13,
            <1>14 DEF Next

\* The types hold, the copy never reflects changes that were not made, and each
\* change is announced at most once (DelegatorManager.ts:9-21).
THEOREM DelegatorsTypeOK == Spec => []TypeOK
<1>1. Spec => []ListInv
  BY InitListInv, NextListInv, PTL DEF Spec
<1>2. ListInv => TypeOK
  BY DEF ListInv
<1>. QED BY <1>1, <1>2, PTL

-----------------------------------------------------------------------------
\* Reloads that overlap do not bring an older list back
\* (DelegatorManager.ts:54-59): answers are handled in the order of the changes.
THEOREM DelegatorsNeverOlder == Spec => NeverOlder
<1>1. ASSUME ListInv, [Next]_vars
      PROVE  [phase' = "down" \/ delegators.version <= delegators'.version]_vars
  <2>0. TypeOK /\ AnswersInOrder
    BY <1>1 DEF ListInv
  <2>1. CASE HandleReload
    <3>1. /\ answers \in Seq(Snapshot) /\ answers # <<>>
          /\ delegators' = Head(answers)
      BY <2>0, <2>1 DEF HandleReload, TypeOK, SnapshotsOK
    <3>. QED BY <2>0, <3>1, TailFacts DEF AnswersInOrder
  <2>2. CASE CommandRejected \/ Crash
    BY <2>2 DEF CommandRejected, Crash, Die
  <2>3. CASE UNCHANGED delegators
    BY <2>0, <2>3, VersionTypes
  <2>4. HandleReload \/ CommandRejected \/ Crash \/ UNCHANGED delegators
    BY <1>1 DEF Next, AddDelegator, RemoveDelegator, Change, Publish, PublishLost, Boot,
       ServeReload, ServeSubscribe, Subscribed, HandleNotice, TimerFires, SubscriberLost,
       vars, reloads
  <2>. QED BY <2>1, <2>2, <2>3, <2>4
<1>2. Spec => []ListInv
  BY InitListInv, NextListInv, PTL DEF Spec
<1>. QED BY <1>1, <1>2, PTL DEF Spec, NeverOlder

-----------------------------------------------------------------------------
LEMMA InitCopyInv == Init => StaleForAReason /\ OneChainPerMessage
  BY DEF Init, StaleForAReason, OneChainPerMessage

LEMMA NextStaleForAReason ==
    ASSUME ListInv, StaleForAReason, [Next]_vars
    PROVE  StaleForAReason'
<1>0. /\ answers \in Seq(Snapshot) /\ members \in Snapshot
      /\ asked \in Nat /\ notices \in Nat /\ announcing \in Nat
      /\ phase = "down" => answers = <<>>
  BY DEF ListInv, TypeOK, SnapshotsOK, CountsOK, DownIsEmpty
<1>1. ASSUME UNCHANGED <<members, delegators, answers, phase>>,
             \/ asked' > 0 \/ notices' > 0 \/ announcing' > 0 \/ missed'
             \/ UNCHANGED <<asked, notices, announcing, missed>>
      PROVE  StaleForAReason'
  BY <1>1 DEF StaleForAReason, Newest
<1>2. ASSUME NEW n \in Names, AddDelegator(n) \/ RemoveDelegator(n) PROVE StaleForAReason'
  <2>1. PICK newList : Change(newList)
    BY <1>2 DEF AddDelegator, RemoveDelegator
  <2>2. UNCHANGED <<phase, reloads, channel, missed>>
    BY <2>1 DEF Change
  <2>3. CASE UNCHANGED <<members, announcing>>
    BY <2>2, <2>3, <1>1 DEF reloads, channel
  <2>4. CASE announcing' = announcing + 1
    BY <2>2, <2>4, <1>0 DEF StaleForAReason
  <2>. QED BY <2>1, <2>3, <2>4 DEF Change
<1>3. CASE Publish
  BY <1>0, <1>1, <1>3 DEF Publish, reloads
<1>4. CASE PublishLost
  BY <1>1, <1>4 DEF PublishLost, reloads
<1>5. CASE Boot
  BY <1>0, <1>5 DEF Boot, StaleForAReason
<1>6. CASE ServeReload
  BY <1>0, <1>6, AppendFacts DEF ServeReload, StaleForAReason, Newest, list
<1>7. CASE HandleReload
  <2>1. answers # <<>>
    BY <1>7 DEF HandleReload
  <2>2. Newest' = Newest
    BY <1>0, <1>7, TailFacts DEF HandleReload, Newest
  <2>. QED BY <1>7, <2>1, <2>2 DEF HandleReload, StaleForAReason, list, channel
<1>8. CASE ServeSubscribe
  BY <1>1, <1>8 DEF ServeSubscribe, list, reloads
<1>9. CASE Subscribed
  <2>1. UNCHANGED <<list, reloads>> /\ phase = "subscribing"
    BY <1>9 DEF Subscribed
  <2>2. (missed => missed') /\ (missed' \/ UNCHANGED notices)
    <3>1. PICK dropped \in 0..notices :
            notices' = notices - dropped /\ missed' = (missed \/ dropped > 0)
      BY <1>9 DEF Subscribed
    <3>2. dropped > 0 \/ notices - dropped = notices
      BY <1>0
    <3>. QED BY <3>1, <3>2, Zenon
  <2>. QED BY <2>1, <2>2 DEF StaleForAReason, Newest, list, reloads
<1>10. CASE HandleNotice
  BY <1>0, <1>1, <1>10 DEF HandleNotice, list
<1>11. CASE TimerFires
  BY <1>0, <1>1, <1>11 DEF TimerFires, list
<1>12. CASE SubscriberLost
  <2>1. UNCHANGED <<list, reloads, phase>>
    BY <1>12 DEF SubscriberLost
  <2>2. (missed => missed') /\ (missed' \/ notices = 0) /\ notices' = 0
    <3>1. missed' = (missed \/ notices > 0) /\ notices' = 0
      BY <1>12 DEF SubscriberLost
    <3>2. notices > 0 \/ notices = 0
      BY <1>0
    <3>. QED BY <3>1, <3>2, Zenon
  <2>. QED BY <2>1, <2>2 DEF StaleForAReason, Newest, list, reloads
<1>13. CASE CommandRejected \/ Crash
  BY <1>13 DEF CommandRejected, Crash, Die, StaleForAReason
<1>14. CASE UNCHANGED vars
  BY <1>1, <1>14 DEF vars, list, reloads, channel
<1>. QED BY <1>2, <1>3, <1>4, <1>5, <1>6, <1>7, <1>8, <1>9, <1>10, <1>11, <1>12, <1>13,
            <1>14 DEF Next

LEMMA NextOneChainPerMessage ==
    ASSUME ListInv, OneChainPerMessage, [Next]_vars
    PROVE  OneChainPerMessage'
<1>0. /\ answers \in Seq(Snapshot) /\ members \in Snapshot
      /\ asked \in Nat /\ timers \in Nat /\ heard \in Nat
      /\ DownIsEmpty
  BY DEF ListInv, TypeOK, SnapshotsOK, CountsOK
<1>1. CASE Boot
  BY <1>0, <1>1 DEF Boot, OneChainPerMessage, DownIsEmpty, channel
<1>2. CASE ServeReload
  BY <1>0, <1>2, AppendFacts DEF ServeReload, OneChainPerMessage, channel
<1>3. CASE HandleReload
  <2>0. /\ answers # <<>> /\ answers' = Tail(answers)
        /\ timers' = timers + 1 /\ UNCHANGED <<asked, heard>>
    BY <1>3 DEF HandleReload, channel
  <2>1. Len(answers') = Len(answers) - 1 /\ Len(answers) \in Nat
    BY <1>0, <2>0, TailFacts
  <2>2. phase # "down"
    BY <1>0, <1>3 DEF HandleReload, DownIsEmpty
  <2>. QED BY <1>0, <2>0, <2>1, <2>2 DEF OneChainPerMessage
<1>4. CASE HandleNotice
  <2>1. Len(answers) \in Nat
    BY <1>0
  <2>2. /\ phase = "running" /\ heard' = heard + 1 /\ asked' = asked + 1
        /\ UNCHANGED <<phase, timers, answers>>
    BY <1>4 DEF HandleNotice
  <2>. QED BY <1>0, <2>1, <2>2 DEF OneChainPerMessage
<1>5. CASE TimerFires
  <2>1. Len(answers) \in Nat
    BY <1>0
  <2>2. /\ timers > 0 /\ timers' = timers - 1 /\ asked' = asked + 1
        /\ UNCHANGED <<phase, heard, answers>>
    BY <1>5 DEF TimerFires, channel
  <2>. QED BY <1>0, <2>1, <2>2 DEF OneChainPerMessage
<1>6. CASE CommandRejected \/ Crash
  BY <1>6 DEF CommandRejected, Crash, Die, OneChainPerMessage
<1>7. CASE Subscribed
  BY <1>7 DEF Subscribed, OneChainPerMessage, reloads
<1>8. CASE UNCHANGED <<phase, timers, asked, answers, heard>>
  BY <1>8 DEF OneChainPerMessage
<1>9. \/ Boot \/ ServeReload \/ HandleReload \/ HandleNotice \/ TimerFires
      \/ CommandRejected \/ Crash \/ Subscribed
      \/ UNCHANGED <<phase, timers, asked, answers, heard>>
  BY DEF Next, AddDelegator, RemoveDelegator, Change, Publish, PublishLost, ServeSubscribe,
     SubscriberLost, vars, reloads, channel
<1>. QED BY <1>1, <1>2, <1>3, <1>4, <1>5, <1>6, <1>7, <1>8, <1>9

LEMMA DelegatorsCopyInv == Spec => []CopyInv
<1>1. Init => CopyInv
  BY InitListInv, InitCopyInv DEF CopyInv
<1>2. CopyInv /\ [Next]_vars => CopyInv'
  BY NextListInv, NextStaleForAReason, NextOneChainPerMessage DEF CopyInv
<1>. QED BY <1>1, <1>2, PTL DEF Spec

\* The daemon's copy is wrong only while a remedy is on its way or an announcement
\* got lost (DelegatorManager.ts:31-44, 54-76).
THEOREM DelegatorsStaleOnlyForAReason == Spec => []StaleOnlyForAReason
<1>1. CopyInv => StaleOnlyForAReason
  BY DEF CopyInv, StaleForAReason, StaleOnlyForAReason
<1>. QED BY <1>1, DelegatorsCopyInv, PTL

\* A process has one chain of reloads for its start and one for each message it
\* has handled, for as long as it lives (DelegatorManager.ts:73-75).
THEOREM DelegatorsOneChainPerMessage == Spec => []OneChainPerMessage
<1>1. CopyInv => OneChainPerMessage
  BY DEF CopyInv
<1>. QED BY <1>1, DelegatorsCopyInv, PTL

=============================================================================
