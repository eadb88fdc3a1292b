------------------------------ MODULE DaemonProofs ------------------------------
(***************************************************************************)
(* Proofs about Daemon, for any chains, toggles, deaths and failures.      *)
(***************************************************************************)
EXTENDS Daemon, FiniteSetTheorems, WellFoundedInduction, TLAPS

-----------------------------------------------------------------------------
(* The chain does not change, and nor do its operations.                   *)
LEMMA SameChain ==
    ASSUME chain' = chain
    PROVE  Orders' = Orders /\ RuleOps' = RuleOps /\ Moments' = Moments
  BY DEF Orders, RuleOps, Moments, OpAt

LEMMA MomentFacts ==
    ASSUME chain \in Chains, NEW m \in Moments
    PROVE  /\ m = <<m[1], m[2]>>
           /\ m[1] \in 1..Len(chain) /\ m[2] \in DOMAIN chain[m[1]] /\ m[2] \in Nat
<1>1. chain \in Seq(Seq(Ops))
  BY DaemonAssumption
<1>2. PICK b \in DOMAIN chain : m \in {<<b, i>> : i \in DOMAIN chain[b]}
  BY DEF Moments, MomentsOf
<1>3. PICK i \in DOMAIN chain[b] : m = <<b, i>>
  BY <1>2
<1>4. chain[b] \in Seq(Ops)
  BY <1>1
<1>. QED BY <1>1, <1>3, <1>4

LEMMA MomentIntro ==
    ASSUME chain \in Chains, NEW b \in 1..Len(chain), NEW i \in DOMAIN chain[b]
    PROVE  <<b, i>> \in Moments /\ OpAt(<<b, i>>) = chain[b][i]
<1>1. chain \in Seq(Seq(Ops))
  BY DaemonAssumption
<1>. QED BY <1>1 DEF Moments, MomentsOf, OpAt

-----------------------------------------------------------------------------
(* The commands of a block: one for each operation it is sent for.         *)
LEMMA SentFinite ==
    ASSUME chain \in Chains, cursor \in 1..Len(chain)
    PROVE  /\ SentOps \subseteq DOMAIN chain[cursor] /\ SentOps \subseteq Nat
           /\ IsFiniteSet(SentOps) /\ Cardinality(SentOps) \in Nat
<1>. DEFINE n == Len(chain[cursor])
<1>1. chain[cursor] \in Seq(Ops)
  BY DaemonAssumption
<1>2. n \in Nat /\ DOMAIN chain[cursor] = 1..n
  BY <1>1
<1>3. SentOps \subseteq 1..n
  BY <1>2 DEF SentOps
<1>4. IsFiniteSet(1..n)
  BY <1>2, FS_Interval
<1>5. IsFiniteSet(SentOps)
  BY <1>3, <1>4, FS_Subset
<1>. QED BY <1>2, <1>3, <1>5, FS_CardinalityType

\* Places are numbered in their order, without gaps.
LEMMA RankIncreases ==
    ASSUME chain \in Chains, cursor \in 1..Len(chain)
    PROVE  /\ \A i \in SentOps : RankOf(i) \in 1..Cardinality(SentOps)
           /\ \A i, j \in SentOps : i < j => RankOf(i) < RankOf(j)
           /\ \A i, j \in SentOps : RankOf(i) = RankOf(j) => i = j
<1>. DEFINE n == Cardinality(SentOps)
<1>1. n \in Nat /\ SentOps \subseteq Nat /\ IsFiniteSet(SentOps)
  BY SentFinite
<1>2. ASSUME NEW i \in SentOps
      PROVE  RankOf(i) \in 1..n
  <2>1. {j \in SentOps : j <= i} \subseteq SentOps /\ i \in {j \in SentOps : j <= i}
    BY <1>1
  <2>2. /\ IsFiniteSet({j \in SentOps : j <= i}) /\ RankOf(i) \in Nat /\ RankOf(i) <= n
    BY <1>1, <2>1, FS_Subset, FS_CardinalityType DEF RankOf
  <2>3. RankOf(i) # 0
    BY <2>1, <2>2, FS_EmptySet DEF RankOf
  <2>. QED BY <2>2, <2>3, <1>1
<1>3. ASSUME NEW i \in SentOps, NEW j \in SentOps, i < j
      PROVE  RankOf(i) < RankOf(j)
  <2>. DEFINE B == {m \in SentOps : m <= i}
              C == {m \in SentOps : m <= j}
  <2>1. i \in Nat /\ j \in Nat /\ \A m \in SentOps : m \in Nat
    BY <1>1
  <2>2. B \subseteq C
    <3>. SUFFICES ASSUME NEW m \in SentOps, m <= i PROVE m <= j
      OBVIOUS
    <3>. QED BY <1>3, <2>1
  <2>3. j <= j /\ ~(j <= i)
    BY <1>3, <2>1
  <2>4. B \subseteq C /\ j \in C /\ j \notin B
    BY <2>2, <2>3
  <2>5. IsFiniteSet(C) /\ C # B
    BY <1>1, <2>4, FS_Subset
  <2>6. Cardinality(B) < Cardinality(C)
    BY <2>4, <2>5, FS_Subset, FS_CardinalityType
  <2>. QED BY <2>6 DEF RankOf
<1>4. \A i, j \in SentOps : RankOf(i) = RankOf(j) => i = j
  <2>. SUFFICES ASSUME NEW i \in SentOps, NEW j \in SentOps, RankOf(i) = RankOf(j)
                PROVE  i = j
    OBVIOUS
  <2>1. ~(RankOf(i) < RankOf(j)) /\ ~(RankOf(j) < RankOf(i))
    BY <1>1, <1>2
  <2>2. ~(i < j) /\ ~(j < i)
    BY <1>3, <2>1
  <2>. QED BY <1>1, <2>2
<1>. QED BY <1>2, <1>3, <1>4

LEMMA RankFacts ==
    ASSUME chain \in Chains, cursor \in 1..Len(chain),
           NEW k \in 1..Cardinality(SentOps)
    PROVE  \E i \in SentOps : RankOf(i) = k
<1>. DEFINE n == Cardinality(SentOps)
            R == [i \in SentOps |-> RankOf(i)]
<1>1. n \in Nat /\ IsFiniteSet(SentOps)
  BY SentFinite
<1>2. R \in Injection(SentOps, 1..n)
  BY RankIncreases DEF Injection, IsInjective
<1>3. IsFiniteSet(1..n) /\ Cardinality(1..n) = n
  BY <1>1, FS_Interval
<1>4. R \in Surjection(SentOps, 1..n)
  BY <1>1, <1>2, <1>3, FS_Injection
<1>. QED BY <1>4 DEF Surjection

\* What is sent over the connection.
Sendable == UNION {{"save"} \X RuleOps, {"read"} \X Orders, {"processed", "loaded"} \X (1..head)}

\* Operations are commanded one by one, each once, and voteorders only if enabled.
LEMMA CommandsOfBlock ==
    ASSUME chain \in Chains, cursor \in 1..Len(chain)
    PROVE  /\ BlockCommands \in Seq(Sendable)
           /\ \A k \in DOMAIN BlockCommands :
                 /\ BlockCommands[k][1] \in {"save", "read"}
                 /\ BlockCommands[k][2][1] = cursor
                 /\ BlockCommands[k][1] = "read" => enabled /\ BlockCommands[k][2] \in Orders
           /\ \A k, l \in DOMAIN BlockCommands : BlockCommands[k][2] = BlockCommands[l][2] => k = l
           /\ \A k, l \in DOMAIN BlockCommands : k < l => BlockCommands[k][2][2] < BlockCommands[l][2][2]
           /\ \A r \in RuleOps : r[1] = cursor =>
                 \E k \in DOMAIN BlockCommands : BlockCommands[k] = <<"save", r>>
<1>. DEFINE n == Cardinality(SentOps)
            place == [k \in 1..n |-> CHOOSE i \in SentOps : RankOf(i) = k]
<1>1. n \in Nat /\ SentOps \subseteq DOMAIN chain[cursor] /\ SentOps \subseteq Nat
  BY SentFinite
<1>2. \A k \in 1..n : place[k] \in SentOps /\ RankOf(place[k]) = k
  BY RankFacts
<1>3. BlockCommands = [k \in 1..n |-> CommandFor(place[k])]
  BY DEF BlockCommands
<1>. HIDE DEF place
<1>4. ASSUME NEW i \in SentOps
      PROVE  /\ CommandFor(i) \in Sendable /\ CommandFor(i)[1] \in {"save", "read"}
             /\ CommandFor(i)[2] = <<cursor, i>>
             /\ CommandFor(i)[1] = "read" => enabled /\ <<cursor, i>> \in Orders
  <2>1. <<cursor, i>> \in Moments
    BY <1>1, MomentIntro
  <2>2. <<cursor, i>> \in Orders \/ <<cursor, i>> \in RuleOps
    BY <2>1 DEF RuleOps
  <2>3. CASE OpAt(<<cursor, i>>) = "voteorder"
    BY <2>1, <2>3 DEF CommandFor, Orders, Sendable, SentOps
  <2>4. CASE OpAt(<<cursor, i>>) # "voteorder"
    BY <2>1, <2>4 DEF CommandFor, Orders, RuleOps, Sendable
  <2>. QED BY <2>3, <2>4
<1>5. \A k \in 1..n : BlockCommands[k] = CommandFor(place[k]) /\ place[k] \in SentOps
  BY <1>2, <1>3
<1>6. DOMAIN BlockCommands = 1..n
  BY <1>3
<1>7. \A k \in 1..n : BlockCommands[k] \in Sendable
  BY <1>4, <1>5
<1>8. BlockCommands \in Seq(Sendable)
  BY <1>1, <1>3, <1>7
<1>9. ASSUME NEW k \in 1..n, NEW l \in 1..n, BlockCommands[k][2] = BlockCommands[l][2]
      PROVE  k = l
  <2>1. <<cursor, place[k]>> = <<cursor, place[l]>>
    BY <1>4, <1>5, <1>9
  <2>. QED BY <1>2, <2>1
<1>10. ASSUME NEW k \in 1..n
       PROVE  /\ BlockCommands[k][1] \in {"save", "read"}
              /\ BlockCommands[k][2][1] = cursor
              /\ BlockCommands[k][1] = "read" => enabled /\ BlockCommands[k][2] \in Orders
  <2>1. PICK i \in SentOps : BlockCommands[k] = CommandFor(i)
    BY <1>5
  <2>2. BlockCommands[k][2] = <<cursor, i>> /\ BlockCommands[k][1] = CommandFor(i)[1]
    BY <1>4, <2>1
  <2>3. BlockCommands[k][2][1] = cursor
    BY <2>2
  <2>. QED BY <1>4, <2>2, <2>3
<1>11. \A k, l \in 1..n : BlockCommands[k][2] = BlockCommands[l][2] => k = l
  BY <1>9
<1>12. ASSUME NEW k \in 1..n, NEW l \in 1..n, k < l
       PROVE  BlockCommands[k][2][2] < BlockCommands[l][2][2]
  <2>1. BlockCommands[k][2] = <<cursor, place[k]>> /\ BlockCommands[l][2] = <<cursor, place[l]>>
    BY <1>4, <1>5
  <2>2. /\ place[k] \in SentOps /\ place[l] \in SentOps
        /\ RankOf(place[k]) = k /\ RankOf(place[l]) = l
    BY <1>2
  <2>3. place[k] \in Nat /\ place[l] \in Nat /\ k \in Nat /\ l \in Nat
    <3>1. place[k] \in Nat /\ place[l] \in Nat
      BY <1>1, <2>2
    <3>2. k \in Nat /\ l \in Nat
      OBVIOUS
    <3>. QED BY <3>1, <3>2
  <2>4. place[l] < place[k] => l < k
    BY <2>2, RankIncreases
  <2>5. place[l] = place[k] => l = k
    BY <2>2
  <2>6. ~(place[l] < place[k]) /\ place[l] # place[k]
    BY <1>12, <2>3, <2>4, <2>5
  <2>. QED BY <2>1, <2>3, <2>6
<1>13. ASSUME NEW r \in RuleOps, r[1] = cursor
       PROVE  \E k \in 1..n : BlockCommands[k] = <<"save", r>>
  <2>1. r \in Moments /\ r = <<cursor, r[2]>> /\ r[2] \in DOMAIN chain[cursor]
    BY <1>13, MomentFacts DEF RuleOps
  <2>2. OpAt(r) # "voteorder"
    BY <2>1 DEF RuleOps, Orders
  <2>3. r[2] \in SentOps
    BY <2>1, <2>2 DEF SentOps
  <2>4. CommandFor(r[2]) = <<"save", r>>
    BY <2>1, <2>2 DEF CommandFor
  <2>5. RankOf(r[2]) \in 1..n
    BY <2>3, RankIncreases
  <2>6. place[RankOf(r[2])] = r[2]
    BY <1>2, <2>3, <2>5, RankIncreases
  <2>7. BlockCommands[RankOf(r[2])] = CommandFor(r[2])
    BY <1>5, <2>5, <2>6
  <2>. QED BY <2>4, <2>5, <2>7
<1>. HIDE DEF n
<1>. QED BY <1>6, <1>8, <1>10, <1>11, <1>12, <1>13, Zenon

-----------------------------------------------------------------------------
(* Types.                                                                  *)
WorldOK ==
    /\ chain \in Chains /\ head \in 1..Len(chain) /\ sqlBlock \in 1..head
    /\ startFrom \in StartsFrom /\ enabled \in BOOLEAN

StoreOK ==
    /\ rules \subseteq RuleOps /\ \A q, r \in rules : q[1] = r[1] => q = r
    /\ loadedUpTo \in Nat /\ lastProcessed \in 0..head

ProcessOK ==
    /\ phase \in {"down", "preloading", "preloaded", "syncing", "stopped"}
    /\ cursor \in Nat /\ (phase # "down" => cursor # 0)
    /\ wire \in Seq(Sendable)
    /\ handlers \subseteq [order : Orders, step : Steps]

HistoryOK ==
    /\ jobs \in [Orders -> Nat]
    /\ used \in [Orders -> RuleOps \cup {NoRules, Undecided}]
    /\ settled \subseteq Orders /\ abandoned \subseteq Orders
    /\ unsaved \subseteq RuleOps /\ first \in 0..head /\ resent \in [Orders -> Nat]

CountersOK ==
    /\ toggles \in 0..MaxToggles /\ faults \in 0..MaxFaults
    /\ deaths \in 0..(MaxDeaths + faults)

TypeInv == WorldOK /\ StoreOK /\ ProcessOK /\ HistoryOK /\ CountersOK

LEMMA ChainFacts ==
    ASSUME WorldOK
    PROVE  Len(chain) \in Nat /\ head \in Nat /\ head >= 1 /\ sqlBlock \in Nat
  BY DaemonAssumption DEF WorldOK

\* The parts that an action leaves alone.
LEMMA Untouched ==
    ASSUME TypeInv
    PROVE  /\ UNCHANGED <<world, enabled>> => WorldOK'
           /\ UNCHANGED <<chain, head, store>> => StoreOK'
           /\ UNCHANGED <<chain, head, process>> => ProcessOK'
           /\ UNCHANGED <<chain, head, history>> => HistoryOK'
           /\ UNCHANGED counters => CountersOK'
<1>1. UNCHANGED <<world, enabled>> => WorldOK'
  BY DEF TypeInv, WorldOK, world
<1>2. UNCHANGED <<chain, head, store>> => StoreOK'
  BY SameChain DEF TypeInv, StoreOK, store
<1>3. UNCHANGED <<chain, head, process>> => ProcessOK'
  BY SameChain DEF TypeInv, ProcessOK, process, Sendable
<1>4. UNCHANGED <<chain, head, history>> => HistoryOK'
  BY SameChain DEF TypeInv, HistoryOK, history, outcome
<1>5. UNCHANGED counters => CountersOK'
  BY DEF TypeInv, CountersOK, counters
<1>. QED BY <1>1, <1>2, <1>3, <1>4, <1>5

LEMMA SurroundingsTyped ==
    ASSUME TypeInv, NewBlock \/ SqlIndexes \/ Toggle
    PROVE  TypeInv'
<1>1. CASE NewBlock
  <2>1. WorldOK'
    BY <1>1, ChainFacts DEF NewBlock, TypeInv, WorldOK
  <2>2. Orders' = Orders /\ RuleOps' = RuleOps
    BY <1>1, SameChain DEF NewBlock
  <2>3. 1..head \subseteq 1..head' /\ 0..head \subseteq 0..head'
    BY <1>1, ChainFacts DEF NewBlock, TypeInv
  <2>4. Sendable \subseteq Sendable'
    BY <2>2, <2>3 DEF Sendable
  <2>5. wire' \in Seq(Sendable')
    BY <1>1, <2>4 DEF NewBlock, process, TypeInv, ProcessOK
  <2>6. StoreOK' /\ HistoryOK'
    BY <1>1, <2>2, <2>3 DEF NewBlock, TypeInv, StoreOK, HistoryOK, store, history, outcome
  <2>7. ProcessOK'
    BY <1>1, <2>2, <2>5 DEF NewBlock, TypeInv, ProcessOK, process
  <2>. QED BY <1>1, <2>1, <2>6, <2>7, Untouched DEF NewBlock, TypeInv
<1>2. CASE SqlIndexes
  <2>1. WorldOK'
    BY <1>2, ChainFacts DEF SqlIndexes, TypeInv, WorldOK
  <2>. QED BY <1>2, <2>1, Untouched DEF SqlIndexes, TypeInv
<1>3. CASE Toggle
  <2>1. WorldOK'
    BY <1>3 DEF Toggle, TypeInv, WorldOK, world
  <2>2. CountersOK'
    BY <1>3, DaemonAssumption DEF Toggle, TypeInv, CountersOK
  <2>. QED BY <1>3, <2>1, <2>2, Untouched DEF Toggle, TypeInv, world
<1>. QED BY <1>1, <1>2, <1>3

LEMMA StartBlockNat ==
    ASSUME TypeInv
    PROVE  StartBlock \in Nat \ {0}
  BY DaemonAssumption, ChainFacts DEF TypeInv, WorldOK, StoreOK, StartBlock

\* What wiseSQL knows is one operation at most.
LEMMA SqlRulesFacts ==
    ASSUME TypeInv
    PROVE  SqlRules \subseteq RuleOps /\ \A q, r \in SqlRules : q = r
<1>1. SqlRules \subseteq RuleOps
  BY DEF SqlRules
<1>2. ASSUME NEW q \in SqlRules, NEW r \in SqlRules
      PROVE  q = r
  <2>1. q = r \/ (Precedes(q, r) /\ Precedes(r, q))
    BY DEF SqlRules
  <2>2. q[1] \in Nat /\ q[2] \in Nat /\ r[1] \in Nat /\ r[2] \in Nat
    BY <1>1, MomentFacts DEF RuleOps, TypeInv, WorldOK
  <2>. QED BY <2>1, <2>2 DEF Precedes
<1>. QED BY <1>1, <1>2

LEMMA StartupTyped ==
    ASSUME TypeInv, Startup \/ Stop
    PROVE  TypeInv'
<1>1. CASE Boot
  <2>1. ProcessOK'
    BY <1>1, StartBlockNat, ChainFacts, SameChain
       DEF Boot, TypeInv, WorldOK, ProcessOK, Smaller, world, Sendable
  <2>. QED BY <1>1, <2>1, Untouched DEF Boot, TypeInv, world
<1>2. CASE PreloadRules
  <2>1. StoreOK'
    BY <1>2, SqlRulesFacts, SameChain DEF PreloadRules, TypeInv, StoreOK, world
  <2>2. ProcessOK'
    BY <1>2, SameChain DEF PreloadRules, TypeInv, ProcessOK, world, Sendable
  <2>. QED BY <1>2, <2>1, <2>2, Untouched DEF PreloadRules, TypeInv, world
<1>3. CASE PreloadDone
  <2>1. StoreOK'
    BY <1>3, SameChain DEF PreloadDone, TypeInv, StoreOK, ProcessOK, world
  <2>2. ProcessOK'
    BY <1>3, SameChain DEF PreloadDone, TypeInv, ProcessOK, world, Sendable
  <2>. QED BY <1>3, <2>1, <2>2, Untouched DEF PreloadDone, TypeInv, world
<1>4. CASE Stop
  <2>1. ProcessOK'
    BY <1>4, SameChain DEF Stop, TypeInv, ProcessOK, world, Sendable
  <2>. QED BY <1>4, <2>1, Untouched DEF Stop, TypeInv, world
<1>. QED BY <1>1, <1>2, <1>3, <1>4 DEF Startup

\* A block that the synchronizer takes is on the chain.
LEMMA BlockFacts ==
    ASSUME TypeInv, ProcessBlock
    PROVE  /\ cursor \in 1..head /\ cursor \in 1..Len(chain) /\ cursor \in Nat
           /\ chain \in Chains /\ wire \in Seq(Sendable)
           /\ Orders' = Orders /\ RuleOps' = RuleOps /\ Sendable' = Sendable
           /\ BlockCommands \in Seq(Sendable)
<1>1. cursor \in 1..head /\ cursor \in 1..Len(chain) /\ chain \in Chains /\ wire \in Seq(Sendable)
  BY ChainFacts DEF ProcessBlock, TypeInv, ProcessOK, WorldOK
<1>2. chain' = chain /\ head' = head
  BY DEF ProcessBlock, world
<1>3. Orders' = Orders /\ RuleOps' = RuleOps /\ Sendable' = Sendable
  BY <1>2, SameChain DEF Sendable
<1>. QED BY <1>1, <1>3, CommandsOfBlock

LEMMA BlockTyped ==
    ASSUME TypeInv, ProcessBlock
    PROVE  TypeInv'
<1>1. <<"processed", cursor>> \in Sendable
  BY BlockFacts DEF Sendable
<1>2. wire' \in Seq(Sendable)
  BY <1>1, BlockFacts DEF ProcessBlock
<1>3. /\ BlockOrders \subseteq Orders
      /\ \A v \in BlockOrders : Handler(v, "reading") \in [order : Orders, step : Steps]
  BY DEF BlockOrders, Handler, Steps
<1>4. handlers' \subseteq [order : Orders, step : Steps]
  BY <1>3 DEF ProcessBlock, TypeInv, ProcessOK
<1>5. ProcessOK'
  BY <1>2, <1>4, BlockFacts DEF ProcessBlock, TypeInv, ProcessOK
<1>6. HistoryOK'
  BY <1>3, BlockFacts DEF ProcessBlock, TypeInv, HistoryOK, world
<1>. QED BY <1>5, <1>6, Untouched DEF ProcessBlock, TypeInv, world

\* Bounded sets of numbers have a greatest element.
LEMMA Greatest ==
    ASSUME NEW T \in SUBSET Nat, T # {}, NEW n \in Nat, \A x \in T : x <= n
    PROVE  \E x \in T : \A y \in T : y <= x
<1>. DEFINE R == {p \in Nat \X Nat : p[1] < p[2]}
            D == {n - x : x \in T}
<1>1. IsWellFoundedOn(R, Nat)
  BY NatLessThanWellFounded DEF OpToRel
<1>2. D \subseteq Nat /\ D # {}
  <2>1. \A x \in T : n - x \in Nat
    OBVIOUS
  <2>. QED BY <2>1
<1>3. PICK d \in D : \A e \in D : ~(<<e, d>> \in R)
  BY <1>1, <1>2, WFMin
<1>4. PICK x \in T : d = n - x
  OBVIOUS
<1>5. ASSUME NEW y \in T
      PROVE  y <= x
  <2>1. n - y \in Nat /\ n - x \in Nat /\ ~(<<n - y, n - x>> \in R)
    BY <1>2, <1>3, <1>4
  <2>2. ~(n - y < n - x)
    BY <2>1
  <2>. QED BY <2>2
<1>. QED BY <1>5

LEMMA RuleFacts ==
    ASSUME TypeInv
    PROVE  \A r \in RuleOps : r \in Moments /\ r[1] \in Nat /\ r[2] \in Nat /\ r[1] >= 1
  BY MomentFacts DEF RuleOps, TypeInv, WorldOK

LEMMA OrderFacts ==
    ASSUME TypeInv
    PROVE  \A v \in Orders : v \in Moments /\ v[1] \in Nat /\ v[2] \in Nat /\ v[1] >= 1
  BY MomentFacts DEF Orders, TypeInv, WorldOK

\* getRules finds the newest entry up to the voteorder's block, if there is one.
LEMMA LookupFacts ==
    ASSUME TypeInv, NEW v \in Orders
    PROVE  \/ Lookup(v) = NoRules /\ \A r \in rules : ~(r[1] <= v[1])
           \/ /\ Lookup(v) \in rules /\ Lookup(v)[1] <= v[1]
              /\ \A q \in rules : q[1] <= v[1] => q[1] <= Lookup(v)[1]
<1>. DEFINE found == {r \in rules : r[1] <= v[1]}
            T == {r[1] : r \in found}
<1>1. found \subseteq RuleOps /\ v[1] \in Nat
  BY OrderFacts DEF TypeInv, StoreOK
<1>2. CASE found = {}
  BY <1>2 DEF Lookup
<1>3. CASE found # {}
  <2>1. T \in SUBSET Nat /\ T # {} /\ \A x \in T : x <= v[1]
    BY <1>1, <1>3, RuleFacts
  <2>2. PICK x \in T : \A y \in T : y <= x
    BY <1>1, <2>1, Greatest
  <2>3. \E r \in found : \A q \in found : q[1] <= r[1]
    BY <2>2
  <2>4. Lookup(v) \in found /\ \A q \in found : q[1] <= Lookup(v)[1]
    BY <1>3, <2>3 DEF Lookup
  <2>. QED BY <2>4
<1>. QED BY <1>2, <1>3

-----------------------------------------------------------------------------
LEMMA HeadFacts ==
    ASSUME TypeInv, wire # <<>>
    PROVE  /\ Head(wire) \in Sendable /\ Tail(wire) \in Seq(Sendable)
           /\ Command("save") => Operand \in RuleOps
           /\ Command("read") => Operand \in Orders
           /\ Command("processed") \/ Command("loaded") =>
                 Operand \in 1..head /\ Operand \in Nat /\ <<"loaded", Operand>> \in Sendable
<1>1. Head(wire) \in Sendable /\ Tail(wire) \in Seq(Sendable)
  BY DEF TypeInv, ProcessOK
<1>2. Head(wire)[1] = "save" => Head(wire)[2] \in RuleOps
  BY <1>1 DEF Sendable
<1>3. Head(wire)[1] = "read" => Head(wire)[2] \in Orders
  BY <1>1 DEF Sendable
<1>4. Head(wire)[1] \in {"processed", "loaded"} => Head(wire)[2] \in 1..head
  BY <1>1 DEF Sendable
<1>5. Head(wire)[2] \in 1..head => Head(wire)[2] \in Nat /\ <<"loaded", Head(wire)[2]>> \in Sendable
  BY ChainFacts DEF Sendable, TypeInv
<1>. QED BY <1>1, <1>2, <1>3, <1>4, <1>5 DEF Command, Operand

LEMMA SaveTyped ==
    ASSUME TypeInv, NEW r \in RuleOps
    PROVE  SaveRules(r) \subseteq RuleOps /\ \A p, q \in SaveRules(r) : p[1] = q[1] => p = q
  BY DEF SaveRules, TypeInv, StoreOK

LEMMA Handlers ==
    ASSUME TypeInv, NEW v \in Orders, NEW from \in Steps, NEW to \in Steps,
           MoveHandler(v, from, to) \/ DropHandler(v, from)
    PROVE  handlers' \subseteq [order : Orders, step : Steps]
  BY DEF MoveHandler, DropHandler, Handler, TypeInv, ProcessOK

LEMMA InHandFacts ==
    ASSUME TypeInv
    PROVE  InHand \subseteq Orders
  BY DEF InHand, TypeInv, ProcessOK

LEMMA DieTyped ==
    ASSUME TypeInv, Die, UNCHANGED <<chain, head>>,
           UNCHANGED <<jobs, used, settled, unsaved, resent>>, first' \in 0..head
    PROVE  ProcessOK' /\ HistoryOK'
<1>1. Orders' = Orders /\ RuleOps' = RuleOps /\ Sendable' = Sendable
  BY SameChain DEF Sendable
<1>2. abandoned' \subseteq Orders
  BY InHandFacts DEF Die, TypeInv, HistoryOK
<1>. QED BY <1>1, <1>2 DEF Die, TypeInv, ProcessOK, HistoryOK

LEMMA ServeTyped ==
    ASSUME TypeInv,
           Serve \/ SaveRejected \/ ReadRejected \/ RecordRejected
    PROVE  TypeInv'
<1>0. /\ UNCHANGED <<world, enabled>> /\ wire # <<>>
      /\ Orders' = Orders /\ RuleOps' = RuleOps /\ Sendable' = Sendable
  BY SameChain DEF Serve, ServeSave, ServeRead, ServeProcessed, ServeLoaded, SaveRejected,
                   ReadRejected, RecordRejected, Command, world, Sendable
<1>. USE <1>0, HeadFacts
<1>1. CASE ServeSave
  <2>1. StoreOK'
    BY <1>1, SaveTyped DEF ServeSave, TypeInv, StoreOK, world
  <2>2. ProcessOK'
    BY <1>1 DEF ServeSave, TypeInv, ProcessOK
  <2>. QED BY <1>1, <2>1, <2>2, Untouched DEF ServeSave, TypeInv, world
<1>2. CASE SaveRejected
  <2>1. StoreOK'
    BY <1>2, SaveTyped DEF SaveRejected, TypeInv, StoreOK, world
  <2>2. ProcessOK'
    BY <1>2 DEF SaveRejected, TypeInv, ProcessOK
  <2>3. HistoryOK'
    BY <1>2 DEF SaveRejected, TypeInv, HistoryOK, outcome, world
  <2>4. CountersOK'
    BY <1>2, DaemonAssumption DEF SaveRejected, TypeInv, CountersOK
  <2>. QED BY <2>1, <2>2, <2>3, <2>4, Untouched DEF TypeInv
<1>3. CASE ServeRead
  <2>1. Operand \in Orders
    BY <1>3 DEF ServeRead
  <2>2. Lookup(Operand) \in RuleOps \cup {NoRules}
    BY <2>1, LookupFacts DEF TypeInv, StoreOK
  <2>3. handlers' \subseteq [order : Orders, step : Steps]
    BY <1>3, <2>1, Handlers DEF ServeRead, Steps
  <2>4. ProcessOK'
    BY <1>3, <2>3 DEF ServeRead, TypeInv, ProcessOK
  <2>5. used' \in [Orders -> RuleOps \cup {NoRules, Undecided}]
    BY <1>3, <2>1, <2>2 DEF ServeRead, TypeInv, HistoryOK
  <2>6. settled' \subseteq Orders
    BY <1>3, <2>1 DEF ServeRead, TypeInv, HistoryOK
  <2>7. HistoryOK'
    BY <1>3, <2>5, <2>6 DEF ServeRead, TypeInv, HistoryOK, world
  <2>. QED BY <1>3, <2>4, <2>7, Untouched DEF ServeRead, TypeInv, world
<1>4. CASE ReadRejected
  <2>1. Operand \in Orders
    BY <1>4 DEF ReadRejected
  <2>2. handlers' \subseteq [order : Orders, step : Steps]
    BY <1>4, <2>1, Handlers DEF ReadRejected, Steps
  <2>3. ProcessOK'
    BY <1>4, <2>2 DEF ReadRejected, TypeInv, ProcessOK
  <2>4. CountersOK'
    BY <1>4, DaemonAssumption DEF ReadRejected, TypeInv, CountersOK
  <2>. QED BY <1>4, <2>3, <2>4, Untouched DEF ReadRejected, TypeInv, world
<1>5. CASE ServeProcessed \/ ServeLoaded
  <2>1. Operand \in 1..head /\ <<"loaded", Operand>> \in Sendable /\ Operand \in Nat
    BY <1>5 DEF ServeProcessed, ServeLoaded
  <2>2. StoreOK'
    BY <1>5, <2>1 DEF ServeProcessed, ServeLoaded, TypeInv, StoreOK, world
  <2>3. wire' \in Seq(Sendable)
    <3>1. wire' = Tail(wire) \/ wire' = Append(Tail(wire), <<"loaded", Operand>>)
      BY <1>5 DEF ServeProcessed, ServeLoaded
    <3>2. Tail(wire) \in Seq(Sendable)
      BY HeadFacts
    <3>3. \A s \in Seq(Sendable), c \in Sendable : Append(s, c) \in Seq(Sendable)
      BY ONLY TRUE
    <3>. QED BY <2>1, <3>1, <3>2, <3>3
  <2>4. ProcessOK'
    BY <1>5, <2>3 DEF ServeProcessed, ServeLoaded, TypeInv, ProcessOK
  <2>5. HistoryOK'
    BY <1>5, <2>1 DEF ServeProcessed, ServeLoaded, TypeInv, HistoryOK, outcome, history, world
  <2>. QED BY <1>5, <2>2, <2>4, <2>5, Untouched DEF ServeProcessed, ServeLoaded, TypeInv
<1>6. CASE RecordRejected
  <2>1. Operand \in 1..head /\ Operand \in Nat
    BY <1>6 DEF RecordRejected
  <2>2. StoreOK' /\ first' \in 0..head
    BY <1>6, <2>1 DEF RecordRejected, TypeInv, StoreOK, HistoryOK, world
  <2>3. CountersOK'
    BY <1>6, DaemonAssumption DEF RecordRejected, TypeInv, CountersOK, Die
  <2>4. ProcessOK' /\ HistoryOK'
    <3>1. CASE Die
      BY <1>6, <2>2, <3>1, DieTyped DEF RecordRejected, world
    <3>2. CASE wire' = Tail(wire) /\ UNCHANGED <<phase, cursor, handlers, abandoned, deaths>>
      <4>1. wire' \in Seq(Sendable)
        BY <3>2
      <4>2. ProcessOK'
        BY <3>2, <4>1 DEF TypeInv, ProcessOK
      <4>. QED BY <1>6, <2>2, <3>2, <4>2 DEF RecordRejected, TypeInv, HistoryOK, world
    <3>. QED BY <1>6, <3>1, <3>2 DEF RecordRejected
  <2>. QED BY <2>2, <2>3, <2>4, Untouched DEF TypeInv
<1>. QED BY <1>1, <1>2, <1>3, <1>4, <1>5, <1>6 DEF Serve

LEMMA HandlerTyped ==
    ASSUME TypeInv, NEW v \in Orders,
           \/ Validated(v) \/ ValidationFails(v) \/ Retry(v)
           \/ Push(v) \/ PushRejected(v) \/ PushResent(v)
    PROVE  TypeInv'
<1>1. /\ UNCHANGED <<world, enabled, store, phase, cursor, used, unsaved, first, toggles, deaths>>
      /\ Orders' = Orders /\ RuleOps' = RuleOps /\ Sendable' = Sendable
  BY SameChain DEF Validated, ValidationFails, Retry, Push, PushRejected,
                   PushResent, world, Sendable,
                   history, counters, outcome
<1>2. handlers' \subseteq [order : Orders, step : Steps]
  <2>1. \/ handlers' = handlers
        \/ \E from, to \in Steps : MoveHandler(v, from, to) \/ DropHandler(v, from)
    BY DEF Validated, ValidationFails, Retry, Push, PushRejected, PushResent, Steps
  <2>. QED BY <2>1, Handlers DEF TypeInv, ProcessOK
<1>3. wire' \in Seq(Sendable)
  <2>1. <<"read", v>> \in Sendable
    BY DEF Sendable
  <2>. QED BY <2>1 DEF Validated, ValidationFails, Retry, Push, PushRejected,
                       PushResent, TypeInv, ProcessOK
<1>4. jobs' \in [Orders -> Nat] /\ resent' \in [Orders -> Nat]
  BY DEF Validated, ValidationFails, Retry, Push, PushRejected,
         PushResent, TypeInv, HistoryOK, history, outcome
<1>5. settled' \subseteq Orders /\ abandoned' \subseteq Orders
  BY DEF Validated, ValidationFails, Retry, Push, PushRejected,
         PushResent, TypeInv, HistoryOK, history, outcome
<1>6. CountersOK'
  BY DaemonAssumption
     DEF Validated, ValidationFails, Retry, Push, PushRejected,
         PushResent, TypeInv, CountersOK, counters
<1>7. ProcessOK'
  BY <1>1, <1>2, <1>3 DEF TypeInv, ProcessOK
<1>8. HistoryOK'
  BY <1>1, <1>4, <1>5 DEF TypeInv, HistoryOK, world
<1>. QED BY <1>1, <1>6, <1>7, <1>8, Untouched DEF TypeInv, world

\* Commands that are sent again write what they wrote.
LEMMA ResentTyped ==
    ASSUME TypeInv, CommandsResent
    PROVE  TypeInv'
<1>1. PICK n \in DOMAIN wire :
          /\ rules' = {q \in rules : \A r \in Executed(n, "save") : q[1] # r[1]}
                         \cup Written(n, "save")
          /\ lastProcessed' \in RecordAfter(n, "processed", lastProcessed)
          /\ loadedUpTo' \in RecordAfter(n, "loaded", loadedUpTo)
          /\ first' \in FirstAfter(n)
  BY DEF CommandsResent
<1>2. UNCHANGED <<world, enabled, process, outcome, unsaved, resent>> /\ CountersOK'
  BY DaemonAssumption DEF CommandsResent, TypeInv, CountersOK
<1>3. Orders' = Orders /\ RuleOps' = RuleOps /\ head' = head /\ chain' = chain
  BY <1>2, SameChain DEF world
<1>4. n \in Nat /\ 1..n \subseteq DOMAIN wire
  BY DEF TypeInv, ProcessOK
<1>5. ASSUME NEW i \in 1..n
      PROVE  /\ i \in Nat /\ wire[i][1] = "save" => wire[i][2] \in RuleOps
             /\ wire[i][1] \in {"processed", "loaded"} => wire[i][2] \in 1..head
  <2>1. wire[i] \in Sendable
    BY <1>4 DEF TypeInv, ProcessOK
  <2>. QED BY <1>4, <2>1 DEF Sendable
<1>6. \A kind : Written(n, kind) \subseteq Executed(n, kind)
  BY DEF Written, Executed
<1>7. Executed(n, "save") \subseteq RuleOps /\ Executed(n, "processed") \subseteq 1..head
      /\ Executed(n, "loaded") \subseteq 1..head
  BY <1>5 DEF Executed
<1>8. ASSUME NEW q \in Written(n, "save"), NEW r \in Written(n, "save"), q[1] = r[1]
      PROVE  q = r
  <2>1. PICK i \in 1..n : /\ wire[i][1] = "save" /\ q = wire[i][2]
                         /\ \A k \in (i + 1)..n : wire[k][1] = "save" => wire[k][2][1] # q[1]
    BY DEF Written
  <2>2. PICK j \in 1..n : /\ wire[j][1] = "save" /\ r = wire[j][2]
                         /\ \A k \in (j + 1)..n : wire[k][1] = "save" => wire[k][2][1] # r[1]
    BY DEF Written
  <2>3. i \notin (j + 1)..n /\ j \notin (i + 1)..n
    BY <1>8, <2>1, <2>2
  <2>4. i = j
    BY <1>4, <2>3
  <2>. QED BY <2>1, <2>2, <2>4
<1>9. rules' \subseteq RuleOps /\ \A q, r \in rules' : q[1] = r[1] => q = r
  BY <1>1, <1>6, <1>7, <1>8 DEF TypeInv, StoreOK
<1>10. head \in Nat /\ 1..head \subseteq 0..head /\ 1..head \subseteq Nat
  BY ChainFacts DEF TypeInv
<1>11. lastProcessed' \in 0..head /\ loadedUpTo' \in Nat
  BY <1>1, <1>6, <1>7, <1>10 DEF RecordAfter, TypeInv, StoreOK
<1>12. first' \in 0..head
  BY <1>1, <1>7, <1>10 DEF FirstAfter, TypeInv, HistoryOK
<1>13. StoreOK'
  BY <1>3, <1>9, <1>11 DEF StoreOK
<1>14. HistoryOK'
  BY <1>2, <1>3, <1>12 DEF TypeInv, HistoryOK, outcome
<1>. QED BY <1>2, <1>3, <1>13, <1>14, Untouched DEF TypeInv, world

LEMMA CrashTyped ==
    ASSUME TypeInv, Crash
    PROVE  TypeInv'
<1>1. first \in 0..head /\ UNCHANGED <<chain, head>>
  BY DEF Crash, TypeInv, HistoryOK, world
<1>2. ProcessOK' /\ HistoryOK'
  BY <1>1, DieTyped DEF Crash
<1>3. CountersOK'
  BY DaemonAssumption DEF Crash, Die, TypeInv, CountersOK
<1>. QED BY <1>1, <1>2, <1>3, Untouched DEF Crash, TypeInv, world

LEMMA NextTyped ==
    ASSUME TypeInv, [Next]_vars
    PROVE  TypeInv'
<1>1. CASE UNCHANGED vars
  BY <1>1, Untouched DEF vars, TypeInv, world, store, process, history, counters
<1>. QED BY <1>1, SurroundingsTyped, StartupTyped, BlockTyped, ServeTyped, HandlerTyped,
         ResentTyped, CrashTyped
         DEF Next, Serve, Startup

LEMMA InitTyped == Init => TypeInv
<1>. SUFFICES ASSUME Init PROVE TypeInv
  OBVIOUS
<1>1. WorldOK
  <2>1. chain \in Seq(Seq(Ops)) /\ chain # <<>>
    BY DaemonAssumption DEF Init
  <2>2. Len(chain) \in Nat /\ Len(chain) # 0
    BY <2>1
  <2>. QED BY <2>2 DEF Init, WorldOK
<1>2. StoreOK /\ ProcessOK
  BY DEF Init, StoreOK, ProcessOK
<1>3. HistoryOK
  BY DEF Init, HistoryOK
<1>4. CountersOK
  BY DaemonAssumption DEF Init, CountersOK
<1>. QED BY <1>1, <1>2, <1>3, <1>4 DEF TypeInv

LEMMA TypeInvAlways == Spec => []TypeInv
  BY InitTyped, NextTyped, PTL DEF Spec

(* Type correctness, for any chains and bounds.  More than types: a hash   *)
(* has one entry for a block (RulesManager.ts:44-62).                      *)
THEOREM DaemonTypeOK == Spec => []TypeOK
<1>1. TypeInv => TypeOK
  <2>. SUFFICES ASSUME TypeInv PROVE TypeOK
    OBVIOUS
  <2>1. ASSUME NEW i \in DOMAIN wire
        PROVE  /\ wire[i][1] \in {"save", "read", "processed", "loaded"}
               /\ wire[i][2] \in CASE wire[i][1] = "save" -> Moments \ Orders
                                   [] wire[i][1] = "read" -> Orders
                                   [] OTHER -> 1..head
    <3>1. wire[i] \in Sendable
      BY <2>1 DEF TypeInv, ProcessOK
    <3>2. CASE wire[i] \in {"save"} \X RuleOps
      BY <3>2 DEF RuleOps
    <3>3. CASE wire[i] \in {"read"} \X Orders
      BY <3>3
    <3>4. CASE wire[i] \in {"processed", "loaded"} \X (1..head)
      BY <3>4
    <3>. QED BY <3>1, <3>2, <3>3, <3>4 DEF Sendable
  <2>2. \A h \in handlers : h.order \in Orders /\ h.step \in Steps
    BY DEF TypeInv, ProcessOK
  <2>3. deaths \in 0..(MaxDeaths + MaxFaults)
    BY DaemonAssumption DEF TypeInv, CountersOK
  <2>. QED BY <2>1, <2>2, <2>3
           DEF TypeOK, TypeInv, WorldOK, StoreOK, ProcessOK, HistoryOK, CountersOK, RuleOps
<1>. QED BY <1>1, TypeInvAlways, PTL

-----------------------------------------------------------------------------
(* A life of the process.  Nothing is sent or handled before the           *)
(* synchronizer runs, and once a block was recorded, in this life or an    *)
(* earlier one, the synchronizer begins no later than at the last of them. *)
Live == phase \in {"syncing", "stopped"}

LifeInv ==
    /\ ~Live => wire = <<>> /\ handlers = {}
    /\ (first = 0) <=> (lastProcessed = 0)
    /\ phase \in {"preloading", "preloaded"} /\ first # 0 /\ startFrom # FromHeadReset =>
           cursor <= lastProcessed

\* The steps that leave the life as it is.
Steady == UNCHANGED <<chain, startFrom, phase, cursor, lastProcessed, first>>

HandlerStep(v) ==
    Validated(v) \/ ValidationFails(v) \/ Retry(v) \/ Push(v) \/ PushRejected(v) \/ PushResent(v)

ServeOther == ServeSave \/ SaveRejected \/ ServeRead \/ ReadRejected \/ ServeLoaded

LEMMA SteadySteps ==
    /\ NewBlock \/ SqlIndexes \/ Toggle => Steady /\ UNCHANGED <<process, history>>
    /\ ServeOther => Steady /\ wire # <<>> /\ wire' = Tail(wire)
    /\ \A v \in Orders : HandlerStep(v) => Steady /\ (v \in InHand)
    /\ UNCHANGED vars => Steady /\ UNCHANGED <<process, history>>
<1>1. NewBlock \/ SqlIndexes \/ Toggle => Steady /\ UNCHANGED <<process, history>>
  BY DEF NewBlock, SqlIndexes, Toggle, Steady, world, store, process, history
<1>2. ServeOther => Steady /\ wire # <<>> /\ wire' = Tail(wire)
  BY DEF ServeOther, ServeSave, SaveRejected, ServeRead, ReadRejected, ServeLoaded, Command, Steady,
         world, store, history, outcome
<1>3. ASSUME NEW v \in Orders, HandlerStep(v)
      PROVE  Steady /\ (v \in InHand)
  <2>1. Steady
    BY <1>3 DEF HandlerStep, Validated, ValidationFails, Retry, Push, PushRejected,
                PushResent, Steady, world,
                store, history, outcome
  <2>2. \E step : At(v, step)
    BY <1>3 DEF HandlerStep, Validated, ValidationFails, Retry, Push, PushRejected, PushResent
  <2>3. v \in InHand
    BY <2>2 DEF At, InHand, Handler
  <2>. QED BY <2>1, <2>3
<1>4. UNCHANGED vars => Steady /\ UNCHANGED <<process, history>>
  BY DEF vars, Steady, world, store, process, history
<1>. QED BY <1>1, <1>2, <1>3, <1>4

\* Who is at work has something in hand, or on the wire.
LEMMA Working ==
    ASSUME LifeInv, wire # <<>> \/ InHand # {}
    PROVE  Live
  BY DEF LifeInv, InHand

\* The records after commands that were sent again come from the wire.
LEMMA ResentRecords ==
    ASSUME TypeInv, CommandsResent
    PROVE  /\ \/ lastProcessed' = lastProcessed /\ first' = first
              \/ /\ \E i \in DOMAIN wire : wire[i] = <<"processed", lastProcessed'>>
                 /\ first' = first /\ first # 0
              \/ /\ \E i \in DOMAIN wire : wire[i] = <<"processed", lastProcessed'>>
                 /\ \E i \in DOMAIN wire : wire[i] = <<"processed", first'>>
           /\ loadedUpTo' = loadedUpTo \/ \E i \in DOMAIN wire : wire[i] = <<"loaded", loadedUpTo'>>
           /\ \A i \in DOMAIN wire : \A b : wire[i] = <<"processed", b>> => b # 0
<1>1. PICK n \in DOMAIN wire :
          /\ lastProcessed' \in RecordAfter(n, "processed", lastProcessed)
          /\ loadedUpTo' \in RecordAfter(n, "loaded", loadedUpTo)
          /\ first' \in FirstAfter(n)
  BY DEF CommandsResent
<1>2. n \in Nat /\ 1..n \subseteq DOMAIN wire
  BY DEF TypeInv, ProcessOK
<1>3. ASSUME NEW i \in DOMAIN wire, wire[i][1] \in {"processed", "loaded"}
      PROVE  wire[i] = <<wire[i][1], wire[i][2]>> /\ wire[i][2] \in 1..head
  <2>1. wire[i] \in Sendable
    BY DEF TypeInv, ProcessOK
  <2>. QED BY <1>3, <2>1 DEF Sendable
<1>4. ASSUME NEW kind \in {"processed", "loaded"}, NEW b \in Executed(n, kind)
      PROVE  \E i \in DOMAIN wire : wire[i] = <<kind, b>>
  BY <1>2, <1>3 DEF Executed
<1>5. \A kind : Written(n, kind) \subseteq Executed(n, kind)
  BY DEF Written, Executed
<1>6. loadedUpTo' = loadedUpTo \/ loadedUpTo' \in Executed(n, "loaded")
  BY <1>1, <1>5 DEF RecordAfter
<1>7. \/ lastProcessed' = lastProcessed /\ first' = first
      \/ lastProcessed' \in Executed(n, "processed") /\ first' = first /\ first # 0
      \/ lastProcessed' \in Executed(n, "processed") /\ first' \in Executed(n, "processed")
  BY <1>1, <1>5 DEF RecordAfter, FirstAfter
<1>8. ASSUME NEW i \in DOMAIN wire, NEW b, wire[i] = <<"processed", b>>
      PROVE  b # 0
  <2>1. wire[i][1] = "processed" /\ wire[i][2] = b
    BY <1>8
  <2>. QED BY <1>3, <2>1, ChainFacts DEF TypeInv
<1>. QED BY <1>4, <1>6, <1>7, <1>8

LEMMA NextLife ==
    ASSUME TypeInv, LifeInv, [Next]_vars
    PROVE  LifeInv'
<1>1. CASE NewBlock \/ SqlIndexes \/ Toggle \/ UNCHANGED vars
  BY <1>1, SteadySteps DEF Steady, LifeInv, Live, process
<1>2. CASE ServeOther \/ \E v \in Orders : HandlerStep(v)
  BY <1>2, SteadySteps, Working DEF Steady, LifeInv, Live
<1>3. CASE Boot
  BY <1>3, ChainFacts DEF Boot, LifeInv, Live, TypeInv, WorldOK, StoreOK, StartBlock, Smaller, world,
     store, history
<1>4. CASE PreloadRules \/ PreloadDone \/ Stop
  BY <1>4 DEF PreloadRules, PreloadDone, Stop, LifeInv, Live, world, store, history
<1>5. CASE ProcessBlock
  BY <1>5 DEF ProcessBlock, LifeInv, Live, world, store
<1>6. CASE ServeProcessed
  <2>1. Operand # 0 /\ wire # <<>>
    BY <1>6, HeadFacts DEF ServeProcessed, Command
  <2>. QED BY <1>6, <2>1, Working DEF ServeProcessed, LifeInv, Live, world
<1>7. CASE RecordRejected
  <2>1. Operand # 0 /\ wire # <<>>
    BY <1>7, HeadFacts DEF RecordRejected, Command
  <2>2. Live
    BY <2>1, Working
  <2>3. (first' = 0) <=> (lastProcessed' = 0)
    BY <1>7, <2>1 DEF RecordRejected, LifeInv
  <2>4. (phase' = phase) \/ (phase' = "down" /\ wire' = <<>> /\ handlers' = {})
    BY <1>7 DEF RecordRejected, Die
  <2>. QED BY <2>2, <2>3, <2>4 DEF LifeInv, Live
<1>8. CASE Crash
  BY <1>8 DEF Crash, Die, LifeInv, Live, world, store
<1>9. CASE CommandsResent
  <2>1. wire # <<>> /\ UNCHANGED <<phase, cursor, wire, handlers>>
    BY <1>9 DEF CommandsResent, process
  <2>2. (first' = 0) <=> (lastProcessed' = 0)
    BY <1>9, ResentRecords DEF LifeInv
  <2>. QED BY <2>1, <2>2, Working DEF LifeInv, Live
<1>. QED BY <1>1, <1>2, <1>3, <1>4, <1>5, <1>6, <1>7, <1>8, <1>9 DEF Next, ServeOther, HandlerStep

LEMMA LifeAlways == Spec => [](TypeInv /\ LifeInv)
<1>1. Init => LifeInv
  BY DEF Init, LifeInv, Live
<1>. QED BY <1>1, InitTyped, NextTyped, NextLife, PTL DEF Spec

-----------------------------------------------------------------------------
(* No voteorder is forgotten.                                              *)
Covered(v) == v \in settled \cup abandoned \cup InHand

CoverInv ==
    startFrom # FromHeadReset =>
        /\ first # 0 =>
              \A v \in Orders :
                  first <= v[1] /\ (v[1] < lastProcessed \/ (Live /\ v[1] < cursor)) => Covered(v)
        /\ \A i \in DOMAIN wire : wire[i][1] = "processed" =>
              /\ wire[i][2] < cursor
              /\ \A v \in Orders : wire[i][2] <= v[1] /\ v[1] < cursor => Covered(v)

LEMMA HandMoves ==
    ASSUME NEW v, NEW from, NEW to
    PROVE  /\ MoveHandler(v, from, to) => InHand \subseteq InHand'
           /\ DropHandler(v, from) => InHand \subseteq InHand' \cup {v}
<1>1. ASSUME MoveHandler(v, from, to), NEW h \in handlers
      PROVE  h.order \in InHand'
  <2>1. CASE h = Handler(v, from)
    <3>1. Handler(v, to) \in handlers' /\ Handler(v, to).order = h.order
      BY <1>1, <2>1 DEF MoveHandler, Handler
    <3>. QED BY <3>1 DEF InHand
  <2>2. CASE h # Handler(v, from)
    BY <1>1, <2>2 DEF MoveHandler, InHand
  <2>. QED BY <2>1, <2>2
<1>2. ASSUME DropHandler(v, from), NEW h \in handlers
      PROVE  h.order \in InHand' \cup {v}
  <2>1. CASE h = Handler(v, from)
    BY <2>1 DEF Handler
  <2>2. CASE h # Handler(v, from)
    BY <1>2, <2>2 DEF DropHandler, InHand
  <2>. QED BY <2>1, <2>2
<1>. QED BY <1>1, <1>2 DEF InHand

\* An outcome stays, and who is dropped by a handler has one.
LEMMA CoveredStays ==
    ASSUME TypeInv,
           \/ ServeOther \/ \E v \in Orders : HandlerStep(v)
           \/ UNCHANGED <<process, history>> \/ ServeProcessed
    PROVE  \A v : Covered(v) => Covered(v)'
<1>1. CASE UNCHANGED <<process, history>> \/ ServeProcessed \/ ServeSave \/ SaveRejected \/ ServeLoaded
  BY <1>1 DEF ServeProcessed, ServeSave, SaveRejected, ServeLoaded, process, history, outcome, Covered,
              InHand
<1>2. CASE ServeRead \/ ReadRejected
  <2>1. settled \subseteq settled' /\ abandoned' = abandoned
    BY <1>2 DEF ServeRead, ReadRejected, history, outcome
  <2>2. InHand \subseteq InHand' \/ (InHand \subseteq InHand' \cup {Operand} /\ Operand \in settled')
    BY <1>2, HandMoves DEF ServeRead, ReadRejected
  <2>. QED BY <2>1, <2>2 DEF Covered
<1>3. ASSUME NEW v \in Orders, HandlerStep(v)
      PROVE  \A u : Covered(u) => Covered(u)'
  <2>1. settled \subseteq settled' /\ abandoned \subseteq abandoned'
    BY <1>3 DEF HandlerStep, Validated, ValidationFails, Retry, Push, PushRejected,
                PushResent, history, outcome
  <2>2. InHand \subseteq InHand' \/
            (InHand \subseteq InHand' \cup {v} /\ v \in settled' \cup abandoned')
    <3>1. \/ handlers' = handlers \/ \E from, to \in Steps : MoveHandler(v, from, to)
          \/ (\E from \in Steps : DropHandler(v, from)) /\ v \in settled' \cup abandoned'
      BY <1>3 DEF HandlerStep, Validated, ValidationFails, Retry, Push, PushRejected,
                  PushResent, Steps
    <3>2. handlers' = handlers => InHand' = InHand
      BY DEF InHand
    <3>. QED BY <3>1, <3>2, HandMoves
  <2>. QED BY <2>1, <2>2 DEF Covered
<1>. QED BY <1>1, <1>2, <1>3 DEF ServeOther

\* What is new on the wire is no record of a block.
LEMMA SteadyCover ==
    ASSUME TypeInv, CoverInv, Steady, \A v : Covered(v) => Covered(v)',
           \A i \in DOMAIN wire' : wire'[i][1] = "processed" =>
               \E j \in DOMAIN wire : wire[j] = wire'[i]
    PROVE  CoverInv'
<1>1. Orders' = Orders /\ Live' = Live
  BY SameChain DEF Steady, Live
<1>. QED BY <1>1 DEF CoverInv, Steady

LEMMA TailFacts ==
    ASSUME TypeInv, wire # <<>>
    PROVE  /\ \A i \in DOMAIN Tail(wire) : i + 1 \in DOMAIN wire /\ Tail(wire)[i] = wire[i + 1]
           /\ 1 \in DOMAIN wire /\ Head(wire) = wire[1]
  BY DEF TypeInv, ProcessOK

LEMMA AppendFacts ==
    ASSUME NEW s \in Seq(Sendable), NEW c
    PROVE  \A i \in DOMAIN Append(s, c) :
               (i \in DOMAIN s /\ Append(s, c)[i] = s[i]) \/ (i = Len(s) + 1 /\ Append(s, c)[i] = c)
  OBVIOUS

LEMMA NextCover ==
    ASSUME TypeInv, LifeInv, CoverInv, [Next]_vars
    PROVE  CoverInv'
<1>. SUFFICES ASSUME startFrom' # FromHeadReset PROVE CoverInv'
  BY DEF CoverInv
<1>1. CASE NewBlock \/ SqlIndexes \/ Toggle \/ UNCHANGED vars
  BY <1>1, SteadySteps, CoveredStays, SteadyCover DEF process
<1>2. CASE ServeOther
  BY <1>2, SteadySteps, CoveredStays, SteadyCover, TailFacts
<1>3. ASSUME NEW v \in Orders, HandlerStep(v)
      PROVE  CoverInv'
  <2>1. wire' = wire \/ wire' = Append(wire, <<"read", v>>)
    BY <1>3 DEF HandlerStep, Validated, ValidationFails, Retry, Push, PushRejected, PushResent
  <2>2. \A i \in DOMAIN wire' : wire'[i][1] = "processed" =>
            \E j \in DOMAIN wire : wire[j] = wire'[i]
    BY <2>1, AppendFacts DEF TypeInv, ProcessOK
  <2>. QED BY <1>3, <2>2, SteadySteps, CoveredStays, SteadyCover
<1>4. CASE Boot \/ PreloadRules \/ PreloadDone \/ Stop
  <2>1. /\ UNCHANGED <<chain, startFrom, lastProcessed, settled, abandoned, handlers, wire, first>>
        /\ cursor' = cursor \/ Boot
    BY <1>4 DEF Boot, PreloadRules, PreloadDone, Stop, world, store, history, outcome
  <2>2. Orders' = Orders /\ \A v : Covered(v)' = Covered(v)
    BY <2>1, SameChain DEF Covered, InHand
  <2>3. CASE Boot \/ PreloadRules \/ PreloadDone
    <3>1. wire = <<>>
      BY <2>3 DEF Boot, PreloadRules, PreloadDone, LifeInv, Live
    <3>2. Live' /\ first # 0 => cursor' <= lastProcessed
      BY <2>1, <2>3, ChainFacts
         DEF Boot, PreloadRules, PreloadDone, LifeInv, Live, StartBlock, TypeInv, StoreOK, WorldOK
    <3>3. cursor' \in Nat /\ lastProcessed \in Nat /\ \A v \in Orders : v[1] \in Nat
      BY <2>3, StartBlockNat, ChainFacts, OrderFacts
         DEF Boot, PreloadRules, PreloadDone, Smaller, TypeInv, StoreOK, ProcessOK
    <3>. QED BY <2>1, <2>2, <3>1, <3>2, <3>3 DEF CoverInv
  <2>4. CASE Stop
    BY <2>1, <2>2, <2>4 DEF CoverInv, Stop, Live
  <2>. QED BY <1>4, <2>3, <2>4
<1>5. CASE ProcessBlock
  <2>1. /\ UNCHANGED <<startFrom, lastProcessed, abandoned, first>> /\ Orders' = Orders
        /\ Live /\ Live' /\ cursor' = cursor + 1 /\ cursor \in Nat
    BY <1>5, BlockFacts DEF ProcessBlock, Live, world, store
  <2>2. ASSUME NEW v \in Orders, Covered(v) \/ v[1] = cursor
        PROVE  Covered(v)'
    <3>1. InHand \subseteq InHand' /\ settled \subseteq settled'
      BY <1>5 DEF ProcessBlock, InHand
    <3>2. CASE v[1] = cursor
      <4>1. v \in BlockOrders
        BY <3>2 DEF BlockOrders
      <4>2. enabled => Handler(v, "reading") \in handlers'
        BY <1>5, <4>1 DEF ProcessBlock
      <4>3. enabled => v \in InHand'
        BY <4>2 DEF InHand, Handler
      <4>. QED BY <1>5, <4>1, <4>3 DEF ProcessBlock, Covered
    <3>. QED BY <2>1, <2>2, <3>1, <3>2 DEF Covered
  <2>3. ASSUME NEW i \in DOMAIN wire', wire'[i][1] = "processed"
        PROVE  wire'[i][2] = cursor \/ \E j \in DOMAIN wire : wire[j] = wire'[i]
    <3>1. wire' = Append(wire \o BlockCommands, <<"processed", cursor>>)
      BY <1>5 DEF ProcessBlock
    <3>2. wire \in Seq(Sendable) /\ BlockCommands \in Seq(Sendable)
          /\ wire \o BlockCommands \in Seq(Sendable)
      BY <1>5, BlockFacts
    <3>3. CASE i \in DOMAIN (wire \o BlockCommands) /\ wire'[i] = (wire \o BlockCommands)[i]
      <4>1. CASE i \in DOMAIN wire
        BY <3>2, <3>3, <4>1
      <4>2. CASE i \notin DOMAIN wire
        <5>1. i - Len(wire) \in DOMAIN BlockCommands /\ wire'[i] = BlockCommands[i - Len(wire)]
          BY <3>2, <3>3, <4>2
        <5>. QED BY <1>5, <2>3, <5>1, BlockFacts, CommandsOfBlock
      <4>. QED BY <4>1, <4>2
    <3>4. CASE wire'[i] = <<"processed", cursor>>
      BY <3>4
    <3>. QED BY <3>1, <3>2, <3>3, <3>4, AppendFacts
  <2>4. \A v \in Orders : v[1] \in Nat
    BY OrderFacts
  <2>5. ASSUME NEW i \in DOMAIN wire', wire'[i][1] = "processed"
        PROVE  /\ wire'[i][2] < cursor'
               /\ \A v \in Orders : wire'[i][2] <= v[1] /\ v[1] < cursor' => Covered(v)'
    <3>1. CASE wire'[i][2] = cursor
      BY <2>1, <2>2, <2>4, <3>1
    <3>2. CASE \E j \in DOMAIN wire : wire[j] = wire'[i]
      <4>1. PICK j \in DOMAIN wire : wire[j] = wire'[i]
        BY <3>2
      <4>2. wire'[i][2] < cursor
            /\ \A v \in Orders : wire'[i][2] <= v[1] /\ v[1] < cursor => Covered(v)
        BY <2>1, <2>5, <4>1 DEF CoverInv
      <4>3. wire'[i][2] \in Nat
        <5>1. wire[j] \in Sendable
          BY DEF TypeInv, ProcessOK
        <5>. QED BY <2>5, <4>1, <5>1, ChainFacts DEF Sendable, TypeInv
      <4>. QED BY <2>1, <2>2, <2>4, <4>2, <4>3
    <3>. QED BY <2>3, <2>5, <3>1, <3>2
  <2>. QED BY <2>1, <2>2, <2>4, <2>5 DEF CoverInv
<1>6. CASE ServeProcessed
  <2>1. /\ UNCHANGED <<startFrom, cursor, phase>> /\ Orders' = Orders /\ wire # <<>>
        /\ lastProcessed' = Operand /\ first' = IF first = 0 THEN Operand ELSE first
        /\ wire' = Append(Tail(wire), <<"loaded", Operand>>)
    BY <1>6, SameChain DEF ServeProcessed, Command, world
  <2>2. Live /\ Live'
    BY <2>1, Working DEF Live
  <2>3. /\ Operand < cursor /\ Operand \in Nat
        /\ \A v \in Orders : Operand <= v[1] /\ v[1] < cursor => Covered(v)
    <3>1. Operand = wire[1][2] /\ wire[1][1] = "processed" /\ 1 \in DOMAIN wire
      BY <1>6, <2>1, TailFacts DEF ServeProcessed, Command, Operand
    <3>. QED BY <1>6, <2>1, <3>1, HeadFacts DEF CoverInv, ServeProcessed
  <2>4. \A i \in DOMAIN wire' : wire'[i][1] = "processed" => \E j \in DOMAIN wire : wire[j] = wire'[i]
    BY <2>1, HeadFacts, TailFacts, AppendFacts
  <2>5. \A v : Covered(v) => Covered(v)'
    BY <1>6, CoveredStays
  <2>6. cursor \in Nat /\ first \in Nat /\ \A v \in Orders : v[1] \in Nat
    BY OrderFacts, ChainFacts DEF TypeInv, ProcessOK, HistoryOK
  <2>7. \A v \in Orders : first' <= v[1] /\ v[1] < cursor => Covered(v)
    BY <2>1, <2>2, <2>3, <2>6 DEF CoverInv
  <2>8. \A v \in Orders : v[1] < lastProcessed' => v[1] < cursor
    BY <2>1, <2>3, <2>6
  <2>. QED BY <2>1, <2>2, <2>4, <2>5, <2>7, <2>8 DEF CoverInv
<1>7. CASE RecordRejected
  <2>1. /\ startFrom' = startFrom /\ Orders' = Orders /\ wire # <<>> /\ settled' = settled
        /\ \/ lastProcessed' = lastProcessed /\ first' = first
           \/ /\ Command("processed")
              /\ lastProcessed' = Operand /\ first' = IF first = 0 THEN Operand ELSE first
        /\ \/ wire' = Tail(wire) /\ UNCHANGED <<phase, cursor, handlers, abandoned>>
           \/ Die
    BY <1>7, SameChain DEF RecordRejected, Command, world
  <2>2. Live
    BY <2>1, Working
  <2>3. cursor \in Nat /\ first \in Nat /\ lastProcessed \in Nat /\ \A v \in Orders : v[1] \in Nat
    BY OrderFacts, ChainFacts DEF TypeInv, ProcessOK, StoreOK, HistoryOK
  <2>4. Command("processed") =>
            /\ Operand < cursor /\ Operand \in Nat
            /\ \A v \in Orders : Operand <= v[1] /\ v[1] < cursor => Covered(v)
    <3>1. Operand = wire[1][2] /\ Command("processed") => wire[1][1] = "processed"
      BY <2>1, TailFacts DEF Command, Operand
    <3>. QED BY <2>1, <3>1, HeadFacts, TailFacts DEF CoverInv, Operand
  <2>5. ASSUME NEW v \in Orders, first' # 0, first' <= v[1],
               v[1] < lastProcessed' \/ (phase' = phase /\ v[1] < cursor)
        PROVE  Covered(v)
    BY <2>1, <2>2, <2>3, <2>4, <2>5 DEF CoverInv
  <2>6. CASE Die
    <3>1. \A v : Covered(v) /\ v[1] < lastProcessed' => v \in settled' \cup abandoned'
      BY <2>1, <2>6 DEF Die, Covered
    <3>2. wire' = <<>> /\ ~Live'
      BY <2>6 DEF Die, Live
    <3>. QED BY <2>1, <2>5, <3>1, <3>2 DEF CoverInv, Covered
  <2>7. CASE wire' = Tail(wire) /\ UNCHANGED <<phase, cursor, handlers, abandoned>>
    <3>1. \A v : Covered(v)' = Covered(v)
      BY <2>1, <2>7 DEF Covered, InHand
    <3>2. \A i \in DOMAIN wire' : \E j \in DOMAIN wire : wire[j] = wire'[i]
      BY <2>1, <2>7, TailFacts
    <3>. QED BY <2>1, <2>2, <2>5, <2>7, <3>1, <3>2 DEF CoverInv, Live
  <2>. QED BY <2>1, <2>6, <2>7
<1>8. CASE Crash
  <2>1. UNCHANGED <<startFrom, lastProcessed, first, settled>> /\ Orders' = Orders /\ Die
    BY <1>8, SameChain DEF Crash, world, store
  <2>2. \A v : Covered(v) /\ v[1] < lastProcessed' => v \in settled' \cup abandoned'
    BY <2>1 DEF Die, Covered
  <2>3. wire' = <<>> /\ ~Live'
    BY <2>1 DEF Die, Live
  <2>. QED BY <2>1, <2>2, <2>3 DEF CoverInv, Covered
<1>9. CASE CommandsResent
  <2>1. UNCHANGED <<startFrom, cursor, wire>> /\ Orders' = Orders /\ Live' = Live
        /\ \A v : Covered(v)' = Covered(v)
    BY <1>9, SameChain DEF CommandsResent, world, process, outcome, Live, Covered, InHand
  <2>2. Live /\ cursor \in Nat
    BY <1>9, Working DEF CommandsResent, TypeInv, ProcessOK
  <2>3. ASSUME first' # 0, NEW v \in Orders, first' <= v[1],
               v[1] < lastProcessed' \/ v[1] < cursor
        PROVE  Covered(v)
    <3>1. lastProcessed' \in Nat /\ v[1] \in Nat
      BY <1>9, ResentTyped, OrderFacts DEF TypeInv, StoreOK, WorldOK
    <3>2. /\ \/ lastProcessed' = lastProcessed
             \/ \E i \in DOMAIN wire : wire[i] = <<"processed", lastProcessed'>>
          /\ \/ first' = first
             \/ /\ \E i \in DOMAIN wire : wire[i] = <<"processed", lastProcessed'>>
                /\ \E i \in DOMAIN wire : wire[i] = <<"processed", first'>>
      BY <1>9, ResentRecords
    <3>3. \A i \in DOMAIN wire : \A c : wire[i] = <<"processed", c>> =>
              c < cursor /\ \A u \in Orders : c <= u[1] /\ u[1] < cursor => Covered(u)
      BY <2>1 DEF CoverInv
    <3>4. v[1] < cursor \/ (v[1] < lastProcessed /\ lastProcessed' = lastProcessed)
      BY <2>2, <2>3, <3>1, <3>2, <3>3
    <3>5. CASE first' = first
      BY <2>1, <2>2, <2>3, <3>4, <3>5 DEF CoverInv
    <3>6. CASE /\ \E i \in DOMAIN wire : wire[i] = <<"processed", lastProcessed'>>
               /\ \E i \in DOMAIN wire : wire[i] = <<"processed", first'>>
      <4>1. lastProcessed' < cursor
        BY <3>3, <3>6
      <4>2. v[1] < cursor
        BY <2>2, <2>3, <3>1, <4>1
      <4>. QED BY <2>3, <3>3, <3>6, <4>2
    <3>. QED BY <3>2, <3>5, <3>6
  <2>. QED BY <2>1, <2>2, <2>3 DEF CoverInv
<1>. QED BY <1>1, <1>2, <1>3, <1>4, <1>5, <1>6, <1>7, <1>8, <1>9 DEF Next, ServeOther, HandlerStep

(* However often the daemon dies, is started again, fails and retries: once *)
(* a block has been recorded, no voteorder of the blocks from there on is   *)
(* passed over (DaemonManager.ts:112-116).                                  *)
THEOREM DaemonNoOrderForgotten == Spec => []NoOrderForgotten
<1>1. Init => CoverInv
  BY DEF Init, CoverInv
<1>2. TypeInv /\ LifeInv /\ CoverInv /\ [Next]_vars => CoverInv'
  BY NextCover
<1>3. CoverInv => NoOrderForgotten
  BY DEF CoverInv, NoOrderForgotten, Covered, Live
<1>. QED BY <1>1, <1>2, <1>3, LifeAlways, PTL DEF Spec

-----------------------------------------------------------------------------
(* One job for a voteorder in each life.  In a life the synchronizer takes *)
(* a block once, so a voteorder has one handler, with one read on its way. *)
HandlersOK ==
    /\ \A g, h \in handlers : g.order = h.order => g = h
    /\ \A h \in handlers : h.order[1] < cursor
    /\ \A i \in DOMAIN wire : wire[i][1] = "read" => Handler(wire[i][2], "reading") \in handlers
    /\ \A i, j \in DOMAIN wire : wire[i][1] = "read" /\ wire[j] = wire[i] => i = j

\* In this life no job was pushed for it yet, those apart that were sent again.
Unpushed(v) == ~Live \/ cursor <= v[1] \/ v \in InHand

JobsOK ==
    \A v \in Orders : /\ jobs[v] <= 1 + deaths + resent[v]
                      /\ Unpushed(v) => jobs[v] <= deaths + resent[v]

\* A handler that moves, or is dropped, leaves the others; its read is over.
LEMMA MoveOK ==
    ASSUME TypeInv, HandlersOK, UNCHANGED <<chain, cursor>>,
           NEW v \in Orders, NEW from \in Steps, NEW to \in Steps,
           At(v, from), MoveHandler(v, from, to) \/ DropHandler(v, from)
    PROVE  /\ \A g, h \in handlers' : g.order = h.order => g = h
           /\ \A h \in handlers' : h.order[1] < cursor'
           /\ \A u : u # v /\ Handler(u, "reading") \in handlers => Handler(u, "reading") \in handlers'
           /\ MoveHandler(v, from, to) => Handler(v, to) \in handlers' /\ InHand' = InHand
           /\ DropHandler(v, from) => InHand' = InHand \ {v}
<1>1. Handler(v, from) \in handlers /\ Handler(v, from).order = v /\ Handler(v, to).order = v
  BY DEF At, Handler
<1>2. \A h \in handlers : h.order = v => h = Handler(v, from)
  BY <1>1 DEF HandlersOK
<1>3. \A h \in handlers' : h = Handler(v, to) \/ (h \in handlers /\ h # Handler(v, from))
  BY DEF MoveHandler, DropHandler
<1>4. \A h \in handlers : h = Handler(v, from) \/ h \in handlers'
  BY DEF MoveHandler, DropHandler
<1>5. \A g, h \in handlers' : g.order = h.order => g = h
  BY <1>1, <1>2, <1>3 DEF HandlersOK
<1>6. \A h \in handlers' : h.order[1] < cursor'
  BY <1>1, <1>3 DEF HandlersOK
<1>7. \A u : u # v /\ Handler(u, "reading") \in handlers => Handler(u, "reading") \in handlers'
  BY <1>4 DEF Handler
<1>8. MoveHandler(v, from, to) => Handler(v, to) \in handlers' /\ InHand' = InHand
  BY <1>1, <1>3, <1>4 DEF MoveHandler, InHand
<1>9. ASSUME DropHandler(v, from)
      PROVE  InHand' = InHand \ {v}
  <2>1. handlers' = handlers \ {Handler(v, from)}
    BY <1>9 DEF DropHandler
  <2>. QED BY <1>1, <1>2, <2>1 DEF InHand
<1>. QED BY <1>5, <1>6, <1>7, <1>8, <1>9

\* The read that was served was the only one of its voteorder.
LEMMA ReadServed ==
    ASSUME TypeInv, HandlersOK, Command("read"), wire' = Tail(wire)
    PROVE  /\ Operand \in Orders /\ At(Operand, "reading")
           /\ \A i \in DOMAIN wire' : wire'[i][1] = "read" =>
                 wire'[i][2] # Operand /\ Handler(wire'[i][2], "reading") \in handlers
           /\ \A i, j \in DOMAIN wire' : wire'[i][1] = "read" /\ wire'[j] = wire'[i] => i = j
<1>1. wire # <<>> /\ Head(wire) = wire[1] /\ 1 \in DOMAIN wire /\ wire[1][1] = "read"
      /\ Operand = wire[1][2] /\ Operand \in Orders
  BY TailFacts, HeadFacts DEF Command, Operand
<1>2. At(Operand, "reading")
  BY <1>1 DEF HandlersOK, At
<1>3. \A i \in DOMAIN wire' : i \in Nat /\ i >= 1 /\ i + 1 \in DOMAIN wire /\ wire'[i] = wire[i + 1]
  BY <1>1, TailFacts DEF TypeInv, ProcessOK
<1>4. \A i \in DOMAIN wire : wire[i][1] = "read" => wire[i] = <<"read", wire[i][2]>>
  <2>. SUFFICES ASSUME NEW i \in DOMAIN wire, wire[i][1] = "read"
                PROVE  wire[i] = <<"read", wire[i][2]>>
    OBVIOUS
  <2>1. wire[i] \in Sendable
    BY DEF TypeInv, ProcessOK
  <2>. QED BY <2>1 DEF Sendable
<1>5. ASSUME NEW i \in DOMAIN wire', wire'[i][1] = "read"
      PROVE  wire'[i][2] # Operand /\ Handler(wire'[i][2], "reading") \in handlers
  <2>1. wire[i + 1] # wire[1]
    BY <1>1, <1>3, <1>5 DEF HandlersOK
  <2>. QED BY <1>1, <1>3, <1>4, <1>5, <2>1 DEF HandlersOK
<1>6. ASSUME NEW i \in DOMAIN wire', NEW j \in DOMAIN wire', wire'[i][1] = "read", wire'[j] = wire'[i]
      PROVE  i = j
  BY <1>3, <1>6 DEF HandlersOK
<1>. QED BY <1>1, <1>2, <1>5, <1>6

\* Other commands are answered without the handlers.
LEMMA OtherServed ==
    ASSUME TypeInv, HandlersOK, wire # <<>>, ~Command("read"), UNCHANGED <<cursor, handlers>>,
           wire' = Tail(wire) \/ \E b : wire' = Append(Tail(wire), <<"loaded", b>>)
    PROVE  HandlersOK'
<1>1. \A i \in DOMAIN wire' : wire'[i][1] = "read" =>
          i \in Nat /\ i + 1 \in DOMAIN wire /\ wire'[i] = wire[i + 1]
  BY TailFacts, HeadFacts, AppendFacts DEF TypeInv, ProcessOK
<1>. QED BY <1>1 DEF HandlersOK

LEMMA SameJobs ==
    ASSUME TypeInv, JobsOK, UNCHANGED <<chain, jobs, deaths, resent>>,
           \A v \in Orders : Unpushed(v)' => Unpushed(v)
    PROVE  JobsOK'
<1>1. Orders' = Orders
  BY SameChain
<1>. QED BY <1>1 DEF JobsOK

LEMMA BlockOnce ==
    ASSUME TypeInv, HandlersOK, JobsOK, ProcessBlock
    PROVE  HandlersOK' /\ JobsOK'
<1>1. /\ cursor \in Nat /\ cursor' = cursor + 1 /\ Live /\ Live'
      /\ wire \in Seq(Sendable) /\ BlockCommands \in Seq(Sendable)
      /\ wire \o BlockCommands \in Seq(Sendable)
      /\ wire' = Append(wire \o BlockCommands, <<"processed", cursor>>)
      /\ UNCHANGED <<chain, jobs, deaths, resent>>
  BY BlockFacts DEF ProcessBlock, Live, world, counters
<1>2. \A v \in Orders : v[1] \in Nat
  BY OrderFacts
<1>3. \A h \in handlers : h \in handlers' /\ h.order \in Orders
  BY DEF ProcessBlock, TypeInv, ProcessOK
<1>4. \A h \in handlers' : h \in handlers \/ (h = Handler(h.order, "reading") /\ h.order \in BlockOrders)
  BY DEF ProcessBlock, Handler
<1>5. \A v \in BlockOrders : v \in Orders /\ v[1] = cursor /\
          (enabled => Handler(v, "reading") \in handlers')
  BY DEF BlockOrders, ProcessBlock
<1>6. \A h \in handlers' : h.order[1] < cursor'
  BY <1>1, <1>2, <1>3, <1>4, <1>5 DEF HandlersOK
<1>7. ASSUME NEW g \in handlers', NEW h \in handlers', g.order = h.order
      PROVE  g = h
  <2>1. \A k \in handlers : k.order[1] # cursor
    BY <1>1, <1>2, <1>3 DEF HandlersOK
  <2>. QED BY <1>4, <1>5, <1>7, <2>1 DEF HandlersOK
<1>8. ASSUME NEW i \in DOMAIN wire', wire'[i][1] = "read"
      PROVE  \/ i \in DOMAIN wire /\ wire'[i] = wire[i] /\ wire[i][2][1] < cursor
             \/ /\ i - Len(wire) \in DOMAIN BlockCommands
                /\ wire'[i] = BlockCommands[i - Len(wire)] /\ wire'[i][2][1] = cursor
                /\ enabled /\ wire'[i][2] \in Orders
  <2>1. i \in DOMAIN (wire \o BlockCommands) /\ wire'[i] = (wire \o BlockCommands)[i]
    BY <1>1, <1>8, AppendFacts
  <2>2. CASE i \in DOMAIN wire
    <3>1. wire'[i] = wire[i]
      BY <1>1, <2>1, <2>2
    <3>2. Handler(wire[i][2], "reading") \in handlers
      BY <1>8, <2>2, <3>1 DEF HandlersOK
    <3>3. wire[i][2][1] < cursor
      BY <3>2 DEF HandlersOK, Handler
    <3>. QED BY <2>2, <3>1, <3>3
  <2>3. CASE i \notin DOMAIN wire
    <3>1. i - Len(wire) \in DOMAIN BlockCommands /\ wire'[i] = BlockCommands[i - Len(wire)]
      BY <1>1, <2>1, <2>3
    <3>. QED BY <1>8, <3>1, BlockFacts, CommandsOfBlock
  <2>. QED BY <2>2, <2>3
<1>9. ASSUME NEW i \in DOMAIN wire', wire'[i][1] = "read"
      PROVE  Handler(wire'[i][2], "reading") \in handlers'
  <2>1. CASE i \in DOMAIN wire /\ wire'[i] = wire[i]
    BY <1>3, <1>9, <2>1 DEF HandlersOK
  <2>2. CASE wire'[i][2][1] = cursor /\ enabled /\ wire'[i][2] \in Orders
    BY <1>5, <2>2 DEF BlockOrders
  <2>. QED BY <1>8, <1>9, <2>1, <2>2
<1>10. ASSUME NEW i \in DOMAIN wire', NEW j \in DOMAIN wire', wire'[i][1] = "read",
              wire'[j] = wire'[i]
       PROVE  i = j
  <2>1. wire'[j][1] = "read" /\ i \in Nat /\ j \in Nat /\ Len(wire) \in Nat
    <3>1. Append(wire \o BlockCommands, <<"processed", cursor>>) = wire'
          /\ wire \o BlockCommands \in Seq(Sendable) /\ wire \in Seq(Sendable)
      BY <1>1
    <3>2. DOMAIN wire' \subseteq Nat /\ Len(wire) \in Nat
      BY <3>1
    <3>. QED BY <1>10, <3>2
  <2>2. \/ j \in DOMAIN wire /\ wire'[j] = wire[j] /\ wire[j][2][1] < cursor
        \/ /\ j - Len(wire) \in DOMAIN BlockCommands
           /\ wire'[j] = BlockCommands[j - Len(wire)] /\ wire'[j][2][1] = cursor
    BY <1>8, <1>10, <2>1
  <2>3. CASE i \in DOMAIN wire /\ wire'[i] = wire[i] /\ wire[i][2][1] < cursor
    <3>1. wire'[j][2] = wire[i][2]
      BY <1>10, <2>3
    <3>2. wire'[j][2][1] # cursor
      <4>1. cursor \in Nat
        BY <1>1
      <4>2. \A x : x < cursor => x # cursor
        BY <4>1
      <4>3. wire[i][2][1] # cursor
        BY <2>3, <4>2
      <4>. QED BY <3>1, <4>3
    <3>3. j \in DOMAIN wire /\ wire'[j] = wire[j]
      BY <2>2, <3>2
    <3>4. wire[i] = wire[j] /\ wire[i][1] = "read"
      BY <1>10, <2>3, <3>3
    <3>. QED BY <2>3, <3>3, <3>4 DEF HandlersOK
  <2>4. CASE /\ i - Len(wire) \in DOMAIN BlockCommands
             /\ wire'[i] = BlockCommands[i - Len(wire)] /\ wire'[i][2][1] = cursor
    <3>1. /\ j - Len(wire) \in DOMAIN BlockCommands
          /\ wire'[j] = BlockCommands[j - Len(wire)]
      <4>1. wire'[j][2][1] = cursor
        BY <1>10, <2>4
      <4>2. ~(j \in DOMAIN wire /\ wire'[j] = wire[j] /\ wire[j][2][1] < cursor)
        BY <1>1, <4>1
      <4>. QED BY <2>2, <4>2
    <3>2. i - Len(wire) = j - Len(wire)
      BY <1>10, <2>4, <3>1, BlockFacts, CommandsOfBlock
    <3>. QED BY <2>1, <3>2
  <2>. QED BY <1>8, <1>10, <2>3, <2>4
<1>11. ASSUME NEW v \in Orders, Unpushed(v)'
       PROVE  Unpushed(v)
  <2>1. CASE cursor' <= v[1]
    BY <1>1, <1>2, <2>1 DEF Unpushed
  <2>2. CASE v \in InHand'
    <3>1. v \in InHand \/ v \in BlockOrders
      BY <1>4, <2>2 DEF InHand
    <3>. QED BY <1>1, <1>5, <3>1 DEF Unpushed
  <2>. QED BY <1>1, <1>11, <2>1, <2>2 DEF Unpushed
<1>12. HandlersOK'
  BY <1>6, <1>7, <1>9, <1>10 DEF HandlersOK
<1>. QED BY <1>1, <1>11, <1>12, SameJobs

LEMMA HandlerOnce ==
    ASSUME TypeInv, LifeInv, HandlersOK, JobsOK, NEW v \in Orders,
           Validated(v) \/ ValidationFails(v) \/ Retry(v) \/ Push(v) \/ PushRejected(v)
    PROVE  HandlersOK' /\ JobsOK'
<1>1. UNCHANGED <<chain, cursor, phase, deaths, resent>> /\ v \in InHand /\ wire \in Seq(Sendable)
  <2>1. HandlerStep(v)
    BY DEF HandlerStep
  <2>2. UNCHANGED <<chain, cursor, phase>> /\ v \in InHand
    BY <2>1, SteadySteps DEF Steady
  <2>3. UNCHANGED <<deaths, resent>>
    BY DEF Validated, ValidationFails, Retry, Push, PushRejected, counters, history
  <2>. QED BY <2>2, <2>3 DEF TypeInv, ProcessOK
<1>2. PICK from \in Steps \ {"reading"} :
          /\ At(v, from)
          /\ DropHandler(v, from) \/ \E to \in Steps : MoveHandler(v, from, to)
  BY DEF Validated, ValidationFails, Retry, Push, PushRejected, Steps
<1>3. /\ \A g, h \in handlers' : g.order = h.order => g = h
      /\ \A h \in handlers' : h.order[1] < cursor'
      /\ \A u : u # v /\ Handler(u, "reading") \in handlers => Handler(u, "reading") \in handlers'
      /\ InHand' \subseteq InHand /\ (DropHandler(v, from) => v \notin InHand')
  BY <1>1, <1>2, MoveOK
<1>4. Handler(v, "reading") \notin handlers
  BY <1>2 DEF HandlersOK, At, Handler
<1>5. \A i \in DOMAIN wire : wire[i][1] = "read" => wire[i][2] # v
  BY <1>4 DEF HandlersOK
<1>6. HandlersOK'
  <2>1. CASE wire' = wire
    BY <1>3, <1>5, <2>1 DEF HandlersOK
  <2>2. CASE wire' = Append(wire, <<"read", v>>) /\ Handler(v, "reading") \in handlers'
    <3>1. \A i \in DOMAIN wire' :
              \/ i \in DOMAIN wire /\ wire'[i] = wire[i]
              \/ i = Len(wire) + 1 /\ wire'[i] = <<"read", v>>
      BY <1>1, <2>2, AppendFacts
    <3>. QED BY <1>3, <1>5, <2>2, <3>1 DEF HandlersOK
  <2>3. wire' = wire \/ (wire' = Append(wire, <<"read", v>>) /\ MoveHandler(v, "retryWait", "reading"))
    BY DEF Validated, ValidationFails, Retry, Push, PushRejected
  <2>4. MoveHandler(v, "retryWait", "reading") => Handler(v, "reading") \in handlers'
    BY DEF MoveHandler
  <2>. QED BY <2>1, <2>2, <2>3, <2>4
<1>7. JobsOK'
  <2>1. CASE jobs' = jobs
    BY <1>1, <1>3, <2>1, SameJobs DEF Unpushed, Live
  <2>2. CASE jobs' = [jobs EXCEPT ![v] = jobs[v] + 1] /\ DropHandler(v, from)
    <3>1. /\ jobs \in [Orders -> Nat] /\ resent \in [Orders -> Nat]
          /\ deaths \in Nat /\ Orders' = Orders
          /\ cursor \in Nat /\ v[1] \in Nat
      BY <1>1, SameChain, OrderFacts, DaemonAssumption
         DEF TypeInv, HistoryOK, CountersOK, ProcessOK
    <3>2. jobs[v] <= deaths + resent[v]
      BY <1>1 DEF JobsOK, Unpushed
    <3>3. ~Unpushed(v)'
      <4>1. Live'
        BY <1>1, Working DEF Live
      <4>2. v[1] < cursor
        BY <1>2 DEF HandlersOK, At, Handler
      <4>. QED BY <1>1, <1>3, <2>2, <3>1, <4>1, <4>2 DEF Unpushed
    <3>4. \A u \in Orders : u # v => jobs'[u] = jobs[u] /\ (Unpushed(u)' => Unpushed(u))
      BY <1>1, <1>3, <2>2, <3>1 DEF Unpushed, Live
    <3>5. jobs'[v] = jobs[v] + 1
      BY <2>2, <3>1
    <3>6. jobs'[v] <= 1 + deaths + resent[v]
      <4>1. jobs[v] \in Nat /\ resent[v] \in Nat
        BY <3>1
      <4>. QED BY <3>1, <3>2, <3>5, <4>1
    <3>7. \A u \in Orders : /\ jobs'[u] <= 1 + deaths + resent[u]
                            /\ Unpushed(u)' => jobs'[u] <= deaths + resent[u]
      BY <3>3, <3>4, <3>6 DEF JobsOK
    <3>8. Orders' = Orders /\ deaths' = deaths /\ resent' = resent
      BY <1>1, <3>1
    <3>. QED BY ONLY <3>7, <3>8 DEF JobsOK
  <2>3. jobs' = jobs \/ (jobs' = [jobs EXCEPT ![v] = jobs[v] + 1] /\ DropHandler(v, "pushing"))
    BY DEF Validated, ValidationFails, Retry, Push, PushRejected, history, outcome
  <2>4. DropHandler(v, "pushing") => At(v, "pushing") \/ jobs' = jobs
    BY DEF Validated, ValidationFails, Retry, Push, PushRejected, history, outcome
  <2>5. At(v, "pushing") => from = "pushing"
    BY <1>2 DEF HandlersOK, At, Handler
  <2>. QED BY <2>1, <2>2, <2>3, <2>4, <2>5
<1>. QED BY <1>6, <1>7

\* What is pushed once more is counted on both sides.
LEMMA ResentOnce ==
    ASSUME TypeInv, HandlersOK, JobsOK, NEW v \in Orders, PushResent(v)
    PROVE  HandlersOK' /\ JobsOK'
<1>1. /\ UNCHANGED <<chain, cursor, phase, wire, handlers, deaths>> /\ Orders' = Orders
      /\ jobs' = [jobs EXCEPT ![v] = jobs[v] + 1] /\ resent' = [resent EXCEPT ![v] = resent[v] + 1]
  BY SameChain DEF PushResent, world
<1>2. jobs \in [Orders -> Nat] /\ resent \in [Orders -> Nat] /\ deaths \in Nat
  BY DaemonAssumption DEF TypeInv, HistoryOK, CountersOK
<1>3. HandlersOK'
  BY <1>1 DEF HandlersOK
<1>4. \A u \in Orders :
          \/ jobs'[u] = jobs[u] /\ resent'[u] = resent[u]
          \/ jobs'[u] = jobs[u] + 1 /\ resent'[u] = resent[u] + 1
  BY <1>1, <1>2
<1>5. \A u : Unpushed(u)' => Unpushed(u)
  BY <1>1 DEF Unpushed, Live, InHand
<1>6. ASSUME NEW u \in Orders
      PROVE  jobs'[u] <= 1 + deaths + resent'[u] /\ (Unpushed(u) => jobs'[u] <= deaths + resent'[u])
  <2>1. jobs[u] <= 1 + deaths + resent[u] /\ (Unpushed(u) => jobs[u] <= deaths + resent[u])
    BY DEF JobsOK
  <2>2. jobs[u] \in Nat /\ resent[u] \in Nat
    BY <1>2
  <2>. QED BY <1>2, <1>4, <2>1, <2>2
<1>7. \A u \in Orders : /\ jobs'[u] <= 1 + deaths + resent'[u]
                        /\ Unpushed(u)' => jobs'[u] <= deaths + resent'[u]
  BY <1>5, <1>6
<1>8. Orders' = Orders /\ deaths' = deaths
  BY <1>1
<1>9. JobsOK'
  BY ONLY <1>7, <1>8 DEF JobsOK
<1>. QED BY <1>3, <1>9

LEMMA NextOnce ==
    ASSUME TypeInv, LifeInv, HandlersOK, JobsOK, [Next]_vars
    PROVE  HandlersOK' /\ JobsOK'
<1>1. CASE NewBlock \/ SqlIndexes \/ Toggle \/ UNCHANGED vars
  <2>1. UNCHANGED <<chain, process, jobs, deaths, resent>>
    BY <1>1 DEF NewBlock, SqlIndexes, Toggle, vars, world, history, outcome, counters
  <2>. QED BY <2>1, SameJobs DEF HandlersOK, process, Unpushed, Live, InHand
<1>2. CASE Startup \/ Stop
  <2>1. UNCHANGED <<chain, wire, handlers, jobs, deaths, resent>>
    BY <1>2 DEF Startup, Boot, PreloadRules, PreloadDone, Stop, world, history, outcome, counters
  <2>2. CASE Stop
    BY <2>1, <2>2, SameJobs DEF Stop, HandlersOK, Unpushed, Live, InHand
  <2>3. CASE Startup
    <3>1. ~Live /\ wire = <<>> /\ handlers = {}
      BY <2>3 DEF Startup, Boot, PreloadRules, PreloadDone, LifeInv, Live
    <3>. QED BY <2>1, <3>1, SameJobs DEF HandlersOK, Unpushed
  <2>. QED BY <1>2, <2>2, <2>3
<1>3. CASE ServeSave \/ SaveRejected \/ ServeLoaded \/ ServeProcessed
  <2>1. /\ wire # <<>> /\ ~Command("read")
        /\ UNCHANGED <<chain, phase, cursor, handlers, jobs, deaths, resent>>
        /\ wire' = Tail(wire) \/ \E b : wire' = Append(Tail(wire), <<"loaded", b>>)
    BY <1>3 DEF ServeSave, SaveRejected, ServeLoaded, ServeProcessed, Command, world, history, outcome,
                counters
  <2>2. JobsOK'
    BY <2>1, SameJobs DEF Unpushed, Live, InHand
  <2>. QED BY <2>1, <2>2, OtherServed
<1>4. CASE ServeRead \/ ReadRejected
  <2>1. /\ Command("read") /\ wire' = Tail(wire)
        /\ UNCHANGED <<chain, phase, cursor, jobs, deaths, resent>>
        /\ \/ DropHandler(Operand, "reading")
           \/ \E to \in Steps \ {"reading"} : MoveHandler(Operand, "reading", to)
    BY <1>4 DEF ServeRead, ReadRejected, Steps, world, history, outcome, counters
  <2>2. Operand \in Orders /\ At(Operand, "reading")
    BY <2>1, ReadServed
  <2>3. /\ \A g, h \in handlers' : g.order = h.order => g = h
        /\ \A h \in handlers' : h.order[1] < cursor'
        /\ \A u : u # Operand /\ Handler(u, "reading") \in handlers =>
                  Handler(u, "reading") \in handlers'
        /\ InHand' \subseteq InHand
    BY <2>1, <2>2, MoveOK DEF Steps
  <2>4. HandlersOK'
    BY <2>1, <2>3, ReadServed DEF HandlersOK
  <2>5. JobsOK'
    BY <2>1, <2>3, SameJobs DEF Unpushed, Live
  <2>. QED BY <2>4, <2>5
<1>5. CASE RecordRejected \/ Crash
  <2>1. UNCHANGED <<chain, jobs, resent>> /\ (Die \/ UNCHANGED <<phase, cursor, handlers, deaths>>)
    BY <1>5 DEF RecordRejected, Crash, world
  <2>2. CASE Die
    <3>1. handlers' = {} /\ wire' = <<>> /\ deaths' = deaths + 1 /\ deaths \in Nat
      BY <2>2, DaemonAssumption DEF Die, TypeInv, CountersOK
    <3>2. Orders' = Orders /\ jobs \in [Orders -> Nat] /\ resent \in [Orders -> Nat]
      BY <2>1, SameChain DEF TypeInv, HistoryOK
    <3>3. JobsOK'
      BY <2>1, <3>1, <3>2 DEF JobsOK
    <3>. QED BY <3>1, <3>3 DEF HandlersOK
  <2>3. CASE UNCHANGED <<phase, cursor, handlers, deaths>> /\ ~Die
    <3>1. wire # <<>> /\ ~Command("read") /\ wire' = Tail(wire)
      BY <1>5, <2>3 DEF RecordRejected, Crash, Command
    <3>2. JobsOK'
      BY <2>1, <2>3, SameJobs DEF Unpushed, Live, InHand
    <3>. QED BY <2>3, <3>1, <3>2, OtherServed
  <2>. QED BY <2>1, <2>2, <2>3
<1>6. CASE CommandsResent
  <2>1. UNCHANGED <<chain, process, jobs, deaths, resent>>
    BY <1>6 DEF CommandsResent, world, outcome
  <2>. QED BY <2>1, SameJobs DEF HandlersOK, process, Unpushed, Live, InHand
<1>. QED BY <1>1, <1>2, <1>3, <1>4, <1>5, <1>6, BlockOnce, HandlerOnce, ResentOnce DEF Next, Startup

(* Neither retries of the handler nor rejected commands and pushes make    *)
(* the daemon push a second job in one life of the process, except what    *)
(* ioredis sends again by itself (Daemon.ts:202, RedisImpl.ts:12).         *)
THEOREM DaemonOneJobPerLife == Spec => []OneJobPerLife
<1>1. Init => HandlersOK /\ JobsOK
  BY DEF Init, HandlersOK, JobsOK
<1>2. TypeInv /\ LifeInv /\ (HandlersOK /\ JobsOK) /\ [Next]_vars => (HandlersOK /\ JobsOK)'
  BY NextOnce
<1>3. JobsOK => OneJobPerLife
  BY DEF JobsOK, OneJobPerLife
<1>. QED BY <1>1, <1>2, <1>3, LifeAlways, PTL DEF Spec

-----------------------------------------------------------------------------
(* The rules.  A command on the wire finds the hash as those before it     *)
(* have left it, and a block that is processed again writes its entry      *)
(* again, one operation after the other.                                   *)
Saved == RuleOps \ unsaved
NotOlder(q, r) == q = r \/ Precedes(r, q)
Larger(a, b) == IF a < b THEN b ELSE a
Record(c) == c[1] \in {"processed", "loaded"}

\* The hash has an entry up to a block that is not older than r ...
FoundBy(r, b) == \E q \in rules : NotOlder(q, r) /\ q[1] <= b
\* ... or r is about to be saved.
OnWire(r) == \E j \in DOMAIN wire : wire[j] = <<"save", r>>
Coming(r, i) == \E j \in DOMAIN wire : j < i /\ wire[j] = <<"save", r>>

\* A restart never begins before the block up to which rules are loaded.
StartOK ==
    /\ loadedUpTo <= StartBlock
    /\ phase \in {"preloading", "preloaded"} => cursor <= StartBlock /\ cursor <= sqlBlock
    /\ Live => loadedUpTo <= cursor

\* Records are written in the order of the blocks.
RecordsOK ==
    /\ \A i \in DOMAIN wire : Record(wire[i]) => wire[i][2] < cursor
    /\ \A i \in DOMAIN wire : wire[i][1] = "loaded" => wire[i][2] <= lastProcessed
    /\ \A i \in DOMAIN wire : wire[i][1] = "processed" => loadedUpTo <= wire[i][2]
    /\ \A i, j \in DOMAIN wire :
          wire[i][1] = "loaded" /\ wire[j][1] = "processed" => wire[i][2] < wire[j][2]
    /\ \A i, j \in DOMAIN wire :
          wire[i][1] = "processed" /\ wire[j][1] = "processed" /\ i < j => wire[i][2] < wire[j][2]

\* Rules are saved in the order of the chain, before their block is recorded.
SavesInOrder ==
    /\ \A i, j \in DOMAIN wire :
          i < j /\ Record(wire[i]) /\ wire[j][1] = "save" => wire[i][2] < wire[j][2][1]
    /\ \A j \in DOMAIN wire : wire[j][1] = "save" =>
          \A r \in RuleOps : r[1] = wire[j][2][1] /\ Precedes(wire[j][2], r) =>
              \E k \in DOMAIN wire :
                  /\ j < k /\ wire[k] = <<"save", r>>
                  /\ \A i \in DOMAIN wire :
                        j < i /\ i < k /\ wire[i][1] = "read" => ~Precedes(r, wire[i][2])

SavesAhead ==
    \A i \in DOMAIN wire : wire[i][1] = "save" => loadedUpTo <= wire[i][2][1] /\ wire[i][2][1] < cursor

\* What rules_loaded_up_to_block promises, failed HSETs apart.
KeptUpTo(n) ==
    \A r \in Saved : r[1] <= n =>
        \E q \in rules : r[1] <= q[1] /\ q[1] <= n /\ (r[1] < n => NotOlder(q, r))

PreloadedOK == phase = "preloaded" => \A r \in RuleOps : r[1] <= cursor => FoundBy(r, cursor)

\* In a life that began at the block base.
FoundFrom(base) ==
    /\ base \in Nat /\ base <= cursor
    /\ \A v \in InHand : base <= v[1]
    /\ \A i \in DOMAIN wire : Record(wire[i]) => base <= wire[i][2]
    /\ \A r \in Saved : r[1] < cursor => FoundBy(r, Larger(r[1], base)) \/ OnWire(r)

FoundOK == Live => \E base : FoundFrom(base)

ReadsOK ==
    \A i \in DOMAIN wire : wire[i][1] = "read" =>
        \A r \in Saved : Precedes(r, wire[i][2]) => FoundBy(r, wire[i][2][1]) \/ Coming(r, i)

RulesInv ==
    /\ StartOK /\ RecordsOK /\ SavesInOrder /\ SavesAhead
    /\ KeptUpTo(loadedUpTo) /\ PreloadedOK /\ FoundOK /\ ReadsOK

-----------------------------------------------------------------------------
LEMMA MomentOrder ==
    ASSUME TypeInv
    PROVE  /\ \A r, q \in Moments : NotOlder(q, r) \/ Precedes(q, r)
           /\ \A r, q, m \in Moments : NotOlder(m, q) /\ NotOlder(q, r) => NotOlder(m, r)
           /\ \A r, q \in Moments : NotOlder(q, r) => r[1] <= q[1]
           /\ \A r, q \in Moments : r[1] < q[1] => Precedes(r, q)
           /\ \A r, q \in Moments : Precedes(q, r) => ~NotOlder(q, r)
<1>1. \A r \in Moments : r = <<r[1], r[2]>> /\ r[1] \in Nat /\ r[2] \in Nat
  BY MomentFacts DEF TypeInv, WorldOK
<1>2. ASSUME NEW r \in Moments, NEW q \in Moments
      PROVE  NotOlder(q, r) \/ Precedes(q, r)
  BY <1>1 DEF NotOlder, Precedes
<1>3. ASSUME NEW r \in Moments, NEW q \in Moments, NEW m \in Moments, NotOlder(m, q), NotOlder(q, r)
      PROVE  NotOlder(m, r)
  BY <1>1, <1>3 DEF NotOlder, Precedes
<1>4. \A r, q \in Moments : NotOlder(q, r) => r[1] <= q[1]
  BY <1>1 DEF NotOlder, Precedes
<1>5. \A r, q \in Moments : Precedes(q, r) => ~NotOlder(q, r)
  BY <1>1 DEF NotOlder, Precedes
<1>. QED BY <1>2, <1>3, <1>4, <1>5 DEF Precedes

LEMMA WireFacts ==
    ASSUME TypeInv
    PROVE  /\ wire \in Seq(Sendable) /\ DOMAIN wire = 1..Len(wire) /\ Len(wire) \in Nat
           /\ \A i \in DOMAIN wire :
                 /\ i \in Nat /\ wire[i] = <<wire[i][1], wire[i][2]>>
                 /\ wire[i][1] = "save" => wire[i][2] \in RuleOps
                 /\ wire[i][1] = "read" => wire[i][2] \in Orders
                 /\ Record(wire[i]) => wire[i][2] \in 1..head /\ wire[i][2] \in Nat
<1>1. wire \in Seq(Sendable)
  BY DEF TypeInv, ProcessOK
<1>2. ASSUME NEW i \in DOMAIN wire
      PROVE  /\ wire[i] = <<wire[i][1], wire[i][2]>>
             /\ wire[i][1] = "save" => wire[i][2] \in RuleOps
             /\ wire[i][1] = "read" => wire[i][2] \in Orders
             /\ Record(wire[i]) => wire[i][2] \in 1..head
  <2>1. wire[i] \in Sendable
    BY <1>1
  <2>2. CASE wire[i] \in {"save"} \X RuleOps
    BY <2>2 DEF Record
  <2>3. CASE wire[i] \in {"read"} \X Orders
    BY <2>3 DEF Record
  <2>4. CASE wire[i] \in {"processed", "loaded"} \X (1..head)
    BY <2>4 DEF Record
  <2>. QED BY <2>1, <2>2, <2>3, <2>4 DEF Sendable
<1>3. \A n \in 1..head : n \in Nat
  BY ChainFacts DEF TypeInv
<1>. QED BY <1>1, <1>2, <1>3

\* The first d commands of the wire are gone, and another one may have come.
Moved(d, kind) ==
    /\ \A i \in DOMAIN wire' :
          /\ i \in Nat
          /\ \/ i + d \in DOMAIN wire /\ wire'[i] = wire[i + d]
             \/ wire'[i][1] = kind /\ \A j \in DOMAIN wire : j - d < i
    /\ \A j \in DOMAIN wire : j > d => j - d \in DOMAIN wire' /\ wire'[j - d] = wire[j]

LEMMA Moves ==
    ASSUME TypeInv
    PROVE  /\ wire' = wire => Moved(0, "none")
           /\ \A v : wire' = Append(wire, <<"read", v>>) => Moved(0, "read")
           /\ wire # <<>> /\ wire' = Tail(wire) => Moved(1, "none")
           /\ \A b : wire # <<>> /\ wire' = Append(Tail(wire), <<"loaded", b>>) => Moved(1, "loaded")
<1>1. wire \in Seq(Sendable) /\ DOMAIN wire = 1..Len(wire) /\ Len(wire) \in Nat
  BY WireFacts
<1>2. wire' = wire => Moved(0, "none")
  BY <1>1 DEF Moved
<1>3. ASSUME NEW v, wire' = Append(wire, <<"read", v>>)
      PROVE  Moved(0, "read")
  BY <1>1, <1>3 DEF Moved
<1>4. ASSUME wire # <<>>
      PROVE  /\ Tail(wire) \in Seq(Sendable) /\ Len(wire) >= 1
             /\ DOMAIN Tail(wire) = 1..(Len(wire) - 1) /\ Len(Tail(wire)) = Len(wire) - 1
             /\ \A i \in 1..(Len(wire) - 1) : Tail(wire)[i] = wire[i + 1]
  BY <1>1, <1>4
<1>5. ASSUME wire # <<>>, wire' = Tail(wire)
      PROVE  Moved(1, "none")
  BY <1>1, <1>4, <1>5 DEF Moved
<1>6. ASSUME NEW b, wire # <<>>, wire' = Append(Tail(wire), <<"loaded", b>>)
      PROVE  Moved(1, "loaded")
  <2>1. /\ DOMAIN wire' = 1..Len(wire) /\ wire'[Len(wire)] = <<"loaded", b>>
        /\ \A i \in 1..(Len(wire) - 1) : wire'[i] = wire[i + 1]
    BY <1>1, <1>4, <1>6
  <2>2. ASSUME NEW i \in DOMAIN wire'
        PROVE  /\ i \in Nat
               /\ \/ i + 1 \in DOMAIN wire /\ wire'[i] = wire[i + 1]
                  \/ wire'[i][1] = "loaded" /\ \A j \in DOMAIN wire : j - 1 < i
    <3>1. CASE i = Len(wire)
      <4>1. wire'[i][1] = "loaded"
        BY <2>1, <3>1
      <4>. QED BY <1>1, <3>1, <4>1
    <3>2. CASE i \in 1..(Len(wire) - 1)
      BY <1>1, <2>1, <3>2
    <3>. QED BY <1>1, <2>1, <3>1, <3>2
  <2>3. ASSUME NEW j \in DOMAIN wire, j > 1
        PROVE  j - 1 \in DOMAIN wire' /\ wire'[j - 1] = wire[j]
    <3>1. j - 1 \in 1..(Len(wire) - 1) /\ (j - 1) + 1 = j
      BY <1>1, <2>3
    <3>. QED BY <1>1, <2>1, <3>1
  <2>. QED BY <2>2, <2>3 DEF Moved
<1>7. \A v : wire' = Append(wire, <<"read", v>>) => Moved(0, "read")
  BY <1>3
<1>8. \A b : wire # <<>> /\ wire' = Append(Tail(wire), <<"loaded", b>>) => Moved(1, "loaded")
  BY <1>6
<1>. QED BY <1>2, <1>5, <1>7, <1>8

LEMMA SavesMove ==
    ASSUME TypeInv, SavesInOrder, chain' = chain, NEW d \in {0, 1}, NEW kind \in {"none", "read", "loaded"},
           Moved(d, kind)
    PROVE  SavesInOrder'
<1>1. RuleOps' = RuleOps /\ \A i \in DOMAIN wire : i \in Nat
  BY SameChain, WireFacts
<1>2. ASSUME NEW i \in DOMAIN wire', NEW j \in DOMAIN wire', i < j, Record(wire'[i]),
             wire'[j][1] = "save"
      PROVE  wire'[i][2] < wire'[j][2][1]
  <2>1. j + d \in DOMAIN wire /\ wire'[j] = wire[j + d]
    BY <1>2 DEF Moved
  <2>2. i \in Nat /\ j \in Nat /\ ~(j + d - d < i)
    BY <1>2 DEF Moved
  <2>3. i + d \in DOMAIN wire /\ wire'[i] = wire[i + d]
    BY <2>1, <2>2 DEF Moved
  <2>. QED BY <1>2, <2>1, <2>2, <2>3 DEF SavesInOrder
<1>3. ASSUME NEW j \in DOMAIN wire', wire'[j][1] = "save",
             NEW r \in RuleOps, r[1] = wire'[j][2][1], Precedes(wire'[j][2], r)
      PROVE  \E k \in DOMAIN wire' :
                 /\ j < k /\ wire'[k] = <<"save", r>>
                 /\ \A i \in DOMAIN wire' :
                       j < i /\ i < k /\ wire'[i][1] = "read" => ~Precedes(r, wire'[i][2])
  <2>1. j + d \in DOMAIN wire /\ wire'[j] = wire[j + d] /\ j \in Nat
    BY <1>3 DEF Moved
  <2>2. PICK k \in DOMAIN wire :
            /\ j + d < k /\ wire[k] = <<"save", r>>
            /\ \A i \in DOMAIN wire :
                  j + d < i /\ i < k /\ wire[i][1] = "read" => ~Precedes(r, wire[i][2])
    BY <1>3, <2>1 DEF SavesInOrder
  <2>3. k - d \in DOMAIN wire' /\ wire'[k - d] = <<"save", r>> /\ j < k - d /\ k \in Nat
    BY <1>1, <2>1, <2>2 DEF Moved
  <2>4. ASSUME NEW i \in DOMAIN wire', j < i, i < k - d, wire'[i][1] = "read"
        PROVE  ~Precedes(r, wire'[i][2])
    <3>1. i \in Nat /\ ~(k - d < i)
      BY <2>3, <2>4 DEF Moved
    <3>2. i + d \in DOMAIN wire /\ wire'[i] = wire[i + d]
      BY <3>1 DEF Moved
    <3>. QED BY <2>1, <2>2, <2>3, <2>4, <3>1, <3>2
  <2>. QED BY <2>3, <2>4
<1>. QED BY <1>1, <1>2, <1>3 DEF SavesInOrder


LEMMA StartFacts ==
    ASSUME TypeInv
    PROVE  /\ startFrom = FromHeadReset => StartBlock = head
           /\ startFrom # FromHeadReset /\ lastProcessed # 0 => StartBlock = lastProcessed
           /\ startFrom # FromHeadReset /\ lastProcessed = 0 /\ startFrom = FromHead =>
                 StartBlock = head
           /\ startFrom # FromHeadReset /\ lastProcessed = 0 /\ startFrom # FromHead =>
                 StartBlock = startFrom
  BY DEF StartBlock

\* The place to start from does not go back when the chain grows.
LEMMA StartGrows ==
    ASSUME TypeInv, TypeInv', UNCHANGED <<startFrom, lastProcessed>>, head <= head'
    PROVE  StartBlock <= StartBlock' /\ StartBlock' \in Nat /\ head' \in Nat
<1>1. StartBlock \in Nat /\ StartBlock' \in Nat /\ head \in Nat /\ head' \in Nat
  <2>1. StartBlock \in Nat /\ head \in Nat
    BY StartBlockNat, ChainFacts DEF TypeInv
  <2>2. StartBlock' \in Nat /\ head' \in Nat
    <3>1. Len(chain') \in Nat /\ head' \in Nat /\ head' >= 1
      BY DaemonAssumption DEF TypeInv, WorldOK
    <3>. QED BY <3>1, DaemonAssumption DEF TypeInv, WorldOK, StoreOK, StartBlock
  <2>. QED BY <2>1, <2>2
<1>2. StartBlock' = StartBlock \/ (StartBlock' = head' /\ StartBlock = head)
  BY DEF StartBlock
<1>. QED BY <1>1, <1>2

\* Nothing is lost from the hash, and no rules that are on their way.
LEMMA StillFound ==
    ASSUME TypeInv, UNCHANGED <<chain, rules, unsaved>>,
           NEW d \in {0, 1}, NEW kind, Moved(d, kind), d = 1 => wire # <<>> /\ ~Command("save")
    PROVE  /\ Saved' = Saved
           /\ \A r, b : FoundBy(r, b)' <=> FoundBy(r, b)
           /\ \A r : OnWire(r) => OnWire(r)'
           /\ \A r : \A i \in DOMAIN wire' : i + d \in DOMAIN wire /\ Coming(r, i + d) => Coming(r, i)'
           /\ \A r : \A i \in DOMAIN wire' :
                 (\A j \in DOMAIN wire : j - d < i) /\ OnWire(r) => Coming(r, i)'
<1>1. Saved' = Saved
  BY SameChain DEF Saved
<1>2. \A r, b : FoundBy(r, b)' <=> FoundBy(r, b)
  BY DEF FoundBy, NotOlder, Precedes
<1>3. ASSUME NEW r, NEW j \in DOMAIN wire, wire[j] = <<"save", r>>
      PROVE  j - d \in DOMAIN wire' /\ wire'[j - d] = <<"save", r>> /\ j \in Nat
  <2>1. j \in Nat /\ j >= 1
    BY WireFacts
  <2>2. j > d
    <3>1. CASE d = 0
      BY <2>1, <3>1
    <3>2. CASE d = 1
      <4>1. j # 1
        BY <1>3, <3>2, TailFacts DEF Command
      <4>. QED BY <2>1, <3>2, <4>1
    <3>. QED BY <3>1, <3>2
  <2>. QED BY <1>3, <2>1, <2>2 DEF Moved
<1>4. \A r : OnWire(r) => OnWire(r)'
  BY <1>3 DEF OnWire
<1>5. ASSUME NEW r, NEW i \in DOMAIN wire', i + d \in DOMAIN wire, Coming(r, i + d)
      PROVE  Coming(r, i)'
  <2>1. PICK j \in DOMAIN wire : j < i + d /\ wire[j] = <<"save", r>>
    BY <1>5 DEF Coming
  <2>2. j - d \in DOMAIN wire' /\ wire'[j - d] = <<"save", r>> /\ j \in Nat /\ i \in Nat
    BY <1>3, <2>1 DEF Moved
  <2>3. j - d < i
    BY <2>1, <2>2
  <2>. QED BY <2>2, <2>3 DEF Coming
<1>6. ASSUME NEW r, NEW i \in DOMAIN wire', \A j \in DOMAIN wire : j - d < i, OnWire(r)
      PROVE  Coming(r, i)'
  BY <1>3, <1>6 DEF OnWire, Coming
<1>. QED BY <1>1, <1>2, <1>4, <1>5, <1>6

\* Who is in hand finds his rules when his next read is served.
LEMMA HandFinds ==
    ASSUME TypeInv, HandlersOK, NEW base, FoundFrom(base), NEW v \in InHand,
           NEW r \in Saved, Precedes(r, v)
    PROVE  FoundBy(r, v[1]) \/ OnWire(r)
<1>1. v \in Orders /\ v[1] \in Nat /\ r[1] \in Nat /\ cursor \in Nat
  BY InHandFacts, OrderFacts, RuleFacts DEF Saved, TypeInv, ProcessOK
<1>2. v[1] < cursor /\ r[1] <= v[1]
  BY <1>1 DEF HandlersOK, InHand, Precedes
<1>3. Larger(r[1], base) <= v[1] /\ r[1] < cursor /\ base \in Nat
  BY <1>1, <1>2 DEF FoundFrom, Larger
<1>4. Larger(r[1], base) \in Nat
  BY <1>1, <1>3 DEF Larger
<1>5. FoundBy(r, Larger(r[1], base)) \/ OnWire(r)
  BY <1>3 DEF FoundFrom
<1>6. \A q \in rules : q[1] \in Nat
  BY RuleFacts DEF TypeInv, StoreOK
<1>7. FoundBy(r, Larger(r[1], base)) => FoundBy(r, v[1])
  BY <1>1, <1>3, <1>4, <1>6 DEF FoundBy
<1>. QED BY <1>5, <1>7

\* Steps that neither write rules nor records.
LEMMA ReaderKeeps ==
    ASSUME TypeInv, TypeInv', LifeInv, HandlersOK, RulesInv,
           UNCHANGED <<chain, startFrom, rules, loadedUpTo, lastProcessed, cursor, unsaved>>,
           head <= head', sqlBlock <= sqlBlock',
           phase' = phase \/ (Live /\ Live'), InHand' \subseteq InHand,
           NEW d \in {0, 1}, NEW kind \in {"none", "read"}, Moved(d, kind),
           d = 1 => wire # <<>> /\ ~Command("save"),
           \A i \in DOMAIN wire' :
              \/ i + d \in DOMAIN wire /\ wire'[i] = wire[i + d]
              \/ wire'[i][2] \in InHand /\ wire'[i][1] = "read"
    PROVE  RulesInv'
<1>1. StartOK'
  <2>1. StartBlock <= StartBlock'
    BY StartGrows
  <2>2. StartBlock \in Nat /\ sqlBlock \in Nat /\ cursor \in Nat /\ loadedUpTo \in Nat
    BY StartBlockNat, ChainFacts DEF TypeInv, ProcessOK, StoreOK
  <2>3. StartBlock' \in Nat /\ sqlBlock' \in Nat
    BY StartGrows DEF TypeInv, WorldOK
  <2>4. loadedUpTo' <= StartBlock'
    BY <2>1, <2>2, <2>3 DEF RulesInv, StartOK
  <2>5. phase' \in {"preloading", "preloaded"} => cursor' <= StartBlock' /\ cursor' <= sqlBlock'
    BY <2>1, <2>2, <2>3 DEF RulesInv, StartOK, Live
  <2>6. Live' => loadedUpTo' <= cursor'
    BY DEF RulesInv, StartOK, Live
  <2>. QED BY <2>4, <2>5, <2>6 DEF StartOK
<1>2. RecordsOK'
  <2>1. \A i \in DOMAIN wire' : wire'[i][1] # "read" => i + d \in DOMAIN wire /\ wire'[i] = wire[i + d]
    OBVIOUS
  <2>2. \A i \in DOMAIN wire' : i \in Nat
    BY DEF Moved
  <2>3. \A i, j \in DOMAIN wire' : i < j => i + d < j + d
    BY <2>2
  <2>. QED BY <2>1, <2>3 DEF RulesInv, RecordsOK, Record
<1>3. SavesInOrder'
  BY SavesMove DEF RulesInv
<1>4. SavesAhead'
  BY DEF RulesInv, SavesAhead
<1>. USE StillFound
<1>5. KeptUpTo(loadedUpTo)'
  <2>1. KeptUpTo(loadedUpTo)
    BY DEF RulesInv
  <2>. QED BY <2>1 DEF KeptUpTo, NotOlder, Precedes
<1>6. PreloadedOK'
  <2>1. RuleOps' = RuleOps
    BY SameChain
  <2>2. phase' = "preloaded" => phase = "preloaded"
    BY DEF Live
  <2>. QED BY <2>1, <2>2 DEF RulesInv, PreloadedOK
<1>7. FoundOK'
  <2>1. Live' => Live
    BY DEF Live
  <2>2. ASSUME NEW base, FoundFrom(base)
        PROVE  FoundFrom(base)'
    <3>1. \A i \in DOMAIN wire' : Record(wire'[i]) => base <= wire'[i][2]
      BY <2>2 DEF FoundFrom, Record
    <3>2. \A r \in Saved' : r[1] < cursor' => FoundBy(r, Larger(r[1], base))' \/ OnWire(r)'
      BY <2>2 DEF FoundFrom
    <3>3. base \in Nat /\ base <= cursor' /\ \A v \in InHand' : base <= v[1]
      BY <2>2 DEF FoundFrom
    <3>. QED BY <3>1, <3>2, <3>3 DEF FoundFrom, Larger
  <2>. QED BY <2>1, <2>2 DEF RulesInv, FoundOK
<1>8. ReadsOK'
  <2>. SUFFICES ASSUME NEW i \in DOMAIN wire', NEW v, wire'[i][1] = "read", wire'[i][2] = v,
                       NEW r \in Saved', Precedes(r, v)
                PROVE  FoundBy(r, v[1])' \/ Coming(r, i)'
    BY DEF ReadsOK, Precedes
  <2>1. CASE i + d \in DOMAIN wire /\ wire'[i] = wire[i + d]
    <3>1. FoundBy(r, v[1]) \/ Coming(r, i + d)
      BY <2>1 DEF RulesInv, ReadsOK
    <3>. QED BY <2>1, <3>1
  <2>2. CASE ~(i + d \in DOMAIN wire /\ wire'[i] = wire[i + d])
    <3>1. v \in InHand /\ \A j \in DOMAIN wire : j - d < i
      BY <2>2 DEF Moved
    <3>2. Live
      BY <3>1, Working
    <3>3. PICK base : FoundFrom(base)
      BY <3>2 DEF RulesInv, FoundOK
    <3>4. r \in Saved
      OBVIOUS
    <3>5. FoundBy(r, v[1]) \/ OnWire(r)
      BY <3>1, <3>3, <3>4, HandFinds
    <3>. QED BY <3>1, <3>5
  <2>. QED BY <2>1, <2>2
<1>. QED BY <1>1, <1>2, <1>3, <1>4, <1>5, <1>6, <1>7, <1>8 DEF RulesInv


\* An HSET is executed, or it is rejected and perhaps executed all the same.
SaveStep ==
    /\ Command("save") /\ wire' = Tail(wire)
    /\ UNCHANGED <<chain, head, sqlBlock, startFrom, loadedUpTo, lastProcessed, phase, cursor,
                   handlers>>
    /\ unsaved \subseteq unsaved'
    /\ rules' = SaveRules(Operand) \/ (rules' = rules /\ Operand \in unsaved')

LEMMA SaveFacts ==
    ASSUME TypeInv, SaveStep
    PROVE  /\ Moved(1, "none") /\ wire # <<>> /\ 1 \in DOMAIN wire
           /\ wire[1] = <<"save", Operand>> /\ Operand \in RuleOps
           /\ Saved' \subseteq Saved /\ Saved' \subseteq RuleOps
           /\ RuleOps \subseteq Moments /\ rules \subseteq RuleOps
           /\ \A q \in rules : rules' = rules \/ q[1] # Operand[1] => q \in rules'
           /\ Operand \in rules' \/ (rules' = rules /\ Operand \notin Saved')
<1>1. wire # <<>> /\ 1 \in DOMAIN wire /\ Head(wire) = wire[1] /\ Operand \in RuleOps
  BY HeadFacts, TailFacts DEF SaveStep, Command
<1>2. wire[1] = <<"save", Operand>>
  BY <1>1, WireFacts DEF SaveStep, Command, Operand
<1>3. Moved(1, "none")
  BY <1>1, Moves DEF SaveStep
<1>4. Saved' \subseteq Saved /\ Saved' \subseteq RuleOps /\ RuleOps \subseteq Moments
  BY SameChain DEF SaveStep, Saved, RuleOps
<1>5. rules \subseteq RuleOps
  BY DEF TypeInv, StoreOK
<1>6. \A q \in rules : rules' = rules \/ q[1] # Operand[1] => q \in rules'
  BY DEF SaveStep, SaveRules
<1>7. Operand \in rules' \/ (rules' = rules /\ Operand \notin Saved')
  BY DEF SaveStep, SaveRules, Saved
<1>. QED BY <1>1, <1>2, <1>3, <1>4, <1>5, <1>6, <1>7

\* An entry that is overwritten by an older one of its block, which is
\* processed again, is on the wire once more.
LEMMA Overwritten ==
    ASSUME TypeInv, SavesInOrder, SaveStep, NEW r \in Saved', NEW b \in Nat, r[1] <= b,
           FoundBy(r, b), ~FoundBy(r, b)'
    PROVE  \E k \in DOMAIN wire :
               /\ 1 < k /\ wire[k] = <<"save", r>>
               /\ \A i \in DOMAIN wire :
                     1 < i /\ i < k /\ wire[i][1] = "read" => ~Precedes(r, wire[i][2])
<1>1. PICK q \in rules : NotOlder(q, r) /\ q[1] <= b
  BY DEF FoundBy
<1>. USE SaveFacts
<1>2. q \notin rules'
  BY <1>1 DEF FoundBy, NotOlder, Precedes
<1>3. q[1] = Operand[1] /\ Operand \in rules'
  BY <1>2
<1>4. ~NotOlder(Operand, r)
  BY <1>1, <1>3 DEF FoundBy, NotOlder, Precedes
<1>5. r \in Moments /\ q \in Moments /\ Operand \in Moments /\ r \in RuleOps
  OBVIOUS
<1>6. Precedes(Operand, r) /\ r[1] <= q[1] /\ Operand[1] <= r[1]
  BY <1>1, <1>4, <1>5, MomentOrder DEF NotOlder
<1>7. r[1] = Operand[1]
  BY <1>3, <1>5, <1>6, RuleFacts
<1>8. wire[1][1] = "save" /\ wire[1][2] = Operand
  OBVIOUS
<1>. QED BY <1>5, <1>6, <1>7, <1>8 DEF SavesInOrder

\* Whoever finds his rules, or has them ahead of him, still does.
LEMMA SaveServed ==
    ASSUME TypeInv, SavesInOrder, SaveStep, NEW r \in Saved', NEW b \in Nat, r[1] <= b
    PROVE  /\ FoundBy(r, b) \/ OnWire(r) => FoundBy(r, b)' \/ OnWire(r)'
           /\ \A i \in DOMAIN wire :
                 /\ 1 < i /\ wire[i][1] = "read" /\ Precedes(r, wire[i][2])
                 /\ FoundBy(r, b) \/ Coming(r, i)
                 => FoundBy(r, b)' \/ Coming(r, i - 1)'
<1>. USE SaveFacts
<1>1. ASSUME NEW j \in DOMAIN wire, wire[j] = <<"save", r>>, ~FoundBy(r, b)'
      PROVE  j \in Nat /\ j > 1 /\ j - 1 \in DOMAIN wire' /\ wire'[j - 1] = <<"save", r>>
  <2>1. j \in Nat /\ j >= 1
    BY WireFacts
  <2>2. j # 1
    <3>1. SUFFICES ASSUME j = 1 PROVE FALSE
      OBVIOUS
    <3>2. r = Operand
      BY <1>1, <3>1
    <3>3. r \in rules'
      BY <3>2
    <3>. QED BY <1>1, <3>3 DEF FoundBy, NotOlder
  <2>. QED BY <1>1, <2>1, <2>2 DEF Moved
<1>2. ASSUME FoundBy(r, b) \/ OnWire(r)
      PROVE  FoundBy(r, b)' \/ OnWire(r)'
  BY <1>1, <1>2, Overwritten DEF OnWire
<1>3. ASSUME NEW i \in DOMAIN wire, 1 < i, wire[i][1] = "read", Precedes(r, wire[i][2]),
             FoundBy(r, b) \/ Coming(r, i), ~FoundBy(r, b)'
      PROVE  Coming(r, i - 1)'
  <2>1. PICK j \in DOMAIN wire : j < i /\ wire[j] = <<"save", r>>
    <3>1. CASE Coming(r, i)
      BY <3>1 DEF Coming
    <3>2. CASE FoundBy(r, b)
      <4>1. PICK k \in DOMAIN wire :
                /\ 1 < k /\ wire[k] = <<"save", r>>
                /\ \A m \in DOMAIN wire :
                      1 < m /\ m < k /\ wire[m][1] = "read" => ~Precedes(r, wire[m][2])
        BY <1>3, <3>2, Overwritten
      <4>2. k \in Nat /\ i \in Nat /\ ~(i < k) /\ i # k
        BY <1>3, <4>1, WireFacts
      <4>. QED BY <4>1, <4>2
    <3>. QED BY <1>3, <3>1, <3>2
  <2>2. j \in Nat /\ i \in Nat /\ j - 1 \in DOMAIN wire' /\ wire'[j - 1] = <<"save", r>>
    BY <1>1, <1>3, <2>1, WireFacts
  <2>3. j - 1 < i - 1
    BY <2>1, <2>2
  <2>. QED BY <2>2, <2>3 DEF Coming
<1>. QED BY <1>2, <1>3

LEMMA SaveKeeps ==
    ASSUME TypeInv, LifeInv, RulesInv, SaveStep
    PROVE  RulesInv'
<1>. USE SaveFacts
<1>0. \A i \in DOMAIN wire' : /\ i \in Nat /\ i + 1 \in DOMAIN wire /\ wire'[i] = wire[i + 1]
                              /\ i >= 1
  BY TailFacts, WireFacts DEF SaveStep
<1>1. StartOK'
  BY DEF RulesInv, StartOK, SaveStep, StartBlock, Live
<1>2. RecordsOK'
  <2>1. \A i, j \in DOMAIN wire' : i < j => i + 1 < j + 1
    BY <1>0
  <2>. QED BY <1>0, <2>1 DEF RulesInv, RecordsOK, Record, SaveStep
<1>3. SavesInOrder'
  BY SavesMove DEF RulesInv, SaveStep
<1>4. SavesAhead'
  BY <1>0 DEF RulesInv, SavesAhead, SaveStep
<1>5. KeptUpTo(loadedUpTo)'
  <2>1. loadedUpTo <= Operand[1] /\ loadedUpTo \in Nat /\ Operand[1] \in Nat
    BY RuleFacts DEF RulesInv, SavesAhead, TypeInv, StoreOK
  <2>2. ASSUME NEW r \in Saved', r[1] <= loadedUpTo
        PROVE  \E q \in rules' :
                   r[1] <= q[1] /\ q[1] <= loadedUpTo /\ (r[1] < loadedUpTo => NotOlder(q, r))
    <3>1. r \in Saved /\ r[1] \in Nat /\ r \in Moments /\ Operand \in Moments
      BY RuleFacts
    <3>2. PICK q \in rules :
              r[1] <= q[1] /\ q[1] <= loadedUpTo /\ (r[1] < loadedUpTo => NotOlder(q, r))
      BY <2>2, <3>1 DEF RulesInv, KeptUpTo
    <3>3. CASE q \in rules'
      BY <3>2, <3>3
    <3>4. CASE q \notin rules'
      <4>1. q[1] = Operand[1] /\ Operand \in rules'
        BY <3>4
      <4>2. Operand[1] = loadedUpTo
        BY <2>1, <3>2, <4>1
      <4>3. r[1] < loadedUpTo => Precedes(r, Operand)
        BY <4>2 DEF Precedes
      <4>. QED BY <2>1, <2>2, <4>1, <4>2, <4>3 DEF NotOlder
    <3>. QED BY <3>3, <3>4
  <2>. QED BY <2>2 DEF KeptUpTo, SaveStep, NotOlder, Precedes
<1>6. Live /\ PreloadedOK'
  <2>1. Live
    BY Working
  <2>. QED BY <2>1 DEF PreloadedOK, SaveStep, Live
<1>7. FoundOK'
  <2>1. ASSUME NEW base, FoundFrom(base)
        PROVE  FoundFrom(base)'
    <3>1. base \in Nat /\ base <= cursor'
      BY <2>1 DEF FoundFrom, SaveStep
    <3>2. \A v \in InHand' : base <= v[1]
      BY <2>1 DEF FoundFrom, SaveStep, InHand
    <3>3. \A i \in DOMAIN wire' : Record(wire'[i]) => base <= wire'[i][2]
      BY <1>0, <2>1 DEF FoundFrom, Record
    <3>4. ASSUME NEW r \in Saved', r[1] < cursor
          PROVE  FoundBy(r, Larger(r[1], base))' \/ OnWire(r)'
      <4>1. r \in Saved /\ r[1] \in Nat
        BY RuleFacts
      <4>2. Larger(r[1], base) \in Nat /\ r[1] <= Larger(r[1], base)
        BY <3>1, <4>1 DEF Larger
      <4>3. FoundBy(r, Larger(r[1], base)) \/ OnWire(r)
        BY <2>1, <3>4, <4>1 DEF FoundFrom
      <4>. QED BY <4>2, <4>3, SaveServed DEF RulesInv
    <3>. QED BY <3>1, <3>2, <3>3, <3>4 DEF FoundFrom, SaveStep, Larger
  <2>. QED BY <1>6, <2>1 DEF RulesInv, FoundOK
<1>8. ReadsOK'
  <2>. SUFFICES ASSUME NEW i \in DOMAIN wire', NEW v, wire'[i][1] = "read", wire'[i][2] = v,
                       NEW r \in Saved', Precedes(r, v)
                PROVE  FoundBy(r, v[1])' \/ Coming(r, i)'
    BY DEF ReadsOK, Precedes
  <2>1. /\ i + 1 \in DOMAIN wire /\ 1 < i + 1 /\ wire[i + 1][1] = "read" /\ wire[i + 1][2] = v
        /\ (i + 1) - 1 = i
    BY <1>0
  <2>2. v \in Orders /\ v[1] \in Nat /\ r \in Saved /\ r[1] \in Nat
    BY <2>1, WireFacts, OrderFacts, RuleFacts
  <2>3. r[1] <= v[1]
    BY <2>2 DEF Precedes
  <2>4. FoundBy(r, v[1]) \/ Coming(r, i + 1)
    BY <2>1, <2>2 DEF RulesInv, ReadsOK
  <2>5. FoundBy(r, v[1])' \/ Coming(r, (i + 1) - 1)'
    BY <2>1, <2>2, <2>3, <2>4, SaveServed DEF RulesInv
  <2>. QED BY <2>1, <2>5
<1>. QED BY <1>1, <1>2, <1>3, <1>4, <1>5, <1>6, <1>7, <1>8 DEF RulesInv


-----------------------------------------------------------------------------
(* The records.                                                            *)
LEMMA RecordFacts ==
    ASSUME TypeInv, Command("processed") \/ Command("loaded")
    PROVE  /\ wire # <<>> /\ 1 \in DOMAIN wire /\ wire[1] = <<wire[1][1], Operand>>
           /\ Record(wire[1]) /\ Operand \in 1..head /\ Operand \in Nat /\ Operand # 0
           /\ Command("loaded") <=> wire[1][1] = "loaded"
           /\ Command("processed") <=> wire[1][1] = "processed"
           /\ ~Command("save")
<1>1. wire # <<>> /\ 1 \in DOMAIN wire /\ Head(wire) = wire[1]
  BY TailFacts DEF Command
<1>2. wire[1] = <<wire[1][1], Operand>> /\ Operand = wire[1][2]
  BY <1>1, WireFacts DEF Operand
<1>3. /\ Command("loaded") <=> wire[1][1] = "loaded"
      /\ Command("processed") <=> wire[1][1] = "processed"
      /\ Command("save") <=> wire[1][1] = "save"
  BY <1>1 DEF Command
<1>4. Record(wire[1])
  BY <1>3 DEF Record
<1>5. Operand \in 1..head /\ Operand \in Nat /\ Operand # 0
  BY <1>1, <1>2, <1>4, WireFacts, ChainFacts DEF TypeInv
<1>6. ~Command("save")
  BY <1>3, <1>4 DEF Record
<1>. QED BY <1>1, <1>2, <1>3, <1>4, <1>5, <1>6

\* When it does, the hash has what it promises, and it does not pass the start.
LEMMA LoadedTrue ==
    ASSUME TypeInv, LifeInv, RulesInv, Command("loaded")
    PROVE  /\ KeptUpTo(Operand) /\ Operand <= StartBlock
           /\ \A i \in DOMAIN wire : i > 1 /\ wire[i][1] = "save" => Operand < wire[i][2][1]
           /\ \A i \in DOMAIN wire : wire[i][1] = "processed" => Operand < wire[i][2]
<1>. USE RecordFacts
<1>1. Live
  BY Working
<1>2. PICK base : FoundFrom(base)
  BY <1>1 DEF RulesInv, FoundOK
<1>3. wire[1][1] = "loaded" /\ wire[1][2] = Operand
  OBVIOUS
<1>4. base \in Nat /\ base <= Operand /\ Operand < cursor /\ cursor \in Nat
  BY <1>2, <1>3 DEF FoundFrom, RulesInv, RecordsOK, TypeInv, ProcessOK
<1>5. \A i \in DOMAIN wire : i > 1 /\ wire[i][1] = "save" => Operand < wire[i][2][1]
  BY <1>3 DEF RulesInv, SavesInOrder
<1>6. \A i \in DOMAIN wire : wire[i][1] = "processed" => Operand < wire[i][2]
  BY <1>3 DEF RulesInv, RecordsOK
<1>7. Operand <= StartBlock
  <2>1. Operand <= lastProcessed /\ lastProcessed \in Nat /\ head \in Nat /\ Operand <= head
    BY <1>3, ChainFacts DEF RulesInv, RecordsOK, TypeInv, StoreOK
  <2>2. lastProcessed # 0
    BY <2>1
  <2>. QED BY <2>1, <2>2, StartFacts
<1>8. ASSUME NEW r \in Saved, r[1] <= Operand
      PROVE  \E q \in rules : r[1] <= q[1] /\ q[1] <= Operand /\ (r[1] < Operand => NotOlder(q, r))
  <2>1. r \in Moments /\ r[1] \in Nat /\ r[1] < cursor
    BY <1>4, <1>8, RuleFacts DEF Saved
  <2>2. ~OnWire(r)
    <3>1. ASSUME NEW j \in DOMAIN wire, wire[j] = <<"save", r>>
          PROVE  FALSE
      <4>1. j \in Nat /\ j >= 1 /\ wire[j][1] = "save" /\ wire[j][2] = r
        BY <3>1, WireFacts
      <4>2. j > 1
        BY <1>3, <4>1
      <4>3. Operand < r[1]
        BY <1>5, <4>1, <4>2
      <4>. QED BY <1>8, <2>1, <4>3
    <3>. QED BY <3>1 DEF OnWire
  <2>3. PICK q \in rules : NotOlder(q, r) /\ q[1] <= Larger(r[1], base)
    BY <1>2, <2>1, <2>2 DEF FoundFrom, FoundBy
  <2>4. q \in Moments /\ q[1] \in Nat
    BY RuleFacts DEF TypeInv, StoreOK
  <2>5. Larger(r[1], base) <= Operand /\ Larger(r[1], base) \in Nat
    BY <1>4, <1>8, <2>1 DEF Larger
  <2>6. q[1] <= Operand
    BY <2>3, <2>4, <2>5
  <2>. QED BY <2>1, <2>3, <2>4, <2>6, MomentOrder
<1>9. KeptUpTo(Operand)
  BY <1>8 DEF KeptUpTo
<1>. QED BY <1>5, <1>6, <1>7, <1>9

\* Both stay what they promise when the last processed block goes on.
LEMMA ProcessedTrue ==
    ASSUME TypeInv, LifeInv, RulesInv, Command("processed")
    PROVE  /\ loadedUpTo <= Operand
           /\ \A i \in DOMAIN wire : wire[i][1] = "loaded" => wire[i][2] < Operand
           /\ \A i \in DOMAIN wire : i > 1 /\ wire[i][1] = "processed" => Operand < wire[i][2]
           /\ \A i \in DOMAIN wire : i > 1 /\ wire[i][1] = "save" => Operand < wire[i][2][1]
<1>. USE RecordFacts
<1>1. wire[1][1] = "processed" /\ wire[1][2] = Operand
  OBVIOUS
<1>. QED BY <1>1 DEF RulesInv, RecordsOK, SavesInOrder

\* At most one of the two records is written, the one at the head of the wire.
RecordWrites ==
    /\ UNCHANGED <<chain, head, sqlBlock, startFrom, rules, unsaved>>
    /\ loadedUpTo' = loadedUpTo \/ (Command("loaded") /\ loadedUpTo' = Operand)
    /\ lastProcessed' = lastProcessed \/ (Command("processed") /\ lastProcessed' = Operand)

LEMMA WritesKeep ==
    ASSUME TypeInv, LifeInv, RulesInv, RecordWrites
    PROVE  loadedUpTo' <= StartBlock' /\ KeptUpTo(loadedUpTo)'
<1>1. ~(Command("loaded") /\ Command("processed"))
  BY DEF Command
<1>2. loadedUpTo' <= StartBlock'
  <2>1. CASE lastProcessed' = lastProcessed
    <3>1. StartBlock' = StartBlock
      BY <2>1 DEF StartBlock, RecordWrites
    <3>. QED BY <3>1, LoadedTrue DEF RulesInv, StartOK, RecordWrites
  <2>2. CASE Command("processed") /\ lastProcessed' = Operand
    <3>1. StartBlock' = StartBlock \/ StartBlock' = Operand
      BY <2>2, RecordFacts DEF StartBlock, RecordWrites
    <3>. QED BY <1>1, <2>2, <3>1, ProcessedTrue DEF RulesInv, StartOK, RecordWrites
  <2>. QED BY <2>1, <2>2 DEF RecordWrites
<1>3. KeptUpTo(loadedUpTo)'
  <2>1. KeptUpTo(loadedUpTo) /\ (Command("loaded") => KeptUpTo(Operand))
    BY LoadedTrue DEF RulesInv
  <2>2. Saved' = Saved /\ rules' = rules
    BY SameChain DEF RecordWrites, Saved
  <2>. QED BY <2>1, <2>2 DEF KeptUpTo, NotOlder, Precedes, RecordWrites
<1>. QED BY <1>2, <1>3

\* It is executed, or rejected; the process goes on.
RecordStep ==
    /\ Command("processed") \/ Command("loaded")
    /\ RecordWrites /\ UNCHANGED <<phase, cursor, handlers>>
    /\ \/ wire' = Tail(wire)
       \/ /\ Command("processed") /\ lastProcessed' = Operand
          /\ wire' = Append(Tail(wire), <<"loaded", Operand>>)

LEMMA RecordMoves ==
    ASSUME TypeInv, RecordStep
    PROVE  \E kind \in {"none", "loaded"} :
               /\ Moved(1, kind)
               /\ \A i \in DOMAIN wire' :
                     \/ i \in Nat /\ i + 1 > 1 /\ i + 1 \in DOMAIN wire /\ wire'[i] = wire[i + 1]
                     \/ /\ Command("processed") /\ lastProcessed' = Operand
                        /\ wire'[i] = <<"loaded", Operand>>
<1>1. wire # <<>> /\ Tail(wire) \in Seq(Sendable)
  BY HeadFacts DEF RecordStep, Command
<1>2. \A i \in DOMAIN Tail(wire) :
          i \in Nat /\ i + 1 > 1 /\ i + 1 \in DOMAIN wire /\ Tail(wire)[i] = wire[i + 1]
  <2>1. \A i \in DOMAIN Tail(wire) : i \in Nat /\ i >= 1
    BY <1>1
  <2>. QED BY <1>1, <2>1, TailFacts
<1>3. CASE wire' = Tail(wire)
  BY <1>1, <1>2, <1>3, Moves
<1>4. CASE /\ Command("processed") /\ lastProcessed' = Operand
           /\ wire' = Append(Tail(wire), <<"loaded", Operand>>)
  BY <1>1, <1>2, <1>4, Moves, AppendFacts
<1>. QED BY <1>3, <1>4 DEF RecordStep

LEMMA RecordKeeps ==
    ASSUME TypeInv, TypeInv', LifeInv, RulesInv, RecordStep
    PROVE  RulesInv'
<1>. USE RecordFacts DEF RecordStep, RecordWrites
<1>1. PICK kind \in {"none", "loaded"} :
          /\ Moved(1, kind)
          /\ \A i \in DOMAIN wire' :
                \/ i \in Nat /\ i + 1 > 1 /\ i + 1 \in DOMAIN wire /\ wire'[i] = wire[i + 1]
                \/ /\ Command("processed") /\ lastProcessed' = Operand
                   /\ wire'[i] = <<"loaded", Operand>>
  BY RecordMoves
<1>2. Live /\ Live' /\ Operand < cursor /\ cursor \in Nat
  <2>1. Live
    BY Working
  <2>2. Record(wire[1]) /\ wire[1][2] = Operand
    OBVIOUS
  <2>. QED BY <2>1, <2>2 DEF RulesInv, RecordsOK, Live, TypeInv, ProcessOK
<1>3. /\ loadedUpTo' = loadedUpTo \/ (Command("loaded") /\ loadedUpTo' = Operand)
      /\ lastProcessed' = lastProcessed \/ (Command("processed") /\ lastProcessed' = Operand)
      /\ ~(Command("loaded") /\ Command("processed"))
  OBVIOUS
<1>4. StartOK'
  <2>1. loadedUpTo' <= cursor
    BY <1>2, <1>3 DEF RulesInv, StartOK
  <2>2. loadedUpTo' <= StartBlock'
    BY WritesKeep
  <2>. QED BY <1>2, <2>1, <2>2 DEF StartOK, Live
<1>5. RecordsOK'
  <2>1. \A i \in DOMAIN wire' : Record(wire'[i]) => wire'[i][2] < cursor'
    BY <1>1, <1>2 DEF RulesInv, RecordsOK, Record
  <2>2. \A i \in DOMAIN wire' : wire'[i][1] = "loaded" => wire'[i][2] <= lastProcessed'
    <3>1. CASE lastProcessed' = lastProcessed
      BY <1>1, <3>1 DEF RulesInv, RecordsOK
    <3>2. CASE Command("processed") /\ lastProcessed' = Operand
      <4>1. \A i \in DOMAIN wire : wire[i][1] = "loaded" => wire[i][2] < Operand /\ wire[i][2] \in Nat
        BY <3>2, ProcessedTrue, WireFacts DEF Record
      <4>2. \A i \in DOMAIN wire' : wire'[i][1] = "loaded" =>
                wire'[i][2] = Operand \/ (wire'[i][2] < Operand /\ wire'[i][2] \in Nat)
        BY <1>1, <4>1
      <4>. QED BY <3>2, <4>2
    <3>. QED BY <1>3, <3>1, <3>2
  <2>3. ASSUME NEW i \in DOMAIN wire', wire'[i][1] = "processed"
        PROVE  /\ i \in Nat /\ i + 1 > 1 /\ i + 1 \in DOMAIN wire
               /\ wire'[i] = wire[i + 1] /\ wire[i + 1][1] = "processed"
    BY <1>1, <2>3
  <2>4. \A i \in DOMAIN wire' : wire'[i][1] = "processed" => loadedUpTo' <= wire'[i][2]
    <3>1. CASE loadedUpTo' = loadedUpTo
      BY <2>3, <3>1 DEF RulesInv, RecordsOK
    <3>2. CASE Command("loaded") /\ loadedUpTo' = Operand
      <4>1. \A i \in DOMAIN wire : wire[i][1] = "processed" => Operand < wire[i][2] /\ wire[i][2] \in Nat
        BY <3>2, LoadedTrue, WireFacts DEF Record
      <4>2. \A i \in DOMAIN wire' : wire'[i][1] = "processed" =>
                Operand < wire'[i][2] /\ wire'[i][2] \in Nat
        BY <2>3, <4>1
      <4>. QED BY <3>2, <4>2
    <3>. QED BY <1>3, <3>1, <3>2
  <2>5. ASSUME NEW i \in DOMAIN wire', NEW j \in DOMAIN wire',
               wire'[i][1] = "loaded", wire'[j][1] = "processed"
        PROVE  wire'[i][2] < wire'[j][2]
    <3>1. j + 1 > 1 /\ j + 1 \in DOMAIN wire /\ wire'[j] = wire[j + 1] /\ wire[j + 1][1] = "processed"
      BY <2>3, <2>5
    <3>2. CASE i + 1 \in DOMAIN wire /\ wire'[i] = wire[i + 1]
      BY <2>5, <3>1, <3>2 DEF RulesInv, RecordsOK
    <3>3. CASE Command("processed") /\ wire'[i] = <<"loaded", Operand>>
      BY <3>1, <3>3, ProcessedTrue
    <3>. QED BY <1>1, <3>2, <3>3
  <2>6. ASSUME NEW i \in DOMAIN wire', NEW j \in DOMAIN wire',
               wire'[i][1] = "processed", wire'[j][1] = "processed", i < j
        PROVE  wire'[i][2] < wire'[j][2]
    <3>1. i + 1 < j + 1
      BY <2>3, <2>6
    <3>. QED BY <2>3, <2>6, <3>1 DEF RulesInv, RecordsOK
  <2>. QED BY <2>1, <2>2, <2>4, <2>5, <2>6 DEF RecordsOK
<1>6. SavesInOrder'
  BY <1>1, SavesMove DEF RulesInv
<1>7. SavesAhead'
  <2>1. ASSUME NEW i \in DOMAIN wire', wire'[i][1] = "save"
        PROVE  i + 1 > 1 /\ i + 1 \in DOMAIN wire /\ wire'[i] = wire[i + 1]
               /\ wire[i + 1][1] = "save"
    BY <1>1, <2>1
  <2>2. CASE loadedUpTo' = loadedUpTo
    BY <2>1, <2>2 DEF RulesInv, SavesAhead
  <2>3. CASE Command("loaded") /\ loadedUpTo' = Operand
    <3>1. \A i \in DOMAIN wire : i > 1 /\ wire[i][1] = "save" =>
              Operand < wire[i][2][1] /\ wire[i][2][1] \in Nat
      BY <2>3, LoadedTrue, WireFacts, RuleFacts
    <3>. QED BY <2>1, <2>3, <3>1 DEF RulesInv, SavesAhead
  <2>. QED BY <1>3, <2>2, <2>3
<1>. USE <1>1, StillFound
<1>8. KeptUpTo(loadedUpTo)'
  BY WritesKeep
<1>9. PreloadedOK'
  BY <1>2 DEF PreloadedOK, Live
<1>10. FoundOK'
  <2>1. ASSUME NEW base, FoundFrom(base)
        PROVE  FoundFrom(base)'
    <3>1. base <= Operand
      <4>1. Record(wire[1]) /\ wire[1][2] = Operand
        OBVIOUS
      <4>. QED BY <2>1, <4>1 DEF FoundFrom
    <3>2. \A i \in DOMAIN wire' : Record(wire'[i]) => base <= wire'[i][2]
      BY <1>1, <2>1, <3>1 DEF FoundFrom, Record
    <3>3. \A r \in Saved' : r[1] < cursor' => FoundBy(r, Larger(r[1], base))' \/ OnWire(r)'
      BY <2>1 DEF FoundFrom
    <3>4. base \in Nat /\ base <= cursor' /\ \A v \in InHand' : base <= v[1]
      BY <2>1 DEF FoundFrom, InHand
    <3>. QED BY <3>2, <3>3, <3>4 DEF FoundFrom, Larger
  <2>. QED BY <1>2, <2>1 DEF RulesInv, FoundOK
<1>11. ReadsOK'
  <2>. SUFFICES ASSUME NEW i \in DOMAIN wire', NEW v, wire'[i][1] = "read", wire'[i][2] = v,
                       NEW r \in Saved', Precedes(r, v)
                PROVE  FoundBy(r, v[1])' \/ Coming(r, i)'
    BY DEF ReadsOK, Precedes
  <2>1. i + 1 \in DOMAIN wire /\ wire'[i] = wire[i + 1]
    BY <1>1
  <2>2. FoundBy(r, v[1]) \/ Coming(r, i + 1)
    BY <2>1 DEF RulesInv, ReadsOK
  <2>. QED BY <2>1, <2>2
<1>. QED BY <1>4, <1>5, <1>6, <1>7, <1>8, <1>9, <1>10, <1>11 DEF RulesInv


\* A death: what was on the wire may have been executed all the same.
LEMMA DeathKeeps ==
    ASSUME TypeInv, LifeInv, RulesInv, RecordWrites, Die
    PROVE  RulesInv'
<1>1. wire' = <<>> /\ ~Live' /\ phase' = "down"
  BY DEF Die, Live
<1>2. StartOK' /\ KeptUpTo(loadedUpTo)'
  BY <1>1, WritesKeep DEF StartOK
<1>3. RecordsOK' /\ SavesInOrder' /\ SavesAhead' /\ ReadsOK'
  BY <1>1 DEF RecordsOK, SavesInOrder, SavesAhead, ReadsOK
<1>. QED BY <1>1, <1>2, <1>3 DEF RulesInv, PreloadedOK, FoundOK

-----------------------------------------------------------------------------
(* The start of a life.                                                    *)
LEMMA BootKeeps ==
    ASSUME TypeInv, LifeInv, RulesInv, Boot
    PROVE  RulesInv'
<1>1. /\ wire = <<>> /\ wire' = <<>> /\ handlers = {} /\ handlers' = {}
      /\ UNCHANGED <<chain, head, sqlBlock, startFrom, rules, loadedUpTo, lastProcessed, unsaved>>
  BY DEF Boot, LifeInv, Live, world, store, history
<1>2. StartBlock' = StartBlock /\ StartBlock \in Nat /\ sqlBlock \in Nat /\ loadedUpTo \in Nat
  BY <1>1, StartBlockNat, ChainFacts DEF StartBlock, TypeInv, StoreOK
<1>3. Saved' = Saved /\ RuleOps' = RuleOps
  BY <1>1, SameChain DEF Saved
<1>4. RecordsOK' /\ SavesInOrder' /\ SavesAhead' /\ ReadsOK' /\ phase' # "preloaded"
  BY <1>1 DEF RecordsOK, SavesInOrder, SavesAhead, ReadsOK, Boot
<1>5. KeptUpTo(loadedUpTo)'
  BY <1>1, <1>3 DEF RulesInv, KeptUpTo, NotOlder, Precedes
<1>6. CASE phase' = "preloading" /\ cursor' = Smaller(sqlBlock, StartBlock)
  BY <1>1, <1>2, <1>4, <1>5, <1>6 DEF RulesInv, StartOK, PreloadedOK, FoundOK, Live, Smaller
<1>7. CASE phase' = "syncing" /\ cursor' = StartBlock /\ ~(loadedUpTo < StartBlock)
  <2>1. loadedUpTo = StartBlock
    BY <1>2, <1>7 DEF RulesInv, StartOK
  <2>2. StartOK'
    BY <1>1, <1>2, <1>7, <2>1 DEF StartOK
  <2>3. ASSUME NEW r \in Saved, r[1] < StartBlock
        PROVE  \E q \in rules : NotOlder(q, r) /\ q[1] <= Larger(r[1], StartBlock)
    <3>1. r[1] \in Nat
      BY RuleFacts DEF Saved
    <3>2. r[1] <= loadedUpTo /\ r[1] < loadedUpTo /\ Larger(r[1], StartBlock) = StartBlock
      BY <1>2, <2>1, <2>3, <3>1 DEF Larger
    <3>. QED BY <2>1, <3>2 DEF RulesInv, KeptUpTo
  <2>4. PICK base \in Nat : base = StartBlock
    BY <1>2
  <2>5. FoundFrom(base)'
    <3>1. \A r \in Saved' : r[1] < cursor' =>
              \E q \in rules' : NotOlder(q, r) /\ q[1] <= Larger(r[1], base)
      BY <1>1, <1>3, <1>7, <2>3, <2>4
    <3>2. base <= cursor'
      BY <1>7, <2>4
    <3>. QED BY <1>1, <3>1, <3>2 DEF FoundFrom, InHand, FoundBy, NotOlder, Precedes, Larger
  <2>. QED BY <1>4, <1>5, <2>2, <2>5 DEF RulesInv, PreloadedOK, FoundOK
<1>. QED BY <1>6, <1>7 DEF Boot

\* wiseSQL gives the newest operation that it knows.
LEMMA SqlNewest ==
    ASSUME TypeInv, NEW r \in RuleOps, r[1] <= cursor, r[1] <= sqlBlock
    PROVE  \E m \in SqlRules : NotOlder(m, r) /\ m[1] <= cursor
<1>. DEFINE known == {q \in RuleOps : q[1] <= cursor /\ q[1] <= sqlBlock}
            Blocks == {q[1] : q \in known}
<1>1. cursor \in Nat /\ known \subseteq RuleOps /\ r \in known
  BY DEF TypeInv, ProcessOK
<1>2. Blocks \in SUBSET Nat /\ Blocks # {} /\ \A b \in Blocks : b <= cursor
  BY <1>1, RuleFacts
<1>3. PICK b \in Blocks : \A c \in Blocks : c <= b
  BY <1>1, <1>2, Greatest
<1>. DEFINE Places == {q[2] : q \in {q \in known : q[1] = b}}
<1>4. \A q \in known : q[2] \in DOMAIN chain[q[1]] /\ q[2] \in Nat /\ q[1] \in 1..Len(chain)
  BY <1>1, MomentFacts DEF RuleOps, TypeInv, WorldOK
<1>5. b \in 1..Len(chain) /\ chain[b] \in Seq(Ops)
  <2>1. chain \in Seq(Seq(Ops))
    BY DaemonAssumption DEF TypeInv, WorldOK
  <2>. QED BY <1>4, <2>1
<1>6. Places \in SUBSET Nat /\ Places # {} /\ Len(chain[b]) \in Nat
  BY <1>4, <1>5
<1>7. \A p \in Places : p <= Len(chain[b])
  <2>1. DOMAIN chain[b] = 1..Len(chain[b])
    BY <1>5
  <2>2. \A p \in Places : p \in DOMAIN chain[b]
    BY <1>4
  <2>. QED BY <2>1, <2>2
<1>8. PICK p \in Places : \A o \in Places : o <= p
  BY <1>6, <1>7, Greatest
<1>9. PICK m \in known : m[1] = b /\ m[2] = p
  OBVIOUS
<1>10. ASSUME NEW q \in known
       PROVE  q = m \/ Precedes(q, m)
  <2>1. /\ q[1] \in Nat /\ m[1] \in Nat /\ q[2] \in Nat /\ m[2] \in Nat
        /\ q = <<q[1], q[2]>> /\ m = <<m[1], m[2]>>
    BY <1>1, RuleFacts, MomentFacts DEF TypeInv, WorldOK
  <2>2. q[1] <= m[1]
    BY <1>3, <1>9
  <2>3. q[1] = m[1] => q[2] <= m[2]
    BY <1>8, <1>9
  <2>. QED BY <2>1, <2>2, <2>3 DEF Precedes
<1>11. m \in SqlRules
  BY <1>10 DEF SqlRules
<1>12. NotOlder(m, r)
  BY <1>1, <1>10 DEF NotOlder
<1>. QED BY <1>11, <1>12

LEMMA PreloadKeeps ==
    ASSUME TypeInv, LifeInv, RulesInv, PreloadRules
    PROVE  RulesInv'
<1>1. /\ wire' = <<>> /\ ~Live'
      /\ UNCHANGED <<chain, head, sqlBlock, startFrom, loadedUpTo, lastProcessed, unsaved, cursor>>
  BY DEF PreloadRules, LifeInv, Live, world, history
<1>2. RecordsOK' /\ SavesInOrder' /\ SavesAhead' /\ ReadsOK' /\ FoundOK'
  BY <1>1 DEF RecordsOK, SavesInOrder, SavesAhead, ReadsOK, FoundOK
<1>3. StartOK'
  BY <1>1 DEF RulesInv, StartOK, StartBlock, PreloadRules
<1>4. Saved' = Saved /\ RuleOps' = RuleOps /\ SqlRules \subseteq rules'
  BY <1>1, SameChain DEF Saved, PreloadRules
<1>5. /\ cursor \in Nat /\ sqlBlock \in Nat /\ cursor <= sqlBlock /\ rules \subseteq RuleOps
      /\ \A r \in RuleOps : r[1] \in Nat
  BY RuleFacts, ChainFacts DEF RulesInv, StartOK, PreloadRules, TypeInv, StoreOK, ProcessOK
<1>6. PreloadedOK'
  <2>1. ASSUME NEW r \in RuleOps, r[1] <= cursor
        PROVE  \E q \in rules' : NotOlder(q, r) /\ q[1] <= cursor
    <3>1. r[1] <= sqlBlock
      BY <1>5, <2>1
    <3>. QED BY <1>4, <2>1, <3>1, SqlNewest
  <2>. QED BY <1>1, <1>4, <2>1 DEF PreloadedOK, FoundBy, NotOlder, Precedes
<1>7. ASSUME NEW r \in Saved, r[1] <= loadedUpTo
      PROVE  \E q \in rules' :
                 r[1] <= q[1] /\ q[1] <= loadedUpTo /\ (r[1] < loadedUpTo => NotOlder(q, r))
  <2>1. PICK q \in rules :
            r[1] <= q[1] /\ q[1] <= loadedUpTo /\ (r[1] < loadedUpTo => NotOlder(q, r))
    BY <1>7 DEF RulesInv, KeptUpTo
  <2>2. CASE q \in rules'
    BY <2>1, <2>2
  <2>3. CASE q \notin rules'
    <3>1. PICK m \in SqlRules : q[1] = m[1]
      BY <2>3 DEF PreloadRules
    <3>2. q \in RuleOps /\ m \in RuleOps /\ m[1] <= cursor /\ m[1] <= sqlBlock
      BY <1>5 DEF SqlRules
    <3>3. NotOlder(m, q)
      BY <3>1, <3>2 DEF SqlRules, NotOlder
    <3>4. r \in Moments /\ q \in Moments /\ m \in Moments
      BY <3>2 DEF Saved, RuleOps
    <3>5. r[1] < loadedUpTo => NotOlder(m, r)
      BY <2>1, <3>3, <3>4, MomentOrder
    <3>. QED BY <1>4, <2>1, <3>1, <3>5
  <2>. QED BY <2>2, <2>3
<1>8. KeptUpTo(loadedUpTo)'
  BY <1>1, <1>4, <1>7 DEF KeptUpTo, NotOlder, Precedes
<1>. QED BY <1>2, <1>3, <1>6, <1>8 DEF RulesInv

LEMMA PreloadDoneKeeps ==
    ASSUME TypeInv, LifeInv, RulesInv, PreloadDone
    PROVE  RulesInv'
<1>1. /\ wire' = <<>> /\ handlers' = {} /\ Live' /\ loadedUpTo' = cursor /\ phase' = "syncing"
      /\ UNCHANGED <<chain, head, sqlBlock, startFrom, lastProcessed, unsaved, cursor, rules>>
  BY DEF PreloadDone, LifeInv, Live, world, history
<1>2. RecordsOK' /\ SavesInOrder' /\ SavesAhead' /\ ReadsOK' /\ PreloadedOK'
  BY <1>1 DEF RecordsOK, SavesInOrder, SavesAhead, ReadsOK, PreloadedOK
<1>3. StartOK'
  BY <1>1 DEF RulesInv, StartOK, StartBlock, PreloadDone, TypeInv, ProcessOK
<1>4. Saved' = Saved /\ Saved \subseteq RuleOps /\ cursor \in Nat /\ rules \subseteq RuleOps
  BY <1>1, SameChain DEF Saved, TypeInv, ProcessOK, StoreOK
<1>5. ASSUME NEW r \in Saved, r[1] <= cursor
      PROVE  \E q \in rules : NotOlder(q, r) /\ q[1] <= cursor /\ r[1] <= q[1]
  <2>1. PICK q \in rules : NotOlder(q, r) /\ q[1] <= cursor
    BY <1>4, <1>5 DEF RulesInv, PreloadedOK, PreloadDone, FoundBy
  <2>2. q \in Moments /\ r \in Moments
    BY <1>4 DEF RuleOps
  <2>. QED BY <2>1, <2>2, MomentOrder
<1>6. KeptUpTo(loadedUpTo)'
  BY <1>1, <1>4, <1>5 DEF KeptUpTo, NotOlder, Precedes
<1>7. FoundFrom(cursor)'
  <2>1. ASSUME NEW r \in Saved, r[1] < cursor
        PROVE  Larger(r[1], cursor) = cursor /\ \E q \in rules : NotOlder(q, r) /\ q[1] <= cursor
    <3>1. r[1] \in Nat
      BY <1>4, RuleFacts
    <3>. QED BY <1>4, <1>5, <2>1, <3>1 DEF Larger
  <2>. QED BY <1>1, <1>4, <2>1 DEF FoundFrom, FoundBy, InHand, Larger, NotOlder, Precedes
<1>. QED BY <1>2, <1>3, <1>6, <1>7 DEF RulesInv, FoundOK


-----------------------------------------------------------------------------
(* A block: its commands come behind what is on the wire.                  *)
LEMMA BlockWire ==
    ASSUME TypeInv, ProcessBlock
    PROVE  /\ \A i \in DOMAIN wire : i \in DOMAIN wire' /\ wire'[i] = wire[i]
           /\ \A k \in DOMAIN BlockCommands :
                 /\ Len(wire) + k \in DOMAIN wire' /\ wire'[Len(wire) + k] = BlockCommands[k]
                 /\ k \in Nat /\ k >= 1
           /\ \A i \in DOMAIN wire' :
                 \/ i \in DOMAIN wire
                 \/ \E k \in DOMAIN BlockCommands : i = Len(wire) + k
                 \/ /\ i = Len(wire) + Len(BlockCommands) + 1
                    /\ wire'[i] = <<"processed", cursor>>
           /\ \A i \in DOMAIN wire : i \in Nat /\ i <= Len(wire)
           /\ Len(wire) \in Nat /\ Len(BlockCommands) \in Nat /\ DOMAIN wire' \subseteq Nat
           /\ \A k \in DOMAIN BlockCommands : k <= Len(BlockCommands)
<1>1. wire \in Seq(Sendable) /\ BlockCommands \in Seq(Sendable)
  BY BlockFacts
<1>. DEFINE n == Len(wire)
            m == Len(BlockCommands)
<1>2. /\ n \in Nat /\ m \in Nat /\ DOMAIN wire = 1..n /\ DOMAIN BlockCommands = 1..m
      /\ DOMAIN wire' = 1..(n + m + 1)
      /\ \A i \in 1..n : wire'[i] = wire[i]
      /\ \A k \in 1..m : wire'[n + k] = BlockCommands[k]
      /\ wire'[n + m + 1] = <<"processed", cursor>>
  <2>1. wire \o BlockCommands \in Seq(Sendable) /\ Len(wire \o BlockCommands) = n + m
    BY <1>1
  <2>2. wire' = Append(wire \o BlockCommands, <<"processed", cursor>>)
    BY DEF ProcessBlock
  <2>3. /\ DOMAIN wire' = 1..(n + m + 1) /\ wire'[n + m + 1] = <<"processed", cursor>>
        /\ \A i \in 1..(n + m) : wire'[i] = (wire \o BlockCommands)[i]
    BY <2>1, <2>2, <1>1
  <2>4. /\ \A i \in 1..n : i \in 1..(n + m) /\ (wire \o BlockCommands)[i] = wire[i]
        /\ \A k \in 1..m : n + k \in 1..(n + m) /\ (wire \o BlockCommands)[n + k] = BlockCommands[k]
    BY <1>1
  <2>. QED BY <1>1, <2>3, <2>4
<1>. HIDE DEF n, m
<1>3. ASSUME NEW i \in 1..(n + m + 1), ~(i \in 1..n), i # n + m + 1
      PROVE  i - n \in 1..m /\ i = n + (i - n)
  BY <1>2, <1>3
<1>4. \A i \in DOMAIN wire' : \/ i \in DOMAIN wire
                              \/ \E k \in DOMAIN BlockCommands : i = n + k
                              \/ i = n + m + 1 /\ wire'[i] = <<"processed", cursor>>
  BY <1>2, <1>3
<1>5. /\ \A i \in DOMAIN wire : i \in DOMAIN wire' /\ wire'[i] = wire[i] /\ i \in Nat /\ i <= n
      /\ \A k \in DOMAIN BlockCommands :
            n + k \in DOMAIN wire' /\ wire'[n + k] = BlockCommands[k] /\ k \in Nat /\ k >= 1 /\ k <= m
      /\ DOMAIN wire' \subseteq Nat
  BY <1>2
<1>. QED BY <1>2, <1>4, <1>5 DEF n, m

LEMMA CommandFacts ==
    ASSUME TypeInv, ProcessBlock
    PROVE  \A k \in DOMAIN BlockCommands :
               /\ BlockCommands[k] = <<BlockCommands[k][1], BlockCommands[k][2]>>
               /\ BlockCommands[k][1] \in {"save", "read"} /\ ~Record(BlockCommands[k])
               /\ BlockCommands[k][2] \in Moments /\ BlockCommands[k][2][1] = cursor
               /\ BlockCommands[k][2][2] \in Nat
<1>1. \A k \in DOMAIN BlockCommands :
          /\ BlockCommands[k] \in Sendable /\ BlockCommands[k][1] \in {"save", "read"}
          /\ BlockCommands[k][2][1] = cursor
  BY BlockFacts, CommandsOfBlock
<1>2. \A m \in Moments : m[2] \in Nat
  BY MomentFacts DEF TypeInv, WorldOK
<1>3. ASSUME NEW k \in DOMAIN BlockCommands
      PROVE  /\ BlockCommands[k] = <<BlockCommands[k][1], BlockCommands[k][2]>>
             /\ BlockCommands[k][2] \in Moments /\ ~Record(BlockCommands[k])
  <2>1. BlockCommands[k] \in Sendable /\ BlockCommands[k][1] \in {"save", "read"}
    BY <1>1
  <2>2. BlockCommands[k] \in {"save"} \X RuleOps \/ BlockCommands[k] \in {"read"} \X Orders
    BY <2>1 DEF Sendable
  <2>. QED BY <2>1, <2>2 DEF RuleOps, Orders, Record
<1>. QED BY <1>1, <1>2, <1>3

LEMMA BlockSaves ==
    ASSUME TypeInv, RulesInv, ProcessBlock
    PROVE  SavesInOrder' /\ SavesAhead'
<1>. USE BlockWire, CommandFacts
<1>1. /\ cursor \in Nat /\ cursor' = cursor + 1 /\ loadedUpTo' = loadedUpTo /\ loadedUpTo <= cursor
      /\ RuleOps' = RuleOps /\ RuleOps \subseteq Moments
  BY BlockFacts DEF ProcessBlock, RulesInv, StartOK, Live, store, RuleOps
<1>2. \A i \in DOMAIN wire' : wire'[i][1] = "save" => i \in DOMAIN wire \/ wire'[i][2][1] = cursor
  BY DEF Record
<1>3. SavesAhead'
  <2>1. ASSUME NEW i \in DOMAIN wire', wire'[i][1] = "save"
        PROVE  loadedUpTo <= wire'[i][2][1] /\ wire'[i][2][1] < cursor + 1
    <3>1. CASE i \in DOMAIN wire
      <4>1. wire[i][1] = "save" /\ wire[i][2][1] \in Nat
        BY <2>1, <3>1, WireFacts, RuleFacts
      <4>. QED BY <1>1, <3>1, <4>1 DEF RulesInv, SavesAhead
    <3>2. CASE wire'[i][2][1] = cursor
      BY <1>1, <3>2
    <3>. QED BY <1>2, <2>1, <3>1, <3>2
  <2>. QED BY <1>1, <2>1 DEF SavesAhead
<1>4. ASSUME NEW i \in DOMAIN wire', NEW j \in DOMAIN wire', i < j, Record(wire'[i]),
             wire'[j][1] = "save"
      PROVE  wire'[i][2] < wire'[j][2][1]
  <2>1. i \in DOMAIN wire
    <3>1. CASE \E k \in DOMAIN BlockCommands : i = Len(wire) + k
      BY <1>4, <3>1
    <3>2. CASE i = Len(wire) + Len(BlockCommands) + 1
      <4>1. j \in DOMAIN wire => j <= Len(wire)
        OBVIOUS
      <4>2. (\E k \in DOMAIN BlockCommands : j = Len(wire) + k) =>
                j <= Len(wire) + Len(BlockCommands)
        OBVIOUS
      <4>3. j \in Nat /\ j # Len(wire) + Len(BlockCommands) + 1
        BY <1>4, <3>2
      <4>. QED BY <1>4, <3>2, <4>1, <4>2, <4>3
    <3>. QED BY <3>1, <3>2
  <2>2. wire'[i] = wire[i] /\ wire[i][2] < cursor
    BY <1>4, <2>1 DEF RulesInv, RecordsOK
  <2>3. CASE j \in DOMAIN wire
    BY <1>4, <2>1, <2>3 DEF RulesInv, SavesInOrder
  <2>4. CASE wire'[j][2][1] = cursor
    BY <2>2, <2>4
  <2>. QED BY <1>2, <1>4, <2>3, <2>4
<1>5. ASSUME NEW j \in DOMAIN wire', wire'[j][1] = "save", NEW r \in RuleOps,
             r[1] = wire'[j][2][1], Precedes(wire'[j][2], r)
      PROVE  \E k \in DOMAIN wire' :
                 /\ j < k /\ wire'[k] = <<"save", r>>
                 /\ \A i \in DOMAIN wire' :
                       j < i /\ i < k /\ wire'[i][1] = "read" => ~Precedes(r, wire'[i][2])
  <2>1. CASE j \in DOMAIN wire
    <3>1. PICK k \in DOMAIN wire :
              /\ j < k /\ wire[k] = <<"save", r>>
              /\ \A i \in DOMAIN wire :
                    j < i /\ i < k /\ wire[i][1] = "read" => ~Precedes(r, wire[i][2])
      BY <1>5, <2>1 DEF RulesInv, SavesInOrder
    <3>2. k \in DOMAIN wire' /\ wire'[k] = <<"save", r>> /\ k <= Len(wire) /\ k \in Nat
      BY <3>1
    <3>3. \A i \in DOMAIN wire' : i < k => i \in DOMAIN wire /\ wire'[i] = wire[i]
      <4>1. \A i \in DOMAIN wire' : i \in Nat /\ (i < k => i <= Len(wire))
        BY <3>2
      <4>2. \A i \in DOMAIN wire' : i \notin DOMAIN wire => i > Len(wire)
        OBVIOUS
      <4>. QED BY <4>1, <4>2
    <3>. QED BY <3>1, <3>2, <3>3
  <2>2. CASE j \notin DOMAIN wire
    <3>1. PICK p \in DOMAIN BlockCommands : j = Len(wire) + p
      BY <1>5, <2>2
    <3>2. wire'[j] = BlockCommands[p] /\ r[1] = cursor
      BY <1>5, <3>1
    <3>3. PICK q \in DOMAIN BlockCommands : BlockCommands[q] = <<"save", r>>
      BY <3>2, BlockFacts, CommandsOfBlock
    <3>4. BlockCommands[q][2] = r /\ r[2] \in Nat /\ BlockCommands[p][2][2] \in Nat
      BY <3>3
    <3>5. BlockCommands[p][2][2] < BlockCommands[q][2][2]
      BY <1>1, <1>5, <3>2, <3>4 DEF Precedes
    <3>6. p < q
      <4>1. \A k, l \in DOMAIN BlockCommands : k < l => BlockCommands[k][2][2] < BlockCommands[l][2][2]
        BY BlockFacts, CommandsOfBlock
      <4>2. ~(q < p) /\ q # p
        BY <3>4, <3>5, <4>1
      <4>. QED BY <4>2
    <3>7. Len(wire) + q \in DOMAIN wire' /\ wire'[Len(wire) + q] = <<"save", r>> /\ j < Len(wire) + q
      BY <3>1, <3>3, <3>6
    <3>8. ASSUME NEW i \in DOMAIN wire', j < i, i < Len(wire) + q, wire'[i][1] = "read"
          PROVE  ~Precedes(r, wire'[i][2])
      <4>1. i \notin DOMAIN wire
        BY <3>1, <3>8
      <4>2. PICK k \in DOMAIN BlockCommands : i = Len(wire) + k
        BY <3>8, <4>1
      <4>3. wire'[i] = BlockCommands[k] /\ k < q
        BY <3>8, <4>2
      <4>4. BlockCommands[k][2][2] < BlockCommands[q][2][2]
        BY <4>3, BlockFacts, CommandsOfBlock
      <4>5. wire'[i][2][1] = cursor /\ wire'[i][2][2] \in Nat /\ wire'[i][2][2] < r[2]
        BY <3>4, <4>3, <4>4
      <4>6. ~(r[1] < wire'[i][2][1])
        <5>1. cursor \in Nat /\ r[1] = cursor /\ wire'[i][2][1] = cursor
          BY <1>1, <3>2, <4>5
        <5>. QED BY ONLY <5>1
      <4>7. ~(r[2] < wire'[i][2][2])
        <5>1. r[2] \in Nat /\ wire'[i][2][2] \in Nat /\ wire'[i][2][2] < r[2]
          BY <3>4, <4>5
        <5>. QED BY ONLY <5>1
      <4>. QED BY ONLY <4>6, <4>7 DEF Precedes
    <3>. QED BY <3>7, <3>8
  <2>. QED BY <2>1, <2>2
<1>6. SavesInOrder'
  BY <1>1, <1>4, <1>5 DEF SavesInOrder
<1>. QED BY <1>3, <1>6

LEMMA BlockRecords ==
    ASSUME TypeInv, RulesInv, ProcessBlock
    PROVE  RecordsOK'
<1>. USE BlockWire, CommandFacts
<1>1. /\ cursor \in Nat /\ cursor' = cursor + 1 /\ loadedUpTo' = loadedUpTo /\ loadedUpTo <= cursor
      /\ lastProcessed' = lastProcessed
  BY BlockFacts DEF ProcessBlock, RulesInv, StartOK, Live, store
<1>2. ASSUME NEW i \in DOMAIN wire', Record(wire'[i])
      PROVE  \/ /\ i \in DOMAIN wire /\ wire'[i] = wire[i] /\ Record(wire[i])
                /\ wire[i][2] \in Nat /\ wire[i][2] < cursor /\ i <= Len(wire)
             \/ /\ i = Len(wire) + Len(BlockCommands) + 1 /\ wire'[i] = <<"processed", cursor>>
                /\ i > Len(wire)
  <2>1. CASE i \in DOMAIN wire
    <3>1. wire'[i] = wire[i] /\ Record(wire[i])
      BY <1>2, <2>1
    <3>2. wire[i][2] \in Nat /\ wire[i][2] < cursor
      BY <2>1, <3>1, WireFacts DEF RulesInv, RecordsOK
    <3>. QED BY <2>1, <3>1, <3>2
  <2>2. CASE \E k \in DOMAIN BlockCommands : i = Len(wire) + k
    BY <1>2, <2>2
  <2>3. CASE i = Len(wire) + Len(BlockCommands) + 1 /\ wire'[i] = <<"processed", cursor>>
    BY <2>3
  <2>. QED BY <2>1, <2>2, <2>3
<1>3. \A i \in DOMAIN wire' : Record(wire'[i]) => wire'[i][2] < cursor'
  BY <1>1, <1>2
<1>4. \A i \in DOMAIN wire' : wire'[i][1] = "loaded" =>
          i \in DOMAIN wire /\ wire'[i] = wire[i] /\ wire[i][2] < cursor
  BY <1>2 DEF Record
<1>5. \A i \in DOMAIN wire' : wire'[i][1] = "processed" =>
          \/ i \in DOMAIN wire /\ wire'[i] = wire[i] /\ wire[i][2] < cursor /\ i <= Len(wire)
          \/ wire'[i][2] = cursor /\ i = Len(wire) + Len(BlockCommands) + 1 /\ i > Len(wire)
  BY <1>2 DEF Record
<1>6. \A i \in DOMAIN wire' : wire'[i][1] = "loaded" => wire'[i][2] <= lastProcessed'
  BY <1>1, <1>4 DEF RulesInv, RecordsOK
<1>7. \A i \in DOMAIN wire' : wire'[i][1] = "processed" => loadedUpTo' <= wire'[i][2]
  BY <1>1, <1>5 DEF RulesInv, RecordsOK
<1>8. \A i, j \in DOMAIN wire' :
          wire'[i][1] = "loaded" /\ wire'[j][1] = "processed" => wire'[i][2] < wire'[j][2]
  BY <1>4, <1>5 DEF RulesInv, RecordsOK
<1>9. ASSUME NEW i \in DOMAIN wire', NEW j \in DOMAIN wire',
             wire'[i][1] = "processed", wire'[j][1] = "processed", i < j
      PROVE  wire'[i][2] < wire'[j][2]
  <2>1. i \in Nat /\ j \in Nat
    OBVIOUS
  <2>2. CASE j \in DOMAIN wire /\ wire'[j] = wire[j] /\ j <= Len(wire)
    <3>1. i \in DOMAIN wire /\ wire'[i] = wire[i]
      BY <1>5, <1>9, <2>1, <2>2
    <3>. QED BY <1>9, <2>2, <3>1 DEF RulesInv, RecordsOK
  <2>3. CASE wire'[j][2] = cursor /\ j = Len(wire) + Len(BlockCommands) + 1
    <3>1. i # Len(wire) + Len(BlockCommands) + 1
      BY <1>9, <2>1, <2>3
    <3>. QED BY <1>5, <1>9, <2>3, <3>1
  <2>. QED BY <1>5, <1>9, <2>2, <2>3
<1>. QED BY <1>3, <1>6, <1>7, <1>8, <1>9 DEF RecordsOK

LEMMA BlockKeeps ==
    ASSUME TypeInv, TypeInv', LifeInv, HandlersOK, RulesInv, ProcessBlock
    PROVE  RulesInv'
<1>. USE BlockWire, CommandFacts
<1>1. /\ cursor \in Nat /\ cursor' = cursor + 1 /\ Live /\ Live' /\ phase' = phase
      /\ UNCHANGED <<chain, head, sqlBlock, startFrom, rules, loadedUpTo, lastProcessed, unsaved>>
  BY BlockFacts DEF ProcessBlock, Live, world, store
<1>2. Saved' = Saved /\ RuleOps' = RuleOps /\ Saved \subseteq RuleOps /\ RuleOps \subseteq Moments
  BY <1>1, SameChain DEF Saved, RuleOps
<1>3. StartOK'
  BY <1>1 DEF RulesInv, StartOK, StartBlock, Live, TypeInv, StoreOK
<1>4. PreloadedOK' /\ KeptUpTo(loadedUpTo)'
  BY <1>1, <1>2 DEF RulesInv, PreloadedOK, KeptUpTo, NotOlder, Precedes, Live
<1>5. \A r, b : FoundBy(r, b) => FoundBy(r, b)'
  BY <1>1 DEF FoundBy, NotOlder, Precedes
<1>6. PICK base : FoundFrom(base)
  BY <1>1 DEF RulesInv, FoundOK
<1>7. FoundFrom(base)'
  <2>1. base \in Nat /\ base <= cursor'
    BY <1>1, <1>6 DEF FoundFrom
  <2>2. \A v \in InHand' : base <= v[1]
    <3>1. \A v \in InHand' : v \in InHand \/ v[1] = cursor
      <4>1. \A h \in handlers' : h \in handlers \/ (h.order[1] = cursor)
        BY DEF ProcessBlock, BlockOrders, Handler
      <4>. QED BY <4>1 DEF InHand
    <3>. QED BY <1>6, <3>1 DEF FoundFrom
  <2>3. \A i \in DOMAIN wire' : Record(wire'[i]) => base <= wire'[i][2]
    BY <1>6 DEF FoundFrom
  <2>4. ASSUME NEW r \in Saved', r[1] < cursor'
        PROVE  FoundBy(r, Larger(r[1], base))' \/ OnWire(r)'
    <3>1. r \in RuleOps /\ r[1] \in Nat /\ r \in Saved
      BY <1>2, RuleFacts
    <3>2. CASE r[1] < cursor
      <4>1. FoundBy(r, Larger(r[1], base)) \/ OnWire(r)
        BY <1>6, <3>1, <3>2 DEF FoundFrom
      <4>. QED BY <1>5, <4>1 DEF OnWire
    <3>3. CASE r[1] = cursor
      <4>1. PICK k \in DOMAIN BlockCommands : BlockCommands[k] = <<"save", r>>
        BY <3>1, <3>3, BlockFacts, CommandsOfBlock
      <4>. QED BY <4>1 DEF OnWire
    <3>. QED BY <1>1, <2>4, <3>1, <3>2, <3>3
  <2>. QED BY <2>1, <2>2, <2>3, <2>4 DEF FoundFrom, Larger
<1>8. ReadsOK'
  <2>. SUFFICES ASSUME NEW i \in DOMAIN wire', NEW v, wire'[i][1] = "read", wire'[i][2] = v,
                       NEW r \in Saved', Precedes(r, v)
                PROVE  FoundBy(r, v[1])' \/ Coming(r, i)'
    BY DEF ReadsOK, Precedes
  <2>1. r \in Saved /\ r \in RuleOps /\ r[1] \in Nat /\ r[2] \in Nat
    BY <1>2, RuleFacts
  <2>2. CASE i \in DOMAIN wire
    <3>1. FoundBy(r, v[1]) \/ Coming(r, i)
      BY <2>1, <2>2 DEF RulesInv, ReadsOK
    <3>2. Coming(r, i) => Coming(r, i)'
      BY DEF Coming
    <3>. QED BY <1>5, <3>1, <3>2
  <2>3. CASE i \notin DOMAIN wire
    <3>1. PICK k \in DOMAIN BlockCommands : i = Len(wire) + k
      BY <2>3
    <3>2. BlockCommands[k][2] = v /\ v[1] = cursor /\ v[2] \in Nat
      BY <3>1
    <3>3. CASE r[1] < cursor
      <4>1. Larger(r[1], base) <= cursor /\ Larger(r[1], base) \in Nat
        BY <1>1, <1>6, <2>1, <3>3 DEF FoundFrom, Larger
      <4>2. FoundBy(r, Larger(r[1], base)) \/ OnWire(r)
        BY <1>6, <2>1, <3>3 DEF FoundFrom
      <4>3. \A q \in rules : q[1] \in Nat
        BY RuleFacts DEF TypeInv, StoreOK
      <4>4. FoundBy(r, Larger(r[1], base)) => FoundBy(r, v[1])
        BY <1>1, <3>2, <4>1, <4>3 DEF FoundBy
      <4>5. ASSUME NEW j \in DOMAIN wire, wire[j] = <<"save", r>>
            PROVE  Coming(r, i)'
        <5>1. j \in DOMAIN wire' /\ wire'[j] = <<"save", r>> /\ j < i
          BY <3>1, <4>5
        <5>. QED BY <5>1 DEF Coming
      <4>. QED BY <1>5, <4>2, <4>4, <4>5 DEF OnWire
    <3>4. CASE r[1] = cursor
      <4>1. PICK l \in DOMAIN BlockCommands : BlockCommands[l] = <<"save", r>>
        BY <2>1, <3>4, BlockFacts, CommandsOfBlock
      <4>2. r[2] < v[2]
        BY <1>1, <2>1, <3>2, <3>4 DEF Precedes
      <4>3. BlockCommands[l][2] = r
        BY <4>1
      <4>4. \A m, n \in DOMAIN BlockCommands : m < n => BlockCommands[m][2][2] < BlockCommands[n][2][2]
        BY BlockFacts, CommandsOfBlock
      <4>5. ~(k < l) /\ k # l
        BY <2>1, <3>2, <4>2, <4>3, <4>4
      <4>6. Len(wire) + l \in DOMAIN wire' /\ wire'[Len(wire) + l] = <<"save", r>> /\ Len(wire) + l < i
        BY <3>1, <4>1, <4>5
      <4>. QED BY <4>6 DEF Coming
    <3>5. r[1] <= cursor
      BY <1>1, <2>1, <3>2 DEF Precedes
    <3>. QED BY <1>1, <2>1, <3>3, <3>4, <3>5
  <2>. QED BY <2>2, <2>3
<1>9. RecordsOK' /\ SavesInOrder' /\ SavesAhead'
  BY BlockRecords, BlockSaves
<1>. QED BY <1>1, <1>3, <1>4, <1>7, <1>8, <1>9 DEF RulesInv, FoundOK


-----------------------------------------------------------------------------
(* Commands that are sent again.  Those that write are in such an order    *)
(* that writing once more loses no rules that a command behind them needs. *)
WireInv ==
    /\ \A i, j \in DOMAIN wire :
          wire[i][1] = "loaded" /\ wire[j][1] = "save" => wire[i][2] < wire[j][2][1]
    /\ \A i, j \in DOMAIN wire :
          i < j /\ wire[i][1] = "read" /\ wire[j][1] = "save" => Precedes(wire[i][2], wire[j][2])

LEMMA WireMoves ==
    ASSUME TypeInv, WireInv, NEW d \in {0, 1}, NEW kind \in {"none", "read", "loaded"},
           Moved(d, kind),
           \A i, j \in DOMAIN wire' : wire'[i][1] = "loaded" /\ wire'[j][1] = "save" =>
              (i + d \in DOMAIN wire /\ wire'[i] = wire[i + d]) \/ wire'[i][2] < wire'[j][2][1]
    PROVE  WireInv'
<1>1. ASSUME NEW j \in DOMAIN wire', wire'[j][1] = "save"
      PROVE  j + d \in DOMAIN wire /\ wire'[j] = wire[j + d] /\ j \in Nat
  BY <1>1 DEF Moved
<1>2. ASSUME NEW i \in DOMAIN wire', NEW j \in DOMAIN wire', wire'[i][1] = "loaded",
             wire'[j][1] = "save"
      PROVE  wire'[i][2] < wire'[j][2][1]
  BY <1>1, <1>2 DEF WireInv
<1>3. ASSUME NEW i \in DOMAIN wire', NEW j \in DOMAIN wire', i < j, wire'[i][1] = "read",
             wire'[j][1] = "save"
      PROVE  Precedes(wire'[i][2], wire'[j][2])
  <2>1. j + d \in DOMAIN wire /\ wire'[j] = wire[j + d] /\ j \in Nat /\ i \in Nat
    BY <1>1, <1>3 DEF Moved
  <2>2. ~(j + d - d < i)
    BY <1>3, <2>1
  <2>3. i + d \in DOMAIN wire /\ wire'[i] = wire[i + d]
    BY <2>1, <2>2 DEF Moved
  <2>4. i + d < j + d
    BY <1>3, <2>1
  <2>. QED BY <1>3, <2>1, <2>3, <2>4 DEF WireInv
<1>. QED BY <1>2, <1>3 DEF WireInv, Precedes

\* A block is saved after all older records, and read after all older rules.
LEMMA BlockOrdered ==
    ASSUME TypeInv, HandlersOK, RulesInv, WireInv, ProcessBlock
    PROVE  WireInv'
<1>. USE BlockWire, CommandFacts
<1>1. cursor \in Nat
  BY BlockFacts
<1>2. \A i \in DOMAIN wire' : wire'[i][1] = "save" => i \in DOMAIN wire \/ wire'[i][2][1] = cursor
  OBVIOUS
<1>3. ASSUME NEW i \in DOMAIN wire', NEW j \in DOMAIN wire', wire'[i][1] = "loaded",
             wire'[j][1] = "save"
      PROVE  wire'[i][2] < wire'[j][2][1]
  <2>1. i \in DOMAIN wire /\ wire'[i] = wire[i] /\ wire[i][2] < cursor
    BY <1>3 DEF RulesInv, RecordsOK, Record
  <2>2. CASE j \in DOMAIN wire
    BY <1>3, <2>1, <2>2 DEF WireInv
  <2>3. CASE wire'[j][2][1] = cursor
    BY <2>1, <2>3
  <2>. QED BY <1>2, <1>3, <2>2, <2>3
<1>4. ASSUME NEW i \in DOMAIN wire', NEW j \in DOMAIN wire', i < j, wire'[i][1] = "read",
             wire'[j][1] = "save"
      PROVE  Precedes(wire'[i][2], wire'[j][2])
  <2>1. CASE j \in DOMAIN wire
    <3>1. i \in Nat /\ i <= Len(wire)
      BY <1>4, <2>1
    <3>2. i \in DOMAIN wire
      BY <3>1
    <3>. QED BY <1>4, <2>1, <3>2 DEF WireInv
  <2>2. CASE j \notin DOMAIN wire
    <3>1. PICK l \in DOMAIN BlockCommands : j = Len(wire) + l
      BY <1>4, <2>2
    <3>2. wire'[j] = BlockCommands[l] /\ wire'[j][2][1] = cursor /\ l <= Len(BlockCommands)
      BY <3>1
    <3>3. CASE i \in DOMAIN wire
      <4>1. Handler(wire[i][2], "reading") \in handlers /\ wire'[i] = wire[i]
        BY <1>4, <3>3 DEF HandlersOK
      <4>2. wire[i][2][1] < cursor
        BY <4>1 DEF HandlersOK, Handler
      <4>. QED BY <3>2, <4>1, <4>2 DEF Precedes
    <3>4. CASE i \notin DOMAIN wire
      <4>1. PICK k \in DOMAIN BlockCommands : i = Len(wire) + k
        BY <1>4, <3>4
      <4>2. wire'[i] = BlockCommands[k] /\ wire'[i][2][1] = cursor /\ k < l
        BY <1>4, <3>1, <4>1
      <4>3. BlockCommands[k][2][2] < BlockCommands[l][2][2]
        BY <4>2, BlockFacts, CommandsOfBlock
      <4>. QED BY <3>2, <4>2, <4>3 DEF Precedes
    <3>. QED BY <3>3, <3>4
  <2>. QED BY <2>1, <2>2
<1>. QED BY <1>3, <1>4 DEF WireInv, Precedes

LEMMA NextWire ==
    ASSUME TypeInv, LifeInv, HandlersOK, RulesInv, WireInv, [Next]_vars
    PROVE  WireInv'
<1>1. ASSUME NEW d \in {0, 1}, NEW kind \in {"none", "read"}, Moved(d, kind)
      PROVE  WireInv'
  <2>1. \A i \in DOMAIN wire' : wire'[i][1] = "loaded" =>
            i + d \in DOMAIN wire /\ wire'[i] = wire[i + d]
    BY <1>1 DEF Moved
  <2>. QED BY <1>1, <2>1, WireMoves
<1>2. CASE wire' = wire \/ (\E v : wire' = Append(wire, <<"read", v>>))
           \/ (wire # <<>> /\ wire' = Tail(wire))
  BY <1>1, <1>2, Moves
<1>3. CASE wire' = <<>>
  BY <1>3 DEF WireInv
<1>4. CASE ServeProcessed
  <2>1. RecordStep /\ Command("processed")
    BY <1>4 DEF ServeProcessed, RecordStep, RecordWrites, world, history
  <2>2. PICK kind \in {"none", "loaded"} :
            /\ Moved(1, kind)
            /\ \A i \in DOMAIN wire' :
                  \/ i \in Nat /\ i + 1 > 1 /\ i + 1 \in DOMAIN wire /\ wire'[i] = wire[i + 1]
                  \/ /\ Command("processed") /\ lastProcessed' = Operand
                     /\ wire'[i] = <<"loaded", Operand>>
    BY <2>1, RecordMoves
  <2>3. ASSUME NEW i \in DOMAIN wire', NEW j \in DOMAIN wire', wire'[i][1] = "loaded",
               wire'[j][1] = "save", wire'[i] = <<"loaded", Operand>>
        PROVE  wire'[i][2] < wire'[j][2][1]
    <3>1. j + 1 > 1 /\ j + 1 \in DOMAIN wire /\ wire'[j] = wire[j + 1]
      BY <2>2, <2>3
    <3>. QED BY <2>1, <2>3, <3>1, ProcessedTrue
  <2>4. \A i, j \in DOMAIN wire' : wire'[i][1] = "loaded" /\ wire'[j][1] = "save" =>
            (i + 1 \in DOMAIN wire /\ wire'[i] = wire[i + 1]) \/ wire'[i][2] < wire'[j][2][1]
    BY <2>2, <2>3
  <2>. QED BY <2>2, <2>4, WireMoves
<1>5. CASE ProcessBlock
  BY <1>5, BlockOrdered
<1>6. CASE NewBlock \/ SqlIndexes \/ Toggle \/ Boot \/ PreloadRules \/ PreloadDone \/ Stop
           \/ CommandsResent \/ UNCHANGED vars
  BY <1>2, <1>6 DEF NewBlock, SqlIndexes, Toggle, Boot, PreloadRules, PreloadDone, Stop,
     CommandsResent, vars, process
<1>7. ASSUME NEW v \in Orders, HandlerStep(v)
      PROVE  WireInv'
  BY <1>2, <1>7
     DEF HandlerStep, Validated, ValidationFails, Retry, Push, PushRejected, PushResent
<1>8. CASE ServeOther
  BY <1>2, <1>8, SteadySteps
<1>9. CASE RecordRejected \/ Crash
  <2>1. (wire # <<>> /\ wire' = Tail(wire)) \/ wire' = <<>>
    BY <1>9 DEF RecordRejected, Crash, Die, Command
  <2>. QED BY <1>2, <1>3, <2>1
<1>. QED BY <1>4, <1>5, <1>6, <1>7, <1>8, <1>9 DEF Next, ServeOther, HandlerStep

\* A "loaded" anywhere on the wire is true: what it speaks of is in the hash.
LEMMA LoadedAhead ==
    ASSUME TypeInv, LifeInv, RulesInv, WireInv, NEW m \in DOMAIN wire, wire[m][1] = "loaded"
    PROVE  /\ KeptUpTo(wire[m][2]) /\ wire[m][2] <= StartBlock /\ wire[m][2] < cursor
           /\ wire[m][2] \in Nat
           /\ \A j \in DOMAIN wire : wire[j][1] = "save" => wire[m][2] < wire[j][2][1]
           /\ \A j \in DOMAIN wire : wire[j][1] = "processed" => wire[m][2] < wire[j][2]
<1>. DEFINE b == wire[m][2]
<1>1. Record(wire[m]) /\ b \in 1..head /\ b \in Nat
  BY WireFacts DEF Record
<1>2. \A j \in DOMAIN wire : wire[j][1] = "save" => b < wire[j][2][1]
  BY DEF WireInv
<1>3. \A j \in DOMAIN wire : wire[j][1] = "processed" => b < wire[j][2]
  BY DEF RulesInv, RecordsOK
<1>4. b < cursor /\ b <= lastProcessed /\ cursor \in Nat
  BY <1>1 DEF RulesInv, RecordsOK, TypeInv, ProcessOK
<1>5. b <= StartBlock
  <2>1. lastProcessed \in Nat /\ head \in Nat /\ b <= head /\ lastProcessed # 0
    BY <1>1, <1>4, ChainFacts DEF TypeInv, StoreOK
  <2>. QED BY <1>4, <2>1, StartFacts
<1>6. Live
  <2>1. wire # <<>>
    OBVIOUS
  <2>. QED BY <2>1, Working
<1>7. PICK base : FoundFrom(base)
  BY <1>6 DEF RulesInv, FoundOK
<1>8. base \in Nat /\ base <= b
  BY <1>1, <1>7 DEF FoundFrom
<1>9. ASSUME NEW r \in Saved, r[1] <= b
      PROVE  \E q \in rules : r[1] <= q[1] /\ q[1] <= b /\ (r[1] < b => NotOlder(q, r))
  <2>1. r \in Moments /\ r[1] \in Nat /\ r[1] < cursor
    BY <1>1, <1>4, <1>9, RuleFacts DEF Saved
  <2>2. ~OnWire(r)
    <3>1. ASSUME NEW j \in DOMAIN wire, wire[j] = <<"save", r>>
          PROVE  FALSE
      <4>1. b < r[1]
        BY <1>2, <3>1
      <4>. QED BY <1>1, <1>9, <2>1, <4>1
    <3>. QED BY <3>1 DEF OnWire
  <2>3. PICK q \in rules : NotOlder(q, r) /\ q[1] <= Larger(r[1], base)
    BY <1>7, <2>1, <2>2 DEF FoundFrom, FoundBy
  <2>4. q \in Moments /\ q[1] \in Nat
    BY RuleFacts DEF TypeInv, StoreOK
  <2>5. Larger(r[1], base) <= b /\ Larger(r[1], base) \in Nat
    BY <1>8, <1>9, <2>1 DEF Larger
  <2>6. q[1] <= b
    BY <1>1, <2>3, <2>4, <2>5
  <2>. QED BY <2>1, <2>3, <2>4, <2>6, MomentOrder
<1>10. KeptUpTo(b)
  BY <1>9 DEF KeptUpTo
<1>. QED BY <1>1, <1>2, <1>3, <1>4, <1>5, <1>10

\* What is written once more: the last of the executed saves for each block.
LEMMA WrittenFacts ==
    ASSUME TypeInv, NEW n \in DOMAIN wire,
           rules' = {q \in rules : \A r \in Executed(n, "save") : q[1] # r[1]}
                       \cup Written(n, "save")
    PROVE  \A q \in rules : q \in rules' \/ \E w \in rules' :
               w[1] = q[1] /\ \E j \in DOMAIN wire : wire[j] = <<"save", w>>
<1>1. n \in Nat /\ 1..n \subseteq DOMAIN wire
  BY WireFacts
<1>2. ASSUME NEW q \in rules, q \notin rules'
      PROVE  \E w \in rules' : w[1] = q[1] /\ \E j \in DOMAIN wire : wire[j] = <<"save", w>>
  <2>. DEFINE T == {i \in 1..n : wire[i][1] = "save" /\ wire[i][2][1] = q[1]}
  <2>1. PICK e \in Executed(n, "save") : q[1] = e[1]
    BY <1>2
  <2>2. T \in SUBSET Nat /\ T # {} /\ \A x \in T : x <= n
    BY <1>1, <2>1 DEF Executed
  <2>3. PICK i \in T : \A y \in T : y <= i
    BY <1>1, <2>2, Greatest
  <2>4. i \in 1..n /\ wire[i][1] = "save" /\ wire[i][2][1] = q[1]
    OBVIOUS
  <2>5. \A k \in (i + 1)..n : wire[k][1] = "save" => wire[k][2][1] # wire[i][2][1]
    <3>1. \A k \in (i + 1)..n : k \in 1..n /\ ~(k <= i)
      BY <1>1, <2>4
    <3>. QED BY <2>3, <2>4, <3>1
  <2>6. wire[i][2] \in Written(n, "save")
    BY <2>4, <2>5 DEF Written
  <2>7. wire[i] = <<"save", wire[i][2]>> /\ i \in DOMAIN wire
    BY <1>1, <2>4, WireFacts
  <2>. QED BY <2>4, <2>6, <2>7
<1>. QED BY <1>2

\* Rules that were found are found, or an older entry of their block was written
\* once more by a command that is still on the wire.
LEMMA ResentFound ==
    ASSUME TypeInv, NEW n \in DOMAIN wire, NEW r \in RuleOps, NEW b, FoundBy(r, b),
           rules' = {q \in rules : \A s \in Executed(n, "save") : q[1] # s[1]}
                       \cup Written(n, "save"),
           rules' \subseteq RuleOps
    PROVE  \/ \E q \in rules' : NotOlder(q, r) /\ q[1] <= b
           \/ \E j \in DOMAIN wire :
                 /\ wire[j][1] = "save" /\ wire[j][2] \in RuleOps
                 /\ wire[j][2][1] = r[1] /\ Precedes(wire[j][2], r)
<1>1. PICK q \in rules : NotOlder(q, r) /\ q[1] <= b
  BY DEF FoundBy
<1>2. CASE q \in rules'
  BY <1>1, <1>2
<1>3. CASE q \notin rules'
  <2>1. PICK w \in rules' : w[1] = q[1] /\ \E j \in DOMAIN wire : wire[j] = <<"save", w>>
    BY <1>3, WrittenFacts
  <2>2. PICK j \in DOMAIN wire : wire[j] = <<"save", w>>
    BY <2>1
  <2>3. w \in RuleOps /\ w \in Moments /\ r \in Moments /\ q \in Moments
    BY RuleFacts DEF TypeInv, StoreOK
  <2>4. CASE NotOlder(w, r)
    BY <1>1, <2>1, <2>4
  <2>5. CASE Precedes(w, r)
    <3>1. w[1] \in Nat /\ r[1] \in Nat /\ r[1] <= q[1]
      BY <1>1, <2>3, MomentOrder, RuleFacts
    <3>2. w[1] = r[1]
      BY <2>1, <2>5, <3>1 DEF Precedes
    <3>. QED BY <2>2, <2>3, <2>5, <3>2
  <2>. QED BY <2>3, <2>4, <2>5, MomentOrder
<1>. QED BY <1>2, <1>3

LEMMA ResentKeeps ==
    ASSUME TypeInv, TypeInv', LifeInv, RulesInv, WireInv, CommandsResent
    PROVE  RulesInv'
<1>1. PICK n \in DOMAIN wire :
          rules' = {q \in rules : \A s \in Executed(n, "save") : q[1] # s[1]}
                      \cup Written(n, "save")
  BY DEF CommandsResent
<1>2. /\ UNCHANGED <<chain, head, sqlBlock, startFrom, phase, cursor, wire, handlers, unsaved>>
      /\ Saved' = Saved /\ RuleOps' = RuleOps /\ InHand' = InHand
  BY SameChain DEF CommandsResent, world, process, Saved, InHand
<1>3. Live /\ Live'
  <2>1. wire # <<>>
    BY <1>1
  <2>. QED BY <1>2, <2>1, Working DEF Live
<1>4. rules' \subseteq RuleOps
  BY <1>2 DEF TypeInv, StoreOK
<1>5. loadedUpTo' = loadedUpTo \/ \E m \in DOMAIN wire : wire[m] = <<"loaded", loadedUpTo'>>
  BY ResentRecords
<1>6. /\ loadedUpTo' <= StartBlock /\ loadedUpTo' <= cursor /\ KeptUpTo(loadedUpTo')
      /\ \A j \in DOMAIN wire : wire[j][1] = "save" => loadedUpTo' <= wire[j][2][1]
      /\ \A j \in DOMAIN wire : wire[j][1] = "processed" => loadedUpTo' <= wire[j][2]
  <2>1. CASE loadedUpTo' = loadedUpTo
    BY <1>3, <2>1 DEF RulesInv, StartOK, SavesAhead, RecordsOK
  <2>2. ASSUME NEW m \in DOMAIN wire, wire[m] = <<"loaded", loadedUpTo'>>
        PROVE  /\ loadedUpTo' <= StartBlock /\ loadedUpTo' < cursor /\ KeptUpTo(loadedUpTo')
               /\ \A j \in DOMAIN wire : wire[j][1] = "save" => loadedUpTo' < wire[j][2][1]
               /\ \A j \in DOMAIN wire : wire[j][1] = "processed" => loadedUpTo' < wire[j][2]
    <3>1. wire[m][1] = "loaded" /\ wire[m][2] = loadedUpTo'
      BY <2>2
    <3>. QED BY <3>1, LoadedAhead
  <2>3. loadedUpTo' \in Nat /\ cursor \in Nat
    BY DEF TypeInv, StoreOK, ProcessOK
  <2>4. \A j \in DOMAIN wire : /\ wire[j][1] = "save" => wire[j][2][1] \in Nat
                               /\ wire[j][1] = "processed" => wire[j][2] \in Nat
    BY WireFacts, RuleFacts DEF Record
  <2>5. \A x \in Nat : loadedUpTo' < x => loadedUpTo' <= x
    BY <2>3
  <2>. QED BY <1>5, <2>1, <2>2, <2>3, <2>4, <2>5
<1>7. lastProcessed' = lastProcessed
      \/ \E i \in DOMAIN wire : wire[i] = <<"processed", lastProcessed'>> /\ lastProcessed' # 0
  BY ResentRecords
<1>8. StartOK'
  <2>1. StartBlock' = StartBlock \/ (StartBlock' = lastProcessed' /\ lastProcessed' # lastProcessed)
    BY <1>2, <1>7 DEF StartBlock
  <2>2. loadedUpTo' <= StartBlock'
    BY <1>6, <1>7, <2>1
  <2>. QED BY <1>2, <1>3, <1>6, <2>2 DEF StartOK, Live
<1>9. RecordsOK'
  <2>1. ASSUME NEW i \in DOMAIN wire, wire[i][1] = "loaded"
        PROVE  wire[i][2] <= lastProcessed'
    <3>1. CASE lastProcessed' = lastProcessed
      BY <2>1, <3>1 DEF RulesInv, RecordsOK
    <3>2. ASSUME NEW j \in DOMAIN wire, wire[j] = <<"processed", lastProcessed'>>
          PROVE  wire[i][2] <= lastProcessed'
      <4>1. wire[i][2] < lastProcessed' /\ wire[i][2] \in Nat /\ lastProcessed' \in Nat
        BY <2>1, <3>2, WireFacts DEF RulesInv, RecordsOK, Record
      <4>. QED BY <4>1
    <3>. QED BY <1>7, <3>1, <3>2
  <2>. QED BY <1>2, <1>6, <2>1 DEF RulesInv, RecordsOK, Record
<1>10. SavesInOrder' /\ SavesAhead' /\ PreloadedOK'
  <2>1. SavesInOrder'
    BY <1>2 DEF RulesInv, SavesInOrder, Record, Precedes
  <2>2. SavesAhead'
    BY <1>2, <1>6 DEF RulesInv, SavesAhead
  <2>. QED BY <1>3, <2>1, <2>2 DEF PreloadedOK, Live
<1>11. KeptUpTo(loadedUpTo)'
  <2>1. ASSUME NEW r \in Saved, r[1] <= loadedUpTo'
        PROVE  \E q \in rules' : /\ r[1] <= q[1] /\ q[1] <= loadedUpTo'
                                 /\ r[1] < loadedUpTo' => NotOlder(q, r)
    <3>1. PICK q \in rules : /\ r[1] <= q[1] /\ q[1] <= loadedUpTo'
                             /\ r[1] < loadedUpTo' => NotOlder(q, r)
      BY <1>6, <2>1 DEF KeptUpTo
    <3>2. CASE q \notin rules'
      <4>1. PICK w \in rules' : w[1] = q[1] /\ \E j \in DOMAIN wire : wire[j] = <<"save", w>>
        BY <1>1, <3>2, WrittenFacts
      <4>2. loadedUpTo' <= w[1]
        BY <1>6, <4>1
      <4>3. loadedUpTo' \in Nat /\ w[1] \in Nat
        BY <1>4, RuleFacts DEF TypeInv, StoreOK
      <4>4. w[1] = loadedUpTo'
        BY <3>1, <4>1, <4>2, <4>3
      <4>. QED BY <3>1, <4>1, <4>4 DEF NotOlder, Precedes
    <3>. QED BY <3>1, <3>2
  <2>. QED BY <1>2, <2>1 DEF KeptUpTo, NotOlder, Precedes
<1>12. FoundOK'
  <2>1. PICK base : FoundFrom(base)
    BY <1>3 DEF RulesInv, FoundOK
  <2>2. ASSUME NEW r \in Saved, r[1] < cursor, ~OnWire(r)
        PROVE  \E q \in rules' : NotOlder(q, r) /\ q[1] <= Larger(r[1], base)
    <3>1. FoundBy(r, Larger(r[1], base)) /\ r \in RuleOps
      BY <2>1, <2>2 DEF FoundFrom, Saved
    <3>2. ASSUME NEW j \in DOMAIN wire, wire[j][1] = "save", wire[j][2][1] = r[1],
                 Precedes(wire[j][2], r)
          PROVE  FALSE
      BY <2>2, <3>1, <3>2 DEF RulesInv, SavesInOrder, OnWire
    <3>. QED BY <1>1, <1>4, <3>1, <3>2, ResentFound
  <2>3. \A r \in Saved : r[1] < cursor =>
            \/ \E q \in rules' : NotOlder(q, r) /\ q[1] <= Larger(r[1], base)
            \/ \E j \in DOMAIN wire : wire[j] = <<"save", r>>
    BY <2>2 DEF OnWire
  <2>4. FoundFrom(base)'
    BY <1>2, <2>1, <2>3 DEF FoundFrom, FoundBy, OnWire, Record, Larger, NotOlder, Precedes
  <2>. QED BY <2>4 DEF FoundOK
<1>13. ReadsOK'
  <2>1. ASSUME NEW i \in DOMAIN wire, wire[i][1] = "read", NEW r \in Saved,
               Precedes(r, wire[i][2]), ~Coming(r, i)
        PROVE  \E q \in rules' : NotOlder(q, r) /\ q[1] <= wire[i][2][1]
    <3>1. FoundBy(r, wire[i][2][1]) /\ r \in RuleOps /\ wire[i][2] \in Orders
      BY <2>1, WireFacts DEF RulesInv, ReadsOK, Saved
    <3>2. ASSUME NEW j \in DOMAIN wire, wire[j][1] = "save", wire[j][2] \in RuleOps,
                 wire[j][2][1] = r[1], Precedes(wire[j][2], r)
          PROVE  FALSE
      <4>1. PICK k \in DOMAIN wire :
                /\ j < k /\ wire[k] = <<"save", r>>
                /\ \A m \in DOMAIN wire :
                      j < m /\ m < k /\ wire[m][1] = "read" => ~Precedes(r, wire[m][2])
        BY <3>1, <3>2 DEF RulesInv, SavesInOrder
      <4>2. i \in Nat /\ j \in Nat /\ k \in Nat /\ i # j /\ i # k
        BY <2>1, <3>2, <4>1, WireFacts
      <4>3. ~(k < i)
        BY <2>1, <4>1 DEF Coming
      <4>4. i < k
        BY <4>2, <4>3
      <4>5. ~(j < i)
        BY <2>1, <4>1, <4>4
      <4>6. i < j
        BY <4>2, <4>5
      <4>7. Precedes(wire[i][2], wire[j][2])
        BY <2>1, <3>2, <4>6 DEF WireInv
      <4>8. /\ r[1] \in Nat /\ r[2] \in Nat /\ wire[j][2][1] \in Nat /\ wire[j][2][2] \in Nat
            /\ wire[i][2][1] \in Nat /\ wire[i][2][2] \in Nat
        BY <3>1, <3>2, RuleFacts, OrderFacts
      <4>. QED BY <2>1, <3>2, <4>7, <4>8 DEF Precedes
    <3>. QED BY <1>1, <1>4, <3>1, <3>2, ResentFound
  <2>. QED BY <1>2, <2>1 DEF ReadsOK, FoundBy, Coming, NotOlder, Precedes
<1>. QED BY <1>8, <1>9, <1>10, <1>11, <1>12, <1>13 DEF RulesInv


-----------------------------------------------------------------------------
\* The steps of Next, as the lemmas above know them.
LEMMA NextRules ==
    ASSUME TypeInv, TypeInv', LifeInv, HandlersOK, RulesInv, WireInv, [Next]_vars
    PROVE  RulesInv'
<1>0. head \in Nat /\ sqlBlock \in Nat
  BY ChainFacts DEF TypeInv
<1>1. CASE NewBlock \/ SqlIndexes \/ Toggle \/ Stop \/ UNCHANGED vars
  <2>1. /\ UNCHANGED <<chain, startFrom, rules, loadedUpTo, lastProcessed, cursor, unsaved>>
        /\ wire' = wire /\ handlers' = handlers
        /\ phase' = phase \/ (Live /\ Live')
    BY <1>1 DEF NewBlock, SqlIndexes, Toggle, Stop, vars, world, store, process, history, Live
  <2>2. head <= head' /\ sqlBlock <= sqlBlock'
    BY <1>0, <1>1 DEF NewBlock, SqlIndexes, Toggle, Stop, vars, world
  <2>3. Moved(0, "none") /\ InHand' = InHand
    BY <2>1, Moves DEF InHand
  <2>4. \A i \in DOMAIN wire' :
            \/ i + 0 \in DOMAIN wire /\ wire'[i] = wire[i + 0]
            \/ wire'[i][2] \in InHand /\ wire'[i][1] = "read"
    BY <2>1, WireFacts
  <2>. QED BY <2>1, <2>2, <2>3, <2>4, ReaderKeeps
<1>2. ASSUME NEW v \in Orders, HandlerStep(v)
      PROVE  RulesInv'
  <2>1. /\ UNCHANGED <<world, rules, loadedUpTo, lastProcessed, phase, cursor, unsaved>>
        /\ v \in InHand
    <3>1. UNCHANGED <<world, rules, loadedUpTo, lastProcessed, phase, cursor, unsaved>>
      BY <1>2 DEF HandlerStep, Validated, ValidationFails, Retry, Push, PushRejected,
                  PushResent, store, history
    <3>. QED BY <1>2, <3>1, SteadySteps
  <2>2. UNCHANGED <<chain, startFrom>> /\ head <= head' /\ sqlBlock <= sqlBlock'
    BY <1>0, <2>1 DEF world
  <2>3. InHand' \subseteq InHand
    <3>1. \A h \in handlers' : h \in handlers \/ h.order = v
      BY <1>2 DEF HandlerStep, Validated, ValidationFails, Retry, Push, PushRejected,
                  PushResent, MoveHandler,
                  DropHandler, Handler
    <3>. QED BY <2>1, <3>1 DEF InHand
  <2>4. wire' = wire \/ wire' = Append(wire, <<"read", v>>)
    BY <1>2 DEF HandlerStep, Validated, ValidationFails, Retry, Push, PushRejected, PushResent
  <2>5. CASE wire' = wire
    <3>1. Moved(0, "none")
      BY <2>5, Moves
    <3>2. \A i \in DOMAIN wire' :
              \/ i + 0 \in DOMAIN wire /\ wire'[i] = wire[i + 0]
              \/ wire'[i][2] \in InHand /\ wire'[i][1] = "read"
      BY <2>5, WireFacts
    <3>. QED BY <2>1, <2>2, <2>3, <3>1, <3>2, ReaderKeeps
  <2>6. CASE wire' = Append(wire, <<"read", v>>)
    <3>1. Moved(0, "read")
      BY <2>6, Moves
    <3>2. \A i \in DOMAIN wire' :
              \/ i + 0 \in DOMAIN wire /\ wire'[i] = wire[i + 0]
              \/ wire'[i][2] \in InHand /\ wire'[i][1] = "read"
      BY <2>1, <2>6, AppendFacts, WireFacts
    <3>. QED BY <2>1, <2>2, <2>3, <3>1, <3>2, ReaderKeeps
  <2>. QED BY <2>4, <2>5, <2>6
<1>3. CASE ServeRead \/ ReadRejected
  <2>1. /\ UNCHANGED <<world, rules, loadedUpTo, lastProcessed, phase, cursor, unsaved>>
        /\ Command("read") /\ wire' = Tail(wire) /\ wire # <<>>
    BY <1>3 DEF ServeRead, ReadRejected, store, history, Command
  <2>2. UNCHANGED <<chain, startFrom>> /\ head <= head' /\ sqlBlock <= sqlBlock'
    BY <1>0, <2>1 DEF world
  <2>3. Operand \in InHand
    <3>1. At(Operand, "reading")
      BY <2>1, ReadServed
    <3>. QED BY <3>1 DEF At, InHand, Handler
  <2>4. InHand' \subseteq InHand
    <3>1. \A h \in handlers' : h \in handlers \/ h.order = Operand
      BY <1>3 DEF ServeRead, ReadRejected, MoveHandler, DropHandler, Handler
    <3>. QED BY <2>3, <3>1 DEF InHand
  <2>5. Moved(1, "none") /\ \A i \in DOMAIN wire' : i + 1 \in DOMAIN wire /\ wire'[i] = wire[i + 1]
    BY <2>1, Moves, TailFacts
  <2>6. ~Command("save")
    BY <2>1 DEF Command
  <2>. QED BY <2>1, <2>2, <2>4, <2>5, <2>6, ReaderKeeps
<1>4. CASE ServeSave \/ SaveRejected
  <2>1. SaveStep
    <3>1. CASE ServeSave
      BY <3>1 DEF ServeSave, SaveStep, world, history
    <3>2. CASE SaveRejected
      BY <3>2 DEF SaveRejected, SaveStep, world
    <3>. QED BY <1>4, <3>1, <3>2
  <2>. QED BY <2>1, SaveKeeps
<1>5. CASE ServeProcessed \/ ServeLoaded
  <2>1. RecordStep
    BY <1>5 DEF ServeProcessed, ServeLoaded, RecordStep, RecordWrites, world, history
  <2>. QED BY <2>1, RecordKeeps
<1>6. CASE RecordRejected
  <2>1. RecordWrites /\ (Command("processed") \/ Command("loaded"))
    BY <1>6 DEF RecordRejected, RecordWrites, world
  <2>2. CASE Die
    BY <2>1, <2>2, DeathKeeps
  <2>3. CASE wire' = Tail(wire) /\ UNCHANGED <<phase, cursor, handlers>>
    BY <2>1, <2>3, RecordKeeps DEF RecordStep
  <2>. QED BY <1>6, <2>2, <2>3 DEF RecordRejected
<1>7. CASE Crash
  <2>1. RecordWrites /\ Die
    BY <1>7 DEF Crash, RecordWrites, world, store
  <2>. QED BY <2>1, DeathKeeps
<1>. QED BY <1>1, <1>2, <1>3, <1>4, <1>5, <1>6, <1>7, BootKeeps, PreloadKeeps, PreloadDoneKeeps,
            ResentKeeps, BlockKeeps DEF Next, HandlerStep

LEMMA InitRules == Init => RulesInv
<1>. SUFFICES ASSUME Init PROVE RulesInv
  OBVIOUS
<1>1. TypeInv /\ StartBlock \in Nat
  BY InitTyped, StartBlockNat
<1>2. StartOK
  BY <1>1 DEF Init, StartOK, Live
<1>3. KeptUpTo(loadedUpTo)
  BY <1>1, RuleFacts DEF Init, KeptUpTo, Saved
<1>. QED BY <1>2, <1>3
         DEF Init, RulesInv, RecordsOK, SavesInOrder, SavesAhead, PreloadedOK, FoundOK, Live, ReadsOK

LEMMA RulesAlways == Spec => [](TypeInv /\ LifeInv /\ HandlersOK /\ JobsOK /\ RulesInv /\ WireInv)
<1>1. Init => HandlersOK /\ JobsOK /\ RulesInv /\ WireInv
  BY InitRules DEF Init, HandlersOK, JobsOK, WireInv
<1>2. /\ TypeInv /\ LifeInv /\ (HandlersOK /\ JobsOK /\ RulesInv /\ WireInv)
      /\ [Next]_vars /\ TypeInv'
      => (HandlersOK /\ JobsOK /\ RulesInv /\ WireInv)'
  BY NextOnce, NextRules, NextWire
<1>. QED BY <1>1, <1>2, LifeAlways, PTL DEF Spec

(* A restart that finds rules loaded up to its block may skip the preload:  *)
(* whatever deaths and failures there were, the entry in force at that      *)
(* block is in the hash (DaemonManager.ts:68-81).                           *)
THEOREM DaemonLoadedRulesFound == Spec => []LoadedRulesFound
<1>1. RulesInv => LoadedRulesFound
  BY DEF RulesInv, KeptUpTo, LoadedRulesFound, Saved
<1>. QED BY <1>1, RulesAlways, PTL

\* A read that is served finds everything that was in force.
LEMMA ServedInTime ==
    ASSUME TypeInv, RulesInv, Command("read")
    PROVE  /\ Operand \in Orders /\ Lookup(Operand)[1] <= Operand[1]
           /\ \A r \in InForce(Operand) : r = Lookup(Operand) \/ Precedes(r, Lookup(Operand))
<1>1. /\ wire # <<>> /\ 1 \in DOMAIN wire /\ wire[1][1] = "read" /\ wire[1][2] = Operand
      /\ Operand \in Orders /\ Operand[1] \in Nat
  BY TailFacts, HeadFacts, OrderFacts DEF Command, Operand
<1>2. ASSUME NEW r \in InForce(Operand)
      PROVE  r = Lookup(Operand) \/ Precedes(r, Lookup(Operand))
  <2>1. r \in Saved /\ r \in Moments /\ Precedes(r, Operand)
    BY DEF InForce, Saved, RuleOps
  <2>2. ~Coming(r, 1)
    <3>1. \A j \in DOMAIN wire : j \in Nat /\ j >= 1
      BY WireFacts
    <3>. QED BY <3>1 DEF Coming
  <2>3. PICK q \in rules : NotOlder(q, r) /\ q[1] <= Operand[1]
    BY <1>1, <2>1, <2>2 DEF RulesInv, ReadsOK, FoundBy
  <2>4. Lookup(Operand) \in rules /\ q[1] <= Lookup(Operand)[1]
    BY <1>1, <2>3, LookupFacts
  <2>5. /\ q \in Moments /\ Lookup(Operand) \in Moments
        /\ q[1] \in Nat /\ Lookup(Operand)[1] \in Nat
    BY <2>4, RuleFacts DEF TypeInv, StoreOK
  <2>6. NotOlder(Lookup(Operand), q)
    <3>1. CASE q[1] = Lookup(Operand)[1]
      BY <2>4, <3>1 DEF TypeInv, StoreOK, NotOlder
    <3>2. CASE q[1] < Lookup(Operand)[1]
      BY <3>2 DEF NotOlder, Precedes
    <3>. QED BY <2>4, <2>5, <3>1, <3>2
  <2>7. NotOlder(Lookup(Operand), r)
    BY <2>1, <2>3, <2>5, <2>6, MomentOrder
  <2>. QED BY <2>7 DEF NotOlder
<1>3. Lookup(Operand)[1] <= Operand[1]
  <2>1. CASE Lookup(Operand) = NoRules
    BY <1>1, <2>1 DEF NoRules
  <2>. QED BY <1>1, <2>1, LookupFacts
<1>. QED BY <1>1, <1>2, <1>3

(* After any retries, deaths, replays and preloads, no voteorder is decided *)
(* by rules older than the newest set_rules that precedes it on the chain   *)
(* and was saved, nor by those of a later block (RulesManager.ts:64-82).    *)
THEOREM DaemonRulesNeverStale == Spec => []RulesNeverStale
<1>1. Init => RulesNeverStale
  BY DEF Init, RulesNeverStale
<1>2. ASSUME TypeInv, RulesInv, RulesNeverStale, [Next]_vars
      PROVE  RulesNeverStale'
  <2>1. chain' = chain /\ unsaved \subseteq unsaved'
    BY <1>2 DEF Next, NewBlock, SqlIndexes, Toggle, Boot, PreloadRules, PreloadDone, Stop, ProcessBlock,
       ServeSave, SaveRejected, ServeRead, ReadRejected, ServeProcessed, ServeLoaded, RecordRejected,
       CommandsResent, Validated, ValidationFails, Retry, Push, PushRejected, PushResent,
       Crash, vars, world, history
  <2>2. Orders' = Orders /\ \A v : InForce(v)' \subseteq InForce(v)
    BY <2>1, SameChain DEF InForce, Precedes
  <2>3. ASSUME NEW v \in Orders, used'[v] # Undecided, used' = used \/ ServeRead
        PROVE  /\ used'[v][1] <= v[1]
               /\ \A r \in InForce(v) : r = used'[v] \/ Precedes(r, used'[v])
    <3>1. CASE used'[v] = used[v]
      BY <1>2, <2>3, <3>1 DEF RulesNeverStale
    <3>2. CASE ServeRead
      <4>1. Command("read") /\ used' = [used EXCEPT ![Operand] = Lookup(Operand)]
        BY <3>2 DEF ServeRead
      <4>2. used \in [Orders -> RuleOps \cup {NoRules, Undecided}]
        BY <1>2 DEF TypeInv, HistoryOK
      <4>3. used'[v] = IF v = Operand THEN Lookup(Operand) ELSE used[v]
        BY <4>1, <4>2
      <4>. QED BY <1>2, <3>1, <4>1, <4>3, ServedInTime
    <3>. QED BY <2>3, <3>1, <3>2
  <2>4. ASSUME used' = used \/ ServeRead
        PROVE  RulesNeverStale'
    <3>. SUFFICES ASSUME NEW v \in Orders', (used[v] # Undecided)'
                  PROVE  (/\ used[v][1] <= v[1]
                          /\ \A r \in InForce(v) : r = used[v] \/ Precedes(r, used[v]))'
      BY DEF RulesNeverStale
    <3>1. v \in Orders /\ used'[v] # Undecided
      BY <2>2
    <3>2. InForce(v)' \subseteq InForce(v)
      BY <2>2
    <3>. QED BY <2>3, <2>4, <3>1, <3>2
  <2>5. used' = used \/ ServeRead
    BY <1>2 DEF Next, NewBlock, SqlIndexes, Toggle, Boot, PreloadRules, PreloadDone, Stop, ProcessBlock,
       ServeSave, SaveRejected, ReadRejected, ServeProcessed, ServeLoaded, RecordRejected,
       CommandsResent, Validated, ValidationFails, Retry, Push, PushRejected, PushResent,
       Crash, vars, history, outcome
  <2>. QED BY <2>4, <2>5
<1>. QED BY <1>1, <1>2, RulesAlways, PTL DEF Spec

=============================================================================
