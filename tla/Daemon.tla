-------------------------------- MODULE Daemon --------------------------------
(***************************************************************************)
(* The daemon: it walks over the blocks of the Steem chain, saves the      *)
(* rulesets a delegator sets for a voter in a Redis hash, checks the       *)
(* voteorders of that voter against them, and pushes a job for each.       *)
(* After a restart it goes on from what Redis remembers, and fetches the   *)
(* rules it may have missed from wiseSQL.                                  *)
(*                                                                         *)
(* From daemon/: Daemon.ts (the callbacks of the synchronizer),            *)
(* DaemonManager.ts (where to start), rules/RulesManager.ts (the hash) and *)
(* rules/RulesLoadedUpToBlock.ts.  One delegator and one voter: the rules  *)
(* of different pairs have different keys and nothing else is shared.      *)
(*                                                                         *)
(* None of the callbacks is awaited.  What orders their effects is the     *)
(* Redis connection they share, a FIFO of commands; the push of a job uses *)
(* another connection (daemon/index.ts:37-38).  Both clients have the      *)
(* default options of ioredis (RedisImpl.ts:12): after a reconnect they    *)
(* send again what was not answered, executed or not.                      *)
(***************************************************************************)
EXTENDS Integers, Sequences, FiniteSets

CONSTANTS
    Chains,      \* the chains considered: sequences of blocks, a block being
                 \* the sequence of its operations
    StartsFrom,  \* values of START_FROM_BLOCK: FromHead, FromHeadReset or a number
    FromHead, FromHeadReset,
    MaxToggles,  \* bound: how often the delegator is enabled or disabled
    MaxDeaths,   \* bound: how often the process is stopped or dies by itself
    MaxFaults    \* bound: how many commands, fetches and pushes fail, and how many
                 \* times ioredis sends executed commands again

Ops == {"setRules", "clearRules", "voteorder"}

ASSUME DaemonAssumption ==
    /\ Chains \subseteq Seq(Seq(Ops)) \ {<<>>}
    /\ FromHead # FromHeadReset
    /\ StartsFrom \subseteq {FromHead, FromHeadReset} \cup (Nat \ {0})
    /\ MaxToggles \in Nat /\ MaxDeaths \in Nat /\ MaxFaults \in Nat

VARIABLES
    chain,          \* the chain, with the blocks that are still to come
    head,           \* the number of its newest block
    sqlBlock,       \* up to where wiseSQL has indexed it
    startFrom,      \* START_FROM_BLOCK of this deployment
    enabled,        \* DelegatorManager.hasDelegator of the delegator
    rules,          \* the hash hub:daemon:rules:<delegator>:<voter>, by moments
    loadedUpTo,     \* hub:daemon:rules_loaded_up_to_block, 0 when not set
    lastProcessed,  \* last_processed_block in Redis, 0 when not set
    phase,          \* of the process
    cursor,         \* the block the synchronizer takes next
    wire,           \* commands sent over the connection and not yet answered
    handlers,       \* the voteorders that onVoteorder is busy with
    jobs,           \* history: how often a job was pushed for each voteorder
    used,           \* history: the rules the last decision on it was based on
    settled,        \* history: the voteorders with an outcome
    abandoned,      \* history: the voteorders given up by a failure or a death
    unsaved,        \* history: the set_rules whose HSET was rejected
    first,          \* history: the first block recorded as processed, or 0
    resent,         \* history: how often an executed push of it was sent again
    toggles, deaths, faults

world == <<chain, head, sqlBlock, startFrom>>
store == <<rules, loadedUpTo, lastProcessed>>
process == <<phase, cursor, wire, handlers>>
outcome == <<jobs, used, settled, abandoned>>
history == <<outcome, unsaved, first, resent>>
counters == <<toggles, deaths, faults>>
vars == <<world, enabled, store, process, history, counters>>

-----------------------------------------------------------------------------
\* A moment names an operation by its block and its place there.
MomentsOf(c) == UNION {{<<b, i>> : i \in DOMAIN c[b]} : b \in DOMAIN c}
AllMoments == UNION {MomentsOf(c) : c \in Chains}
Moments == MomentsOf(chain)
OpAt(m) == chain[m[1]][m[2]]
Orders == {m \in Moments : OpAt(m) = "voteorder"}
RuleOps == Moments \ Orders
Precedes(m, n) == m[1] < n[1] \/ (m[1] = n[1] /\ m[2] < n[2])

NoRules == <<0, 0>>  \* SteemOperationNumber.NEVER, before every moment
Undecided == <<>>

\* Defect for the mutation check: the field of the hash is the whole moment.
SaveRulesByMoment(r) == rules \cup {r}

\* RulesManager.saveRules: the field of the hash is the block number.
SaveRules(r) == {q \in rules : q[1] # r[1]} \cup {r}

\* Defect for the mutation check: rules of the same block do not count.
LookupEarlier(v) ==
    LET found == {r \in rules : r[1] < v[1]}
    IN  IF found = {} THEN NoRules
        ELSE CHOOSE r \in found : \A q \in found : q[1] <= r[1]

\* RulesManager.getRules: the newest entry of the hash up to the moment's block.
Lookup(v) ==
    LET found == {r \in rules : r[1] <= v[1]}
    IN  IF found = {} THEN NoRules
        ELSE CHOOSE r \in found : \A q \in found : q[1] <= r[1]

\* A handler of onVoteorder; the rules it has read go with it.
Handler(v, step) == [order |-> v, step |-> step]
Steps == {"reading", "retryWait", "validating", "pushing"}
At(v, step) == Handler(v, step) \in handlers
MoveHandler(v, from, to) ==
    handlers' = (handlers \ {Handler(v, from)}) \cup {Handler(v, to)}
InHand == {h.order : h \in handlers}
DropHandler(v, from) == handlers' = handlers \ {Handler(v, from)}

Init ==
    /\ chain \in Chains
    /\ head = 1 /\ sqlBlock = 1
    /\ startFrom \in StartsFrom
    /\ enabled \in BOOLEAN
    /\ rules = {} /\ loadedUpTo = 0 /\ lastProcessed = 0
    /\ phase = "down" /\ cursor = 0 /\ wire = <<>> /\ handlers = {}
    /\ jobs = [v \in Orders |-> 0] /\ used = [v \in Orders |-> Undecided]
    /\ settled = {} /\ abandoned = {} /\ unsaved = {} /\ first = 0
    /\ resent = [v \in Orders |-> 0]
    /\ toggles = 0 /\ deaths = 0 /\ faults = 0

-----------------------------------------------------------------------------
\* The surroundings: the chain grows, wiseSQL follows it, users switch the
\* delegator on and off.
NewBlock ==
    /\ head < Len(chain)
    /\ head' = head + 1
    /\ UNCHANGED <<chain, sqlBlock, startFrom, enabled, store, process, history, counters>>

SqlIndexes ==
    /\ sqlBlock < head
    /\ sqlBlock' = sqlBlock + 1
    /\ UNCHANGED <<chain, head, startFrom, enabled, store, process, history, counters>>

Toggle ==
    /\ toggles < MaxToggles
    /\ toggles' = toggles + 1
    /\ enabled' = ~enabled
    /\ UNCHANGED <<world, store, process, history, deaths, faults>>

-----------------------------------------------------------------------------
(***************************************************************************)
(* DaemonManager.run.                                                      *)
(***************************************************************************)
\* Defect for the mutation check: the block after the last processed one.
NextStartBlock ==
    CASE startFrom = FromHeadReset -> head
      [] startFrom # FromHeadReset /\ lastProcessed # 0 -> lastProcessed + 1
      [] startFrom = FromHead /\ lastProcessed = 0 -> head
      [] OTHER -> startFrom

\* determineStartBlock: the last processed block is processed again.
StartBlock ==
    CASE startFrom = FromHeadReset -> head
      [] startFrom # FromHeadReset /\ lastProcessed # 0 -> lastProcessed
      [] startFrom = FromHead /\ lastProcessed = 0 -> head
      [] OTHER -> startFrom

Smaller(a, b) == IF a < b THEN a ELSE b

\* Defect for the mutation check: wiseSQL is taken to be up to date.
BootIgnoringLag ==
    /\ phase = "down"
    /\ cursor' = StartBlock
    /\ phase' = IF loadedUpTo < StartBlock THEN "preloading" ELSE "syncing"
    /\ UNCHANGED <<world, enabled, store, wire, handlers, history, counters>>

\* With rules missing the daemon starts no later than where wiseSQL has got.
Boot ==
    /\ phase = "down"
    /\ IF loadedUpTo < StartBlock
         THEN phase' = "preloading" /\ cursor' = Smaller(sqlBlock, StartBlock)
         ELSE phase' = "syncing" /\ cursor' = StartBlock
    /\ UNCHANGED <<world, enabled, store, wire, handlers, history, counters>>

\* /rpc/all_rulesets: the rules in force at the start block, as wiseSQL knows them.
SqlRules ==
    LET known == {r \in RuleOps : r[1] <= cursor /\ r[1] <= sqlBlock}
    IN  {r \in known : \A q \in known : q = r \/ Precedes(q, r)}

PreloadRules ==
    /\ phase = "preloading"
    /\ rules' = {q \in rules : \A r \in SqlRules : q[1] # r[1]} \cup SqlRules
    /\ phase' = "preloaded"
    /\ UNCHANGED <<world, enabled, loadedUpTo, lastProcessed, cursor, wire, handlers,
                   history, counters>>

PreloadDone ==
    /\ phase = "preloaded"
    /\ loadedUpTo' = cursor
    /\ phase' = "syncing"
    /\ UNCHANGED <<world, enabled, rules, lastProcessed, cursor, wire, handlers, history,
                   counters>>

\* SIGTERM: the synchronizer stops and what is in flight goes on.
Stop ==
    /\ phase = "syncing"
    /\ deaths < MaxDeaths
    /\ phase' = "stopped"
    /\ UNCHANGED <<world, enabled, store, cursor, wire, handlers, history, counters>>

-----------------------------------------------------------------------------
(***************************************************************************)
(* The synchronizer hands over the operations of a block: onSetRules sends *)
(* an HSET, onVoteorder an HGETALL if the delegator is enabled, and        *)
(* onBlockProcessingFinished the HSET of last_processed_block.             *)
(***************************************************************************)
BlockOrders == {m \in Orders : m[1] = cursor}

\* The places in the block of the operations that a command is sent for, and
\* these commands in their order: the k-th is for the place of rank k.
SentOps == {i \in DOMAIN chain[cursor] : enabled \/ OpAt(<<cursor, i>>) # "voteorder"}
RankOf(i) == Cardinality({j \in SentOps : j <= i})
CommandFor(i) ==
    <<IF OpAt(<<cursor, i>>) = "voteorder" THEN "read" ELSE "save", <<cursor, i>>>>

BlockCommands ==
    [k \in 1..Cardinality(SentOps) |->
        CommandFor(CHOOSE i \in SentOps : RankOf(i) = k)]

\* Defect for the mutation check: the newest block is not yet taken.
ProcessBlockBehind ==
    /\ phase = "syncing" /\ cursor < head
    /\ wire' = Append(wire \o BlockCommands, <<"processed", cursor>>)
    /\ handlers' = IF enabled THEN handlers \cup {Handler(v, "reading") : v \in BlockOrders}
                              ELSE handlers
    /\ settled' = IF enabled THEN settled ELSE settled \cup BlockOrders
    /\ cursor' = cursor + 1
    /\ UNCHANGED <<world, enabled, store, phase, jobs, used, abandoned, unsaved, first, resent,
                   counters>>

ProcessBlock ==
    /\ phase = "syncing" /\ cursor <= head
    /\ wire' = Append(wire \o BlockCommands, <<"processed", cursor>>)
    /\ handlers' = IF enabled THEN handlers \cup {Handler(v, "reading") : v \in BlockOrders}
                              ELSE handlers
    /\ settled' = IF enabled THEN settled ELSE settled \cup BlockOrders
    /\ cursor' = cursor + 1
    /\ UNCHANGED <<world, enabled, store, phase, jobs, used, abandoned, unsaved, first, resent,
                   counters>>

-----------------------------------------------------------------------------
\* The server executes the oldest command and the process gets the answer.
Command(kind) == wire # <<>> /\ Head(wire)[1] = kind
Operand == Head(wire)[2]

ServeSave ==
    /\ Command("save")
    /\ rules' = SaveRules(Operand)
    /\ wire' = Tail(wire)
    /\ UNCHANGED <<world, enabled, loadedUpTo, lastProcessed, phase, cursor, handlers,
                   history, counters>>

\* safeAsyncCall logs the error and nothing tries again.
SaveRejected ==
    /\ Command("save")
    /\ faults < MaxFaults
    /\ faults' = faults + 1
    /\ rules' \in {rules, SaveRules(Operand)}
    /\ unsaved' = unsaved \cup {Operand}
    /\ wire' = Tail(wire)
    /\ UNCHANGED <<world, enabled, loadedUpTo, lastProcessed, phase, cursor, handlers,
                   outcome, first, resent, toggles, deaths>>

\* getRules resolves: without rulesets the voteorder is ignored, else it is
\* validated against what was read.
ServeRead ==
    /\ Command("read")
    /\ LET v == Operand
           found == Lookup(v)
       IN  /\ used' = [used EXCEPT ![v] = found]
           /\ IF found = NoRules \/ OpAt(found) = "clearRules"
                THEN DropHandler(v, "reading") /\ settled' = settled \cup {v}
                ELSE MoveHandler(v, "reading", "validating") /\ UNCHANGED settled
    /\ wire' = Tail(wire)
    /\ UNCHANGED <<world, enabled, store, phase, cursor, jobs, abandoned, unsaved, first,
                   resent, counters>>

ReadRejected ==
    /\ Command("read")
    /\ faults < MaxFaults
    /\ faults' = faults + 1
    /\ MoveHandler(Operand, "reading", "retryWait")
    /\ wire' = Tail(wire)
    /\ UNCHANGED <<world, enabled, store, phase, cursor, history, toggles, deaths>>

\* last_processed_block is set; its answer lets RulesLoadedUpToBlock.set follow.
ServeProcessed ==
    /\ Command("processed")
    /\ lastProcessed' = Operand
    /\ first' = IF first = 0 THEN Operand ELSE first
    /\ wire' = Append(Tail(wire), <<"loaded", Operand>>)
    /\ UNCHANGED <<world, enabled, rules, loadedUpTo, phase, cursor, handlers, outcome,
                   unsaved, resent, counters>>

ServeLoaded ==
    /\ Command("loaded")
    /\ loadedUpTo' = Operand
    /\ wire' = Tail(wire)
    /\ UNCHANGED <<world, enabled, rules, lastProcessed, phase, cursor, handlers, history,
                   counters>>

\* The process is gone: what was in memory or on the wire is lost.  A voteorder
\* of the last processed block or of a later one will come again.
Die ==
    /\ phase' = "down" /\ cursor' = 0
    /\ wire' = <<>> /\ handlers' = {}
    /\ deaths' = deaths + 1
    /\ abandoned' = abandoned \cup {v \in InHand : v[1] < lastProcessed'}

\* One of the two writes of onBlockProcessingFinished is rejected, executed or
\* not.  The callback's promise rejects: the synchronizer goes on, or nobody
\* handles the rejection and the process exits.
RecordRejected ==
    /\ Command("processed") \/ Command("loaded")
    /\ faults < MaxFaults
    /\ faults' = faults + 1
    /\ \/ UNCHANGED <<loadedUpTo, lastProcessed, first>>
       \/ /\ Command("processed")
          /\ lastProcessed' = Operand
          /\ first' = IF first = 0 THEN Operand ELSE first
          /\ UNCHANGED loadedUpTo
       \/ /\ Command("loaded")
          /\ loadedUpTo' = Operand
          /\ UNCHANGED <<lastProcessed, first>>
    /\ \/ /\ wire' = Tail(wire)
          /\ UNCHANGED <<phase, cursor, handlers, abandoned, deaths>>
       \/ Die
    /\ UNCHANGED <<world, enabled, rules, jobs, used, settled, unsaved, resent, toggles>>

\* What remains of the first n commands of a kind: for each key, and for each
\* field of the hash of rules, the last write.
Written(n, kind) ==
    {wire[i][2] : i \in {j \in 1..n : wire[j][1] = kind /\
        \A k \in (j + 1)..n : wire[k][1] = kind =>
            kind = "save" /\ wire[k][2][1] # wire[j][2][1]}}
Executed(n, kind) == {wire[i][2] : i \in {j \in 1..n : wire[j][1] = kind}}

\* The value of a record after them, and of the first one that was ever written.
RecordAfter(n, kind, value) ==
    IF Executed(n, kind) = {} THEN {value} ELSE Written(n, kind)
FirstAfter(n) ==
    LET done == Executed(n, "processed")
    IN  IF first # 0 \/ done = {} THEN {first} ELSE {b \in done : \A c \in done : b <= c}

\* The connection breaks after the server executed the first n of the commands
\* on the wire.  ioredis reconnects and sends all of them again, in their order.
CommandsResent ==
    /\ faults < MaxFaults
    /\ faults' = faults + 1
    /\ \E n \in DOMAIN wire :
          /\ rules' = {q \in rules : \A r \in Executed(n, "save") : q[1] # r[1]}
                         \cup Written(n, "save")
          /\ lastProcessed' \in RecordAfter(n, "processed", lastProcessed)
          /\ loadedUpTo' \in RecordAfter(n, "loaded", loadedUpTo)
          /\ first' \in FirstAfter(n)
    /\ UNCHANGED <<world, enabled, process, outcome, unsaved, resent, toggles, deaths>>

-----------------------------------------------------------------------------
(***************************************************************************)
(* The rest of onVoteorder: ValidationRunner, then voteorderCommit, which  *)
(* pushes a job whatever the verdict is.                                   *)
(***************************************************************************)
Validated(v) ==
    /\ At(v, "validating")
    /\ MoveHandler(v, "validating", "pushing")
    /\ UNCHANGED <<world, enabled, store, phase, cursor, wire, history, counters>>

\* A FetchError; any other error makes the verdict negative.
ValidationFails(v) ==
    /\ At(v, "validating")
    /\ faults < MaxFaults
    /\ faults' = faults + 1
    /\ MoveHandler(v, "validating", "retryWait")
    /\ UNCHANGED <<world, enabled, store, phase, cursor, wire, history, toggles, deaths>>

\* Defect for the mutation check: the timer fires and nothing is read.
RetryWithoutRead(v) ==
    /\ At(v, "retryWait")
    /\ MoveHandler(v, "retryWait", "reading")
    /\ UNCHANGED <<world, enabled, store, phase, cursor, wire, history, counters>>

\* The timer calls onVoteorder again, with the moment of the voteorder.
Retry(v) ==
    /\ At(v, "retryWait")
    /\ IF enabled
         THEN /\ MoveHandler(v, "retryWait", "reading")
              /\ wire' = Append(wire, <<"read", v>>)
              /\ UNCHANGED settled
         ELSE /\ DropHandler(v, "retryWait")
              /\ settled' = settled \cup {v}
              /\ UNCHANGED wire
    /\ UNCHANGED <<world, enabled, store, phase, cursor, jobs, used, abandoned, unsaved, first,
                   resent, counters>>

\* The server executes the LPUSH of scheduleJob and the connection breaks before
\* the answer: ioredis reconnects and sends it again, the handler waits on.
PushResent(v) ==
    /\ At(v, "pushing")
    /\ faults < MaxFaults
    /\ faults' = faults + 1
    /\ jobs' = [jobs EXCEPT ![v] = @ + 1]
    /\ resent' = [resent EXCEPT ![v] = @ + 1]
    /\ UNCHANGED <<world, enabled, store, phase, cursor, wire, handlers, used, settled,
                   abandoned, unsaved, first, toggles, deaths>>

\* PublisherQueueImpl.scheduleJob resolves.
Push(v) ==
    /\ At(v, "pushing")
    /\ DropHandler(v, "pushing")
    /\ jobs' = [jobs EXCEPT ![v] = @ + 1]
    /\ settled' = settled \cup {v}
    /\ UNCHANGED <<world, enabled, store, phase, cursor, wire, used, abandoned, unsaved, first,
                   resent, counters>>

\* Defect for the mutation check: a failed push is taken for a failed validation.
PushRejectedRetried(v) ==
    /\ At(v, "pushing")
    /\ faults < MaxFaults
    /\ faults' = faults + 1
    /\ MoveHandler(v, "pushing", "retryWait")
    /\ jobs' \in {jobs, [jobs EXCEPT ![v] = @ + 1]}
    /\ UNCHANGED <<world, enabled, store, phase, cursor, wire, used, settled, abandoned,
                   unsaved, first, resent, toggles, deaths>>

\* It rejects, executed or not; safeAsyncCall logs it and nothing tries again.
PushRejected(v) ==
    /\ At(v, "pushing")
    /\ faults < MaxFaults
    /\ faults' = faults + 1
    /\ DropHandler(v, "pushing")
    /\ jobs' \in {jobs, [jobs EXCEPT ![v] = @ + 1]}
    /\ abandoned' = abandoned \cup {v}
    /\ UNCHANGED <<world, enabled, store, phase, cursor, wire, used, settled, unsaved, first,
                   resent, toggles, deaths>>

\* The process dies by itself, or Docker kills it after SIGTERM.
Crash ==
    /\ phase # "down"
    /\ deaths < MaxDeaths
    /\ UNCHANGED <<world, enabled, store, jobs, used, settled, unsaved, first, resent, toggles,
                   faults>>
    /\ Die

-----------------------------------------------------------------------------
Serve == ServeSave \/ ServeRead \/ ServeProcessed \/ ServeLoaded
Startup == Boot \/ PreloadRules \/ PreloadDone
Advance(v) == Validated(v) \/ Retry(v) \/ Push(v)

Next ==
    \/ NewBlock \/ SqlIndexes \/ Toggle
    \/ Boot \/ PreloadRules \/ PreloadDone \/ Stop
    \/ ProcessBlock
    \/ ServeSave \/ SaveRejected \/ ServeRead \/ ReadRejected
    \/ ServeProcessed \/ ServeLoaded \/ RecordRejected \/ CommandsResent
    \/ \E v \in Orders :
          \/ Validated(v) \/ ValidationFails(v) \/ Retry(v)
          \/ Push(v) \/ PushRejected(v) \/ PushResent(v)
    \/ Crash

Spec == Init /\ [][Next]_vars

(***************************************************************************)
(* What may be relied on: Docker starts the container again and kills one  *)
(* that was told to stop, the synchronizer goes on to the next block, Redis*)
(* answers, timers fire, requests settle.  Nothing obliges the chain to    *)
(* grow, wiseSQL to keep up, anybody to switch the delegator, or anything  *)
(* to fail.                                                                *)
(***************************************************************************)
Fairness ==
    /\ WF_vars(Startup) /\ WF_vars(ProcessBlock) /\ WF_vars(Serve)
    /\ WF_vars(phase = "stopped" /\ Crash)
    /\ \A v \in AllMoments : WF_vars(v \in Orders /\ Advance(v))

FairSpec == Spec /\ Fairness

-----------------------------------------------------------------------------
TypeOK ==
    LET orders == Orders
        ruleOps == Moments \ orders
        TypeOfOperand(kind) == CASE kind = "save" -> ruleOps
                                 [] kind = "read" -> orders
                                 [] OTHER -> 1..head
    IN  /\ chain \in Chains
        /\ head \in 1..Len(chain) /\ sqlBlock \in 1..head /\ startFrom \in StartsFrom
        /\ enabled \in BOOLEAN
        /\ rules \subseteq ruleOps
        /\ \A q, r \in rules : q[1] = r[1] => q = r
        /\ loadedUpTo \in Nat /\ lastProcessed \in 0..head
        /\ phase \in {"down", "preloading", "preloaded", "syncing", "stopped"}
        /\ cursor \in Nat
        /\ \A i \in DOMAIN wire : /\ wire[i][1] \in {"save", "read", "processed", "loaded"}
                                 /\ wire[i][2] \in TypeOfOperand(wire[i][1])
        /\ \A h \in handlers : h.order \in orders /\ h.step \in Steps
        /\ jobs \in [orders -> Nat]
        /\ used \in [orders -> ruleOps \cup {NoRules, Undecided}]
        /\ settled \subseteq orders /\ abandoned \subseteq orders
        /\ unsaved \subseteq ruleOps /\ first \in 0..head
        /\ resent \in [orders -> Nat]
        /\ toggles \in 0..MaxToggles /\ deaths \in 0..(MaxDeaths + MaxFaults)
        /\ faults \in 0..MaxFaults

\* The set_rules that were in force at a moment, failed HSETs left out.
InForce(v) == {r \in RuleOps \ unsaved : Precedes(r, v)}

\* A voteorder is never decided by rules older than the newest set_rules that
\* precedes it on the chain and was saved, nor by rules of a later block, after
\* whatever retries, restarts, replays and preloads (RulesManager.ts:64-82).
RulesNeverStale ==
    \A v \in Orders : used[v] # Undecided =>
        /\ used[v][1] <= v[1]
        /\ \A r \in InForce(v) : r = used[v] \/ Precedes(r, used[v])

\* rules_loaded_up_to_block keeps its promise, unless an HSET failed: the entry
\* in force at that block is in the hash, so that a restart may skip the preload
\* (DaemonManager.ts:68-81, Daemon.ts:118-123).
LoadedRulesFound ==
    unsaved = {} =>
        \A r \in RuleOps : r[1] <= loadedUpTo => \E q \in rules : r[1] <= q[1] /\ q[1] <= loadedUpTo

\* Once a block has been recorded, no voteorder from there on is passed over:
\* it has an outcome, is being handled, or was given up by a failed push or by
\* a death while a later block was recorded already.  The voteorders of the
\* last recorded block survive a death (DaemonManager.ts:112-116).
NoOrderForgotten ==
    LET reached == IF phase \in {"syncing", "stopped"} THEN cursor ELSE lastProcessed
    IN  startFrom # FromHeadReset /\ first # 0 =>
            \A v \in Orders : first <= v[1] /\ v[1] < reached =>
                v \in settled \cup abandoned \cup InHand

\* A life of the process pushes at most one job for a voteorder, besides those
\* that ioredis sent again although they were executed (RedisImpl.ts:12): retries
\* of the handler (Daemon.ts:202) and rejected reads, records and pushes do not
\* duplicate the vote.
OneJobPerLife == \A v \in Orders : jobs[v] <= 1 + deaths + resent[v]

\* A voteorder is not handled for ever: errors are retried until it is settled.
OrdersSettle == \A v \in AllMoments : (v \in InHand) ~> (v \notin InHand)

\* If no command fails, the record of the last processed block reaches the end of
\* the chain and stays there, also when restarts rewind it in between.
CatchesUp == [](faults = 0) => <>[](lastProcessed = head)

=============================================================================
