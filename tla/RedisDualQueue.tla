--------------------------- MODULE RedisDualQueue ---------------------------
(***************************************************************************)
(* The list commands the dual queue of the publisher is made of            *)
(* (publisher/queue/RedisDualQueueImpl.ts over lib/redis/RedisImpl.ts).    *)
(*                                                                         *)
(* A Redis list is a sequence whose head is index 1: LPUSH adds at the     *)
(* head, RPOP takes the last element.  Every command is one atomic step of *)
(* the Redis server, so each is a function of the lists it touches.        *)
(***************************************************************************)
EXTENDS Naturals, Sequences, FiniteSets

Entries(list) == {list[i] : i \in DOMAIN list}

\* LPUSH: RedisDualQueueImpl.pushToWaitingQueue.
LPush(list, entry) == <<entry>> \o list

\* The element RPOPLPUSH and BRPOPLPUSH move, and the source without it.
Oldest(list) == list[Len(list)]
WithoutOldest(list) == SubSeq(list, 1, Len(list) - 1)

\* LREM key 0 entry: every element equal to entry is removed, the others keep
\* their order.  The k-th remaining element is the one of rank k among the
\* positions that are kept.
Kept(list, entry) == {i \in DOMAIN list : list[i] # entry}
Rank(list, entry, i) == Cardinality({j \in Kept(list, entry) : j <= i})
LRemAll(list, entry) ==
    [k \in 1..Cardinality(Kept(list, entry)) |->
        list[CHOOSE i \in Kept(list, entry) : Rank(list, entry, i) = k]]

=============================================================================
