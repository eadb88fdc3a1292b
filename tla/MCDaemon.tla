------------------------------ MODULE MCDaemon ------------------------------
\* Instances of Daemon for TLC: chains put together from a few kinds of blocks.
EXTENDS Daemon

CONSTANTS
    Length,  \* of the chains
    Kinds,   \* how many of BlockKinds they are made of
    MaxOps   \* bound: how many operations a chain holds

\* The order of set_rules and voteorders within one block matters, and whether
\* the same block clears the rules again.
BlockKinds == <<
    <<"voteorder">>,
    <<"setRules">>,
    <<"setRules", "voteorder">>,
    <<"voteorder", "clearRules">>,
    <<"setRules", "voteorder", "setRules">>,
    <<>> >>

MCChains == {c \in [1..Length -> {BlockKinds[k] : k \in 1..Kinds}] :
                Cardinality(MomentsOf(c)) <= MaxOps}

=============================================================================
