----------------------------- MODULE MCFrontend -----------------------------
\* Two delegators with one ruleset each for the same voter, the page of one
\* of them, and the page of the voter, which shows both.
EXTENDS Frontend

CONSTANTS ann, bob

MCRoutes == {[delegator |-> ann, voter |-> None], [delegator |-> None, voter |-> bob]}
Ruleset(kind) == [name |-> "old", rules |-> <<DefaultRule[kind]>>]
MCFirstChain == [p \in {<<ann, bob>>, <<bob, bob>>} |->
                    IF p[1] = ann THEN <<Ruleset("payout")>> ELSE <<Ruleset("weight")>>]
MCNameLists == {<<"noisy", "">>}
=============================================================================
