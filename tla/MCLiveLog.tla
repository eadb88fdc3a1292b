----------------------------- MODULE MCLiveLog -----------------------------
\* Two delegators; the daemon reports operations and other things, the publisher its jobs.
EXTENDS LiveLog

CONSTANTS ann, bob

Say(d, v) == [delegator |-> d, voter |-> v]
MCSays == [s \in Services |-> IF s = "daemon" THEN {Say(ann, bob), Say(None, None)}
                              ELSE {Say(bob, None)}]
MCPast == <<Message(0, bob, ann), Message(-1, ann, ann)>>
=============================================================================
