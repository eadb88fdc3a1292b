----------------------------- MODULE JobDelivery -----------------------------
(***************************************************************************)
(* What the publisher promises the daemon, whatever its process goes       *)
(* through: a job it accepted stays in durable storage until some          *)
(* publication of it has come to an end (it was broadcast, or it failed    *)
(* for good), and every accepted job comes to such an end.                 *)
(***************************************************************************)
CONSTANT Jobs

VARIABLES owed,       \* the jobs in durable storage
          concluded   \* the jobs of which a publication came to an end

vars == <<owed, concluded>>

Init == owed = {} /\ concluded = {}

Accept(j) ==
    /\ owed' = owed \cup {j}
    /\ UNCHANGED concluded

Conclude(j) ==
    /\ concluded' = concluded \cup {j}
    /\ UNCHANGED owed

\* The only way out of durable storage: the publication came to an end first.
Discharge(j) ==
    /\ j \in concluded
    /\ owed' = owed \ {j}
    /\ UNCHANGED concluded

Next == \E j \in Jobs : Accept(j) \/ Conclude(j) \/ Discharge(j)

Spec == Init /\ [][Next]_vars

\* Every accepted job is concluded, and leaves durable storage.
EveryJobConcluded == \A j \in Jobs : j \in owed ~> j \in concluded /\ j \notin owed

=============================================================================
