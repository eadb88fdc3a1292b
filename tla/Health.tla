------------------------------- MODULE Health -------------------------------
(***************************************************************************)
(* What the API reports about the system at /api/status: the health of     *)
(* Vault as its own session sees it, and for each service the key in Redis *)
(* that the heartbeats of the service keep from expiring.  The status is   *)
(* gathered by calls one after the other, while time passes and services   *)
(* stop and start.                                                         *)
(***************************************************************************)
EXTENDS VaultSession

CONSTANTS
    Services,   \* publisher, daemon and realtime
    Period,     \* the ticks between two beats at most, per service
    KeyTtl      \* the ticks for which a beat sets the key

ASSUME PeriodAssumption ==
    Period \in [Services -> Nat \ {0}] /\ KeyTtl \in [Services -> Nat \ {0}]

VARIABLES
    up,        \* the services that run
    beating,   \* those whose beats have set their key since they started
    rest,      \* per service, the ticks until its next beat at the latest
    key,       \* per service, the ticks until its key expires; 0 when there is none
    misses,    \* per service, the beats that failed since one succeeded
    request    \* the request for the status that is being served

beatVars == <<up, beating, rest, key, misses>>
vars == <<vaultVars, beatVars, request>>

Idle == [stage |-> "idle", bad |-> FALSE, todo |-> {}, silent |-> {}, lost |-> FALSE]
Answers == {"healthy", "unhealthy", "failed"}

Init ==
    /\ VaultInit
    /\ up \in SUBSET Services
    /\ beating = {}
    /\ rest = [s \in Services |-> 0]
    /\ key = [s \in Services |-> 0]
    /\ misses = [s \in Services |-> 0]
    /\ request = Idle

\* Defect for the mutation check: the loop waits longer than its heartbeat was chosen for.
BeatLate(s) ==
    /\ s \in up /\ rest[s] < Period[s]
    /\ beating' = beating \cup {s}
    /\ key' = [key EXCEPT ![s] = KeyTtl[s]]
    /\ misses' = [misses EXCEPT ![s] = 0]
    /\ rest' = [rest EXCEPT ![s] = 2 * Period[s]]
    /\ request' = [request EXCEPT !.silent = @ \ {s}]
    /\ UNCHANGED <<vaultVars, up>>

\* A beat whose SET reaches Redis, at the latest when rest is over.
Beat(s) ==
    /\ s \in up /\ rest[s] < Period[s]
    /\ beating' = beating \cup {s}
    /\ key' = [key EXCEPT ![s] = KeyTtl[s]]
    /\ misses' = [misses EXCEPT ![s] = 0]
    /\ rest' = [rest EXCEPT ![s] = Period[s]]
    /\ request' = [request EXCEPT !.silent = @ \ {s}]
    /\ UNCHANGED <<vaultVars, up>>

\* A beat whose SET fails: beat logs the error and the loop goes on.
MissedBeat(s) ==
    /\ s \in up /\ rest[s] < Period[s]
    /\ misses' = [misses EXCEPT ![s] = IF key[s] > 0 THEN @ + 1 ELSE @]
    /\ rest' = [rest EXCEPT ![s] = Period[s]]
    /\ UNCHANGED <<vaultVars, up, beating, key, request>>

\* A service stops; to start it again takes a tick.
Stop(s) ==
    /\ s \in up
    /\ rest' = [rest EXCEPT ![s] = 1]
    /\ up' = up \ {s}
    /\ beating' = beating \ {s}
    /\ UNCHANGED <<vaultVars, key, misses, request>>

\* A service that starts beats before anything else.
Run(s) ==
    /\ s \notin up /\ rest[s] = 0
    /\ up' = up \cup {s}
    /\ UNCHANGED <<vaultVars, beating, rest, key, misses, request>>

Tick ==
    /\ \A s \in up : rest[s] > 0
    /\ VaultTick
    /\ rest' = [s \in Services |-> Less(rest[s])]
    /\ key' = [s \in Services |-> Less(key[s])]
    /\ UNCHANGED <<up, beating, misses, request>>

\* getStatus begins; silent and lost are history: what was already wrong by then.
Ask ==
    /\ phase = "serving" /\ request.stage \in {"idle"} \cup Answers
    /\ request' = [Idle EXCEPT !.stage = "vault", !.todo = Services, !.lost = Lost,
                               !.silent = {s \in Services : key[s] = 0}]
    /\ UNCHANGED <<vaultVars, beatVars>>

\* Vault's health, and a secret read with the token of the session.
AskVault ==
    /\ request.stage = "vault"
    /\ request' = [request EXCEPT !.stage = "keys", !.bad = ~vaultUp \/ lease = 0]
    /\ UNCHANGED <<vaultVars, beatVars>>

\* isAlive: the key exists.
ReadKey(s) ==
    /\ request.stage = "keys" /\ s \in request.todo
    /\ request' = [request EXCEPT !.todo = @ \ {s}, !.bad = @ \/ key[s] = 0]
    /\ UNCHANGED <<vaultVars, beatVars>>

\* A call to Redis is rejected: the route answers with an error, without a verdict.
StatusFails ==
    /\ request.stage = "keys"
    /\ request' = [Idle EXCEPT !.stage = "failed"]
    /\ UNCHANGED <<vaultVars, beatVars>>

(* getStatusVerdict; calm stands for queues of at most 15 jobs and a       *)
(* status that took at most 3 s.                                           *)
Verdict(calm) ==
    /\ request.stage = "keys" /\ request.todo = {}
    /\ request' = IF request.bad \/ ~calm THEN [Idle EXCEPT !.stage = "unhealthy"]
                  ELSE [request EXCEPT !.stage = "healthy"]
    /\ UNCHANGED <<vaultVars, beatVars>>

\* The API goes down with the request it serves.
VaultStep ==
    /\ VaultSteps
    /\ request' = IF phase' = "starting" THEN Idle ELSE request
    /\ UNCHANGED beatVars

Next ==
    \/ VaultStep \/ Tick
    \/ \E s \in Services : Beat(s) \/ MissedBeat(s) \/ Stop(s) \/ Run(s) \/ ReadKey(s)
    \/ Ask \/ AskVault \/ StatusFails
    \/ \E calm \in BOOLEAN : Verdict(calm)

\* Timers fire, calls are answered, loops go on; what fails need not.
Fairness ==
    /\ WF_vars(Tick)
    /\ WF_vars((GetStatus \/ Login \/ Config \/ Fire \/ Renew) /\ UNCHANGED <<beatVars, request>>)
    /\ WF_vars(phase = "stuck" /\ VaultStep /\ phase' = "starting")
    /\ \A s \in Services : WF_vars(s \in up /\ rest[s] = 0 /\ (Beat(s) \/ MissedBeat(s)))

Spec == Init /\ [][Next]_vars /\ Fairness

-----------------------------------------------------------------------------
(* SessionKept: the chain of renewals never splits and never ends, unless  *)
(* a call hangs; and a valid token is only lost when every renewal in the  *)
(* last third of its lease has failed, each tried RetryDelay after the one *)
(* before (Vault.ts:266).                                                  *)
SessionKept ==
    /\ phase \notin {"starting", "stuck"} /\ ~hung => chain # {}
    /\ \A t, u \in chain : t = u
    /\ Lost => failures * RetryDelay >= Margin(granted)

(* LostForGood: a token that has expired in the hands of the renewals is   *)
(* never replaced: they fail and are repeated for ever, and nothing logs   *)
(* in again until the API is restarted (Vault.ts:266).                     *)
LostForGood == [][Lost /\ ~hung' /\ phase' # "starting" => Lost']_vars

(* Recovers: when Vault stays up, the API gets a session again and again   *)
(* by renewals and new logins, unless the session was lost for good or a   *)
(* call hangs: logins are tried until they succeed, an API that found      *)
(* Vault down at its start is restarted, and a token that reaches its      *)
(* maximal age is replaced by a login before it expires                    *)
(* (AppRole.ts:31, api/index.ts:48, Vault.ts:253).                         *)
Recovers == <>[]vaultUp => []<>((phase = "serving" /\ lease > 0) \/ Lost \/ hung)

(* StatusTrue: the key of a service that runs does not expire before beats *)
(* worth the whole time to live have failed - one failed beat is enough    *)
(* where KeyTtl is twice the period, as for the publisher                  *)
(* (StaticConfig.ts:10); and no status is healthy when the session was     *)
(* lost, or a service silent, from before the request until its answer.    *)
StatusTrue ==
    /\ \A s \in beating : key[s] = 0 => (misses[s] + 1) * Period[s] >= KeyTtl[s]
    /\ request.stage = "healthy" => request.silent = {} /\ ~request.lost
=============================================================================
