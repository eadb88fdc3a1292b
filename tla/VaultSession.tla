---------------------------- MODULE VaultSession ----------------------------
(***************************************************************************)
(* The session that the API keeps with Vault: it logs in with its AppRole  *)
(* when it starts and renews its token after two thirds of each lease, for *)
(* ever.  A chain of timers and calls does this, one at a time; the code   *)
(* never says so, each step just sets the next timer or makes the next     *)
(* call.  Time passes in ticks.  A call is answered within the tick unless *)
(* it hangs, for Axios is given no timeout.                                *)
(***************************************************************************)
EXTENDS Integers

CONSTANTS
    Lease,        \* lease_duration that a login grants, and the increment asked for
    MaxTtl,       \* the age at which Vault lets a token expire whatever is asked
    Threshold,    \* a renewed lease not above this leads to a new login (240 s)
    RetryDelay,   \* after a failed renewal (30 s)
    LoginDelay    \* after a failed login (20 s)

ASSUME DelaysAssumption ==
    /\ Lease \in Nat \ {0} /\ MaxTtl \in Nat \ {0} /\ Threshold \in Nat
    /\ RetryDelay \in Nat \ {0} /\ LoginDelay \in Nat \ {0}

VARIABLES
    vaultUp,    \* Vault answers and is not sealed
    phase,      \* of App.init: "starting", "login", "config", "serving", "stuck"
    chain,      \* the timers and calls of the chain
    lease,      \* ticks until the token expires
    ttl,        \* ticks until the token reaches its maximal age
    granted,    \* the lease granted last
    failures,   \* renewals of a token still valid that failed since then
    hung        \* history: a call of the chain is never answered

vaultVars == <<vaultUp, phase, chain, lease, ttl, granted, failures, hung>>

Phases == {"starting", "login", "config", "serving", "stuck"}

\* Math.round(lease * 1000 * 2 / 3), in ticks.
RenewAfter(l) == (4 * l + 3) \div 6
Margin(l)     == l - RenewAfter(l)

Timer(what, left) == [what |-> what, left |-> left]
Wait  == {"renew", "login"}
Calls == {"renewing", "logging in"}

Due(what) == Timer(what, 0) \in chain
Calling   == \E t \in chain : t.what \in Calls
\* What a step of the chain leaves in its place.
Replace(what, by) == chain' = {t \in chain : t.what # what} \cup by

\* Vault lets go of the token for good: renewals go on and must fail.
Lost == lease = 0 /\ \E t \in chain : t.what \in {"renew", "renewing"}

VaultInit ==
    /\ vaultUp \in BOOLEAN
    /\ phase = "starting"
    /\ chain = {}
    /\ lease = 0 /\ ttl = 0 /\ granted = 0 /\ failures = 0 /\ hung = FALSE

\* Vault.init: unless the status can be got, init throws and the API serves nothing.
GetStatus ==
    /\ phase = "starting"
    /\ phase' = IF vaultUp THEN "login" ELSE "stuck"
    /\ chain' = IF vaultUp THEN {Timer("logging in", 0)} ELSE {}
    /\ UNCHANGED <<vaultUp, lease, ttl, granted, failures, hung>>

\* The token of a login or of a renewal.
Token(l, t) == lease' = l /\ granted' = l /\ ttl' = t /\ failures' = 0

\* Defect for the mutation check: a login that failed is not tried again.
LoginOnce ==
    /\ Due("logging in")
    /\ IF vaultUp
       THEN /\ Token(Lease, MaxTtl)
            /\ Replace("logging in", {Timer("renew", RenewAfter(Lease))})
            /\ phase' = IF phase = "login" THEN "config" ELSE phase
       ELSE /\ Replace("logging in", {})
            /\ UNCHANGED <<phase, lease, ttl, granted, failures>>
    /\ UNCHANGED <<vaultUp, hung>>

(* appRoleLogin sets the timer and takes the token; any failure is retried *)
(* by AppRole.login after a delay.  The first login lets App.init go on.   *)
Login ==
    /\ Due("logging in")
    /\ IF vaultUp
       THEN /\ Token(Lease, MaxTtl)
            /\ Replace("logging in", {Timer("renew", RenewAfter(Lease))})
            /\ phase' = IF phase = "login" THEN "config" ELSE phase
       ELSE /\ Replace("logging in", {Timer("login", LoginDelay)})
            /\ UNCHANGED <<phase, lease, ttl, granted, failures>>
    /\ UNCHANGED <<vaultUp, hung>>

\* The session secret is read; without it App.init throws.
Config ==
    /\ phase = "config"
    /\ phase' = IF vaultUp /\ lease > 0 THEN "serving" ELSE "stuck"
    /\ UNCHANGED <<vaultUp, chain, lease, ttl, granted, failures, hung>>

Fire ==
    /\ \/ Due("renew") /\ Replace("renew", {Timer("renewing", 0)})
       \/ Due("login") /\ Replace("login", {Timer("logging in", 0)})
    /\ UNCHANGED <<vaultUp, phase, lease, ttl, granted, failures, hung>>

\* What Vault grants: no more than the token has left to live.
Grant == IF ttl < Lease THEN ttl ELSE Lease

\* Defect for the mutation check: a short lease leads to a login and to a renewal.
RenewTwice ==
    /\ Due("renewing")
    /\ IF vaultUp /\ lease > 0
       THEN /\ Token(Grant, ttl)
            /\ Replace("renewing", {Timer("renew", RenewAfter(Grant))} \cup
                 IF Grant > Threshold THEN {} ELSE {Timer("logging in", 0)})
       ELSE /\ Replace("renewing", {Timer("renew", RetryDelay)})
            /\ failures' = IF lease > 0 THEN failures + 1 ELSE failures
            /\ UNCHANGED <<lease, ttl, granted>>
    /\ UNCHANGED <<vaultUp, phase, hung>>

\* renewTokenIn after its timer: renew again later, log in, or retry; nothing else.
Renew ==
    /\ Due("renewing")
    /\ IF vaultUp /\ lease > 0
       THEN /\ Token(Grant, ttl)
            /\ Replace("renewing", {IF Grant > Threshold THEN Timer("renew", RenewAfter(Grant))
                                   ELSE Timer("logging in", 0)})
       ELSE /\ Replace("renewing", {Timer("renew", RetryDelay)})
            /\ failures' = IF lease > 0 THEN failures + 1 ELSE failures
            /\ UNCHANGED <<lease, ttl, granted>>
    /\ UNCHANGED <<vaultUp, phase, hung>>

\* A call of the chain is never answered.
Hang ==
    /\ Calling
    /\ chain' = {}
    /\ hung' = TRUE
    /\ UNCHANGED <<vaultUp, phase, lease, ttl, granted, failures>>

\* Vault goes down or is sealed, or comes back.
Toggle ==
    /\ vaultUp' = ~vaultUp
    /\ UNCHANGED <<phase, chain, lease, ttl, granted, failures, hung>>

\* The API is restarted; when it is stuck its watchdog sees to that, as /api/status is dumb.
Restart ==
    /\ phase \in {"stuck", "serving"}
    /\ phase' = "starting"
    /\ chain' = {}
    /\ lease' = 0 /\ ttl' = 0 /\ granted' = 0 /\ failures' = 0 /\ hung' = FALSE
    /\ UNCHANGED vaultUp

Less(n) == IF n > 0 THEN n - 1 ELSE 0

\* A tick: no timer is due and no call is under way.
VaultTick ==
    /\ phase \notin {"starting", "config"}
    /\ \A t \in chain : t.left > 0
    /\ chain' = {Timer(t.what, t.left - 1) : t \in chain}
    /\ lease' = Less(lease)
    /\ ttl' = Less(ttl)
    /\ UNCHANGED <<vaultUp, phase, granted, failures, hung>>

VaultSteps == GetStatus \/ Login \/ Config \/ Fire \/ Renew \/ Hang \/ Toggle \/ Restart
=============================================================================
