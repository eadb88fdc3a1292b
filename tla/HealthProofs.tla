---------------------------- MODULE HealthProofs ----------------------------
(***************************************************************************)
(* Proofs about VaultSession and Health, for any services, periods, times  *)
(* to live, leases and delays.                                             *)
(***************************************************************************)
EXTENDS Health, TLAPS

-----------------------------------------------------------------------------
(* The session.  Between two calls there is one timer, and the time left   *)
(* of the lease is the margin of the renewal less the delays of the        *)
(* renewals that failed.                                                   *)
Timers == [what : Wait \cup Calls, left : Nat]
Renewals == {"renew", "renewing"}

TimesOK == lease \in Nat /\ ttl \in Nat /\ granted \in Nat /\ failures \in Nat
ChainOK == chain \subseteq Timers /\ \A t, u \in chain : t = u
AliveOK ==
    /\ phase = "starting" => chain = {}
    /\ phase \notin {"starting", "stuck"} /\ ~hung => chain # {}
LeaseOK ==
    \A t \in chain : t.what \in Renewals =>
        IF lease > 0 THEN lease - t.left = Margin(granted) - failures * RetryDelay
        ELSE failures * RetryDelay >= Margin(granted)

SessionInv == TimesOK /\ ChainOK /\ AliveOK /\ LeaseOK

LEMMA TimerFacts ==
    ASSUME NEW what, NEW left \in Nat
    PROVE  /\ Timer(what, left).what = what /\ Timer(what, left).left = left
           /\ what \in Wait \cup Calls => Timer(what, left) \in Timers
  BY DEF Timer, Timers

LEMMA RenewAfterFacts ==
    ASSUME NEW l \in Nat
    PROVE  RenewAfter(l) \in Nat /\ Margin(l) = l - RenewAfter(l) /\ Margin(l) \in Int
  BY DEF RenewAfter, Margin

\* Of a chain that is due there is nothing but what is due.
LEMMA ReplaceFacts ==
    ASSUME ChainOK, NEW what, Due(what), NEW by, Replace(what, by)
    PROVE  chain' = by
<1>1. Timer(what, 0).what = what
  BY TimerFacts
<1>. QED BY <1>1 DEF ChainOK, Due, Replace

LEMMA GrantFacts == ASSUME TimesOK PROVE Grant \in Nat
  BY DelaysAssumption DEF TimesOK, Grant

\* A new token with a timer for its renewal.
LEMMA NewTokenLeaseOK ==
    ASSUME NEW l \in Nat \ {0}, NEW t, Token(l, t), chain' = {Timer("renew", RenewAfter(l))}
    PROVE  LeaseOK' /\ ChainOK'
<1>1. RenewAfter(l) \in Nat /\ Margin(l) = l - RenewAfter(l) /\ Margin(l) \in Int
  BY RenewAfterFacts
<1>2. /\ Timer("renew", RenewAfter(l)).left = RenewAfter(l)
      /\ Timer("renew", RenewAfter(l)) \in Timers
  BY <1>1, TimerFacts DEF Wait
<1>3. lease' = l /\ granted' = l /\ failures' = 0
  BY DEF Token
<1>4. failures' * RetryDelay = 0
  BY <1>3, DelaysAssumption
<1>5. \A x \in chain' : x.left = RenewAfter(l)
  BY <1>2
<1>6. LeaseOK'
  BY <1>1, <1>3, <1>4, <1>5 DEF LeaseOK
<1>7. ChainOK'
  BY <1>2 DEF ChainOK
<1>. QED BY <1>6, <1>7

LEMMA LoginSession ==
    ASSUME SessionInv, Login
    PROVE  SessionInv'
<1>. USE DelaysAssumption
<1>1. ChainOK /\ TimesOK /\ hung' = hung /\ Due("logging in")
  BY DEF SessionInv, Login
<1>2. CASE vaultUp
  <2>1. Token(Lease, MaxTtl) /\ Replace("logging in", {Timer("renew", RenewAfter(Lease))})
        /\ phase' = IF phase = "login" THEN "config" ELSE phase
    BY <1>2 DEF Login
  <2>2. chain' = {Timer("renew", RenewAfter(Lease))}
    BY <1>1, <2>1, ReplaceFacts
  <2>3. LeaseOK' /\ ChainOK'
    BY <2>1, <2>2, NewTokenLeaseOK
  <2>4. TimesOK'
    BY <2>1 DEF Token, TimesOK
  <2>5. phase # "starting"
    BY <1>1 DEF SessionInv, AliveOK, Due
  <2>6. AliveOK'
    BY <2>1, <2>2, <2>5 DEF AliveOK
  <2>. QED BY <2>3, <2>4, <2>6 DEF SessionInv
<1>3. CASE ~vaultUp
  <2>1. Replace("logging in", {Timer("login", LoginDelay)})
        /\ UNCHANGED <<phase, lease, ttl, granted, failures>>
    BY <1>3 DEF Login
  <2>2. chain' = {Timer("login", LoginDelay)}
    BY <1>1, <2>1, ReplaceFacts
  <2>3. Timer("login", LoginDelay).what = "login" /\ Timer("login", LoginDelay) \in Timers
    BY TimerFacts DEF Wait
  <2>4. ChainOK' /\ LeaseOK'
    BY <2>2, <2>3 DEF ChainOK, LeaseOK, Renewals
  <2>5. phase # "starting"
    BY <1>1 DEF SessionInv, AliveOK, Due
  <2>6. AliveOK'
    BY <2>1, <2>2, <2>5 DEF AliveOK
  <2>7. TimesOK'
    BY <1>1, <2>1 DEF TimesOK
  <2>. QED BY <2>4, <2>6, <2>7 DEF SessionInv
<1>. QED BY <1>2, <1>3

LEMMA RenewSession ==
    ASSUME SessionInv, Renew
    PROVE  SessionInv'
<1>. USE DelaysAssumption
<1>1. ChainOK /\ TimesOK /\ UNCHANGED <<hung, phase>> /\ Due("renewing")
  BY DEF SessionInv, Renew
<1>2. phase # "starting"
  BY <1>1 DEF SessionInv, AliveOK, Due
<1>3. Grant \in Nat /\ (Grant > Threshold => Grant \in Nat \ {0})
  BY <1>1, GrantFacts
<1>4. chain' # {} => AliveOK'
  BY <1>1, <1>2 DEF AliveOK
<1>5. CASE vaultUp /\ lease > 0 /\ Grant > Threshold
  <2>1. Token(Grant, ttl) /\ Replace("renewing", {Timer("renew", RenewAfter(Grant))})
    BY <1>5 DEF Renew
  <2>2. chain' = {Timer("renew", RenewAfter(Grant))}
    BY <1>1, <2>1, ReplaceFacts
  <2>3. LeaseOK' /\ ChainOK'
    BY <1>3, <1>5, <2>1, <2>2, NewTokenLeaseOK
  <2>4. TimesOK'
    BY <1>1, <1>3, <2>1 DEF Token, TimesOK
  <2>. QED BY <1>4, <2>2, <2>3, <2>4 DEF SessionInv
<1>6. CASE vaultUp /\ lease > 0 /\ ~(Grant > Threshold)
  <2>1. Token(Grant, ttl) /\ Replace("renewing", {Timer("logging in", 0)})
    BY <1>6 DEF Renew
  <2>2. chain' = {Timer("logging in", 0)}
    BY <1>1, <2>1, ReplaceFacts
  <2>3. Timer("logging in", 0).what = "logging in" /\ Timer("logging in", 0) \in Timers
    BY TimerFacts DEF Calls
  <2>4. ChainOK' /\ LeaseOK'
    BY <2>2, <2>3 DEF ChainOK, LeaseOK, Renewals
  <2>5. TimesOK'
    BY <1>1, <1>3, <2>1 DEF Token, TimesOK
  <2>. QED BY <1>4, <2>2, <2>4, <2>5 DEF SessionInv
<1>7. CASE ~(vaultUp /\ lease > 0)
  <2>1. /\ Replace("renewing", {Timer("renew", RetryDelay)})
        /\ failures' = IF lease > 0 THEN failures + 1 ELSE failures
        /\ UNCHANGED <<lease, ttl, granted>>
    BY <1>7 DEF Renew
  <2>2. chain' = {Timer("renew", RetryDelay)}
    BY <1>1, <2>1, ReplaceFacts
  <2>3. /\ Timer("renew", RetryDelay).left = RetryDelay /\ Timer("renew", RetryDelay) \in Timers
        /\ Timer("renewing", 0).what = "renewing" /\ Timer("renewing", 0).left = 0
    BY TimerFacts DEF Wait
  <2>4. IF lease > 0 THEN lease - 0 = Margin(granted) - failures * RetryDelay
        ELSE failures * RetryDelay >= Margin(granted)
    BY <1>1, <2>3 DEF SessionInv, LeaseOK, Due, Renewals
  <2>5. (failures + 1) * RetryDelay = failures * RetryDelay + RetryDelay
        /\ failures * RetryDelay \in Int /\ Margin(granted) \in Int
    BY <1>1, RenewAfterFacts DEF TimesOK
  <2>6. \A x \in chain' : x.left = RetryDelay
    BY <2>2, <2>3
  <2>7. LeaseOK'
    BY <1>1, <2>1, <2>4, <2>5, <2>6 DEF LeaseOK, TimesOK
  <2>8. ChainOK'
    BY <2>2, <2>3 DEF ChainOK
  <2>9. TimesOK'
    BY <1>1, <2>1 DEF TimesOK
  <2>. QED BY <1>4, <2>2, <2>7, <2>8, <2>9 DEF SessionInv
<1>. QED BY <1>5, <1>6, <1>7

LEMMA FireSession ==
    ASSUME SessionInv, Fire
    PROVE  SessionInv'
<1>1. ChainOK /\ TimesOK /\ UNCHANGED <<hung, phase, lease, ttl, granted, failures>>
  BY DEF SessionInv, Fire
<1>2. CASE Due("renew") /\ Replace("renew", {Timer("renewing", 0)})
  <2>1. chain' = {Timer("renewing", 0)}
    BY <1>1, <1>2, ReplaceFacts
  <2>2. /\ Timer("renewing", 0).left = 0 /\ Timer("renewing", 0) \in Timers
        /\ Timer("renew", 0).what = "renew" /\ Timer("renew", 0).left = 0
    BY TimerFacts DEF Calls
  <2>3. IF lease > 0 THEN lease - 0 = Margin(granted) - failures * RetryDelay
        ELSE failures * RetryDelay >= Margin(granted)
    BY <1>2, <2>2 DEF SessionInv, LeaseOK, Due, Renewals
  <2>4. LeaseOK' /\ ChainOK'
    BY <1>1, <2>1, <2>2, <2>3 DEF LeaseOK, ChainOK
  <2>5. phase # "starting"
    BY <1>2 DEF SessionInv, AliveOK, Due
  <2>. QED BY <1>1, <2>1, <2>4, <2>5 DEF SessionInv, AliveOK, TimesOK
<1>3. CASE Due("login") /\ Replace("login", {Timer("logging in", 0)})
  <2>1. chain' = {Timer("logging in", 0)}
    BY <1>1, <1>3, ReplaceFacts
  <2>2. Timer("logging in", 0).what = "logging in" /\ Timer("logging in", 0) \in Timers
    BY TimerFacts DEF Calls
  <2>3. LeaseOK' /\ ChainOK'
    BY <2>1, <2>2 DEF LeaseOK, ChainOK, Renewals
  <2>4. phase # "starting"
    BY <1>3 DEF SessionInv, AliveOK, Due
  <2>. QED BY <1>1, <2>1, <2>3, <2>4 DEF SessionInv, AliveOK, TimesOK
<1>. QED BY <1>2, <1>3 DEF Fire

LEMMA OtherSession ==
    ASSUME SessionInv, GetStatus \/ Config \/ Hang \/ Toggle \/ Restart
    PROVE  SessionInv'
<1>1. CASE GetStatus
  <2>1. \/ chain' = {Timer("logging in", 0)} /\ phase' = "login"
        \/ chain' = {} /\ phase' = "stuck"
    BY <1>1 DEF GetStatus
  <2>2. Timer("logging in", 0).what = "logging in" /\ Timer("logging in", 0) \in Timers
    BY TimerFacts DEF Calls
  <2>3. LeaseOK' /\ ChainOK'
    BY <2>1, <2>2 DEF LeaseOK, ChainOK, Renewals
  <2>4. AliveOK' /\ TimesOK'
    BY <1>1, <2>1 DEF GetStatus, AliveOK, TimesOK, SessionInv
  <2>. QED BY <2>3, <2>4 DEF SessionInv
<1>2. CASE Config
  BY <1>2 DEF Config, SessionInv, TimesOK, ChainOK, AliveOK, LeaseOK
<1>3. CASE Hang \/ Restart
  BY <1>3 DEF Hang, Restart, SessionInv, TimesOK, ChainOK, AliveOK, LeaseOK
<1>4. CASE Toggle
  BY <1>4 DEF Toggle, SessionInv, TimesOK, ChainOK, AliveOK, LeaseOK
<1>. QED BY <1>1, <1>2, <1>3, <1>4

LEMMA TickSession ==
    ASSUME SessionInv, VaultTick
    PROVE  SessionInv'
<1>1. /\ \A t \in chain : t.left > 0 /\ t \in Timers
      /\ chain' = {Timer(t.what, t.left - 1) : t \in chain}
      /\ lease' = Less(lease) /\ ttl' = Less(ttl)
      /\ UNCHANGED <<phase, granted, failures, hung>>
  BY DEF VaultTick, SessionInv, ChainOK
<1>2. \A t \in chain : t.left - 1 \in Nat /\ t.what \in Wait \cup Calls
  BY <1>1 DEF Timers
<1>3. \A t \in chain : /\ Timer(t.what, t.left - 1) \in Timers
                       /\ Timer(t.what, t.left - 1).what = t.what
                       /\ Timer(t.what, t.left - 1).left = t.left - 1
  BY <1>2, TimerFacts
<1>4. ChainOK'
  BY <1>1, <1>3 DEF SessionInv, ChainOK
<1>5. TimesOK'
  BY <1>1 DEF SessionInv, TimesOK, Less
<1>6. AliveOK'
  BY <1>1 DEF SessionInv, AliveOK
<1>7. LeaseOK'
  <2>. SUFFICES ASSUME NEW t \in chain, t.what \in Renewals
                PROVE  IF lease' > 0
                       THEN lease' - (t.left - 1) = Margin(granted) - failures * RetryDelay
                       ELSE failures * RetryDelay >= Margin(granted)
    BY <1>1, <1>3 DEF LeaseOK
  <2>1. t.left \in Nat /\ t.left > 0 /\ lease \in Nat
    BY <1>1 DEF Timers, SessionInv, TimesOK
  <2>2. IF lease > 0 THEN lease - t.left = Margin(granted) - failures * RetryDelay
        ELSE failures * RetryDelay >= Margin(granted)
    BY DEF SessionInv, LeaseOK
  <2>3. Margin(granted) \in Int /\ failures * RetryDelay \in Int
    BY RenewAfterFacts, DelaysAssumption DEF SessionInv, TimesOK
  <2>. QED BY <1>1, <2>1, <2>2, <2>3 DEF Less
<1>. QED BY <1>4, <1>5, <1>6, <1>7 DEF SessionInv

LEMMA SameSession ==
    ASSUME SessionInv, UNCHANGED vaultVars
    PROVE  SessionInv' /\ Lost' = Lost
  BY DEF vaultVars, SessionInv, TimesOK, ChainOK, AliveOK, LeaseOK, Lost

LEMMA NextSessionInv ==
    ASSUME SessionInv, [Next]_vars
    PROVE  SessionInv'
<1>1. CASE VaultStep
  BY <1>1, LoginSession, RenewSession, FireSession, OtherSession DEF VaultStep, VaultSteps
<1>2. CASE Tick
  BY <1>2, TickSession DEF Tick
<1>3. CASE UNCHANGED vaultVars
  BY <1>3, SameSession
<1>4. VaultStep \/ Tick \/ UNCHANGED vaultVars
  BY DEF Next, Beat, MissedBeat, Stop, Run, ReadKey, Ask, AskVault, StatusFails, Verdict, vars
<1>. QED BY <1>1, <1>2, <1>3, <1>4

LEMMA HealthSessionInv == Spec => []SessionInv
<1>1. Init => SessionInv
  BY DEF Init, VaultInit, SessionInv, TimesOK, ChainOK, AliveOK, LeaseOK
<1>2. SessionInv /\ [Next]_vars => SessionInv'
  BY NextSessionInv
<1>. QED BY <1>1, <1>2, PTL DEF Spec

(* The chain of renewals never splits and ends only when a call hangs, and *)
(* it takes failed renewals worth the margin of the lease to lose a valid  *)
(* token (Vault.ts:266).                                                   *)
THEOREM HealthSessionKept == Spec => []SessionKept
<1>1. SessionInv => SessionKept
  BY DEF SessionInv, ChainOK, AliveOK, LeaseOK, SessionKept, Lost, Renewals
<1>. QED BY <1>1, HealthSessionInv, PTL

LEMMA NextLost ==
    ASSUME SessionInv, [Next]_vars, Lost, ~hung', phase' # "starting"
    PROVE  Lost'
<1>1. PICK t \in chain : t.what \in Renewals
  BY DEF Lost, Renewals
<1>2. chain = {t} /\ lease = 0
  BY <1>1 DEF Lost, SessionInv, ChainOK
<1>3. ~Due("logging in") /\ ~Due("login") /\ phase # "starting"
  <2>1. Timer("logging in", 0).what = "logging in" /\ Timer("login", 0).what = "login"
    BY TimerFacts
  <2>. QED BY <1>1, <1>2, <2>1 DEF Due, Renewals, SessionInv, AliveOK
<1>4. \A n \in Nat : Timer("renew", n).what = "renew" /\ Timer("renewing", n).what = "renewing"
  BY TimerFacts
<1>5. CASE Renew
  <2>1. Replace("renewing", {Timer("renew", RetryDelay)}) /\ lease' = lease
    BY <1>2, <1>5 DEF Renew
  <2>. QED BY <1>2, <1>4, <2>1, DelaysAssumption DEF Replace, Lost
<1>6. CASE Fire
  <2>1. Replace("renew", {Timer("renewing", 0)}) /\ lease' = lease
    BY <1>3, <1>6 DEF Fire
  <2>. QED BY <1>2, <1>4, <2>1 DEF Replace, Lost
<1>7. CASE VaultTick
  <2>1. lease' = 0 /\ chain' = {Timer(t.what, t.left - 1)}
    BY <1>2, <1>7 DEF VaultTick, Less
  <2>2. Timer(t.what, t.left - 1).what = t.what
    BY DEF Timer
  <2>. QED BY <1>1, <2>1, <2>2 DEF Lost, Renewals
<1>8. CASE UNCHANGED <<chain, lease>>
  BY <1>8 DEF Lost
<1>9. Renew \/ Fire \/ VaultTick \/ UNCHANGED <<chain, lease>>
  <2>1. VaultStep => Renew \/ Fire \/ UNCHANGED <<chain, lease>>
    BY <1>3 DEF VaultStep, VaultSteps, GetStatus, Login, Config, Hang, Toggle, Restart
  <2>2. VaultStep \/ Tick \/ UNCHANGED vaultVars
    BY DEF Next, Beat, MissedBeat, Stop, Run, ReadKey, Ask, AskVault, StatusFails, Verdict, vars
  <2>. QED BY <2>1, <2>2 DEF Tick, vaultVars
<1>. QED BY <1>5, <1>6, <1>7, <1>8, <1>9

\* A token that expired in the hands of the renewals is never replaced (Vault.ts:266).
THEOREM HealthLostForGood == Spec => LostForGood
<1>1. SessionInv /\ [Next]_vars => [Lost /\ ~hung' /\ phase' # "starting" => Lost']_vars
  BY NextLost
<1>. QED BY <1>1, HealthSessionInv, PTL DEF Spec, LostForGood

-----------------------------------------------------------------------------
(* The beats.  A key that is set outlives the beats that may fail: what is *)
(* gone of its time to live is what passed since the last beat that        *)
(* succeeded.                                                              *)
BeatTypes ==
    /\ beating \subseteq up /\ up \subseteq Services
    /\ rest \in [Services -> Nat] /\ key \in [Services -> Nat] /\ misses \in [Services -> Nat]

\* What holds of one service, by its values r, k, m and its constants p and l.
KeyKept(r, k, m, p, l) ==
    IF k > 0 THEN l - k <= m * p + (p - r) ELSE (m + 1) * p >= l

BeatsInv ==
    /\ BeatTypes
    /\ \A s \in up : rest[s] <= Period[s]
    /\ \A s \in beating : KeyKept(rest[s], key[s], misses[s], Period[s], KeyTtl[s])

LEMMA Times ==
    ASSUME NEW m \in Nat, NEW p \in Nat
    PROVE  m * p \in Nat /\ (m + 1) * p = m * p + p /\ 0 * p = 0
  OBVIOUS

LEMMA KeptByBeat ==
    ASSUME NEW p \in Nat \ {0}, NEW l \in Nat \ {0}
    PROVE  KeyKept(p, l, 0, p, l)
  BY DEF KeyKept

\* A beat that fails while the key is there costs a period.
LEMMA KeptByMiss ==
    ASSUME NEW r \in Nat, NEW k \in Nat, NEW m \in Nat, NEW p \in Nat \ {0}, NEW l \in Nat \ {0},
           r < p, KeyKept(r, k, m, p, l)
    PROVE  KeyKept(p, k, IF k > 0 THEN m + 1 ELSE m, p, l)
<1>1. m * p \in Nat /\ (m + 1) * p = m * p + p
  BY Times
<1>. QED BY <1>1 DEF KeyKept

LEMMA KeptByTick ==
    ASSUME NEW r \in Nat \ {0}, NEW k \in Nat, NEW m \in Nat, NEW p \in Nat \ {0}, NEW l \in Nat \ {0},
           r <= p, KeyKept(r, k, m, p, l)
    PROVE  KeyKept(Less(r), Less(k), m, p, l)
<1>1. m * p \in Nat /\ (m + 1) * p = m * p + p
  BY Times
<1>. QED BY <1>1 DEF KeyKept, Less

LEMMA Constants == \A s \in Services : Period[s] \in Nat \ {0} /\ KeyTtl[s] \in Nat \ {0}
  BY PeriodAssumption

LEMMA BeatBeats ==
    ASSUME BeatsInv, NEW s \in Services, Beat(s)
    PROVE  BeatsInv'
<1>1. BeatTypes /\ s \in up /\ Period[s] \in Nat \ {0} /\ KeyTtl[s] \in Nat \ {0}
  BY Constants DEF BeatsInv, Beat
<1>2. /\ beating' = beating \cup {s} /\ up' = up
      /\ key' = [key EXCEPT ![s] = KeyTtl[s]]
      /\ misses' = [misses EXCEPT ![s] = 0]
      /\ rest' = [rest EXCEPT ![s] = Period[s]]
  BY DEF Beat
<1>3. BeatTypes'
  BY <1>1, <1>2 DEF BeatTypes
<1>4. \A u \in Services \ {s} : rest'[u] = rest[u] /\ key'[u] = key[u] /\ misses'[u] = misses[u]
  BY <1>1, <1>2 DEF BeatTypes
<1>5. rest'[s] = Period[s] /\ key'[s] = KeyTtl[s] /\ misses'[s] = 0
  BY <1>1, <1>2 DEF BeatTypes
<1>6. \A u \in up' : rest'[u] <= Period[u]
  BY <1>1, <1>2, <1>4, <1>5 DEF BeatsInv, BeatTypes
<1>7. KeyKept(Period[s], KeyTtl[s], 0, Period[s], KeyTtl[s])
  BY <1>1, KeptByBeat
<1>8. ASSUME NEW u \in beating'
      PROVE  KeyKept(rest'[u], key'[u], misses'[u], Period[u], KeyTtl[u])
  <2>1. CASE u = s
    BY <1>5, <1>7, <2>1
  <2>2. CASE u # s
    <3>1. u \in beating /\ u \in Services
      BY <1>1, <1>2, <2>2 DEF BeatTypes
    <3>2. KeyKept(rest[u], key[u], misses[u], Period[u], KeyTtl[u])
      BY <3>1 DEF BeatsInv
    <3>. QED BY <1>4, <2>2, <3>1, <3>2
  <2>. QED BY <2>1, <2>2
<1>. QED BY <1>3, <1>6, <1>8 DEF BeatsInv

LEMMA MissBeats ==
    ASSUME BeatsInv, NEW s \in Services, MissedBeat(s)
    PROVE  BeatsInv'
<1>1. BeatTypes /\ s \in up /\ rest[s] < Period[s]
      /\ Period[s] \in Nat \ {0} /\ KeyTtl[s] \in Nat \ {0}
  BY Constants DEF BeatsInv, MissedBeat
<1>2. /\ UNCHANGED <<beating, up, key>>
      /\ misses' = [misses EXCEPT ![s] = IF key[s] > 0 THEN misses[s] + 1 ELSE misses[s]]
      /\ rest' = [rest EXCEPT ![s] = Period[s]]
  BY DEF MissedBeat
<1>3. BeatTypes'
  BY <1>1, <1>2 DEF BeatTypes
<1>4. \A u \in Services \ {s} : rest'[u] = rest[u] /\ misses'[u] = misses[u]
  BY <1>1, <1>2 DEF BeatTypes
<1>5. rest'[s] = Period[s] /\ misses'[s] = IF key[s] > 0 THEN misses[s] + 1 ELSE misses[s]
  BY <1>1, <1>2 DEF BeatTypes
<1>6. \A u \in up' : rest'[u] <= Period[u]
  BY <1>1, <1>2, <1>4, <1>5 DEF BeatsInv, BeatTypes
<1>7. ASSUME NEW u \in beating'
      PROVE  KeyKept(rest'[u], key'[u], misses'[u], Period[u], KeyTtl[u])
  <2>0. u \in beating /\ u \in Services /\ key'[u] = key[u]
    BY <1>1, <1>2 DEF BeatTypes
  <2>1. KeyKept(rest[u], key[u], misses[u], Period[u], KeyTtl[u])
    BY <2>0 DEF BeatsInv
  <2>2. CASE u = s
    <3>1. rest[s] \in Nat /\ key[s] \in Nat /\ misses[s] \in Nat
      BY <1>1 DEF BeatTypes
    <3>2. KeyKept(Period[s], key[s], IF key[s] > 0 THEN misses[s] + 1 ELSE misses[s],
                  Period[s], KeyTtl[s])
      BY <1>1, <2>1, <2>2, <3>1, KeptByMiss
    <3>. QED BY <1>5, <2>0, <2>2, <3>2
  <2>3. CASE u # s
    BY <1>4, <2>0, <2>1, <2>3
  <2>. QED BY <2>2, <2>3
<1>. QED BY <1>3, <1>6, <1>7 DEF BeatsInv

LEMMA TickBeats ==
    ASSUME BeatsInv, Tick
    PROVE  BeatsInv'
<1>1. BeatTypes /\ (\A s \in up : rest[s] > 0 /\ rest[s] <= Period[s])
  BY DEF BeatsInv, Tick
<1>2. /\ rest' = [s \in Services |-> Less(rest[s])]
      /\ key' = [s \in Services |-> Less(key[s])]
      /\ UNCHANGED <<up, beating, misses>>
  BY DEF Tick
<1>3. \A n \in Nat : Less(n) \in Nat /\ Less(n) <= n
  BY DEF Less
<1>4. BeatTypes'
  BY <1>1, <1>2, <1>3 DEF BeatTypes
<1>5. \A u \in up' : rest'[u] <= Period[u]
  <2>. SUFFICES ASSUME NEW u \in up PROVE Less(rest[u]) <= Period[u]
    BY <1>1, <1>2 DEF BeatTypes
  <2>1. u \in Services /\ rest[u] \in Nat /\ Period[u] \in Nat
    BY <1>1, Constants DEF BeatTypes
  <2>. QED BY <1>1, <1>3, <2>1
<1>6. ASSUME NEW u \in beating'
      PROVE  KeyKept(rest'[u], key'[u], misses'[u], Period[u], KeyTtl[u])
  <2>1. u \in beating /\ u \in up /\ u \in Services
    BY <1>1, <1>2 DEF BeatTypes
  <2>2. /\ rest[u] \in Nat \ {0} /\ key[u] \in Nat /\ misses[u] \in Nat /\ rest[u] <= Period[u]
        /\ Period[u] \in Nat \ {0} /\ KeyTtl[u] \in Nat \ {0}
    BY <1>1, <2>1, Constants DEF BeatTypes
  <2>3. KeyKept(rest[u], key[u], misses[u], Period[u], KeyTtl[u])
    BY <2>1 DEF BeatsInv
  <2>4. KeyKept(Less(rest[u]), Less(key[u]), misses[u], Period[u], KeyTtl[u])
    BY <2>2, <2>3, KeptByTick
  <2>. QED BY <1>2, <2>1, <2>4
<1>. QED BY <1>4, <1>5, <1>6 DEF BeatsInv

LEMMA StopRunBeats ==
    ASSUME BeatsInv, NEW s \in Services, Stop(s) \/ Run(s)
    PROVE  BeatsInv'
<1>1. BeatTypes /\ Period[s] \in Nat \ {0}
  BY Constants DEF BeatsInv
<1>2. CASE Stop(s)
  <2>1. /\ rest' = [rest EXCEPT ![s] = 1] /\ up' = up \ {s} /\ beating' = beating \ {s}
        /\ UNCHANGED <<key, misses>>
    BY <1>2 DEF Stop
  <2>2. BeatTypes'
    BY <1>1, <2>1 DEF BeatTypes
  <2>3. \A u \in Services \ {s} : rest'[u] = rest[u]
    BY <1>1, <2>1 DEF BeatTypes
  <2>4. \A u \in up' : rest'[u] <= Period[u]
    BY <1>1, <2>1, <2>3 DEF BeatsInv, BeatTypes
  <2>5. ASSUME NEW u \in beating'
        PROVE  KeyKept(rest'[u], key'[u], misses'[u], Period[u], KeyTtl[u])
    <3>1. u \in beating /\ u \in Services /\ u # s
      BY <1>1, <2>1 DEF BeatTypes
    <3>2. KeyKept(rest[u], key[u], misses[u], Period[u], KeyTtl[u])
      BY <3>1 DEF BeatsInv
    <3>. QED BY <2>1, <2>3, <3>1, <3>2
  <2>. QED BY <2>2, <2>4, <2>5 DEF BeatsInv
<1>3. CASE Run(s)
  <2>1. /\ rest[s] = 0 /\ up' = up \cup {s} /\ UNCHANGED <<beating, rest, key, misses>>
    BY <1>3 DEF Run
  <2>2. BeatTypes'
    BY <1>1, <2>1 DEF BeatTypes
  <2>3. \A u \in up' : rest'[u] <= Period[u]
    BY <1>1, <2>1 DEF BeatsInv
  <2>. QED BY <2>1, <2>2, <2>3 DEF BeatsInv
<1>. QED BY <1>2, <1>3

LEMMA NextBeats ==
    ASSUME BeatsInv, [Next]_vars
    PROVE  BeatsInv'
<1>1. CASE UNCHANGED beatVars
  BY <1>1 DEF beatVars, BeatsInv, BeatTypes
<1>2. CASE Tick
  BY <1>2, TickBeats
<1>3. ASSUME NEW s \in Services, Beat(s) \/ MissedBeat(s) \/ Stop(s) \/ Run(s)
      PROVE  BeatsInv'
  BY <1>3, BeatBeats, MissBeats, StopRunBeats
<1>4. \/ UNCHANGED beatVars \/ Tick
      \/ \E s \in Services : Beat(s) \/ MissedBeat(s) \/ Stop(s) \/ Run(s)
  BY DEF Next, VaultStep, ReadKey, Ask, AskVault, StatusFails, Verdict, vars
<1>. QED BY <1>1, <1>2, <1>3, <1>4

LEMMA HealthBeatsInv == Spec => []BeatsInv
<1>1. Init => BeatsInv
  <2>. SUFFICES ASSUME Init PROVE BeatsInv
    OBVIOUS
  <2>1. up \subseteq Services /\ beating = {}
    BY DEF Init
  <2>2. BeatTypes
    BY <2>1 DEF Init, BeatTypes
  <2>3. \A s \in up : rest[s] <= Period[s]
    BY <2>1, Constants DEF Init
  <2>. QED BY <2>1, <2>2, <2>3 DEF BeatsInv
<1>2. BeatsInv /\ [Next]_vars => BeatsInv'
  BY NextBeats
<1>. QED BY <1>1, <1>2, PTL DEF Spec

-----------------------------------------------------------------------------
(* The request.  What was wrong when it began is still wrong, or has been  *)
(* seen, until the verdict.                                                *)
Fields == {"stage", "bad", "todo", "silent", "lost"}
Gathering == request.stage \in {"vault", "keys"}

FieldsOK == Fields \subseteq DOMAIN request
StillLost == Gathering /\ request.lost => lease = 0 /\ \A t \in chain : t.what \in Renewals
StillSilent ==
    Gathering => phase = "serving" /\ \A s \in request.silent : s \in Services /\ key[s] = 0
LostSeen == request.stage = "keys" /\ request.lost => request.bad
SilentSeen ==
    Gathering => \A s \in request.silent :
                     s \in request.todo \/ (request.stage = "keys" /\ request.bad)
HealthyTrue == request.stage = "healthy" => request.silent = {} /\ ~request.lost

RequestInv ==
    /\ FieldsOK /\ StillLost /\ StillSilent
    /\ LostSeen /\ SilentSeen /\ HealthyTrue

LEMMA IdleRequest ==
    ASSUME NEW stage, stage \notin {"vault", "keys", "healthy"},
           request' = [Idle EXCEPT !.stage = stage]
    PROVE  RequestInv'
<1>1. Fields \subseteq DOMAIN Idle
  BY DEF Idle, Fields
<1>2. request'.stage = stage /\ Fields \subseteq DOMAIN request'
  BY <1>1 DEF Fields
<1>. QED BY <1>2 DEF RequestInv, FieldsOK, StillLost, StillSilent, LostSeen, SilentSeen,
                     HealthyTrue, Gathering

LEMMA NoRequest == (request = Idle => RequestInv) /\ (request' = Idle => RequestInv')
<1>1. Idle.stage = "idle" /\ Fields \subseteq DOMAIN Idle
  BY DEF Idle, Fields
<1>. QED BY <1>1 DEF RequestInv, FieldsOK, StillLost, StillSilent, LostSeen, SilentSeen,
                     HealthyTrue, Gathering

LEMMA AskRequest ==
    ASSUME SessionInv, Ask
    PROVE  RequestInv'
<1>1. /\ phase' = "serving" /\ UNCHANGED <<chain, lease, key>> /\ Fields \subseteq DOMAIN Idle
      /\ request' = [Idle EXCEPT !.stage = "vault", !.todo = Services, !.lost = Lost,
                                 !.silent = {s \in Services : key[s] = 0}]
  BY DEF Ask, vaultVars, beatVars, Idle, Fields
<1>2. /\ Fields \subseteq DOMAIN request' /\ request'.stage = "vault"
      /\ request'.todo = Services /\ request'.silent = {s \in Services : key[s] = 0}
  BY <1>1 DEF Fields
<1>3. request'.lost = Lost
  BY <1>1, Zenon DEF Fields
<1>4. request'.lost => Lost
  BY <1>3, Zenon
<1>5. Lost => lease = 0 /\ \A t \in chain : t.what \in Renewals
  BY DEF Lost, SessionInv, ChainOK, Renewals
<1>6. StillLost'
  BY <1>1, <1>4, <1>5 DEF StillLost
<1>. QED BY <1>1, <1>2, <1>6 DEF RequestInv, FieldsOK, StillSilent, LostSeen, SilentSeen,
                     HealthyTrue, Gathering

LEMMA AskVaultRequest ==
    ASSUME RequestInv, AskVault
    PROVE  RequestInv'
<1>1. /\ UNCHANGED <<phase, chain, lease, key>> /\ request.stage = "vault" /\ FieldsOK
      /\ request' = [request EXCEPT !.stage = "keys", !.bad = ~vaultUp \/ lease = 0]
  BY DEF RequestInv, AskVault, vaultVars, beatVars
<1>2. /\ FieldsOK' /\ request'.stage = "keys" /\ UNCHANGED <<request.todo, request.silent>>
      /\ request'.lost = request.lost
  BY <1>1 DEF FieldsOK, Fields
<1>3. request'.bad = (~vaultUp \/ lease = 0)
  BY <1>1, Zenon DEF FieldsOK, Fields
<1>4. lease = 0 => request'.bad
  BY <1>3, Zenon
<1>5. request'.lost => request.lost
  BY <1>2, Zenon
<1>6. request.lost => lease = 0 /\ \A t \in chain : t.what \in Renewals
  BY <1>1 DEF RequestInv, StillLost, Gathering
<1>7. StillLost' /\ LostSeen'
  BY <1>1, <1>4, <1>5, <1>6 DEF StillLost, LostSeen
<1>8. StillSilent'
  BY <1>1, <1>2 DEF RequestInv, StillSilent, Gathering
<1>9. SilentSeen'
  BY <1>1, <1>2 DEF RequestInv, SilentSeen, Gathering
<1>. QED BY <1>2, <1>7, <1>8, <1>9 DEF RequestInv, HealthyTrue

LEMMA ReadKeyRequest ==
    ASSUME RequestInv, NEW s \in Services, ReadKey(s)
    PROVE  RequestInv'
<1>1. /\ UNCHANGED <<phase, chain, lease, key>> /\ request.stage = "keys" /\ FieldsOK
      /\ request' = [request EXCEPT !.todo = request.todo \ {s}, !.bad = request.bad \/ key[s] = 0]
  BY DEF RequestInv, ReadKey, vaultVars, beatVars
<1>2. /\ FieldsOK' /\ request'.stage = "keys" /\ request'.todo = request.todo \ {s}
      /\ request'.silent = request.silent /\ request'.lost = request.lost
  BY <1>1 DEF FieldsOK, Fields
<1>3. request'.bad = (request.bad \/ key[s] = 0)
  BY <1>1, Zenon DEF FieldsOK, Fields
<1>4. (request.bad => request'.bad) /\ (key[s] = 0 => request'.bad)
  BY <1>3, Zenon
<1>5. request'.lost => request.lost
  BY <1>2, Zenon
<1>6. request.lost => request.bad /\ lease = 0 /\ \A t \in chain : t.what \in Renewals
  BY <1>1 DEF RequestInv, StillLost, LostSeen, Gathering
<1>7. StillLost' /\ LostSeen'
  BY <1>1, <1>4, <1>5, <1>6 DEF StillLost, LostSeen
<1>8. StillSilent'
  BY <1>1, <1>2 DEF RequestInv, StillSilent, Gathering
<1>9. SilentSeen'
  <2>. SUFFICES ASSUME NEW u \in request.silent PROVE u \in request'.todo \/ request'.bad
    BY <1>2 DEF SilentSeen, Gathering
  <2>1. key[u] = 0 /\ (u \in request.todo \/ request.bad)
    BY <1>1 DEF RequestInv, StillSilent, SilentSeen, Gathering
  <2>. QED BY <1>2, <1>4, <2>1
<1>. QED BY <1>2, <1>7, <1>8, <1>9 DEF RequestInv, HealthyTrue

LEMMA VerdictRequest ==
    ASSUME RequestInv, NEW calm, Verdict(calm)
    PROVE  RequestInv'
<1>1. request.stage = "keys" /\ request.todo = {} /\ FieldsOK
  BY DEF RequestInv, Verdict
<1>2. CASE request' = [Idle EXCEPT !.stage = "unhealthy"]
  BY <1>2, IdleRequest
<1>3. CASE ~request.bad /\ request' = [request EXCEPT !.stage = "healthy"]
  <2>1. /\ FieldsOK' /\ request'.stage = "healthy"
        /\ request'.silent = request.silent /\ request'.lost = request.lost
    BY <1>1, <1>3 DEF FieldsOK, Fields
  <2>2. request.silent = {} /\ ~request.lost
    BY <1>1, <1>3 DEF RequestInv, LostSeen, SilentSeen, Gathering
  <2>3. ~request'.lost
    BY <2>1, <2>2, Zenon
  <2>. QED BY <2>1, <2>2, <2>3 DEF RequestInv, StillLost, StillSilent, LostSeen, SilentSeen,
                                   HealthyTrue, Gathering
<1>4. \/ request' = [Idle EXCEPT !.stage = "unhealthy"]
      \/ ~request.bad /\ request' = [request EXCEPT !.stage = "healthy"]
  BY Zenon DEF Verdict
<1>. QED BY <1>2, <1>3, <1>4

\* While a status is gathered nothing logs in, unless the API restarts.
LEMMA VaultRequest ==
    ASSUME SessionInv, RequestInv, VaultStep
    PROVE  RequestInv'
<1>1. CASE phase' = "starting"
  BY <1>1, NoRequest DEF VaultStep
<1>2. CASE phase' # "starting"
  <2>1. UNCHANGED <<request, key>>
    BY <1>2 DEF VaultStep, beatVars
  <2>2. phase = "serving" => phase' = "serving"
    BY <1>2 DEF VaultStep, VaultSteps, GetStatus, Login, Config, Fire, Renew, Hang, Toggle, Restart
  <2>3. ASSUME Gathering, request.lost
        PROVE  lease' = 0 /\ \A t \in chain' : t.what \in Renewals
    <3>1. lease = 0 /\ (\A t \in chain : t.what \in Renewals) /\ phase = "serving"
      BY <2>3 DEF RequestInv, StillLost, StillSilent
    <3>2. ~Due("logging in") /\ ~Due("login")
      <4>1. Timer("logging in", 0).what = "logging in" /\ Timer("login", 0).what = "login"
        BY TimerFacts
      <4>. QED BY <3>1, <4>1 DEF Due, Renewals
    <3>3. \A n \in Nat : /\ Timer("renew", n).what \in Renewals
                         /\ Timer("renewing", n).what \in Renewals
      BY TimerFacts DEF Renewals
    <3>4. \/ UNCHANGED <<chain, lease>>
          \/ lease' = lease /\ Replace("renewing", {Timer("renew", RetryDelay)})
          \/ lease' = lease /\ Replace("renew", {Timer("renewing", 0)})
          \/ lease' = lease /\ chain' = {}
      <4>1. CASE Renew
        BY <3>1, <4>1 DEF Renew
      <4>2. CASE Fire
        BY <3>2, <4>2 DEF Fire
      <4>3. CASE Toggle
        BY <4>3 DEF Toggle
      <4>4. CASE Hang
        BY <4>4 DEF Hang
      <4>5. ~GetStatus /\ ~Config /\ ~Login /\ ~Restart
        BY <1>2, <3>1, <3>2 DEF GetStatus, Config, Login, Restart
      <4>. QED BY <4>1, <4>2, <4>3, <4>4, <4>5 DEF VaultStep, VaultSteps
    <3>. QED BY <3>1, <3>3, <3>4, DelaysAssumption DEF Replace
  <2>4. StillLost'
    BY <2>1, <2>3 DEF StillLost, Gathering
  <2>5. StillSilent'
    BY <2>1, <2>2 DEF RequestInv, StillSilent, Gathering
  <2>. QED BY <2>1, <2>4, <2>5 DEF RequestInv, FieldsOK, LostSeen, SilentSeen, HealthyTrue, Gathering
<1>. QED BY <1>1, <1>2

LEMMA TickRequest ==
    ASSUME SessionInv, RequestInv, BeatsInv, Tick
    PROVE  RequestInv'
<1>1. /\ request' = request /\ phase' = phase /\ lease' = Less(lease)
      /\ chain' = {Timer(t.what, t.left - 1) : t \in chain}
      /\ key' = [s \in Services |-> Less(key[s])]
      /\ DOMAIN key = Services
  BY DEF Tick, VaultTick, BeatsInv, BeatTypes
<1>2. \A t \in chain : Timer(t.what, t.left - 1).what = t.what
  BY DEF Timer
<1>3. Less(0) = 0
  BY DEF Less
<1>4. StillLost'
  BY <1>1, <1>2, <1>3 DEF RequestInv, StillLost, Gathering
<1>5. StillSilent'
  BY <1>1, <1>3 DEF RequestInv, StillSilent, Gathering
<1>. QED BY <1>1, <1>4, <1>5 DEF RequestInv, FieldsOK, LostSeen, SilentSeen, HealthyTrue, Gathering

LEMMA BeatRequest ==
    ASSUME RequestInv, BeatsInv, NEW s \in Services, Beat(s)
    PROVE  RequestInv'
<1>1. /\ UNCHANGED <<phase, chain, lease>> /\ FieldsOK /\ DOMAIN key = Services
      /\ key' = [key EXCEPT ![s] = KeyTtl[s]]
      /\ request' = [request EXCEPT !.silent = request.silent \ {s}]
  BY DEF RequestInv, Beat, vaultVars, BeatsInv, BeatTypes
<1>2. /\ FieldsOK' /\ request'.silent = request.silent \ {s}
      /\ request'.todo = request.todo /\ request'.stage = request.stage
      /\ request'.lost = request.lost /\ request'.bad = request.bad
  BY <1>1 DEF FieldsOK, Fields
<1>3. (request'.lost <=> request.lost) /\ (request'.bad <=> request.bad)
  BY <1>2, Zenon
<1>4. \A u \in request'.silent : u \in request.silent /\ key'[u] = key[u]
  BY <1>1, <1>2
<1>. QED BY <1>1, <1>2, <1>3, <1>4
         DEF RequestInv, StillLost, StillSilent, LostSeen, SilentSeen, HealthyTrue, Gathering

LEMMA NextRequest ==
    ASSUME SessionInv, BeatsInv, RequestInv, [Next]_vars
    PROVE  RequestInv'
<1>1. CASE UNCHANGED <<vaultVars, key, request>>
  BY <1>1 DEF vaultVars, RequestInv, FieldsOK, StillLost, StillSilent, LostSeen, SilentSeen,
              HealthyTrue, Gathering
<1>2. CASE Ask \/ AskVault \/ VaultStep \/ Tick
  BY <1>2, AskRequest, AskVaultRequest, VaultRequest, TickRequest
<1>3. CASE StatusFails
  BY <1>3, IdleRequest DEF StatusFails
<1>4. CASE \E s \in Services : Beat(s) \/ ReadKey(s)
  BY <1>4, BeatRequest, ReadKeyRequest
<1>5. CASE \E calm \in BOOLEAN : Verdict(calm)
  <2>1. PICK calm \in BOOLEAN : Verdict(calm)
    BY <1>5
  <2>. QED BY <2>1, VerdictRequest, Zenon
<1>6. \/ UNCHANGED <<vaultVars, key, request>>
      \/ Ask \/ AskVault \/ VaultStep \/ Tick \/ StatusFails
      \/ \E s \in Services : Beat(s) \/ ReadKey(s)
      \/ \E calm \in BOOLEAN : Verdict(calm)
  <2>1. \A s \in Services : MissedBeat(s) \/ Stop(s) \/ Run(s) => UNCHANGED <<vaultVars, key, request>>
    BY DEF MissedBeat, Stop, Run
  <2>2. UNCHANGED vars => UNCHANGED <<vaultVars, key, request>>
    BY DEF vars, beatVars
  <2>. QED BY <2>1, <2>2, Zenon DEF Next
<1>. QED BY <1>1, <1>2, <1>3, <1>4, <1>5, <1>6

(* The key of a running service expires only after beats worth its whole   *)
(* time to live have failed, and no status is healthy when the session was *)
(* lost, or a service silent, from before the request until its answer     *)
(* (StaticConfig.ts:10).                                                   *)
THEOREM HealthStatusTrue == Spec => []StatusTrue
<1>1. Init => RequestInv
  BY NoRequest DEF Init
<1>2. SessionInv /\ BeatsInv /\ RequestInv /\ [Next]_vars => RequestInv'
  BY NextRequest
<1>3. BeatsInv /\ RequestInv => StatusTrue
  <2>. SUFFICES ASSUME BeatsInv, RequestInv PROVE StatusTrue
    OBVIOUS
  <2>1. ASSUME NEW s \in beating, key[s] = 0
        PROVE  (misses[s] + 1) * Period[s] >= KeyTtl[s]
    BY <2>1 DEF BeatsInv, KeyKept
  <2>. QED BY <2>1 DEF StatusTrue, RequestInv, HealthyTrue
<1>. QED BY <1>1, <1>2, <1>3, HealthSessionInv, HealthBeatsInv, PTL DEF Spec

=============================================================================
