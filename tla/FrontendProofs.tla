--------------------------- MODULE FrontendProofs ---------------------------
(***************************************************************************)
(* Proofs about Frontend, for any accounts, routes, rules on the           *)
(* blockchain and number of clicks.                                        *)
(***************************************************************************)
EXTENDS Frontend, SequenceTheorems, WellFoundedInduction, TLAPS

IsStore(nr) == "rulesets" \in DOMAIN nr
Used(r)     == r.n \in Nat /\ r.n < fresh
EditOK      == "ruleset" \in DOMAIN edit /\ Used(edit.ruleset)
StoresOK    == IsStore(normalized) /\ IsStore(backup)
IdsUsed     == \A r \in DOMAIN normalized.rulesets \cup DOMAIN backup.rulesets : Used(r)

(* What keeps the editor jammed: rulesets that are loaded get new ids, and *)
(* the backup lost the edited ruleset together with the page.              *)
JamInv ==
    /\ fresh \in Nat /\ EditOK /\ StoresOK /\ IdsUsed
    /\ Jammed => edit.ruleset \notin DOMAIN backup.rulesets

-----------------------------------------------------------------------------
\* The steps that leave the rulesets of the store, the backup and the edited one alone.
Aside ==
    /\ edit' = edit /\ backup' = backup /\ fresh' = fresh
    /\ IsStore(normalized) => IsStore(normalized') /\ normalized'.rulesets = normalized.rulesets

LEMMA AsideKeepsJamInv ==
    ASSUME JamInv, Aside
    PROVE  JamInv' /\ Jammed' = Jammed
  BY DEF JamInv, Aside, EditOK, StoresOK, IdsUsed, Used, Jammed, Missing

\* A load gives every ruleset an id that was not used before.
LEMMA NormalizeFacts ==
    ASSUME NEW c, NEW n
    PROVE  /\ IsStore(Normalize(c, n))
           /\ \A r \in DOMAIN Normalize(c, n).rulesets : r.n = n
  BY DEF Normalize, IsStore, Entities, Id

LEMMA LoadAnswerJams ==
    ASSUME JamInv, NEW l \in loads, LoadAnswer(l)
    PROVE  JamInv' /\ (Jammed => Jammed') /\ normalized' = backup'
<1>. DEFINE nr == Normalize(l.for, fresh)
<1>1. normalized' = nr /\ backup' = nr /\ fresh' = fresh + 1
  BY DEF LoadAnswer
<1>2. IsStore(nr) /\ \A r \in DOMAIN nr.rulesets : r.n = fresh
  BY NormalizeFacts
<1>. HIDE DEF nr
<1>3. edit.ruleset \notin DOMAIN nr.rulesets
  BY <1>2 DEF JamInv, EditOK, Used
<1>4. edit' = IF Missing(edit.ruleset, nr) THEN edit ELSE [ruleset |-> NoId, modified |-> FALSE]
  BY DEF LoadAnswer, nr
<1>5. NoId.n = 0
  BY DEF NoId, Id
<1>6. EditOK'
  BY <1>1, <1>4, <1>5 DEF JamInv, EditOK, Used
<1>7. (StoresOK /\ IdsUsed)'
  BY <1>1, <1>2 DEF JamInv, StoresOK, IdsUsed, Used
<1>8. Jammed => Jammed'
  BY <1>1, <1>3, <1>4 DEF Jammed, Missing
<1>9. Jammed' => edit'.ruleset \notin DOMAIN nr.rulesets
  BY <1>1 DEF Jammed, Missing
<1>. QED BY <1>1, <1>6, <1>7, <1>8, <1>9 DEF JamInv

\* An edit changes the edited ruleset or a rule; the rulesets stay the same ones.
LEMMA ChangeFacts ==
    ASSUME JamInv, NEW nr, IsStore(nr), DOMAIN nr.rulesets = DOMAIN normalized.rulesets,
           Change(nr), backup' = backup, ~Jammed, fresh' \in {fresh, fresh + 1}
    PROVE  JamInv' /\ ~Jammed'
<1>1. edit'.ruleset = edit.ruleset /\ normalized' = nr /\ "ruleset" \in DOMAIN edit'
  BY DEF Change, JamInv, EditOK
<1>2. ~Jammed'
  BY <1>1 DEF Jammed, Missing
<1>. QED BY <1>1, <1>2 DEF JamInv, EditOK, StoresOK, IdsUsed, Used

LEMMA EditorSteps ==
    ASSUME JamInv,
           \/ UpdateRule \/ DeleteRule \/ RevertRuleDeletion
           \/ \E kind \in AddKinds : AddRule(kind)
           \/ \E name \in Names : RenameRuleset(name)
    PROVE  JamInv' /\ ~Jammed /\ ~Jammed'
<1>. DEFINE Same(nr) == IsStore(nr) /\ DOMAIN nr.rulesets = DOMAIN normalized.rulesets
<1>0. InEditor
  BY DEF UpdateRule, DeleteRule, RevertRuleDeletion, AddRule, RenameRuleset
<1>1. ~Jammed /\ backup' = backup /\ IsStore(normalized)
  BY <1>0 DEF InEditor, JamInv, StoresOK
<1>2. \A rules, ids : Same(PutRules(rules, ids))
  BY <1>1 DEF PutRules, IsStore, Entities
<1>3. \A id, new : Same([normalized EXCEPT !.rules[id] = new])
  BY <1>1 DEF IsStore, Entities
<1>4. \A name : Same([normalized EXCEPT !.rulesets[edit.ruleset].name = name])
  BY <1>1 DEF IsStore, Entities
<1>5. \E nr : Same(nr) /\ Change(nr) /\ fresh' \in {fresh, fresh + 1}
  BY <1>2, <1>3, <1>4 DEF UpdateRule, DeleteRule, RevertRuleDeletion, AddRule, RenameRuleset
<1>. HIDE DEF Same
<1>6. PICK nr : Same(nr) /\ Change(nr) /\ fresh' \in {fresh, fresh + 1}
  BY <1>5
<1>. QED BY <1>1, <1>6, ChangeFacts DEF Same

\* The edit mode is left, or entered with a ruleset of the store.
LEMMA BeginOrEndEdit ==
    ASSUME JamInv, ~Jammed,
           \/ edit' = [ruleset |-> NoId, modified |-> FALSE]
           \/ \E r \in DOMAIN normalized.rulesets : edit' = [ruleset |-> r, modified |-> FALSE],
           normalized' = normalized, backup' \in {normalized, backup}, fresh' = fresh
    PROVE  JamInv' /\ ~Jammed'
<1>1. NoId.n = 0 /\ fresh > 0
  BY DEF NoId, Id, JamInv, EditOK, Used
<1>2. EditOK'
  BY <1>1 DEF EditOK, JamInv, IdsUsed, Used
<1>3. ~Jammed'
  BY DEF Jammed, Missing
<1>4. (StoresOK /\ IdsUsed)'
  BY DEF JamInv, StoresOK, IdsUsed, Used
<1>. QED BY <1>2, <1>3, <1>4 DEF JamInv

LEMMA RevertJams ==
    ASSUME JamInv, RevertChanges
    PROVE  JamInv' /\ (Jammed => Jammed') /\ normalized' = backup'
<1>1. normalized' = backup /\ backup' = backup /\ fresh' = fresh
      /\ edit' = IF Missing(edit.ruleset, backup) THEN edit
                 ELSE [ruleset |-> NoId, modified |-> FALSE]
  BY DEF RevertChanges
<1>2. NoId.n = 0 /\ fresh > 0
  BY DEF NoId, Id, JamInv, EditOK, Used
<1>3. EditOK'
  BY <1>1, <1>2 DEF EditOK, JamInv, Used
<1>4. (StoresOK /\ IdsUsed)'
  BY <1>1 DEF JamInv, StoresOK, IdsUsed, Used
<1>5. Jammed => Jammed'
  BY <1>1 DEF JamInv, Jammed, Missing
<1>6. Jammed' => edit'.ruleset \notin DOMAIN backup'.rulesets
  BY <1>1 DEF Jammed, Missing
<1>. QED BY <1>1, <1>3, <1>4, <1>5, <1>6 DEF JamInv

\* Adding a ruleset gives it an unused id, or, when jammed, adds a rule only.
LEMMA AddAnswerJams ==
    ASSUME JamInv, NEW v \in Accounts, AddAnswer(v)
    PROVE  JamInv' /\ (Jammed <=> Jammed')
<1>. DEFINE r == Id(fresh, <<delegator, v>>, 1, 0)
<1>0. fresh' = fresh + 1 /\ backup' = backup
  BY DEF AddAnswer
<1>1. CASE Jammed
  <2>1. IsStore(normalized') /\ normalized'.rulesets = normalized.rulesets /\ edit' = edit
    BY <1>1 DEF AddAnswer, JamInv, StoresOK, IsStore, Entities
  <2>. QED BY <1>0, <2>1 DEF JamInv, EditOK, StoresOK, IdsUsed, Used, Jammed, Missing
<1>2. CASE ~Jammed
  <2>1. \E s : normalized' = WithRuleset(v, s)
    BY <1>2 DEF AddAnswer
  <2>2. IsStore(normalized') /\ DOMAIN normalized'.rulesets = DOMAIN normalized.rulesets \cup {r}
    BY <2>1 DEF WithRuleset, Entities, IsStore, Put
  <2>3. edit' = IF EditMode THEN [edit EXCEPT !.modified = TRUE] ELSE [ruleset |-> r, modified |-> FALSE]
    BY <1>2 DEF AddAnswer
  <2>4. r.n = fresh
    BY DEF Id
  <2>. HIDE DEF r
  <2>5. EditOK'
    BY <1>0, <2>3, <2>4 DEF EditOK, JamInv, Used
  <2>6. (StoresOK /\ IdsUsed)'
    BY <1>0, <2>2, <2>4 DEF JamInv, StoresOK, IdsUsed, Used
  <2>7. ~Jammed'
    BY <1>2, <2>2, <2>3 DEF Jammed, Missing, EditMode, JamInv, EditOK
  <2>. QED BY <1>0, <1>2, <2>5, <2>6, <2>7 DEF JamInv
<1>. QED BY <1>1, <1>2

LEMMA DeleteAside ==
    ASSUME JamInv, NEW s, NEW r, DeleteRuleset(s, r)
    PROVE  Aside
<1>1. edit' = edit /\ backup' = backup /\ fresh' = fresh
  BY DEF DeleteRuleset
<1>2. \/ normalized' = normalized
      \/ normalized' = [normalized EXCEPT !.setRules[s].rulesets = RemoveFirst(@, r)]
  BY DEF DeleteRuleset
<1>. QED BY <1>1, <1>2 DEF Aside, IsStore, Entities

\* One step, in the order of StoreNext.
LEMMA NextJam ==
    ASSUME JamInv, [Next]_vars
    PROVE  /\ JamInv' /\ (Jammed => Jammed')
           /\ ~Jammed /\ Jammed' => normalized' = backup'
<1>. DEFINE Good == /\ JamInv' /\ (Jammed => Jammed')
                    /\ ~Jammed /\ Jammed' => normalized' = backup'
<1>1. CASE \/ UNCHANGED vars
           \/ SessionNext /\ UNCHANGED storeVars
           \/ \E c \in Routes : Navigate(c)
           \/ \E l \in loads : LoadFails(l)
           \/ SaveChanges \/ AddRuleset \/ AddFails
           \/ \E s \in saves : PublishRules(s) \/ SaveFails(s)
  <2>1. UNCHANGED editVars /\ fresh' = fresh
    BY <1>1 DEF vars, storeVars, Navigate, LoadFails, SaveChanges, AddRuleset, AddFails,
       PublishRules, SaveFails
  <2>. QED BY <2>1, AsideKeepsJamInv DEF Aside, editVars
<1>2. CASE \E l \in loads : LoadAnswer(l)
  BY <1>2, LoadAnswerJams
<1>3. CASE \/ UpdateRule \/ DeleteRule \/ RevertRuleDeletion
           \/ \E kind \in AddKinds : AddRule(kind)
           \/ \E name \in Names : RenameRuleset(name)
  BY <1>3, EditorSteps
<1>4. CASE \E s \in DOMAIN normalized.setRules : \E r \in ToSet(normalized.setRules[s].rulesets) :
             BeginRulesetEdit(s, r)
  <2>1. /\ ~Jammed /\ \E r \in DOMAIN normalized.rulesets : edit' = [ruleset |-> r, modified |-> FALSE]
        /\ normalized' = normalized /\ backup' = backup /\ fresh' = fresh
    BY <1>4 DEF BeginRulesetEdit, Jammed, Missing, EditMode
  <2>. QED BY <2>1, BeginOrEndEdit
<1>5. CASE \E s \in DOMAIN normalized.setRules : \E r \in ToSet(normalized.setRules[s].rulesets) :
             DeleteRuleset(s, r)
  BY <1>5, DeleteAside, AsideKeepsJamInv
<1>6. CASE RevertChanges
  BY <1>6, RevertJams
<1>7. CASE \E s \in saves : RulesAnswer(s)
  <2>1. /\ normalized' = normalized /\ fresh' = fresh
        /\ IF Jammed THEN edit' = edit /\ backup' = backup
           ELSE edit' = [ruleset |-> NoId, modified |-> FALSE] /\ backup' = normalized
    BY <1>7 DEF RulesAnswer
  <2>. QED BY <2>1, AsideKeepsJamInv, BeginOrEndEdit DEF Aside
<1>8. CASE \E v \in Accounts : AddAnswer(v)
  BY <1>8, AddAnswerJams
<1>9. StoreNext => Good
  <2>1. ASSUME \E s \in DOMAIN normalized.setRules :
                  \E r \in ToSet(normalized.setRules[s].rulesets) :
                      BeginRulesetEdit(s, r) \/ DeleteRuleset(s, r)
        PROVE  Good
    BY <1>4, <1>5, <2>1
  <2>2. ASSUME \E s \in saves : PublishRules(s) \/ RulesAnswer(s) \/ SaveFails(s)
        PROVE  Good
    BY <1>1, <1>7, <2>2
  <2>. QED BY <1>1, <1>2, <1>3, <1>6, <1>8, <2>1, <2>2 DEF StoreNext
<1>. QED BY <1>1, <1>9 DEF Next

LEMMA InitJamInv == Init => JamInv
<1> SUFFICES ASSUME Init PROVE JamInv
  OBVIOUS
<1>1. normalized = Empty /\ backup = Empty /\ fresh = 1 /\ edit = [ruleset |-> NoId, modified |-> FALSE]
  BY DEF Init, StoreInit
<1>2. IsStore(Empty) /\ DOMAIN Empty.rulesets = {} /\ NoId.n = 0
  BY DEF IsStore, Entities, Empty, NoId, Id
<1>. QED BY <1>1, <1>2 DEF JamInv, EditOK, StoresOK, IdsUsed, Used, Jammed, Missing

LEMMA FrontendJamInv == Spec => []JamInv
<1>1. JamInv /\ [Next]_vars => JamInv'
  BY NextJam
<1>. QED BY <1>1, InitJamInv, PTL DEF Spec

-----------------------------------------------------------------------------
(* What is shown.  Nothing in the code ties an answer to its question; an  *)
(* answer fits when it is the only one that is awaited, and slips records  *)
(* that it was not.                                                        *)
SessionKinds == {"getUser", "logout", "save"}
SessionCalls == {c \in calls : c.kind \in SessionKinds}

\* The account a of the session, with the setting on, is what the API has.
Fits(a, on) == a = cookie /\ (cookie # None => on = daemonOn[cookie])

\* A call whose answer was given while no other was awaited.
LastServed(c) == c \in SessionCalls /\ c.reply = "served" /\ \A o \in SessionCalls : o = c

UserShown ==
    slips \cap {"late answer", "call failed", "other tab"} = {} =>
        /\ SessionCalls = {} => Fits(user.account, user.enabled) /\ username = cookie
        /\ \A c \in calls : LastServed(c) =>
              /\ c.kind = "getUser" => Fits(c.user.account, c.user.enabled)
              /\ c.kind = "logout" => cookie = None

StatsShown ==
    "late statistics" \notin slips =>
        /\ \A s \in Stats : stats[s].of \in {statsFor, None}
        /\ \A c \in calls : c.kind \in Stats => c.arg \in {statsFor, None}

RouteShown ==
    /\ loadedFor = route
    /\ ~Jammed /\ slips \cap {"loads overlap", "load failed"} = {} =>
          /\ loads = {} => shownFor = loadedFor
          /\ loads # {} => \E l \in loads : l.for = loadedFor

IsCall(c) == DOMAIN c = {"kind", "n", "arg", "from", "reply", "user"}
CallsOK   == (\A c \in calls : IsCall(c)) /\ DOMAIN stats = Stats \cup General
ShownInv  == CallsOK /\ UserShown /\ StatsShown /\ RouteShown

LEMMA CallFacts ==
    ASSUME NEW kind, NEW n, NEW arg, NEW from
    PROVE  /\ IsCall(Call(kind, n, arg, from)) /\ Call(kind, n, arg, from).kind = kind
           /\ Call(kind, n, arg, from).arg = arg /\ Call(kind, n, arg, from).reply = "sent"
  BY DEF Call, IsCall

Sent(c) == IsCall(c) /\ c.kind \in SessionKinds /\ c.reply = "sent"

LEMMA SentFacts ==
    ASSUME NEW kind \in SessionKinds, NEW n, NEW arg, NEW from
    PROVE  Sent(Call(kind, n, arg, from))
  BY CallFacts DEF Sent

\* Show sets the user and sends at most one more call, a save.
LEMMA ShowFacts ==
    ASSUME NEW u, NEW p, NEW others, Show(u, p, others)
    PROVE  user' = u /\ (calls' = others \/ \E c : Sent(c) /\ calls' = others \cup {c})
<1>1. user' = u /\ (calls' = others \/ calls' = others \cup {Call("save", clicks', TRUE, clicks')})
  BY DEF Show
<1>2. "save" \in SessionKinds
  BY DEF SessionKinds
<1>. QED BY <1>1, <1>2, SentFacts, Zenon

LEMMA SlipsGrow == [Next]_vars => slips \subseteq slips'
<1>1. SessionNext => slips \subseteq slips'
  BY DEF SessionNext, OpenDaemon, SaveSettings, Logout, OtherTab, Serve, UserAnswer, LogoutAnswer,
     SaveAnswer, CallFails, StatAnswer
<1>2. StoreNext => slips \subseteq slips'
  BY DEF StoreNext, Navigate, LoadAnswer, LoadFails, UpdateRule, DeleteRule, RevertRuleDeletion,
     AddRule, RenameRuleset, Change, BeginRulesetEdit, DeleteRuleset, RevertChanges, SaveChanges,
     AddRuleset, AddFails, PublishRules, RulesAnswer, SaveFails, AddAnswer
<1>3. UNCHANGED vars => slips \subseteq slips'
  BY DEF vars
<1>. QED BY <1>1, <1>2, <1>3 DEF Next

\* The store leaves the session alone, but for the page.
LEMMA StoreFrame ==
    StoreNext => UNCHANGED <<user, username, calls, cookie, daemonOn, statsFor, stats>>
<1>. USE DEF sessionVars, authVars, statusVars, serverVars
<1>1. (\E c \in Routes : Navigate(c)) => UNCHANGED <<user, username, calls, cookie, daemonOn, statsFor, stats>>
  BY DEF Navigate
<1>2. (\E l \in loads : LoadAnswer(l) \/ LoadFails(l))
        => UNCHANGED <<user, username, calls, cookie, daemonOn, statsFor, stats>>
  BY DEF LoadAnswer, LoadFails
<1>3. InEditor => UNCHANGED <<user, username, calls, cookie, daemonOn, statsFor, stats>>
  BY DEF InEditor
<1>4. (\/ UpdateRule \/ DeleteRule \/ RevertRuleDeletion
       \/ \E kind \in AddKinds : AddRule(kind)
       \/ \E name \in Names : RenameRuleset(name)) => InEditor
  BY DEF UpdateRule, DeleteRule, RevertRuleDeletion, AddRule, RenameRuleset
<1>5. (\E s \in DOMAIN normalized.setRules : \E r \in ToSet(normalized.setRules[s].rulesets) :
           BeginRulesetEdit(s, r) \/ DeleteRuleset(s, r))
        => UNCHANGED <<user, username, calls, cookie, daemonOn, statsFor, stats>>
  BY DEF BeginRulesetEdit, DeleteRuleset
<1>6. RevertChanges \/ SaveChanges \/ AddRuleset \/ AddFails
        => UNCHANGED <<user, username, calls, cookie, daemonOn, statsFor, stats>>
  BY DEF RevertChanges, SaveChanges, AddRuleset, AddFails
<1>7. (\E s \in saves : PublishRules(s) \/ RulesAnswer(s) \/ SaveFails(s))
        => UNCHANGED <<user, username, calls, cookie, daemonOn, statsFor, stats>>
  BY DEF PublishRules, RulesAnswer, SaveFails
<1>8. (\E v \in Accounts : AddAnswer(v)) => UNCHANGED <<user, username, calls, cookie, daemonOn, statsFor, stats>>
  BY DEF AddAnswer
<1>. QED BY <1>1, <1>2, <1>3, <1>4, <1>5, <1>6, <1>7, <1>8 DEF StoreNext

\* A click or an answer that sends a call leaves nothing to be shown yet.
LEMMA SentMeansWaiting ==
    ASSUME NEW c \in calls', Sent(c)
    PROVE  UserShown'
  BY DEF UserShown, SessionCalls, LastServed, Sent

\* Statistics and calls that leave the session calls alone keep what is shown.
LEMMA SameSession ==
    ASSUME UserShown, SessionCalls' = SessionCalls, slips \subseteq slips',
           UNCHANGED <<user, username, cookie, daemonOn>>
    PROVE  UserShown'
  BY DEF UserShown, SessionCalls, LastServed, Fits

LEMMA NextUserShown ==
    ASSUME CallsOK, UserShown, [Next]_vars
    PROVE  UserShown'
<1>. USE KindsAssumption
<1>0. slips \subseteq slips'
  BY SlipsGrow
<1>1. ASSUME NEW a, NEW query, OpenDaemon(a, query) PROVE UserShown'
  <2>1. Show(user, [account |-> a, query |-> query], calls) /\ UNCHANGED <<username, cookie, daemonOn>>
    BY <1>1 DEF OpenDaemon, serverVars
  <2>2. user' = user /\ (calls' = calls \/ \E o : Sent(o) /\ calls' = calls \cup {o})
    BY <2>1, ShowFacts
  <2>3. CASE calls' = calls
    BY <1>0, <2>1, <2>2, <2>3, SameSession DEF SessionCalls
  <2>. QED BY <2>2, <2>3, SentMeansWaiting
<1>2. ASSUME NEW on, SaveSettings(on) PROVE UserShown'
  <2>1. Call("save", clicks', on, settings.n) \in calls'
    BY <1>2 DEF SaveSettings
  <2>. QED BY <2>1, SentFacts, SentMeansWaiting DEF SessionKinds
<1>3. CASE Logout
  <2>1. Call("logout", clicks', FALSE, 0) \in calls'
    BY <1>3 DEF Logout
  <2>. QED BY <2>1, SentFacts, SentMeansWaiting DEF SessionKinds
<1>4. CASE (\E a : OtherTab(a)) \/ (\E c : CallFails(c))
  BY <1>4 DEF OtherTab, CallFails, UserShown
<1>5. ASSUME NEW c \in calls, Serve(c) PROVE UserShown'
  <2>. DEFINE d == [c EXCEPT !.reply = IF c.kind = "save" /\ cookie = None THEN "refused" ELSE "served",
                             !.user = IF c.kind = "getUser" /\ cookie # None
                                      THEN [account |-> cookie, enabled |-> daemonOn[cookie]] ELSE NoUser]
  <2>1. /\ d.kind = c.kind /\ c.kind \in SessionKinds
        /\ d.user = IF c.kind = "getUser" /\ cookie # None
                    THEN [account |-> cookie, enabled |-> daemonOn[cookie]] ELSE NoUser
    BY <1>5 DEF Serve, SessionKinds, CallsOK, IsCall
  <2>2. /\ calls' = (calls \ {c}) \cup {d}
        /\ cookie' = IF c.kind = "logout" THEN None ELSE cookie
        /\ daemonOn' = IF c.kind = "save" /\ cookie # None
                       THEN [daemonOn EXCEPT ![cookie] = c.arg] ELSE daemonOn
    BY <1>5 DEF Serve
  <2>. HIDE DEF d
  <2>3. d \in SessionCalls'
    BY <2>1, <2>2 DEF SessionCalls
  <2>4. ASSUME d.kind = "getUser"
        PROVE  d.user.account = cookie' /\ (cookie' # None => d.user.enabled = daemonOn'[cookie'])
    <3>1. UNCHANGED <<cookie, daemonOn>>
      BY <2>1, <2>2, <2>4
    <3>2. CASE cookie = None
      BY <2>1, <3>1, <3>2 DEF NoUser
    <3>3. CASE cookie # None
      BY <2>1, <2>4, <3>1, <3>3
    <3>. QED BY <3>2, <3>3
  <2>5. d.kind = "logout" => cookie' = None
    BY <2>1, <2>2
  <2>. QED BY <2>3, <2>4, <2>5 DEF UserShown, LastServed, Fits
<1>6. ASSUME NEW c \in calls, UserAnswer(c) PROVE UserShown'
  <2>. DEFINE asks == IF c.user = NoUser THEN {} ELSE StatCalls(c.user.account, c.n)
  <2>1. /\ username' = c.user.account /\ Show(c.user, page, (calls \ {c}) \cup asks)
        /\ UNCHANGED <<cookie, daemonOn>>
        /\ c.kind = "getUser" /\ c.reply = "served" /\ Overtaken(c) \subseteq slips'
    BY <1>6 DEF UserAnswer, serverVars
  <2>2. \A o \in asks : o.kind \notin SessionKinds
    BY CallFacts DEF StatCalls, SessionKinds
  <2>. HIDE DEF asks
  <2>3. /\ user' = c.user
        /\ \/ calls' = (calls \ {c}) \cup asks
           \/ \E o : Sent(o) /\ calls' = ((calls \ {c}) \cup asks) \cup {o}
    BY <2>1, ShowFacts
  <2>4. CASE calls' = (calls \ {c}) \cup asks
    <3>. SUFFICES ASSUME slips' \cap {"late answer", "call failed", "other tab"} = {}
                  PROVE  UserShown'
      BY DEF UserShown
    <3>1. \A o \in SessionCalls : o = c
      BY <2>1 DEF Overtaken, SessionCalls, SessionKinds
    <3>2. LastServed(c)
      BY <2>1, <3>1 DEF LastServed, SessionCalls, SessionKinds
    <3>3. Fits(c.user.account, c.user.enabled)
      BY <1>0, <2>1, <3>2 DEF UserShown
    <3>4. SessionCalls' = {}
      BY <2>2, <2>4, <3>1 DEF SessionCalls
    <3>5. Fits(user.account, user.enabled)' /\ username' = cookie'
      BY <2>1, <2>3, <3>3 DEF Fits
    <3>. QED BY <3>4, <3>5 DEF UserShown, LastServed
  <2>. QED BY <2>3, <2>4, SentMeansWaiting
<1>7. ASSUME NEW c \in calls, LogoutAnswer(c) PROVE UserShown'
  <2>1. /\ username' = None /\ Show(NoUser, page, calls \ {c}) /\ UNCHANGED <<cookie, daemonOn>>
        /\ c.kind = "logout" /\ c.reply = "served" /\ Overtaken(c) \subseteq slips'
    BY <1>7 DEF LogoutAnswer, serverVars
  <2>2. /\ user' = NoUser
        /\ calls' = calls \ {c} \/ \E o : Sent(o) /\ calls' = (calls \ {c}) \cup {o}
    BY <2>1, ShowFacts
  <2>3. CASE calls' = calls \ {c}
    <3>. SUFFICES ASSUME slips' \cap {"late answer", "call failed", "other tab"} = {}
                  PROVE  UserShown'
      BY DEF UserShown
    <3>1. \A o \in SessionCalls : o = c
      BY <2>1 DEF Overtaken, SessionCalls, SessionKinds
    <3>2. LastServed(c)
      BY <2>1, <3>1 DEF LastServed, SessionCalls, SessionKinds
    <3>3. cookie = None
      BY <1>0, <2>1, <3>2 DEF UserShown
    <3>4. SessionCalls' = {}
      BY <2>3, <3>1 DEF SessionCalls
    <3>5. user'.account = None
      BY <2>2 DEF NoUser
    <3>. QED BY <2>1, <3>3, <3>4, <3>5 DEF UserShown, LastServed, Fits
  <2>. QED BY <2>2, <2>3, SentMeansWaiting
<1>8. ASSUME NEW c \in calls, SaveAnswer(c) PROVE UserShown'
  <2>1. Call("getUser", c.n, FALSE, 0) \in calls'
    BY <1>8 DEF SaveAnswer
  <2>. QED BY <2>1, SentFacts, SentMeansWaiting DEF SessionKinds
<1>9. ASSUME NEW c \in calls, NEW ok, StatAnswer(c, ok) PROVE UserShown'
  <2>1. /\ SessionCalls' = SessionCalls /\ UNCHANGED <<user, username, cookie, daemonOn>>
    BY <1>9 DEF StatAnswer, SessionCalls, SessionKinds, authVars, serverVars
  <2>. QED BY <1>0, <2>1, SameSession
<1>10. CASE StoreNext \/ UNCHANGED vars
  <2>1. UNCHANGED <<user, username, calls, cookie, daemonOn>>
    BY <1>10, StoreFrame DEF vars, sessionVars, authVars, serverVars
  <2>. QED BY <1>0, <2>1, SameSession DEF SessionCalls
<1>11. SessionNext => UserShown'
  BY <1>1, <1>2, <1>3, <1>4, <1>5, <1>6, <1>7, <1>8, <1>9 DEF SessionNext
<1>. QED BY <1>10, <1>11 DEF Next

LEMMA NextCallsOK ==
    ASSUME CallsOK, [Next]_vars
    PROVE  CallsOK'
<1>1. ASSUME NEW a, NEW query, OpenDaemon(a, query) PROVE CallsOK'
  <2>1. Show(user, [account |-> a, query |-> query], calls) /\ stats' = stats
    BY <1>1 DEF OpenDaemon, statusVars
  <2>. QED BY <2>1, ShowFacts DEF CallsOK, Sent
<1>2. ASSUME NEW on, SaveSettings(on) PROVE CallsOK'
  <2>1. calls' = calls \cup {Call("save", clicks', on, settings.n)} /\ stats' = stats
    BY <1>2 DEF SaveSettings, statusVars
  <2>2. \A o \in calls' : o \in calls \/ Sent(o)
    BY <2>1, SentFacts, Zenon DEF SessionKinds
  <2>. QED BY <2>1, <2>2 DEF CallsOK, Sent
<1>3. CASE Logout
  <2>1. calls' = calls \cup {Call("logout", clicks', FALSE, 0)} /\ stats' = stats
    BY <1>3 DEF Logout, statusVars
  <2>2. \A o \in calls' : o \in calls \/ Sent(o)
    BY <2>1, SentFacts, Zenon DEF SessionKinds
  <2>. QED BY <2>1, <2>2 DEF CallsOK, Sent
<1>4. CASE \E a : OtherTab(a)
  BY <1>4 DEF OtherTab, statusVars, CallsOK
<1>5. ASSUME NEW c \in calls, Serve(c) PROVE CallsOK'
  BY <1>5 DEF Serve, CallsOK, IsCall, statusVars
<1>6. ASSUME NEW c \in calls, UserAnswer(c) PROVE CallsOK'
  <2>. DEFINE asks == IF c.user = NoUser THEN {} ELSE StatCalls(c.user.account, c.n)
  <2>1. Show(c.user, page, (calls \ {c}) \cup asks) /\ DOMAIN stats' = Stats \cup General
    BY <1>6 DEF UserAnswer, CallsOK
  <2>2. \A o \in asks : IsCall(o)
    BY CallFacts DEF StatCalls
  <2>. HIDE DEF asks
  <2>. QED BY <2>1, <2>2, ShowFacts DEF CallsOK, Sent
<1>7. ASSUME NEW c \in calls, LogoutAnswer(c) PROVE CallsOK'
  <2>1. Show(NoUser, page, calls \ {c}) /\ stats' = stats
    BY <1>7 DEF LogoutAnswer, statusVars
  <2>. QED BY <2>1, ShowFacts DEF CallsOK, Sent
<1>8. ASSUME NEW c \in calls, SaveAnswer(c) PROVE CallsOK'
  <2>1. calls' = (calls \ {c}) \cup {Call("getUser", c.n, FALSE, 0)} /\ stats' = stats
    BY <1>8 DEF SaveAnswer, statusVars
  <2>2. \A o \in calls' : o \in calls \/ Sent(o)
    BY <2>1, SentFacts, Zenon DEF SessionKinds
  <2>. QED BY <2>1, <2>2 DEF CallsOK, Sent
<1>9. ASSUME NEW c \in calls, CallFails(c) PROVE CallsOK'
  <2>1. (\E u : Show(u, page, calls \ {c})) /\ stats' = stats
    BY <1>9 DEF CallFails, statusVars
  <2>. QED BY <2>1, ShowFacts DEF CallsOK, Sent
<1>10. ASSUME NEW c \in calls, NEW ok, StatAnswer(c, ok) PROVE CallsOK'
  BY <1>10 DEF StatAnswer, CallsOK
<1>11. CASE StoreNext \/ UNCHANGED vars
  <2>1. UNCHANGED <<calls, stats>>
    BY <1>11, StoreFrame DEF vars, sessionVars, statusVars
  <2>. QED BY <2>1 DEF CallsOK
<1>12. SessionNext => CallsOK'
  BY <1>1, <1>2, <1>3, <1>4, <1>5, <1>6, <1>7, <1>8, <1>9, <1>10 DEF SessionNext
<1>. QED BY <1>11, <1>12 DEF Next

\* New calls that ask for no statistics.
LEMMA SameStats ==
    ASSUME StatsShown, UNCHANGED <<statsFor, stats>>, slips \subseteq slips',
           \A c \in calls' : c \in calls \/ c.kind \in SessionKinds
    PROVE  StatsShown'
  BY KindsAssumption DEF StatsShown, SessionKinds

LEMMA NextStatsShown ==
    ASSUME CallsOK, StatsShown, [Next]_vars
    PROVE  StatsShown'
<1>0. slips \subseteq slips'
  BY SlipsGrow
<1>1. ASSUME NEW a, NEW query, OpenDaemon(a, query) PROVE StatsShown'
  <2>1. Show(user, [account |-> a, query |-> query], calls) /\ UNCHANGED <<statsFor, stats>>
    BY <1>1 DEF OpenDaemon, statusVars
  <2>. QED BY <1>0, <2>1, ShowFacts, SameStats DEF Sent
<1>2. ASSUME NEW on, SaveSettings(on) PROVE StatsShown'
  <2>1. calls' = calls \cup {Call("save", clicks', on, settings.n)} /\ UNCHANGED <<statsFor, stats>>
    BY <1>2 DEF SaveSettings, statusVars
  <2>2. \A o \in calls' : o \in calls \/ Sent(o)
    BY <2>1, SentFacts, Zenon DEF SessionKinds
  <2>. QED BY <1>0, <2>1, <2>2, SameStats DEF Sent
<1>3. CASE Logout
  <2>1. calls' = calls \cup {Call("logout", clicks', FALSE, 0)} /\ UNCHANGED <<statsFor, stats>>
    BY <1>3 DEF Logout, statusVars
  <2>2. \A o \in calls' : o \in calls \/ Sent(o)
    BY <2>1, SentFacts, Zenon DEF SessionKinds
  <2>. QED BY <1>0, <2>1, <2>2, SameStats DEF Sent
<1>4. CASE \E a : OtherTab(a)
  BY <1>0, <1>4, SameStats DEF OtherTab, statusVars
<1>5. ASSUME NEW c \in calls, Serve(c) PROVE StatsShown'
  <2>. DEFINE d == [c EXCEPT !.reply = IF c.kind = "save" /\ cookie = None THEN "refused" ELSE "served",
                             !.user = IF c.kind = "getUser" /\ cookie # None
                                      THEN [account |-> cookie, enabled |-> daemonOn[cookie]] ELSE NoUser]
  <2>1. d.kind = c.kind /\ c.kind \in SessionKinds
    BY <1>5 DEF Serve, SessionKinds, CallsOK, IsCall
  <2>2. calls' = (calls \ {c}) \cup {d} /\ UNCHANGED <<statsFor, stats>>
    BY <1>5 DEF Serve, statusVars
  <2>. HIDE DEF d
  <2>. QED BY <1>0, <2>1, <2>2, SameStats
<1>6. ASSUME NEW c \in calls, UserAnswer(c) PROVE StatsShown'
  <2>. DEFINE asks == IF c.user = NoUser THEN {} ELSE StatCalls(c.user.account, c.n)
  <2>1. /\ Show(c.user, page, (calls \ {c}) \cup asks)
        /\ IF asks = {} THEN UNCHANGED <<statsFor, stats>>
           ELSE /\ statsFor' = c.user.account
                /\ \A s \in Stats : stats'[s].of = None
                /\ (\E o \in calls : o.kind \in Stats) => "late statistics" \in slips'
    BY <1>6 DEF UserAnswer
  <2>2. \A o \in asks : o.arg = c.user.account
    BY CallFacts DEF StatCalls
  <2>. HIDE DEF asks
  <2>3. CASE asks = {}
    BY <1>0, <2>1, <2>3, ShowFacts, SameStats DEF Sent
  <2>4. CASE asks # {}
    <3>0. \/ calls' = (calls \ {c}) \cup asks
          \/ \E k : Sent(k) /\ calls' = ((calls \ {c}) \cup asks) \cup {k}
      BY <2>1, ShowFacts
    <3>1. \A o \in calls' : o \in calls \/ o \in asks \/ Sent(o)
      BY <3>0
    <3>2. \A o \in calls' : o.kind \in Stats => o \in calls \/ o.arg = statsFor'
      BY <2>1, <2>2, <2>4, <3>1, KindsAssumption DEF Sent, SessionKinds
    <3>. QED BY <2>1, <2>4, <3>2 DEF StatsShown
  <2>. QED BY <2>3, <2>4
<1>7. ASSUME NEW c \in calls, LogoutAnswer(c) PROVE StatsShown'
  <2>1. Show(NoUser, page, calls \ {c}) /\ UNCHANGED <<statsFor, stats>>
    BY <1>7 DEF LogoutAnswer, statusVars
  <2>. QED BY <1>0, <2>1, ShowFacts, SameStats DEF Sent
<1>8. ASSUME NEW c \in calls, SaveAnswer(c) PROVE StatsShown'
  <2>1. calls' = (calls \ {c}) \cup {Call("getUser", c.n, FALSE, 0)} /\ UNCHANGED <<statsFor, stats>>
    BY <1>8 DEF SaveAnswer, statusVars
  <2>2. \A o \in calls' : o \in calls \/ Sent(o)
    BY <2>1, SentFacts, Zenon DEF SessionKinds
  <2>. QED BY <1>0, <2>1, <2>2, SameStats DEF Sent
<1>9. ASSUME NEW c \in calls, CallFails(c) PROVE StatsShown'
  <2>1. (\E u : Show(u, page, calls \ {c})) /\ UNCHANGED <<statsFor, stats>>
    BY <1>9 DEF CallFails, statusVars
  <2>. QED BY <1>0, <2>1, ShowFacts, SameStats DEF Sent
<1>10. ASSUME NEW c \in calls, NEW ok, StatAnswer(c, ok) PROVE StatsShown'
  <2>1. /\ calls' = calls \ {c} /\ statsFor' = statsFor /\ slips' = slips
        /\ c.kind \in Stats \cup General
    BY <1>10 DEF StatAnswer
  <2>2. \A s \in Stats : stats'[s].of \in {stats[s].of, None} \/ (s = c.kind /\ stats'[s].of = c.arg)
    <3>. DEFINE v == [loading |-> FALSE, of |-> IF ok THEN c.arg ELSE None]
    <3>1. v.of = c.arg \/ v.of = None
      OBVIOUS
    <3>2. stats' = stats \/ stats' = [stats EXCEPT ![c.kind] = v]
      BY <1>10 DEF StatAnswer
    <3>. HIDE DEF v
    <3>. QED BY <3>1, <3>2 DEF CallsOK
  <2>. QED BY <2>1, <2>2 DEF StatsShown
<1>11. CASE StoreNext \/ UNCHANGED vars
  <2>1. UNCHANGED <<calls, statsFor, stats>>
    BY <1>11, StoreFrame DEF vars, sessionVars, statusVars
  <2>. QED BY <1>0, <2>1, SameStats
<1>12. SessionNext => StatsShown'
  BY <1>1, <1>2, <1>3, <1>4, <1>5, <1>6, <1>7, <1>8, <1>9, <1>10 DEF SessionNext
<1>. QED BY <1>11, <1>12 DEF Next

LEMMA NextRouteShown ==
    ASSUME JamInv, RouteShown, [Next]_vars
    PROVE  RouteShown'
<1>0. slips \subseteq slips' /\ (Jammed => Jammed')
  BY SlipsGrow, NextJam
<1>1. ASSUME NEW c, Navigate(c) PROVE RouteShown'
  <2>1. /\ route' = c /\ Jammed' = Jammed
        /\ IF loadedFor = c THEN UNCHANGED <<loadedFor, loads, shownFor>>
           ELSE loadedFor' = c /\ (~Jammed => loads' = loads \cup {Load(clicks', c)})
    BY <1>1 DEF Navigate, loadVars, editVars, Jammed, Missing
  <2>2. Load(clicks', c).for = c
    BY DEF Load
  <2>. QED BY <1>0, <2>1, <2>2 DEF RouteShown
<1>2. ASSUME NEW l \in loads, LoadAnswer(l) PROVE RouteShown'
  <2>1. /\ UNCHANGED <<route, loadedFor>> /\ loads' = loads \ {l} /\ shownFor' = l.for
        /\ loads' # {} => "loads overlap" \in slips'
    BY <1>2 DEF LoadAnswer
  <2>. QED BY <1>0, <2>1 DEF RouteShown
<1>3. ASSUME NEW l \in loads, LoadFails(l) PROVE RouteShown'
  BY <1>3 DEF LoadFails, RouteShown
<1>4. CASE UNCHANGED <<route, loadedFor, loads, shownFor>>
  BY <1>0, <1>4 DEF RouteShown
<1>. USE DEF loadVars, storeVars
<1>5. SessionNext /\ UNCHANGED storeVars => UNCHANGED <<route, loadedFor, loads, shownFor>>
  OBVIOUS
<1>6. UNCHANGED vars => UNCHANGED <<route, loadedFor, loads, shownFor>>
  BY DEF vars
<1>7. InEditor => UNCHANGED <<route, loadedFor, loads, shownFor>>
  BY DEF InEditor
<1>8. (\/ UpdateRule \/ DeleteRule \/ RevertRuleDeletion
       \/ \E kind \in AddKinds : AddRule(kind)
       \/ \E name \in Names : RenameRuleset(name)) => InEditor
  BY DEF UpdateRule, DeleteRule, RevertRuleDeletion, AddRule, RenameRuleset
<1>9. (\E s \in DOMAIN normalized.setRules : \E r \in ToSet(normalized.setRules[s].rulesets) :
           BeginRulesetEdit(s, r) \/ DeleteRuleset(s, r))
        => UNCHANGED <<route, loadedFor, loads, shownFor>>
  BY DEF BeginRulesetEdit, DeleteRuleset
<1>10. RevertChanges \/ SaveChanges \/ AddRuleset \/ AddFails
        => UNCHANGED <<route, loadedFor, loads, shownFor>>
  BY DEF RevertChanges, SaveChanges, AddRuleset, AddFails
<1>11. (\E s \in saves : PublishRules(s) \/ RulesAnswer(s) \/ SaveFails(s))
        => UNCHANGED <<route, loadedFor, loads, shownFor>>
  BY DEF PublishRules, RulesAnswer, SaveFails
<1>12. (\E v \in Accounts : AddAnswer(v)) => UNCHANGED <<route, loadedFor, loads, shownFor>>
  BY DEF AddAnswer
<1>13. StoreNext => RouteShown'
  BY <1>1, <1>2, <1>3, <1>4, <1>7, <1>8, <1>9, <1>10, <1>11, <1>12 DEF StoreNext
<1>. QED BY <1>4, <1>5, <1>6, <1>13 DEF Next

LEMMA InitShownInv == Init => ShownInv
<1> SUFFICES ASSUME Init PROVE ShownInv
  OBVIOUS
<1>. DEFINE first == Call("getUser", 0, FALSE, 0)
<1>1. /\ calls = {first} \cup {Call(s, 0, None, 0) : s \in General}
      /\ stats = [s \in Stats \cup General |-> [loading |-> TRUE, of |-> None]]
      /\ loadedFor = route /\ loads = {Load(0, route)}
  BY DEF Init, SessionInit, StoreInit
<1>2. Sent(first)
  BY SentFacts, Zenon DEF SessionKinds
<1>. HIDE DEF first
<1>3. CallsOK
  BY <1>1, <1>2, CallFacts DEF CallsOK, Sent
<1>4. UserShown
  BY <1>1, <1>2 DEF UserShown, LastServed, SessionCalls, Sent
<1>5. StatsShown
  <2>1. \A s \in Stats : stats[s].of = None
    BY <1>1
  <2>2. \A c \in calls : c.kind \in Stats => c.arg = None
    BY <1>1, <1>2, CallFacts, KindsAssumption DEF Sent, SessionKinds
  <2>. QED BY <2>1, <2>2 DEF StatsShown
<1>6. RouteShown
  BY <1>1 DEF RouteShown, Load
<1>. QED BY <1>3, <1>4, <1>5, <1>6 DEF ShownInv

LEMMA FrontendShownInv == Spec => []ShownInv
<1>1. JamInv /\ ShownInv /\ [Next]_vars => ShownInv'
  BY NextCallsOK, NextUserShown, NextStatsShown, NextRouteShown DEF ShownInv
<1>. QED BY <1>1, InitShownInv, FrontendJamInv, PTL DEF Spec

-----------------------------------------------------------------------------
(* Lists: what appending and removing one element do to the set of the     *)
(* elements.                                                               *)
Distinct(list) == \A i, j \in DOMAIN list : list[i] = list[j] => i = j

LEMMA ListFacts ==
    ASSUME NEW list, IsList(list)
    PROVE  /\ Len(list) \in Nat /\ DOMAIN list = 1 .. Len(list)
           /\ list = [i \in 1 .. Len(list) |-> list[i]]
  BY DEF IsList

LEMMA IsListFacts ==
    ASSUME NEW list, NEW n \in Nat, list = [i \in 1 .. n |-> list[i]]
    PROVE  IsList(list) /\ Len(list) = n
<1>1. \A i \in 1 .. n : list[i] \in ToSet(list)
  BY DEF ToSet
<1>2. list \in [1 .. n -> ToSet(list)]
  BY <1>1
<1>. HIDE DEF ToSet
<1>. QED BY <1>2 DEF IsList

LEMMA InList ==
    ASSUME NEW list, IsList(list), NEW e
    PROVE  Contains(list, e) <=> e \in ToSet(list)
  BY ListFacts DEF Contains, ToSet

LEMMA AppendFacts ==
    ASSUME NEW list, IsList(list), NEW e
    PROVE  /\ IsList(Append(list, e))
           /\ ToSet(Append(list, e)) = ToSet(list) \cup {e}
           /\ DOMAIN Append(list, e) = 1 .. Len(list) + 1
           /\ \A i \in DOMAIN list : Append(list, e)[i] = list[i]
           /\ Append(list, e)[Len(list) + 1] = e
<1>. DEFINE S == ToSet(list) \cup {e}
            new == Append(list, e)
<1>0. Len(list) \in Nat /\ DOMAIN list = 1 .. Len(list) /\ list \in Seq(ToSet(list))
  BY ListFacts DEF IsList
<1>1. list \in Seq(S) /\ e \in S
  BY <1>0
<1>. HIDE DEF S
<1>2. /\ new \in Seq(S) /\ Len(new) = Len(list) + 1
      /\ \A i \in DOMAIN list : new[i] = list[i]
      /\ new[Len(list) + 1] = e
  BY <1>0, <1>1, AppendProperties
<1>. HIDE DEF new
<1>3. DOMAIN new = 1 .. Len(list) + 1 /\ new = [i \in 1 .. Len(list) + 1 |-> new[i]]
  BY <1>2, LenProperties
<1>4. Len(list) + 1 \in Nat /\ Len(list) + 1 \in DOMAIN new
  BY <1>0, <1>3
<1>5. IsList(new)
  BY <1>3, <1>4, IsListFacts
<1>6. \A i \in DOMAIN new : i \in DOMAIN list \/ i = Len(list) + 1
  BY <1>0, <1>3
<1>7. DOMAIN list \subseteq DOMAIN new
  BY <1>0, <1>3
<1>8. ToSet(new) = ToSet(list) \cup {e}
  BY <1>2, <1>4, <1>6, <1>7 DEF ToSet
<1>. QED BY <1>2, <1>3, <1>5, <1>8 DEF new

LEMMA AppendDistinct ==
    ASSUME NEW list, IsList(list), Distinct(list), NEW e, e \notin ToSet(list)
    PROVE  Distinct(Append(list, e))
<1>. DEFINE new == Append(list, e)
<1>1. Len(list) \in Nat /\ DOMAIN list = 1 .. Len(list)
  BY ListFacts
<1>2. /\ DOMAIN new = 1 .. Len(list) + 1
      /\ \A i \in DOMAIN list : new[i] = list[i]
      /\ new[Len(list) + 1] = e
  BY AppendFacts
<1>. HIDE DEF new
<1>3. \A i \in DOMAIN list : list[i] # e
  BY DEF ToSet
<1>4. \A i \in DOMAIN new : i \in DOMAIN list \/ i = Len(list) + 1
  BY <1>1, <1>2
<1>5. Distinct(new)
  BY <1>2, <1>3, <1>4 DEF Distinct
<1>. QED BY <1>5 DEF new

\* indexOf finds the first place of an element of the list.
LEMMA FirstPlace ==
    ASSUME NEW list, IsList(list), NEW e, e \in ToSet(list)
    PROVE  \E k \in DOMAIN list : list[k] = e /\ RemoveFirst(list, e) = RemoveAt(list, k)
<1>. DEFINE places == {i \in 1 .. Len(list) : list[i] = e}
            k == SelectInSeq(list, LAMBDA v : v = e)
<1>1. DOMAIN list = 1 .. Len(list) /\ places \subseteq Nat /\ places # {}
  BY ListFacts DEF ToSet
<1>2. k = Min(places)
  BY <1>1 DEF SelectInSeq
<1>3. \E n \in places : \A m \in places : n <= m
  <2>. DEFINE R == {p \in Nat \X Nat : p[1] < p[2]}
  <2>1. IsWellFoundedOn(R, Nat)
    BY NatLessThanWellFounded DEF OpToRel
  <2>2. PICK n \in places : \A m \in places : ~(<<m, n>> \in R)
    BY <1>1, <2>1, WFMin
  <2>3. ASSUME NEW m \in places PROVE n <= m
    <3>1. n \in Nat /\ m \in Nat
      BY <1>1
    <3>2. <<m, n>> \in Nat \X Nat /\ ~(<<m, n>> \in R)
      BY <2>2, <3>1
    <3>3. ~(m < n)
      BY <3>2
    <3>. QED BY <3>1, <3>3
  <2>. QED BY <2>3
<1>4. k \in places
  BY <1>2, <1>3 DEF Min
<1>5. RemoveFirst(list, e) = RemoveAt(list, k)
  BY <1>1, <1>4 DEF RemoveFirst
<1>. QED BY <1>1, <1>4, <1>5

LEMMA RemoveAtFacts ==
    ASSUME NEW list, IsList(list), NEW k \in DOMAIN list
    PROVE  LET new == RemoveAt(list, k)
           IN /\ DOMAIN new = 1 .. Len(list) - 1 /\ Len(list) \in Nat \ {0}
              /\ new = [i \in 1 .. Len(list) - 1 |-> new[i]]
              /\ \A i \in DOMAIN new : new[i] = IF i < k THEN list[i] ELSE list[i + 1]
<1>1. Len(list) \in Nat /\ DOMAIN list = 1 .. Len(list) /\ list \in Seq(ToSet(list))
  BY ListFacts DEF IsList
<1>. DEFINE a == SubSeq(list, 1, k - 1)
            b == SubSeq(list, k + 1, Len(list))
<1>2. k \in 1 .. Len(list)
  BY <1>1
<1>. DEFINE S == ToSet(list)
<1>0. \A i \in 1 .. Len(list) : list[i] \in S
  BY <1>1 DEF ToSet
<1>. HIDE DEF S
<1>3. a \in Seq(S) /\ Len(a) = k - 1 /\ \A i \in 1 .. k - 1 : a[i] = list[i]
  <2>1. 1 \in Int /\ k - 1 \in Int /\ \A i \in 1 .. k - 1 : list[i] \in S
    BY <1>0, <1>1, <1>2
  <2>2. /\ a \in Seq(S) /\ Len(a) = IF 1 <= k - 1 THEN k - 1 - 1 + 1 ELSE 0
        /\ \A i \in 1 .. k - 1 - 1 + 1 : a[i] = list[1 + i - 1]
    BY <2>1, SubSeqProperties
  <2>. HIDE DEF a
  <2>. QED BY <1>1, <1>2, <2>2
<1>4. b \in Seq(S) /\ Len(b) = Len(list) - k /\ \A i \in 1 .. Len(list) - k : b[i] = list[i + k]
  <2>1. k + 1 \in Int /\ Len(list) \in Int /\ \A i \in k + 1 .. Len(list) : list[i] \in S
    BY <1>0, <1>1, <1>2
  <2>2. /\ b \in Seq(S) /\ Len(b) = IF k + 1 <= Len(list) THEN Len(list) - (k + 1) + 1 ELSE 0
        /\ \A i \in 1 .. Len(list) - (k + 1) + 1 : b[i] = list[k + 1 + i - 1]
    BY <2>1, SubSeqProperties
  <2>. HIDE DEF b
  <2>3. Len(b) = Len(list) - k
    BY <1>1, <1>2, <2>2
  <2>4. \A i \in 1 .. Len(list) - k : i \in 1 .. Len(list) - (k + 1) + 1 /\ k + 1 + i - 1 = i + k
    BY <1>1, <1>2
  <2>. QED BY <2>2, <2>3, <2>4
<1>. HIDE DEF a, b
<1>. DEFINE new == a \o b
<1>5. /\ new \in Seq(S) /\ Len(new) = Len(list) - 1
      /\ \A i \in 1 .. Len(list) - 1 : new[i] = IF i <= k - 1 THEN a[i] ELSE b[i - (k - 1)]
  <2>1. /\ new \in Seq(S) /\ Len(new) = Len(a) + Len(b)
        /\ \A i \in 1 .. Len(a) + Len(b) : new[i] = IF i <= Len(a) THEN a[i] ELSE b[i - Len(a)]
    BY <1>3, <1>4, ConcatProperties
  <2>. HIDE DEF new
  <2>. QED BY <1>1, <1>2, <1>3, <1>4, <2>1
<1>. HIDE DEF new
<1>6. DOMAIN new = 1 .. Len(list) - 1 /\ new = [i \in 1 .. Len(list) - 1 |-> new[i]]
  BY <1>5, LenProperties
<1>7. ASSUME NEW i \in DOMAIN new PROVE new[i] = IF i < k THEN list[i] ELSE list[i + 1]
  <2>1. i \in 1 .. Len(list) - 1 /\ (i <= k - 1 <=> i < k)
    BY <1>1, <1>2, <1>6
  <2>2. CASE i < k
    <3>1. i \in 1 .. k - 1
      BY <1>1, <1>2, <2>1, <2>2
    <3>. QED BY <1>3, <1>5, <2>1, <2>2, <3>1
  <2>3. CASE ~(i < k)
    <3>1. i - (k - 1) \in 1 .. Len(list) - k /\ (i - (k - 1)) + k = i + 1
      BY <1>1, <1>2, <2>1, <2>3
    <3>2. new[i] = b[i - (k - 1)]
      BY <1>5, <2>1, <2>3
    <3>. QED BY <1>4, <2>3, <3>1, <3>2
  <2>. QED BY <2>2, <2>3
<1>8. RemoveAt(list, k) = new
  BY DEF RemoveAt, new, a, b
<1>. QED BY <1>1, <1>2, <1>6, <1>7, <1>8

LEMMA RemoveFacts ==
    ASSUME NEW list, IsList(list), NEW e, e \in ToSet(list)
    PROVE  /\ IsList(RemoveFirst(list, e))
           /\ ToSet(RemoveFirst(list, e)) \subseteq ToSet(list)
           /\ Distinct(list) => /\ Distinct(RemoveFirst(list, e))
                                /\ e \notin ToSet(RemoveFirst(list, e))
<1>. DEFINE new == RemoveFirst(list, e)
<1>1. Len(list) \in Nat /\ DOMAIN list = 1 .. Len(list)
  BY ListFacts
<1>2. PICK k \in DOMAIN list : list[k] = e /\ new = RemoveAt(list, k)
  BY FirstPlace
<1>3. /\ DOMAIN new = 1 .. Len(list) - 1 /\ Len(list) \in Nat \ {0}
      /\ new = [i \in 1 .. Len(list) - 1 |-> new[i]]
      /\ \A i \in DOMAIN new : new[i] = IF i < k THEN list[i] ELSE list[i + 1]
  BY <1>2, RemoveAtFacts, Zenon
<1>. HIDE DEF new
<1>4. Len(list) - 1 \in Nat /\ k \in Nat
  BY <1>1, <1>3
<1>5. IsList(new)
  BY <1>3, <1>4, IsListFacts
<1>6. \A i \in DOMAIN new : \E j \in DOMAIN list :
          new[i] = list[j] /\ j # k /\ j = IF i < k THEN i ELSE i + 1
  BY <1>1, <1>3, <1>4
<1>7. ToSet(new) \subseteq ToSet(list)
  BY <1>6 DEF ToSet
<1>8. ASSUME Distinct(list) PROVE Distinct(new)
  BY <1>1, <1>3, <1>4, <1>6, <1>8 DEF Distinct
<1>9. ASSUME Distinct(list) PROVE e \notin ToSet(new)
  BY <1>2, <1>6, <1>9 DEF Distinct, ToSet
<1>. QED BY <1>5, <1>7, <1>8, <1>9 DEF new

-----------------------------------------------------------------------------
(* The shape of a store: which ruleset a rule belongs to, and which set of *)
(* rules a ruleset, is never in doubt.                                     *)
RulesetTyped(x) ==
    x = [name |-> x.name, rules |-> x.rules] /\ IsList(x.rules) /\ Distinct(x.rules)
SetRulesTyped(x) ==
    /\ DOMAIN x = {"delegator", "voter", "rulesets"}
    /\ x.delegator \in Accounts /\ x.voter \in Accounts /\ IsList(x.rulesets)
StoreTyped(nr) ==
    /\ nr = Entities(nr.rules, nr.rulesets, nr.setRules)
    /\ \A r \in DOMAIN nr.rulesets : RulesetTyped(nr.rulesets[r])
    /\ \A s \in DOMAIN nr.setRules : SetRulesTyped(nr.setRules[s])

RulesOf(nr, r)    == ToSet(nr.rulesets[r].rules)
RulesetsOf(nr, s) == ToSet(nr.setRules[s].rulesets)
PairOf(nr, s)     == <<nr.setRules[s].delegator, nr.setRules[s].voter>>

RulesApart(a, b) ==
    \A r \in DOMAIN a.rulesets, q \in DOMAIN b.rulesets :
        r # q => RulesOf(a, r) \cap RulesOf(b, q) = {}
SetRulesApart(nr) ==
    \A s, t \in DOMAIN nr.setRules : s # t =>
        RulesetsOf(nr, s) \cap RulesetsOf(nr, t) = {} /\ PairOf(nr, s) # PairOf(nr, t)
StoreUsed(nr, n) ==
    \A id \in DOMAIN nr.rules \cup DOMAIN nr.rulesets \cup DOMAIN nr.setRules :
        id.n \in Nat /\ id.n < n

StoreOK(nr, n) == StoreTyped(nr) /\ Resolves(nr) /\ SetRulesApart(nr) /\ StoreUsed(nr, n)
AllApart(a, b) == RulesApart(a, a) /\ RulesApart(a, b) /\ RulesApart(b, b)
BothOK ==
    /\ fresh \in Nat
    /\ StoreOK(normalized, fresh) /\ StoreOK(backup, fresh) /\ AllApart(normalized, backup)

(* The ruleset e is edited: the rules of other rulesets are as they were,  *)
(* and so is the rest of the store.  ids are the rules that may change.    *)
OthersHaveNone(nr, e, ids) == \A r \in DOMAIN nr.rulesets \ {e} : RulesOf(nr, r) \cap ids = {}
EditOf(nr, new, e, ids) ==
    /\ e \in DOMAIN nr.rulesets /\ OthersHaveNone(nr, e, ids)
    /\ new = Entities(new.rules, new.rulesets, new.setRules)
    /\ new.setRules = nr.setRules /\ DOMAIN new.rulesets = DOMAIN nr.rulesets
    /\ \A r \in DOMAIN nr.rulesets \ {e} : new.rulesets[r] = nr.rulesets[r]
    /\ RulesetTyped(new.rulesets[e])
    /\ RulesOf(new, e) \subseteq DOMAIN new.rules \cap (RulesOf(nr, e) \cup ids)
    /\ DOMAIN nr.rules \ ids \subseteq DOMAIN new.rules
    /\ DOMAIN new.rules \subseteq DOMAIN nr.rules \cup ids
    /\ \A id \in DOMAIN nr.rules \ ids : new.rules[id] = nr.rules[id]

\* What is published of a set of rules depends on its rulesets and their rules only.
LEMMA SameRules ==
    ASSUME NEW nr, NEW new, NEW t,
           new.setRules[t].rulesets = nr.setRules[t].rulesets,
           \A r \in RulesetsOf(nr, t) :
               /\ new.rulesets[r] = nr.rulesets[r]
               /\ \A id \in RulesOf(nr, r) : new.rules[id] = nr.rules[id]
    PROVE  DenormalizeSetRules(new, t) = DenormalizeSetRules(nr, t)
<1>. DEFINE list == nr.setRules[t].rulesets
            D(st, i) == LET r == st.rulesets[list[i]]
                        IN [name |-> r.name, rules |-> [j \in DOMAIN r.rules |-> st.rules[r.rules[j]]]]
<1>1. ASSUME NEW i \in DOMAIN list PROVE D(new, i) = D(nr, i)
  <2>1. list[i] \in RulesetsOf(nr, t)
    BY DEF RulesetsOf, ToSet
  <2>2. new.rulesets[list[i]] = nr.rulesets[list[i]]
    BY <2>1
  <2>3. ASSUME NEW j \in DOMAIN nr.rulesets[list[i]].rules
        PROVE  new.rules[nr.rulesets[list[i]].rules[j]] = nr.rules[nr.rulesets[list[i]].rules[j]]
    BY <2>1 DEF RulesOf, ToSet
  <2>. QED BY <2>2, <2>3
<1>2. DenormalizeSetRules(new, t) = [i \in DOMAIN list |-> D(new, i)]
  BY DEF DenormalizeSetRules
<1>3. DenormalizeSetRules(nr, t) = [i \in DOMAIN list |-> D(nr, i)]
  BY DEF DenormalizeSetRules
<1>. HIDE DEF D, list
<1>. QED BY <1>1, <1>2, <1>3

LEMMA EditKeepsStore ==
    ASSUME NEW nr, NEW new, NEW e, NEW ids, NEW n \in Nat, NEW m \in Nat, n <= m,
           StoreOK(nr, n), EditOf(nr, new, e, ids), \A id \in ids : id.n \in Nat /\ id.n < m
    PROVE  StoreOK(new, m)
<1>1. StoreTyped(new)
  BY DEF EditOf, StoreOK, StoreTyped
<1>2. Resolves(new)
  <2>1. ASSUME NEW r \in DOMAIN new.rulesets PROVE RulesOf(new, r) \subseteq DOMAIN new.rules
    <3>1. CASE r = e
      BY <3>1 DEF EditOf
    <3>2. CASE r # e
      <4>1. RulesOf(new, r) = RulesOf(nr, r) /\ RulesOf(nr, r) \cap ids = {}
        BY <3>2 DEF EditOf, OthersHaveNone, RulesOf
      <4>2. RulesOf(nr, r) \subseteq DOMAIN nr.rules
        BY DEF EditOf, StoreOK, Resolves, RulesOf
      <4>. QED BY <4>1, <4>2 DEF EditOf
    <3>. QED BY <3>1, <3>2
  <2>2. \A s \in DOMAIN new.setRules : ToSet(new.setRules[s].rulesets) \subseteq DOMAIN new.rulesets
    BY DEF EditOf, StoreOK, Resolves
  <2>. QED BY <2>1, <2>2 DEF Resolves, RulesOf
<1>3. SetRulesApart(new)
  BY DEF EditOf, StoreOK, SetRulesApart, RulesetsOf, PairOf
<1>4. StoreUsed(new, m)
  <2>1. \A id \in DOMAIN nr.rules \cup DOMAIN nr.rulesets \cup DOMAIN nr.setRules : id.n \in Nat /\ id.n < m
    BY DEF StoreOK, StoreUsed
  <2>. QED BY <2>1 DEF EditOf, StoreUsed
<1>. QED BY <1>1, <1>2, <1>3, <1>4 DEF StoreOK

LEMMA EditKeepsApart ==
    ASSUME NEW nr, NEW new, NEW e, NEW ids, NEW other,
           EditOf(nr, new, e, ids), AllApart(nr, other), OthersHaveNone(other, e, ids)
    PROVE  AllApart(new, other)
<1>1. \A r \in DOMAIN new.rulesets \ {e} : RulesOf(new, r) = RulesOf(nr, r)
  BY DEF EditOf, RulesOf
<1>2. DOMAIN new.rulesets = DOMAIN nr.rulesets /\ e \in DOMAIN nr.rulesets
      /\ RulesOf(new, e) \subseteq RulesOf(nr, e) \cup ids
  BY DEF EditOf
<1>3. OthersHaveNone(nr, e, ids)
  BY DEF EditOf
<1>4. RulesApart(new, other)
  BY <1>1, <1>2 DEF AllApart, RulesApart, OthersHaveNone
<1>5. RulesApart(new, new)
  BY <1>1, <1>2, <1>3 DEF AllApart, RulesApart, OthersHaveNone
<1>. QED BY <1>4, <1>5 DEF AllApart

\* Whatever is edited, the other sets of rules would be published as before.
LEMMA EditKeepsOthers ==
    ASSUME NEW nr, NEW new, NEW e, NEW ids, NEW n, StoreOK(nr, n), EditOf(nr, new, e, ids),
           NEW t \in DOMAIN nr.setRules, e \notin RulesetsOf(nr, t)
    PROVE  DenormalizeSetRules(new, t) = DenormalizeSetRules(nr, t)
<1>1. RulesetsOf(nr, t) \subseteq DOMAIN nr.rulesets \ {e}
  BY DEF StoreOK, Resolves, RulesetsOf
<1>2. ASSUME NEW r \in RulesetsOf(nr, t)
      PROVE  /\ new.rulesets[r] = nr.rulesets[r]
             /\ \A id \in RulesOf(nr, r) : new.rules[id] = nr.rules[id]
  <2>1. r \in DOMAIN nr.rulesets \ {e}
    BY <1>1
  <2>2. RulesOf(nr, r) \subseteq DOMAIN nr.rules \ ids
    BY <2>1 DEF StoreOK, Resolves, RulesOf, EditOf, OthersHaveNone
  <2>. QED BY <2>1, <2>2 DEF EditOf
<1>3. new.setRules[t].rulesets = nr.setRules[t].rulesets
  BY DEF EditOf
<1>. QED BY <1>2, <1>3, SameRules

LEMMA StoreFields ==
    ASSUME NEW nr, DOMAIN nr = {"rules", "rulesets", "setRules"}, nr = [f \in DOMAIN nr |-> nr[f]]
    PROVE  nr = Entities(nr.rules, nr.rulesets, nr.setRules)
  BY DEF Entities

\* In the editor the edited ruleset is in the store.
LEMMA InEditorFacts ==
    ASSUME BothOK, InEditor
    PROVE  /\ edit.ruleset \in DOMAIN normalized.rulesets /\ ~Jammed
           /\ RulesetTyped(Edited) /\ Edited = normalized.rulesets[edit.ruleset]
           /\ RulesOf(normalized, edit.ruleset) = ToSet(Edited.rules)
           /\ ToSet(Edited.rules) \subseteq DOMAIN normalized.rules
           /\ backup' = backup
<1>1. edit.ruleset \in DOMAIN normalized.rulesets /\ ~Jammed /\ backup' = backup
  BY DEF InEditor, EditMode, Jammed, Missing
<1>. QED BY <1>1 DEF BothOK, StoreOK, StoreTyped, Resolves, Edited, RulesOf

LEMMA PutRulesFacts ==
    ASSUME StoreTyped(normalized), edit.ruleset \in DOMAIN normalized.rulesets,
           NEW rules, NEW list
    PROVE  LET new == PutRules(rules, list)
           IN /\ new = Entities(new.rules, new.rulesets, new.setRules)
              /\ new.rules = rules /\ new.setRules = normalized.setRules
              /\ DOMAIN new.rulesets = DOMAIN normalized.rulesets
              /\ \A r \in DOMAIN normalized.rulesets \ {edit.ruleset} :
                    new.rulesets[r] = normalized.rulesets[r]
              /\ new.rulesets[edit.ruleset] = [name |-> Edited.name, rules |-> list]
<1>. DEFINE new == PutRules(rules, list)
<1>1. normalized = Entities(normalized.rules, normalized.rulesets, normalized.setRules)
  BY DEF StoreTyped
<1>. DEFINE x == [normalized.rulesets[edit.ruleset] EXCEPT !.rules = list]
            rulesets == [normalized.rulesets EXCEPT ![edit.ruleset] = x]
<1>2. new.rulesets = [normalized.rulesets EXCEPT ![edit.ruleset].rules = list]
  BY <1>1 DEF PutRules, Entities
<1>8. new.rulesets = rulesets
  BY <1>2
<1>9. new.rules = rules /\ new.setRules = normalized.setRules
  BY <1>1 DEF PutRules, Entities
<1>10. DOMAIN new = {"rules", "rulesets", "setRules"} /\ new = [f \in DOMAIN new |-> new[f]]
  BY <1>1 DEF PutRules, Entities
<1>11. new = Entities(new.rules, new.rulesets, new.setRules)
  BY <1>10, StoreFields, Zenon
<1>6. /\ new.rules = rules /\ new.setRules = normalized.setRules /\ new.rulesets = rulesets
      /\ new = Entities(new.rules, new.rulesets, new.setRules)
  BY <1>8, <1>9, <1>11
<1>3. Edited = [name |-> Edited.name, rules |-> Edited.rules]
  BY DEF StoreTyped, RulesetTyped, Edited
<1>4. x = [name |-> Edited.name, rules |-> list]
  BY <1>3 DEF Edited
<1>. HIDE DEF new, x
<1>5. /\ DOMAIN rulesets = DOMAIN normalized.rulesets /\ rulesets[edit.ruleset] = x
      /\ \A r \in DOMAIN normalized.rulesets \ {edit.ruleset} : rulesets[r] = normalized.rulesets[r]
  OBVIOUS
<1>. HIDE DEF rulesets
<1>7. /\ DOMAIN new.rulesets = DOMAIN normalized.rulesets /\ new.rulesets[edit.ruleset] = x
      /\ \A r \in DOMAIN normalized.rulesets \ {edit.ruleset} : new.rulesets[r] = normalized.rulesets[r]
  BY <1>5, <1>6
<1>. QED BY <1>4, <1>6, <1>7 DEF new

LEMMA PutRulesEdits ==
    ASSUME BothOK, InEditor, NEW rules, NEW list, NEW ids,
           IsList(list), Distinct(list), ToSet(list) \subseteq DOMAIN rules \cap (ToSet(Edited.rules) \cup ids),
           OthersHaveNone(normalized, edit.ruleset, ids),
           DOMAIN normalized.rules \ ids \subseteq DOMAIN rules,
           DOMAIN rules \subseteq DOMAIN normalized.rules \cup ids,
           \A id \in DOMAIN normalized.rules \ ids : rules[id] = normalized.rules[id]
    PROVE  EditOf(normalized, PutRules(rules, list), edit.ruleset, ids)
<1>. DEFINE new == PutRules(rules, list)
<1>1. edit.ruleset \in DOMAIN normalized.rulesets /\ RulesOf(normalized, edit.ruleset) = ToSet(Edited.rules)
  BY InEditorFacts
<1>2. StoreTyped(normalized)
  BY DEF BothOK, StoreOK
<1>3. /\ new = Entities(new.rules, new.rulesets, new.setRules)
      /\ new.rules = rules /\ new.setRules = normalized.setRules
      /\ DOMAIN new.rulesets = DOMAIN normalized.rulesets
      /\ \A r \in DOMAIN normalized.rulesets \ {edit.ruleset} : new.rulesets[r] = normalized.rulesets[r]
      /\ new.rulesets[edit.ruleset] = [name |-> Edited.name, rules |-> list]
  BY <1>1, <1>2, PutRulesFacts, Zenon
<1>. HIDE DEF new
<1>4. RulesetTyped(new.rulesets[edit.ruleset]) /\ RulesOf(new, edit.ruleset) = ToSet(list)
  BY <1>3 DEF RulesetTyped, RulesOf
<1>5. EditOf(normalized, new, edit.ruleset, ids)
  BY <1>1, <1>3, <1>4 DEF EditOf
<1>. QED BY <1>5 DEF new

\* A rule of the edited ruleset, in the store or in the backup, is in no other ruleset.
LEMMA OwnRule ==
    ASSUME BothOK, edit.ruleset \in DOMAIN normalized.rulesets,
           NEW id, \/ id \in RulesOf(normalized, edit.ruleset)
                   \/ edit.ruleset \in DOMAIN backup.rulesets /\ id \in RulesOf(backup, edit.ruleset)
    PROVE  OthersHaveNone(normalized, edit.ruleset, {id}) /\ OthersHaveNone(backup, edit.ruleset, {id})
  BY DEF BothOK, AllApart, RulesApart, OthersHaveNone

\* A number that was not given out yet makes an id that occurs nowhere.
LEMMA NewRule ==
    ASSUME NEW nr, NEW n, StoreOK(nr, n), NEW id, id.n = n, n \in Nat
    PROVE  id \notin DOMAIN nr.rules /\ \A r \in DOMAIN nr.rulesets : id \notin RulesOf(nr, r)
  BY DEF StoreOK, StoreUsed, Resolves, RulesOf

EditorStep(new, ids) ==
    /\ EditOf(normalized, new, edit.ruleset, ids) /\ OthersHaveNone(backup, edit.ruleset, ids)
    /\ Change(new) /\ backup' = backup
    /\ fresh' \in {fresh, fresh + 1} /\ \A id \in ids : id.n \in Nat /\ id.n < fresh'

LEMMA UpdateRuleEdits ==
    ASSUME BothOK, UpdateRule
    PROVE  \E new, ids : EditorStep(new, ids)
<1>0. InEditor /\ fresh' = fresh
  BY DEF UpdateRule
<1>1. PICK id \in ToSet(Edited.rules) : \E x \in Edits(normalized.rules[id]) :
          Change([normalized EXCEPT !.rules[id] = x])
  BY DEF UpdateRule
<1>2. PICK x : Change([normalized EXCEPT !.rules[id] = x])
  BY <1>1
<1>. DEFINE new == [normalized EXCEPT !.rules[id] = x]
<1>3. /\ edit.ruleset \in DOMAIN normalized.rulesets /\ backup' = backup
      /\ id \in RulesOf(normalized, edit.ruleset) /\ id \in DOMAIN normalized.rules
      /\ RulesOf(normalized, edit.ruleset) \subseteq DOMAIN normalized.rules
      /\ RulesetTyped(normalized.rulesets[edit.ruleset])
  BY <1>0, <1>1, InEditorFacts
<1>4. OthersHaveNone(normalized, edit.ruleset, {id}) /\ OthersHaveNone(backup, edit.ruleset, {id})
  BY <1>3, OwnRule
<1>5. normalized = Entities(normalized.rules, normalized.rulesets, normalized.setRules)
  BY DEF BothOK, StoreOK, StoreTyped
<1>6. /\ new = Entities(new.rules, new.rulesets, new.setRules)
      /\ new.rules = [normalized.rules EXCEPT ![id] = x]
      /\ new.rulesets = normalized.rulesets /\ new.setRules = normalized.setRules
  BY <1>5 DEF Entities
<1>7. Change(new)
  BY <1>2
<1>. HIDE DEF new
<1>8. RulesOf(new, edit.ruleset) = RulesOf(normalized, edit.ruleset)
  BY <1>6 DEF RulesOf
<1>9. EditOf(normalized, new, edit.ruleset, {id})
  BY <1>3, <1>4, <1>6, <1>8 DEF EditOf
<1>10. id.n \in Nat /\ id.n < fresh
  BY <1>3 DEF BothOK, StoreOK, StoreUsed
<1>11. EditorStep(new, {id})
  BY <1>0, <1>3, <1>4, <1>7, <1>9, <1>10 DEF EditorStep
<1>. QED BY <1>11

LEMMA DeleteRuleEdits ==
    ASSUME BothOK, DeleteRule
    PROVE  \E new, ids : EditorStep(new, ids)
<1>0. InEditor /\ fresh' = fresh
  BY DEF DeleteRule
<1>1. PICK id \in ToSet(Edited.rules) :
          Change(PutRules(Drop(normalized.rules, id), RemoveFirst(Edited.rules, id)))
  BY DEF DeleteRule
<1>. DEFINE rules == Drop(normalized.rules, id)
            list == RemoveFirst(Edited.rules, id)
            new == PutRules(rules, list)
<1>3. /\ edit.ruleset \in DOMAIN normalized.rulesets /\ backup' = backup
      /\ id \in RulesOf(normalized, edit.ruleset) /\ id \in DOMAIN normalized.rules
      /\ ToSet(Edited.rules) \subseteq DOMAIN normalized.rules
      /\ RulesetTyped(Edited)
  BY <1>0, <1>1, InEditorFacts
<1>4. OthersHaveNone(normalized, edit.ruleset, {id}) /\ OthersHaveNone(backup, edit.ruleset, {id})
  BY <1>3, OwnRule
<1>5. IsList(list) /\ Distinct(list) /\ ToSet(list) \subseteq ToSet(Edited.rules) /\ id \notin ToSet(list)
  BY <1>3, RemoveFacts DEF RulesetTyped
<1>6. DOMAIN rules = DOMAIN normalized.rules \ {id} /\ \A j \in DOMAIN rules : rules[j] = normalized.rules[j]
  BY DEF Drop
<1>7. Change(new)
  BY <1>1
<1>. HIDE DEF rules, list
<1>9. EditOf(normalized, new, edit.ruleset, {id})
  BY <1>0, <1>3, <1>4, <1>5, <1>6, PutRulesEdits
<1>. HIDE DEF new
<1>10. id.n \in Nat /\ id.n < fresh
  BY <1>3 DEF BothOK, StoreOK, StoreUsed
<1>11. EditorStep(new, {id})
  BY <1>0, <1>3, <1>4, <1>7, <1>9, <1>10 DEF EditorStep
<1>. QED BY <1>11

LEMMA AddRuleEdits ==
    ASSUME BothOK, NEW kind, AddRule(kind)
    PROVE  \E new, ids : EditorStep(new, ids)
<1>. DEFINE id == Id(fresh, <<None, None>>, 0, 1)
            rules == Put(normalized.rules, id, DefaultRule[kind])
            list == Append(Edited.rules, id)
            new == PutRules(rules, list)
<1>0. InEditor /\ fresh' = fresh + 1 /\ Change(new)
  BY DEF AddRule
<1>1. id.n = fresh /\ fresh \in Nat
  BY DEF Id, BothOK
<1>2. /\ ToSet(Edited.rules) \subseteq DOMAIN normalized.rules /\ RulesetTyped(Edited)
      /\ backup' = backup
  BY <1>0, InEditorFacts
<1>3. DOMAIN rules = DOMAIN normalized.rules \cup {id}
      /\ \A j \in DOMAIN normalized.rules \ {id} : rules[j] = normalized.rules[j]
  BY DEF Put
<1>. HIDE DEF id, rules
<1>4. /\ id \notin DOMAIN normalized.rules
      /\ OthersHaveNone(normalized, edit.ruleset, {id}) /\ OthersHaveNone(backup, edit.ruleset, {id})
  BY <1>1, NewRule DEF BothOK, OthersHaveNone
<1>5. IsList(list) /\ Distinct(list) /\ ToSet(list) = ToSet(Edited.rules) \cup {id}
  BY <1>2, <1>4, AppendFacts, AppendDistinct DEF RulesetTyped
<1>. HIDE DEF list
<1>6. EditOf(normalized, new, edit.ruleset, {id})
  BY <1>0, <1>2, <1>3, <1>4, <1>5, PutRulesEdits
<1>. HIDE DEF new
<1>7. EditorStep(new, {id})
  BY <1>0, <1>1, <1>2, <1>4, <1>6 DEF EditorStep
<1>. QED BY <1>7

LEMMA RevertRuleDeletionEdits ==
    ASSUME BothOK, RevertRuleDeletion
    PROVE  \E new, ids : EditorStep(new, ids)
<1>0. InEditor /\ fresh' = fresh /\ edit.ruleset \in DOMAIN backup.rulesets
  BY DEF RevertRuleDeletion
<1>1. PICK id \in ToSet(backup.rulesets[edit.ruleset].rules) \ ToSet(Edited.rules) :
          Change(PutRules(Put(normalized.rules, id, backup.rules[id]), Append(Edited.rules, id)))
  BY DEF RevertRuleDeletion
<1>. DEFINE rules == Put(normalized.rules, id, backup.rules[id])
            list == Append(Edited.rules, id)
            new == PutRules(rules, list)
<1>2. /\ ToSet(Edited.rules) \subseteq DOMAIN normalized.rules /\ RulesetTyped(Edited)
      /\ backup' = backup /\ edit.ruleset \in DOMAIN normalized.rulesets
  BY <1>0, InEditorFacts
<1>3. DOMAIN rules = DOMAIN normalized.rules \cup {id}
      /\ \A j \in DOMAIN normalized.rules \ {id} : rules[j] = normalized.rules[j]
  BY DEF Put
<1>4. OthersHaveNone(normalized, edit.ruleset, {id}) /\ OthersHaveNone(backup, edit.ruleset, {id})
  BY <1>0, <1>1, <1>2, OwnRule DEF RulesOf
<1>5. IsList(list) /\ Distinct(list) /\ ToSet(list) = ToSet(Edited.rules) \cup {id}
  BY <1>1, <1>2, AppendFacts, AppendDistinct DEF RulesetTyped
<1>6. Change(new)
  BY <1>1
<1>. HIDE DEF rules, list
<1>7. EditOf(normalized, new, edit.ruleset, {id})
  BY <1>0, <1>2, <1>3, <1>4, <1>5, PutRulesEdits
<1>. HIDE DEF new
<1>8. id.n \in Nat /\ id.n < fresh
  BY <1>0, <1>1 DEF BothOK, StoreOK, StoreUsed, Resolves
<1>9. EditorStep(new, {id})
  BY <1>0, <1>2, <1>4, <1>6, <1>7, <1>8 DEF EditorStep
<1>. QED BY <1>9

LEMMA RenameRulesetEdits ==
    ASSUME BothOK, NEW name, RenameRuleset(name)
    PROVE  \E new, ids : EditorStep(new, ids)
<1>. DEFINE new == [normalized EXCEPT !.rulesets[edit.ruleset].name = name]
            x == [normalized.rulesets[edit.ruleset] EXCEPT !.name = name]
<1>0. InEditor /\ fresh' = fresh /\ Change(new)
  BY DEF RenameRuleset
<1>1. /\ edit.ruleset \in DOMAIN normalized.rulesets /\ backup' = backup
      /\ RulesetTyped(normalized.rulesets[edit.ruleset])
      /\ RulesOf(normalized, edit.ruleset) \subseteq DOMAIN normalized.rules
  BY <1>0, InEditorFacts
<1>2. normalized = Entities(normalized.rules, normalized.rulesets, normalized.setRules)
  BY DEF BothOK, StoreOK, StoreTyped
<1>3. DOMAIN new = {"rules", "rulesets", "setRules"} /\ new = [f \in DOMAIN new |-> new[f]]
  BY <1>2 DEF Entities
<1>4. /\ new.rules = normalized.rules /\ new.setRules = normalized.setRules
      /\ new.rulesets = [normalized.rulesets EXCEPT ![edit.ruleset].name = name]
  BY <1>2 DEF Entities
<1>5. new.rulesets = [normalized.rulesets EXCEPT ![edit.ruleset] = x]
  BY <1>4
<1>6. x = [name |-> name, rules |-> normalized.rulesets[edit.ruleset].rules]
  BY <1>1 DEF RulesetTyped
<1>. HIDE DEF new, x
<1>7. new = Entities(new.rules, new.rulesets, new.setRules)
  BY <1>3, StoreFields, Zenon
<1>8. /\ DOMAIN new.rulesets = DOMAIN normalized.rulesets /\ new.rulesets[edit.ruleset] = x
      /\ \A r \in DOMAIN normalized.rulesets \ {edit.ruleset} : new.rulesets[r] = normalized.rulesets[r]
  BY <1>1, <1>5
<1>9. RulesetTyped(x) /\ RulesOf(new, edit.ruleset) = RulesOf(normalized, edit.ruleset)
  BY <1>1, <1>6, <1>8 DEF RulesetTyped, RulesOf
<1>10. EditOf(normalized, new, edit.ruleset, {})
  BY <1>1, <1>4, <1>7, <1>8, <1>9 DEF EditOf, OthersHaveNone
<1>11. EditorStep(new, {})
  BY <1>0, <1>1, <1>10 DEF EditorStep, OthersHaveNone
<1>. QED BY <1>11

\* What the steps of the editor do.
EditorNext ==
    \/ UpdateRule \/ DeleteRule \/ RevertRuleDeletion
    \/ \E kind \in AddKinds : AddRule(kind)
    \/ \E name \in Names : RenameRuleset(name)

LEMMA EditorEdits ==
    ASSUME BothOK, EditorNext
    PROVE  InEditor /\ \E new, ids : EditorStep(new, ids)
<1>1. InEditor
  BY DEF EditorNext, UpdateRule, DeleteRule, RevertRuleDeletion, AddRule, RenameRuleset
<1>. QED BY <1>1, UpdateRuleEdits, DeleteRuleEdits, RevertRuleDeletionEdits, AddRuleEdits,
            RenameRulesetEdits DEF EditorNext

LEMMA EditorKeepsBoth ==
    ASSUME BothOK, JamInv, EditorNext
    PROVE  BothOK'
<1>1. PICK new : \E ids : EditorStep(new, ids)
  BY EditorEdits
<1>2. PICK ids : EditorStep(new, ids)
  BY <1>1
<1>3. normalized' = new /\ backup' = backup /\ fresh' \in Nat /\ fresh <= fresh' /\ fresh \in Nat
  BY <1>2 DEF EditorStep, Change, BothOK
<1>4. StoreOK(new, fresh')
  BY <1>2, <1>3, EditKeepsStore DEF EditorStep, BothOK
<1>5. AllApart(new, backup)
  BY <1>2, EditKeepsApart DEF EditorStep, BothOK
<1>6. StoreOK(backup, fresh')
  BY <1>3 DEF BothOK, StoreOK, StoreUsed
<1>. QED BY <1>3, <1>4, <1>5, <1>6 DEF BothOK

-----------------------------------------------------------------------------
(* Loading.  Every ruleset and rule that is loaded gets an id of its own,  *)
(* which leads back to its place on the blockchain.                        *)
ChainTyped == DOMAIN chain = Pairs /\ \A p \in Pairs : IsRulesets(chain[p])

RulesetIds(c, n) == UNION {{Id(n, p, i, 0) : i \in DOMAIN chain[p]} : p \in Listed(c)}
RuleIds(c, n) ==
    UNION {{Id(n, r.p, r.i, j) : j \in DOMAIN chain[r.p][r.i].rules} : r \in RulesetIds(c, n)}
SetRulesIds(c, n) == {Id(n, p, 0, 0) : p \in Listed(c)}

LEMMA IdFields ==
    ASSUME NEW n, NEW p, NEW i, NEW j
    PROVE  Id(n, p, i, j).n = n /\ Id(n, p, i, j).p = p /\ Id(n, p, i, j).i = i /\ Id(n, p, i, j).j = j
  BY DEF Id

LEMMA RulesetIdFacts ==
    ASSUME NEW c, NEW n, NEW r \in RulesetIds(c, n)
    PROVE  r = Id(n, r.p, r.i, 0) /\ r.p \in Listed(c) /\ r.i \in DOMAIN chain[r.p] /\ r.n = n
<1>1. PICK p \in Listed(c) : r \in {Id(n, p, i, 0) : i \in DOMAIN chain[p]}
  BY DEF RulesetIds
<1>2. PICK i \in DOMAIN chain[p] : r = Id(n, p, i, 0)
  BY <1>1
<1>. QED BY <1>2, IdFields

LEMMA RuleIdFacts ==
    ASSUME NEW c, NEW n, NEW x \in RuleIds(c, n)
    PROVE  x.n = n
<1>1. PICK r \in RulesetIds(c, n) : x \in {Id(n, r.p, r.i, j) : j \in DOMAIN chain[r.p][r.i].rules}
  BY DEF RuleIds
<1>2. PICK j \in DOMAIN chain[r.p][r.i].rules : x = Id(n, r.p, r.i, j)
  BY <1>1
<1>. QED BY <1>2, IdFields

LEMMA SetRulesIdFacts ==
    ASSUME NEW c, NEW n, NEW s \in SetRulesIds(c, n)
    PROVE  s = Id(n, s.p, 0, 0) /\ s.p \in Listed(c) /\ s.n = n
<1>1. PICK p \in Listed(c) : s = Id(n, p, 0, 0)
  BY DEF SetRulesIds
<1>. QED BY <1>1, IdFields

\* The fields of what was loaded.
LEMMA NormalizeShape ==
    ASSUME NEW c, NEW n
    PROVE  LET nr == Normalize(c, n)
           IN /\ nr = Entities(nr.rules, nr.rulesets, nr.setRules)
              /\ DOMAIN nr.rules = RuleIds(c, n) /\ DOMAIN nr.rulesets = RulesetIds(c, n)
              /\ DOMAIN nr.setRules = SetRulesIds(c, n)
              /\ \A x \in RuleIds(c, n) : nr.rules[x] = chain[x.p][x.i].rules[x.j]
              /\ \A r \in RulesetIds(c, n) : nr.rulesets[r] =
                    [name |-> chain[r.p][r.i].name,
                     rules |-> [j \in DOMAIN chain[r.p][r.i].rules |-> Id(n, r.p, r.i, j)]]
              /\ \A s \in SetRulesIds(c, n) : nr.setRules[s] =
                    [delegator |-> s.p[1], voter |-> s.p[2],
                     rulesets |-> [i \in DOMAIN chain[s.p] |-> Id(n, s.p, i, 0)]]
<1>. DEFINE rules == [x \in RuleIds(c, n) |-> chain[x.p][x.i].rules[x.j]]
            rulesets == [r \in RulesetIds(c, n) |->
                [name |-> chain[r.p][r.i].name,
                 rules |-> [j \in DOMAIN chain[r.p][r.i].rules |-> Id(n, r.p, r.i, j)]]]
            setRules == [s \in SetRulesIds(c, n) |->
                [delegator |-> s.p[1], voter |-> s.p[2],
                 rulesets |-> [i \in DOMAIN chain[s.p] |-> Id(n, s.p, i, 0)]]]
<1>1. Normalize(c, n) = Entities(rules, rulesets, setRules)
  BY DEF Normalize, RuleIds, RulesetIds, SetRulesIds
<1>2. DOMAIN rules = RuleIds(c, n) /\ \A x \in RuleIds(c, n) : rules[x] = chain[x.p][x.i].rules[x.j]
  OBVIOUS
<1>3. DOMAIN rulesets = RulesetIds(c, n) /\ \A r \in RulesetIds(c, n) : rulesets[r] =
          [name |-> chain[r.p][r.i].name,
           rules |-> [j \in DOMAIN chain[r.p][r.i].rules |-> Id(n, r.p, r.i, j)]]
  OBVIOUS
<1>4. DOMAIN setRules = SetRulesIds(c, n) /\ \A s \in SetRulesIds(c, n) : setRules[s] =
          [delegator |-> s.p[1], voter |-> s.p[2],
           rulesets |-> [i \in DOMAIN chain[s.p] |-> Id(n, s.p, i, 0)]]
  OBVIOUS
<1>. HIDE DEF rules, rulesets, setRules
<1>5. /\ Normalize(c, n).rules = rules /\ Normalize(c, n).rulesets = rulesets
      /\ Normalize(c, n).setRules = setRules
  BY <1>1 DEF Entities
<1>. QED BY <1>1, <1>2, <1>3, <1>4, <1>5

LEMMA ListedFacts ==
    ASSUME ChainTyped, NEW c, NEW p \in Listed(c)
    PROVE  /\ p \in Pairs /\ IsRulesets(chain[p]) /\ p[1] \in Accounts /\ p[2] \in Accounts
           /\ p = <<p[1], p[2]>> /\ (c.delegator # None => p[1] = c.delegator)
  BY DEF ChainTyped, Listed, Pairs

\* A list made from another one, place by place.
LEMMA ListAlong ==
    ASSUME NEW list, IsList(list), NEW new, new = [i \in DOMAIN list |-> new[i]]
    PROVE  IsList(new)
<1>1. Len(list) \in Nat /\ DOMAIN list = 1 .. Len(list)
  BY ListFacts
<1>. QED BY <1>1, IsListFacts

LEMMA LoadedRuleset ==
    ASSUME ChainTyped, NEW c, NEW n, NEW r \in RulesetIds(c, n)
    PROVE  LET nr == Normalize(c, n)
           IN /\ RulesetTyped(nr.rulesets[r])
              /\ RulesOf(nr, r) = {Id(n, r.p, r.i, j) : j \in DOMAIN chain[r.p][r.i].rules}
<1>. DEFINE old == chain[r.p][r.i].rules
            new == [j \in DOMAIN old |-> Id(n, r.p, r.i, j)]
            nr == Normalize(c, n)
<1>1. IsList(old)
  BY RulesetIdFacts, ListedFacts DEF IsRulesets
<1>2. nr.rulesets[r] = [name |-> chain[r.p][r.i].name, rules |-> new]
  BY NormalizeShape
<1>3. DOMAIN new = DOMAIN old /\ \A j \in DOMAIN old : new[j] = Id(n, r.p, r.i, j) /\ new[j].j = j
  BY IdFields
<1>4. new = [j \in DOMAIN old |-> new[j]]
  OBVIOUS
<1>. HIDE DEF new, old, nr
<1>5. IsList(new) /\ Distinct(new)
  BY <1>1, <1>3, <1>4, ListAlong DEF Distinct
<1>6. ToSet(new) = {Id(n, r.p, r.i, j) : j \in DOMAIN old}
  BY <1>3 DEF ToSet
<1>7. RulesetTyped(nr.rulesets[r]) /\ RulesOf(nr, r) = ToSet(new)
  BY <1>2, <1>5 DEF RulesetTyped, RulesOf
<1>. QED BY <1>6, <1>7 DEF nr, old

LEMMA LoadedSetRules ==
    ASSUME ChainTyped, NEW c, NEW n, NEW s \in SetRulesIds(c, n)
    PROVE  LET nr == Normalize(c, n)
           IN /\ SetRulesTyped(nr.setRules[s]) /\ PairOf(nr, s) = s.p
              /\ RulesetsOf(nr, s) = {Id(n, s.p, i, 0) : i \in DOMAIN chain[s.p]}
<1>. DEFINE old == chain[s.p]
            new == [i \in DOMAIN old |-> Id(n, s.p, i, 0)]
            nr == Normalize(c, n)
<1>1. IsList(old) /\ s.p[1] \in Accounts /\ s.p[2] \in Accounts /\ s.p = <<s.p[1], s.p[2]>>
  BY SetRulesIdFacts, ListedFacts DEF IsRulesets
<1>2. nr.setRules[s] = [delegator |-> s.p[1], voter |-> s.p[2], rulesets |-> new]
  BY NormalizeShape
<1>3. DOMAIN new = DOMAIN old /\ \A i \in DOMAIN old : new[i] = Id(n, s.p, i, 0)
  OBVIOUS
<1>4. new = [i \in DOMAIN old |-> new[i]]
  OBVIOUS
<1>. HIDE DEF new, old, nr
<1>5. IsList(new)
  BY <1>1, <1>4, ListAlong
<1>6. ToSet(new) = {Id(n, s.p, i, 0) : i \in DOMAIN old}
  BY <1>3 DEF ToSet
<1>7. SetRulesTyped(nr.setRules[s]) /\ PairOf(nr, s) = s.p /\ RulesetsOf(nr, s) = ToSet(new)
  BY <1>1, <1>2, <1>5 DEF SetRulesTyped, PairOf, RulesetsOf
<1>. QED BY <1>6, <1>7 DEF nr, old

LEMMA NormalizeOK ==
    ASSUME ChainTyped, NEW c, NEW n \in Nat
    PROVE  /\ StoreOK(Normalize(c, n), n + 1)
           /\ RulesApart(Normalize(c, n), Normalize(c, n))
<1>. DEFINE nr == Normalize(c, n)
<1>1. /\ nr = Entities(nr.rules, nr.rulesets, nr.setRules)
      /\ DOMAIN nr.rules = RuleIds(c, n) /\ DOMAIN nr.rulesets = RulesetIds(c, n)
      /\ DOMAIN nr.setRules = SetRulesIds(c, n)
  BY NormalizeShape
<1>2. \A r \in RulesetIds(c, n) :
          /\ RulesetTyped(nr.rulesets[r])
          /\ RulesOf(nr, r) = {Id(n, r.p, r.i, j) : j \in DOMAIN chain[r.p][r.i].rules}
  BY LoadedRuleset
<1>3. \A s \in SetRulesIds(c, n) :
          /\ SetRulesTyped(nr.setRules[s]) /\ PairOf(nr, s) = s.p
          /\ RulesetsOf(nr, s) = {Id(n, s.p, i, 0) : i \in DOMAIN chain[s.p]}
  BY LoadedSetRules
<1>. HIDE DEF nr
<1>4. StoreTyped(nr)
  BY <1>1, <1>2, <1>3 DEF StoreTyped
<1>5. Resolves(nr)
  <2>1. ASSUME NEW r \in RulesetIds(c, n) PROVE RulesOf(nr, r) \subseteq RuleIds(c, n)
    BY <1>2, <2>1 DEF RuleIds
  <2>2. ASSUME NEW s \in SetRulesIds(c, n) PROVE RulesetsOf(nr, s) \subseteq RulesetIds(c, n)
    BY <1>3, <2>2, SetRulesIdFacts DEF RulesetIds
  <2>. QED BY <1>1, <2>1, <2>2 DEF Resolves, RulesOf, RulesetsOf
<1>6. RulesApart(nr, nr)
  <2>1. ASSUME NEW r \in RulesetIds(c, n), NEW q \in RulesetIds(c, n), NEW x,
               x \in RulesOf(nr, r), x \in RulesOf(nr, q)
        PROVE  r = q
    <3>1. PICK j : x = Id(n, r.p, r.i, j)
      BY <1>2, <2>1
    <3>2. PICK k : x = Id(n, q.p, q.i, k)
      BY <1>2, <2>1
    <3>3. x.p = r.p /\ x.i = r.i
      BY <3>1, IdFields
    <3>4. x.p = q.p /\ x.i = q.i
      BY <3>2, IdFields
    <3>5. r = Id(n, r.p, r.i, 0) /\ q = Id(n, q.p, q.i, 0)
      BY RulesetIdFacts
    <3>. QED BY <3>3, <3>4, <3>5
  <2>. QED BY <1>1, <2>1 DEF RulesApart
<1>7. SetRulesApart(nr)
  <2>1. ASSUME NEW s \in SetRulesIds(c, n), NEW t \in SetRulesIds(c, n), s.p = t.p
        PROVE  s = t
    BY <2>1, SetRulesIdFacts
  <2>2. ASSUME NEW s \in SetRulesIds(c, n), NEW t \in SetRulesIds(c, n), NEW x,
               x \in RulesetsOf(nr, s), x \in RulesetsOf(nr, t)
        PROVE  s = t
    <3>1. PICK i : x = Id(n, s.p, i, 0)
      BY <1>3, <2>2
    <3>2. PICK k : x = Id(n, t.p, k, 0)
      BY <1>3, <2>2
    <3>. QED BY <2>1, <3>1, <3>2, IdFields
  <2>. QED BY <1>1, <1>3, <2>1, <2>2 DEF SetRulesApart
<1>8. StoreUsed(nr, n + 1)
  <2>1. \A id \in RuleIds(c, n) \cup RulesetIds(c, n) \cup SetRulesIds(c, n) : id.n = n
    BY RuleIdFacts, RulesetIdFacts, SetRulesIdFacts
  <2>. QED BY <1>1, <2>1 DEF StoreUsed
<1>9. StoreOK(nr, n + 1) /\ RulesApart(nr, nr)
  BY <1>4, <1>5, <1>6, <1>7, <1>8 DEF StoreOK
<1>. QED BY <1>9 DEF nr

\* What was loaded is what is on the blockchain.
LEMMA LoadedIsOnChain ==
    ASSUME ChainTyped, NEW c, NEW n, NEW s \in SetRulesIds(c, n)
    PROVE  DenormalizeSetRules(Normalize(c, n), s) = chain[s.p]
<1>. DEFINE nr == Normalize(c, n)
            list == chain[s.p]
            D(i) == LET r == nr.rulesets[nr.setRules[s].rulesets[i]]
                    IN [name |-> r.name, rules |-> [j \in DOMAIN r.rules |-> nr.rules[r.rules[j]]]]
<1>1. IsRulesets(list) /\ s.p \in Listed(c)
  BY SetRulesIdFacts, ListedFacts
<1>2. nr.setRules[s] = [delegator |-> s.p[1], voter |-> s.p[2],
                        rulesets |-> [i \in DOMAIN list |-> Id(n, s.p, i, 0)]]
  BY NormalizeShape
<1>3. /\ DOMAIN nr.setRules[s].rulesets = DOMAIN list
      /\ \A i \in DOMAIN list : nr.setRules[s].rulesets[i] = Id(n, s.p, i, 0)
  BY <1>2
<1>4. DenormalizeSetRules(nr, s) = [i \in DOMAIN list |-> D(i)]
  BY <1>3 DEF DenormalizeSetRules
<1>5. ASSUME NEW i \in DOMAIN list PROVE D(i) = list[i]
  <2>. DEFINE r == Id(n, s.p, i, 0)
              old == list[i].rules
              new == [j \in DOMAIN old |-> Id(n, s.p, i, j)]
  <2>1. r \in RulesetIds(c, n) /\ r.p = s.p /\ r.i = i
    BY <1>1, IdFields DEF RulesetIds
  <2>. HIDE DEF r
  <2>2. nr.rulesets[r] = [name |-> list[i].name, rules |-> new]
    <3>1. nr.rulesets[r] = [name |-> chain[r.p][r.i].name,
                            rules |-> [j \in DOMAIN chain[r.p][r.i].rules |-> Id(n, r.p, r.i, j)]]
      BY <2>1, NormalizeShape
    <3>. QED BY <2>1, <3>1
  <2>3. ASSUME NEW j \in DOMAIN old
        PROVE  nr.rules[Id(n, s.p, i, j)] = old[j]
    <3>1. Id(n, s.p, i, j) \in {Id(n, r.p, r.i, k) : k \in DOMAIN chain[r.p][r.i].rules}
      BY <2>1
    <3>2. Id(n, s.p, i, j) \in RuleIds(c, n)
      BY <2>1, <3>1 DEF RuleIds
    <3>3. nr.rules[Id(n, s.p, i, j)] = chain[s.p][i].rules[j]
      BY <3>2, NormalizeShape, IdFields
    <3>. QED BY <3>3
  <2>4. list[i] = [name |-> list[i].name, rules |-> old] /\ IsList(old)
    BY <1>1 DEF IsRulesets
  <2>5. old = [j \in DOMAIN old |-> old[j]]
    BY <2>4, ListFacts
  <2>6. DOMAIN new = DOMAIN old /\ \A j \in DOMAIN old : nr.rules[new[j]] = old[j]
    BY <2>3
  <2>7. D(i) = [name |-> list[i].name, rules |-> [j \in DOMAIN new |-> nr.rules[new[j]]]]
    <3>1. nr.setRules[s].rulesets[i] = r
      BY <1>3 DEF r
    <3>2. nr.rulesets[r].name = list[i].name /\ nr.rulesets[r].rules = new
      BY <2>2
    <3>. HIDE DEF nr, new, list
    <3>. QED BY <3>1, <3>2
  <2>8. [j \in DOMAIN new |-> nr.rules[new[j]]] = old
    BY <2>5, <2>6
  <2>. QED BY <2>4, <2>7, <2>8
<1>6. list = [i \in DOMAIN list |-> list[i]]
  BY <1>1, ListFacts DEF IsRulesets
<1>. HIDE DEF D, nr, list
<1>7. DenormalizeSetRules(nr, s) = list
  BY <1>4, <1>5, <1>6
<1>. QED BY <1>7 DEF nr, list

-----------------------------------------------------------------------------
(* Deleting a ruleset takes it from its set of rules; its rules stay.      *)
DeletedFrom(nr, new, s) ==
    /\ s \in DOMAIN nr.setRules
    /\ new = Entities(new.rules, new.rulesets, new.setRules)
    /\ new.rules = nr.rules /\ new.rulesets = nr.rulesets /\ DOMAIN new.setRules = DOMAIN nr.setRules
    /\ \A t \in DOMAIN nr.setRules \ {s} : new.setRules[t] = nr.setRules[t]
    /\ SetRulesTyped(new.setRules[s]) /\ PairOf(new, s) = PairOf(nr, s)
    /\ RulesetsOf(new, s) \subseteq RulesetsOf(nr, s)

LEMMA DeleteFacts ==
    ASSUME NEW nr, StoreTyped(nr), NEW s \in DOMAIN nr.setRules, NEW r \in ToSet(nr.setRules[s].rulesets)
    PROVE  DeletedFrom(nr, [nr EXCEPT !.setRules[s].rulesets = RemoveFirst(@, r)], s)
<1>. DEFINE new == [nr EXCEPT !.setRules[s].rulesets = RemoveFirst(@, r)]
            old == nr.setRules[s]
            list == RemoveFirst(old.rulesets, r)
            x == [old EXCEPT !.rulesets = list]
<1>1. nr = Entities(nr.rules, nr.rulesets, nr.setRules) /\ SetRulesTyped(old)
  BY DEF StoreTyped
<1>2. IsList(list) /\ ToSet(list) \subseteq ToSet(old.rulesets)
  BY <1>1, RemoveFacts DEF SetRulesTyped
<1>3. DOMAIN new = {"rules", "rulesets", "setRules"} /\ new = [f \in DOMAIN new |-> new[f]]
  BY <1>1 DEF Entities
<1>4. new.rules = nr.rules /\ new.rulesets = nr.rulesets
  BY <1>1 DEF Entities
<1>5. new.setRules = [nr.setRules EXCEPT ![s] = x]
  BY <1>1 DEF Entities
<1>6. /\ DOMAIN x = {"delegator", "voter", "rulesets"} /\ x.delegator = old.delegator
      /\ x.voter = old.voter /\ x.rulesets = list
  BY <1>1 DEF SetRulesTyped
<1>. HIDE DEF new, x, list
<1>7. new = Entities(new.rules, new.rulesets, new.setRules)
  BY <1>3, StoreFields, Zenon
<1>8. /\ DOMAIN new.setRules = DOMAIN nr.setRules /\ new.setRules[s] = x
      /\ \A t \in DOMAIN nr.setRules \ {s} : new.setRules[t] = nr.setRules[t]
  BY <1>5
<1>9. SetRulesTyped(x)
  BY <1>1, <1>2, <1>6 DEF SetRulesTyped
<1>10. PairOf(new, s) = PairOf(nr, s) /\ RulesetsOf(new, s) \subseteq RulesetsOf(nr, s)
  BY <1>2, <1>6, <1>8 DEF PairOf, RulesetsOf
<1>11. DeletedFrom(nr, new, s)
  BY <1>4, <1>7, <1>8, <1>9, <1>10 DEF DeletedFrom
<1>. QED BY <1>11 DEF new

LEMMA DeleteKeepsStore ==
    ASSUME NEW nr, NEW new, NEW s, NEW n, StoreOK(nr, n), DeletedFrom(nr, new, s)
    PROVE  StoreOK(new, n)
<1>1. StoreTyped(new)
  BY DEF DeletedFrom, StoreOK, StoreTyped
<1>2. \A t \in DOMAIN nr.setRules :
          RulesetsOf(new, t) \subseteq RulesetsOf(nr, t) /\ PairOf(new, t) = PairOf(nr, t)
  BY DEF DeletedFrom, RulesetsOf, PairOf
<1>3. Resolves(new)
  <2>1. \A t \in DOMAIN nr.setRules : RulesetsOf(nr, t) \subseteq DOMAIN nr.rulesets
    BY DEF StoreOK, Resolves, RulesetsOf
  <2>2. \A r \in DOMAIN nr.rulesets : ToSet(nr.rulesets[r].rules) \subseteq DOMAIN nr.rules
    BY DEF StoreOK, Resolves
  <2>. QED BY <1>2, <2>1, <2>2 DEF Resolves, RulesetsOf, DeletedFrom
<1>4. SetRulesApart(new)
  <2>1. DOMAIN new.setRules = DOMAIN nr.setRules /\ SetRulesApart(nr)
    BY DEF DeletedFrom, StoreOK
  <2>2. ASSUME NEW t \in DOMAIN nr.setRules, NEW u \in DOMAIN nr.setRules, t # u
        PROVE  RulesetsOf(new, t) \cap RulesetsOf(new, u) = {} /\ PairOf(new, t) # PairOf(new, u)
    <3>1. RulesetsOf(nr, t) \cap RulesetsOf(nr, u) = {} /\ PairOf(nr, t) # PairOf(nr, u)
      BY <2>1, <2>2 DEF SetRulesApart
    <3>. QED BY <1>2, <3>1
  <2>. QED BY <2>1, <2>2 DEF SetRulesApart
<1>5. StoreUsed(new, n)
  BY DEF DeletedFrom, StoreOK, StoreUsed
<1>. QED BY <1>1, <1>3, <1>4, <1>5 DEF StoreOK

LEMMA DeleteKeepsOthers ==
    ASSUME NEW nr, NEW new, NEW s, DeletedFrom(nr, new, s), NEW t \in DOMAIN nr.setRules \ {s}
    PROVE  DenormalizeSetRules(new, t) = DenormalizeSetRules(nr, t)
<1>1. /\ new.setRules[t].rulesets = nr.setRules[t].rulesets
      /\ new.rulesets = nr.rulesets /\ new.rules = nr.rules
  BY DEF DeletedFrom
<1>. QED BY <1>1, SameRules

(* Adding a ruleset: r is new, with one new rule, and is in the set of     *)
(* rules s only, which may be new as well.                                 *)
AddedTo(nr, new, s, r, x) ==
    /\ new = Entities(new.rules, new.rulesets, new.setRules)
    /\ r \notin DOMAIN nr.rulesets /\ x \notin DOMAIN nr.rules
    /\ DOMAIN new.rules = DOMAIN nr.rules \cup {x}
    /\ DOMAIN new.rulesets = DOMAIN nr.rulesets \cup {r}
    /\ DOMAIN new.setRules = DOMAIN nr.setRules \cup {s}
    /\ \A y \in DOMAIN nr.rules : new.rules[y] = nr.rules[y]
    /\ \A q \in DOMAIN nr.rulesets : new.rulesets[q] = nr.rulesets[q]
    /\ \A t \in DOMAIN nr.setRules \ {s} : new.setRules[t] = nr.setRules[t]
    /\ RulesetTyped(new.rulesets[r]) /\ RulesOf(new, r) = {x}
    /\ SetRulesTyped(new.setRules[s])
    /\ \/ /\ s \in DOMAIN nr.setRules
          /\ PairOf(new, s) = PairOf(nr, s) /\ RulesetsOf(new, s) = RulesetsOf(nr, s) \cup {r}
       \/ /\ s \notin DOMAIN nr.setRules /\ RulesetsOf(new, s) = {r}
          /\ \A t \in DOMAIN nr.setRules : PairOf(nr, t) # PairOf(new, s)

LEMMA AddKeepsStore ==
    ASSUME NEW nr, NEW new, NEW s, NEW r, NEW x, NEW n \in Nat, StoreOK(nr, n),
           AddedTo(nr, new, s, r, x), r.n = n, x.n = n, s \in DOMAIN nr.setRules \/ s.n = n
    PROVE  StoreOK(new, n + 1)
<1>1. StoreTyped(new)
  BY DEF AddedTo, StoreOK, StoreTyped
<1>2. Resolves(new)
  <2>1. ASSUME NEW q \in DOMAIN new.rulesets PROVE RulesOf(new, q) \subseteq DOMAIN new.rules
    <3>1. CASE q = r
      BY <3>1 DEF AddedTo
    <3>2. CASE q # r
      BY <3>2 DEF AddedTo, StoreOK, Resolves, RulesOf
    <3>. QED BY <3>1, <3>2
  <2>2. ASSUME NEW t \in DOMAIN new.setRules PROVE RulesetsOf(new, t) \subseteq DOMAIN new.rulesets
    <3>1. \A u \in DOMAIN nr.setRules : RulesetsOf(nr, u) \subseteq DOMAIN nr.rulesets
      BY DEF StoreOK, Resolves, RulesetsOf
    <3>2. CASE t = s
      BY <3>1, <3>2 DEF AddedTo
    <3>3. CASE t # s
      BY <3>1, <3>3 DEF AddedTo, RulesetsOf
    <3>. QED BY <3>2, <3>3
  <2>. QED BY <2>1, <2>2 DEF Resolves, RulesOf, RulesetsOf
<1>3. SetRulesApart(new)
  <2>0. \A t \in DOMAIN nr.setRules : r \notin RulesetsOf(nr, t)
    BY DEF AddedTo, StoreOK, Resolves, RulesetsOf
  <2>1. \A t \in DOMAIN nr.setRules \ {s} :
            RulesetsOf(new, t) = RulesetsOf(nr, t) /\ PairOf(new, t) = PairOf(nr, t)
    BY DEF AddedTo, RulesetsOf, PairOf
  <2>2. ASSUME NEW t \in DOMAIN nr.setRules, t # s
        PROVE  RulesetsOf(new, t) \cap RulesetsOf(new, s) = {} /\ PairOf(new, t) # PairOf(new, s)
    <3>1. CASE s \in DOMAIN nr.setRules
      <4>1. RulesetsOf(nr, t) \cap RulesetsOf(nr, s) = {} /\ PairOf(nr, t) # PairOf(nr, s)
        BY <2>2, <3>1 DEF StoreOK, SetRulesApart
      <4>2. PairOf(new, s) = PairOf(nr, s) /\ RulesetsOf(new, s) = RulesetsOf(nr, s) \cup {r}
        BY <3>1 DEF AddedTo
      <4>. QED BY <2>0, <2>1, <2>2, <4>1, <4>2
    <3>2. CASE s \notin DOMAIN nr.setRules
      <4>1. RulesetsOf(new, s) = {r} /\ PairOf(nr, t) # PairOf(new, s)
        BY <3>2 DEF AddedTo
      <4>. QED BY <2>0, <2>1, <2>2, <4>1
    <3>. QED BY <3>1, <3>2
  <2>3. ASSUME NEW t \in DOMAIN nr.setRules, NEW u \in DOMAIN nr.setRules, t # u, t # s, u # s
        PROVE  RulesetsOf(new, t) \cap RulesetsOf(new, u) = {} /\ PairOf(new, t) # PairOf(new, u)
    <3>1. RulesetsOf(nr, t) \cap RulesetsOf(nr, u) = {} /\ PairOf(nr, t) # PairOf(nr, u)
      BY <2>3 DEF StoreOK, SetRulesApart
    <3>. QED BY <2>1, <2>3, <3>1
  <2>4. DOMAIN new.setRules = DOMAIN nr.setRules \cup {s}
    BY DEF AddedTo
  <2>5. ASSUME NEW t \in DOMAIN new.setRules, NEW u \in DOMAIN new.setRules, t # u
        PROVE  RulesetsOf(new, t) \cap RulesetsOf(new, u) = {} /\ PairOf(new, t) # PairOf(new, u)
    <3>1. CASE t = s
      BY <2>2, <2>4, <2>5, <3>1
    <3>2. CASE u = s
      BY <2>2, <2>4, <2>5, <3>2
    <3>3. CASE t # s /\ u # s
      BY <2>3, <2>4, <2>5, <3>3
    <3>. QED BY <3>1, <3>2, <3>3
  <2>. QED BY <2>5 DEF SetRulesApart
<1>4. StoreUsed(new, n + 1)
  <2>1. \A id \in DOMAIN nr.rules \cup DOMAIN nr.rulesets \cup DOMAIN nr.setRules : id.n \in Nat /\ id.n < n + 1
    BY DEF StoreOK, StoreUsed
  <2>. QED BY <2>1 DEF AddedTo, StoreUsed
<1>. QED BY <1>1, <1>2, <1>3, <1>4 DEF StoreOK

LEMMA AddKeepsApart ==
    ASSUME NEW nr, NEW new, NEW s, NEW r, NEW x, NEW other, NEW n,
           StoreOK(nr, n), StoreOK(other, n), x.n = n, n \in Nat,
           AddedTo(nr, new, s, r, x), AllApart(nr, other)
    PROVE  AllApart(new, other)
<1>1. \A q \in DOMAIN nr.rulesets : RulesOf(new, q) = RulesOf(nr, q)
  BY DEF AddedTo, RulesOf
<1>2. \A q \in DOMAIN nr.rulesets : x \notin RulesOf(nr, q)
  BY NewRule
<1>3. \A q \in DOMAIN other.rulesets : x \notin RulesOf(other, q)
  BY NewRule
<1>4. DOMAIN new.rulesets = DOMAIN nr.rulesets \cup {r} /\ RulesOf(new, r) = {x}
  BY DEF AddedTo
<1>5. RulesApart(new, other)
  BY <1>1, <1>3, <1>4 DEF AllApart, RulesApart
<1>6. RulesApart(new, new)
  BY <1>1, <1>2, <1>4 DEF AllApart, RulesApart
<1>. QED BY <1>5, <1>6 DEF AllApart

LEMMA AddKeepsOthers ==
    ASSUME NEW nr, NEW new, NEW s, NEW r, NEW x, NEW n, StoreOK(nr, n),
           AddedTo(nr, new, s, r, x), NEW t \in DOMAIN nr.setRules \ {s}
    PROVE  DenormalizeSetRules(new, t) = DenormalizeSetRules(nr, t)
<1>1. RulesetsOf(nr, t) \subseteq DOMAIN nr.rulesets
  BY DEF StoreOK, Resolves, RulesetsOf
<1>2. ASSUME NEW q \in RulesetsOf(nr, t)
      PROVE  /\ new.rulesets[q] = nr.rulesets[q]
             /\ \A id \in RulesOf(nr, q) : new.rules[id] = nr.rules[id]
  <2>1. q \in DOMAIN nr.rulesets
    BY <1>1
  <2>2. RulesOf(nr, q) \subseteq DOMAIN nr.rules
    BY <2>1 DEF StoreOK, Resolves, RulesOf
  <2>. QED BY <2>1, <2>2 DEF AddedTo
<1>3. new.setRules[t].rulesets = nr.setRules[t].rulesets
  BY DEF AddedTo
<1>. QED BY <1>2, <1>3, SameRules

LEMMA OneList ==
    ASSUME NEW e
    PROVE  IsList(<<e>>) /\ Distinct(<<e>>) /\ ToSet(<<e>>) = {e}
<1>1. <<e>> = [i \in 1 .. 1 |-> <<e>>[i]] /\ DOMAIN <<e>> = {1} /\ <<e>>[1] = e
  OBVIOUS
<1>2. IsList(<<e>>)
  BY <1>1, IsListFacts
<1>. QED BY <1>1, <1>2 DEF Distinct, ToSet

LEMMA WithRulesetAdds ==
    ASSUME fresh \in Nat, StoreOK(normalized, fresh), delegator \in Accounts, NEW v \in Accounts,
           NEW s, NEW own, own = {t \in DOMAIN normalized.setRules : normalized.setRules[t].voter = v},
           s \in (IF own = {} THEN {Id(fresh, <<delegator, v>>, 0, 0)} ELSE own)
    PROVE  LET r == Id(fresh, <<delegator, v>>, 1, 0)
               x == Id(fresh, <<delegator, v>>, 1, 1)
           IN /\ AddedTo(normalized, WithRuleset(v, s), s, r, x)
              /\ r.n = fresh /\ x.n = fresh /\ (s \in DOMAIN normalized.setRules \/ s.n = fresh)
              /\ WithRuleset(v, s).setRules[s].delegator =
                    IF s \in DOMAIN normalized.setRules THEN normalized.setRules[s].delegator
                    ELSE delegator
<1>. DEFINE r == Id(fresh, <<delegator, v>>, 1, 0)
            x == Id(fresh, <<delegator, v>>, 1, 1)
            old == IF s \in DOMAIN normalized.setRules THEN normalized.setRules[s]
                   ELSE [delegator |-> delegator, voter |-> v, rulesets |-> <<>>]
            one == [name |-> "new", rules |-> <<x>>]
            all == [old EXCEPT !.rulesets = Append(@, r)]
            new == WithRuleset(v, s)
<1>1. new = Entities(Put(normalized.rules, x, DefaultRule.first_post),
                     Put(normalized.rulesets, r, one), Put(normalized.setRules, s, all))
  BY DEF WithRuleset
<1>2. r.n = fresh /\ x.n = fresh /\ (s \in DOMAIN normalized.setRules \/ s.n = fresh)
  BY IdFields
<1>3. r \notin DOMAIN normalized.rulesets /\ x \notin DOMAIN normalized.rules
  BY <1>2 DEF StoreOK, StoreUsed
<1>4. SetRulesTyped(old)
  <2>1. CASE s \in DOMAIN normalized.setRules
    BY <2>1 DEF StoreOK, StoreTyped
  <2>2. CASE s \notin DOMAIN normalized.setRules
    <3>1. <<>> = [i \in 1 .. 0 |-> <<>>[i]]
      OBVIOUS
    <3>2. IsList(<<>>)
      BY <3>1, IsListFacts
    <3>. QED BY <2>2, <3>2 DEF SetRulesTyped
  <2>. QED BY <2>1, <2>2
<1>5. IsList(Append(old.rulesets, r)) /\ ToSet(Append(old.rulesets, r)) = ToSet(old.rulesets) \cup {r}
  BY <1>4, AppendFacts DEF SetRulesTyped
<1>6. /\ DOMAIN all = {"delegator", "voter", "rulesets"} /\ all.delegator = old.delegator
      /\ all.voter = old.voter /\ all.rulesets = Append(old.rulesets, r)
  BY <1>4 DEF SetRulesTyped
<1>7. one.rules = <<x>> /\ one = [name |-> one.name, rules |-> one.rules]
  OBVIOUS
<1>8. s \in DOMAIN normalized.setRules => old = normalized.setRules[s]
  OBVIOUS
<1>9. s \notin DOMAIN normalized.setRules =>
          old.delegator = delegator /\ old.voter = v /\ old.rulesets = <<>>
  OBVIOUS
<1>10. s \notin DOMAIN normalized.setRules =>
          \A t \in DOMAIN normalized.setRules : normalized.setRules[t].voter # v
  OBVIOUS
<1>. HIDE DEF r, x, old, one, all, new
<1>11. /\ new = Entities(new.rules, new.rulesets, new.setRules)
       /\ new.rules = Put(normalized.rules, x, DefaultRule.first_post)
       /\ new.rulesets = Put(normalized.rulesets, r, one)
       /\ new.setRules = Put(normalized.setRules, s, all)
  BY <1>1 DEF Entities
<1>12. /\ DOMAIN new.rules = DOMAIN normalized.rules \cup {x}
       /\ \A y \in DOMAIN normalized.rules : new.rules[y] = normalized.rules[y]
  BY <1>3, <1>11 DEF Put
<1>13. /\ DOMAIN new.rulesets = DOMAIN normalized.rulesets \cup {r} /\ new.rulesets[r] = one
       /\ \A q \in DOMAIN normalized.rulesets : new.rulesets[q] = normalized.rulesets[q]
  BY <1>3, <1>11 DEF Put
<1>14. /\ DOMAIN new.setRules = DOMAIN normalized.setRules \cup {s} /\ new.setRules[s] = all
       /\ \A t \in DOMAIN normalized.setRules \ {s} : new.setRules[t] = normalized.setRules[t]
  BY <1>11 DEF Put
<1>15. RulesetTyped(one) /\ RulesOf(new, r) = {x}
  BY <1>7, <1>13, OneList DEF RulesetTyped, RulesOf
<1>16. SetRulesTyped(all) /\ RulesetsOf(new, s) = ToSet(old.rulesets) \cup {r}
       /\ PairOf(new, s) = <<old.delegator, old.voter>>
  BY <1>4, <1>5, <1>6, <1>14 DEF SetRulesTyped, RulesetsOf, PairOf
<1>17. \/ /\ s \in DOMAIN normalized.setRules
          /\ PairOf(new, s) = PairOf(normalized, s)
          /\ RulesetsOf(new, s) = RulesetsOf(normalized, s) \cup {r}
       \/ /\ s \notin DOMAIN normalized.setRules /\ RulesetsOf(new, s) = {r}
          /\ \A t \in DOMAIN normalized.setRules : PairOf(normalized, t) # PairOf(new, s)
  <2>1. CASE s \in DOMAIN normalized.setRules
    BY <1>8, <1>16, <2>1 DEF PairOf, RulesetsOf
  <2>2. CASE s \notin DOMAIN normalized.setRules
    <3>1. ToSet(<<>>) = {}
      BY DEF ToSet
    <3>. QED BY <1>9, <1>10, <1>16, <2>2, <3>1 DEF PairOf
  <2>. QED BY <2>1, <2>2
<1>18. AddedTo(normalized, new, s, r, x)
  BY <1>3, <1>11, <1>12, <1>13, <1>14, <1>15, <1>16, <1>17 DEF AddedTo
<1>19. new.setRules[s].delegator =
           IF s \in DOMAIN normalized.setRules THEN normalized.setRules[s].delegator ELSE delegator
  BY <1>6, <1>8, <1>9, <1>14
<1>. QED BY <1>2, <1>18, <1>19 DEF r, x, new

\* A store with one more rule that no ruleset has yet.
LEMMA OrphanKeepsStore ==
    ASSUME NEW nr, NEW n \in Nat, StoreOK(nr, n), NEW x, x.n = n, NEW rule
    PROVE  LET new == [nr EXCEPT !.rules = Put(@, x, rule)]
           IN /\ StoreOK(new, n + 1) /\ new.rulesets = nr.rulesets /\ new.setRules = nr.setRules
<1>. DEFINE new == [nr EXCEPT !.rules = Put(@, x, rule)]
<1>1. nr = Entities(nr.rules, nr.rulesets, nr.setRules)
  BY DEF StoreOK, StoreTyped
<1>2. DOMAIN new = {"rules", "rulesets", "setRules"} /\ new = [f \in DOMAIN new |-> new[f]]
  BY <1>1 DEF Entities
<1>3. new.rules = Put(nr.rules, x, rule) /\ new.rulesets = nr.rulesets /\ new.setRules = nr.setRules
  BY <1>1 DEF Entities
<1>. HIDE DEF new
<1>4. new = Entities(new.rules, new.rulesets, new.setRules)
  BY <1>2, StoreFields, Zenon
<1>5. DOMAIN new.rules = DOMAIN nr.rules \cup {x}
  BY <1>3 DEF Put
<1>6. StoreTyped(new) /\ Resolves(new) /\ SetRulesApart(new)
  BY <1>3, <1>4, <1>5 DEF StoreOK, StoreTyped, Resolves, SetRulesApart, RulesetsOf, PairOf
<1>7. StoreUsed(new, n + 1)
  <2>1. \A id \in DOMAIN nr.rules \cup DOMAIN nr.rulesets \cup DOMAIN nr.setRules : id.n \in Nat /\ id.n < n + 1
    BY DEF StoreOK, StoreUsed
  <2>. QED BY <1>3, <1>5, <2>1 DEF StoreUsed
<1>8. StoreOK(new, n + 1)
  BY <1>6, <1>7 DEF StoreOK
<1>. QED BY <1>3, <1>8 DEF new

\* What is published of a set of rules is a list of rulesets.
LEMMA PublishedIsRulesets ==
    ASSUME NEW nr, NEW n, StoreOK(nr, n), NEW s \in DOMAIN nr.setRules
    PROVE  IsRulesets(DenormalizeSetRules(nr, s))
<1>. DEFINE list == nr.setRules[s].rulesets
            D(i) == LET r == nr.rulesets[list[i]]
                    IN [name |-> r.name, rules |-> [j \in DOMAIN r.rules |-> nr.rules[r.rules[j]]]]
            new == [i \in DOMAIN list |-> D(i)]
<1>1. IsList(list)
  BY DEF StoreOK, StoreTyped, SetRulesTyped
<1>2. DenormalizeSetRules(nr, s) = new
  BY DEF DenormalizeSetRules
<1>3. \A i \in DOMAIN list : list[i] \in DOMAIN nr.rulesets
  BY DEF StoreOK, Resolves, ToSet
<1>4. ASSUME NEW i \in DOMAIN list
      PROVE  D(i) = [name |-> D(i).name, rules |-> D(i).rules] /\ IsList(D(i).rules)
  <2>. DEFINE old == nr.rulesets[list[i]].rules
              ids == [j \in DOMAIN old |-> nr.rules[old[j]]]
  <2>1. IsList(old)
    BY <1>3 DEF StoreOK, StoreTyped, RulesetTyped
  <2>2. ids = [j \in DOMAIN old |-> ids[j]]
    OBVIOUS
  <2>3. D(i).rules = ids /\ D(i) = [name |-> D(i).name, rules |-> D(i).rules]
    OBVIOUS
  <2>. HIDE DEF old, ids, D
  <2>4. IsList(ids)
    BY <2>1, <2>2, ListAlong
  <2>. QED BY <2>3, <2>4
<1>5. new = [i \in DOMAIN list |-> new[i]] /\ DOMAIN new = DOMAIN list /\ \A i \in DOMAIN list : new[i] = D(i)
  OBVIOUS
<1>. HIDE DEF D, list, new
<1>6. IsList(new)
  BY <1>1, <1>5, ListAlong
<1>7. IsRulesets(new)
  BY <1>4, <1>5, <1>6 DEF IsRulesets
<1>. QED BY <1>2, <1>7

-----------------------------------------------------------------------------
(* The types, and what the types of a step rest on: a ruleset is added for *)
(* a delegator only.                                                       *)
SaveTyped(w) ==
    /\ DOMAIN w = {"n", "voter", "owner", "rulesets", "applied"}
    /\ w.voter \in Accounts /\ w.owner \in Accounts /\ IsRulesets(w.rulesets)
SavesTyped == \A w \in saves : SaveTyped(w)

ChoicesOK ==
    /\ loadedFor \in Routes /\ \A l \in loads : l.for \in Routes
    /\ loadedFor.delegator # None => delegator = loadedFor.delegator
    /\ adding => delegator \in Accounts

DeleteStep == \E s \in DOMAIN normalized.setRules :
                 \E r \in ToSet(normalized.setRules[s].rulesets) : DeleteRuleset(s, r)
BeginStep  == \E s \in DOMAIN normalized.setRules :
                 \E r \in ToSet(normalized.setRules[s].rulesets) : BeginRulesetEdit(s, r)
Quiet      == UNCHANGED <<normalized, backup, edit, fresh>>

LEMMA WhichStep ==
    ASSUME [Next]_vars
    PROVE  \/ Quiet
           \/ \E l \in loads : LoadAnswer(l)
           \/ EditorNext \/ BeginStep \/ DeleteStep \/ RevertChanges
           \/ \E w \in saves : RulesAnswer(w)
           \/ \E v \in Accounts : AddAnswer(v)
<1>. USE DEF editVars, Quiet
<1>1. UNCHANGED vars => Quiet
  BY DEF vars, storeVars
<1>2. SessionNext /\ UNCHANGED storeVars => Quiet
  BY DEF storeVars
<1>3. (\E c \in Routes : Navigate(c)) => Quiet
  BY DEF Navigate
<1>4. (\E l \in loads : LoadFails(l)) => Quiet
  BY DEF LoadFails
<1>5. SaveChanges \/ AddRuleset \/ AddFails => Quiet
  BY DEF SaveChanges, AddRuleset, AddFails
<1>6. (\E w \in saves : PublishRules(w) \/ SaveFails(w)) => Quiet
  BY DEF PublishRules, SaveFails
<1>. HIDE DEF Quiet
<1>. QED BY <1>1, <1>2, <1>3, <1>4, <1>5, <1>6
         DEF Next, StoreNext, EditorNext, BeginStep, DeleteStep

LEMMA LoadAnswerFacts ==
    ASSUME NEW l \in loads, LoadAnswer(l)
    PROVE  /\ normalized' = Normalize(l.for, fresh) /\ backup' = normalized' /\ fresh' = fresh + 1
           /\ edit' = edit \/ edit'.ruleset = NoId
  BY DEF LoadAnswer

LEMMA LoadKeepsBoth ==
    ASSUME BothOK, ChainTyped, NEW l \in loads, LoadAnswer(l)
    PROVE  BothOK'
<1>. DEFINE nr == Normalize(l.for, fresh)
<1>1. normalized' = nr /\ backup' = nr /\ fresh' = fresh + 1
  BY LoadAnswerFacts
<1>2. fresh \in Nat
  BY DEF BothOK
<1>3. StoreOK(nr, fresh + 1) /\ RulesApart(nr, nr)
  BY <1>2, NormalizeOK
<1>. HIDE DEF nr
<1>. QED BY <1>1, <1>2, <1>3 DEF BothOK, AllApart

LEMMA DeleteKeepsBoth ==
    ASSUME BothOK, DeleteStep
    PROVE  BothOK'
<1>1. PICK s \in DOMAIN normalized.setRules :
          \E r \in ToSet(normalized.setRules[s].rulesets) : DeleteRuleset(s, r)
  BY DEF DeleteStep
<1>2. PICK r \in ToSet(normalized.setRules[s].rulesets) : DeleteRuleset(s, r)
  BY <1>1
<1>. DEFINE new == [normalized EXCEPT !.setRules[s].rulesets = RemoveFirst(@, r)]
<1>3. backup' = backup /\ fresh' = fresh /\ normalized' \in {normalized, new}
  BY <1>2 DEF DeleteRuleset
<1>4. DeletedFrom(normalized, new, s)
  BY DeleteFacts DEF BothOK, StoreOK
<1>. HIDE DEF new
<1>5. StoreOK(new, fresh)
  BY <1>4, DeleteKeepsStore DEF BothOK
<1>6. AllApart(new, backup)
  BY <1>4 DEF BothOK, AllApart, RulesApart, RulesOf, DeletedFrom
<1>7. StoreOK(normalized', fresh) /\ AllApart(normalized', backup)
  BY <1>3, <1>5, <1>6 DEF BothOK
<1>. QED BY <1>3, <1>7 DEF BothOK

\* The answer to the form, when the editor is not jammed.
AddStep(v, s) ==
    LET r == Id(fresh, <<delegator, v>>, 1, 0)
        x == Id(fresh, <<delegator, v>>, 1, 1)
    IN /\ normalized' = WithRuleset(v, s) /\ AddedTo(normalized, normalized', s, r, x)
       /\ r.n = fresh /\ x.n = fresh /\ (s \in DOMAIN normalized.setRules \/ s.n = fresh)
       /\ normalized'.setRules[s].delegator =
              IF s \in DOMAIN normalized.setRules THEN normalized.setRules[s].delegator ELSE delegator
       /\ edit' = IF EditMode THEN [edit EXCEPT !.modified = TRUE] ELSE [ruleset |-> r, modified |-> FALSE]
       /\ slips' = slips \cup Touches
              \cup (IF EditMode THEN {"added beside an edit"} ELSE {})
              \cup (IF shownFor # loadedFor \/ loadedFor.delegator # username
                    THEN {"added elsewhere"} ELSE {})

LEMMA AddAnswerAdds ==
    ASSUME BothOK, ChoicesOK, NEW v \in Accounts, AddAnswer(v), ~Jammed
    PROVE  \E s : AddStep(v, s)
<1>. DEFINE own == {t \in DOMAIN normalized.setRules : normalized.setRules[t].voter = v}
<1>1. delegator \in Accounts /\ fresh \in Nat /\ StoreOK(normalized, fresh)
  BY DEF AddAnswer, ChoicesOK, BothOK
<1>2. PICK s \in (IF own = {} THEN {Id(fresh, <<delegator, v>>, 0, 0)} ELSE own) :
          /\ normalized' = WithRuleset(v, s)
          /\ edit' = IF EditMode THEN [edit EXCEPT !.modified = TRUE]
                     ELSE [ruleset |-> Id(fresh, <<delegator, v>>, 1, 0), modified |-> FALSE]
          /\ slips' = slips \cup Touches
                 \cup (IF EditMode THEN {"added beside an edit"} ELSE {})
                 \cup (IF shownFor # loadedFor \/ loadedFor.delegator # username
                       THEN {"added elsewhere"} ELSE {})
  BY DEF AddAnswer
<1>. HIDE DEF own
<1>3. own = {t \in DOMAIN normalized.setRules : normalized.setRules[t].voter = v}
  BY DEF own
<1>. DEFINE r == Id(fresh, <<delegator, v>>, 1, 0)
            x == Id(fresh, <<delegator, v>>, 1, 1)
<1>4. /\ AddedTo(normalized, WithRuleset(v, s), s, r, x)
      /\ r.n = fresh /\ x.n = fresh /\ (s \in DOMAIN normalized.setRules \/ s.n = fresh)
      /\ WithRuleset(v, s).setRules[s].delegator =
            IF s \in DOMAIN normalized.setRules THEN normalized.setRules[s].delegator ELSE delegator
  BY <1>1, <1>2, <1>3, WithRulesetAdds
<1>5. AddStep(v, s)
  BY <1>2, <1>4 DEF AddStep
<1>. QED BY <1>5

LEMMA JammedAdd ==
    ASSUME NEW v, AddAnswer(v), Jammed
    PROVE  /\ normalized' = [normalized EXCEPT !.rules =
                  Put(@, Id(fresh, <<delegator, v>>, 1, 1), DefaultRule.first_post)]
           /\ UNCHANGED <<edit, slips>>
  BY DEF AddAnswer

LEMMA AddKeepsBoth ==
    ASSUME BothOK, ChoicesOK, NEW v \in Accounts, AddAnswer(v)
    PROVE  BothOK'
<1>1. fresh' = fresh + 1 /\ backup' = backup /\ fresh \in Nat
  BY DEF AddAnswer, BothOK
<1>2. StoreOK(backup, fresh + 1)
  BY DEF BothOK, StoreOK, StoreUsed
<1>3. CASE Jammed
  <2>. DEFINE x == Id(fresh, <<delegator, v>>, 1, 1)
              new == [normalized EXCEPT !.rules = Put(@, x, DefaultRule.first_post)]
  <2>1. x.n = fresh /\ normalized' = new
    BY <1>3, IdFields, JammedAdd
  <2>2. StoreOK(new, fresh + 1) /\ new.rulesets = normalized.rulesets
    BY <1>1, <2>1, OrphanKeepsStore DEF BothOK
  <2>. HIDE DEF new
  <2>3. AllApart(new, backup)
    BY <2>2 DEF BothOK, AllApart, RulesApart, RulesOf
  <2>. QED BY <1>1, <1>2, <2>1, <2>2, <2>3 DEF BothOK
<1>4. CASE ~Jammed
  <2>1. PICK s : AddStep(v, s)
    BY <1>4, AddAnswerAdds
  <2>. DEFINE r == Id(fresh, <<delegator, v>>, 1, 0)
              x == Id(fresh, <<delegator, v>>, 1, 1)
              new == WithRuleset(v, s)
  <2>2. /\ normalized' = new /\ AddedTo(normalized, new, s, r, x) /\ r.n = fresh /\ x.n = fresh
        /\ s \in DOMAIN normalized.setRules \/ s.n = fresh
    BY <2>1 DEF AddStep
  <2>. HIDE DEF new, r, x
  <2>3. StoreOK(new, fresh + 1)
    BY <1>1, <2>2, AddKeepsStore DEF BothOK
  <2>4. AllApart(new, backup)
    BY <1>1, <2>2, AddKeepsApart DEF BothOK
  <2>. QED BY <1>1, <1>2, <2>2, <2>3, <2>4 DEF BothOK
<1>. QED BY <1>3, <1>4

LEMMA NextBothOK ==
    ASSUME BothOK, JamInv, ChainTyped, ChoicesOK, [Next]_vars
    PROVE  BothOK'
<1>1. ASSUME UNCHANGED <<normalized, backup, fresh>> PROVE BothOK'
  BY <1>1 DEF BothOK
<1>2. Quiet \/ BeginStep => UNCHANGED <<normalized, backup, fresh>>
  BY DEF Quiet, BeginStep, BeginRulesetEdit
<1>3. ASSUME fresh' = fresh, backup' = normalized', normalized' = backup \/ normalized' = normalized
      PROVE  BothOK'
  BY <1>3 DEF BothOK, AllApart
<1>4. CASE RevertChanges
  <2>1. fresh' = fresh /\ normalized' = backup /\ backup' = backup
    BY <1>4 DEF RevertChanges
  <2>. QED BY <1>3, <2>1
<1>5. CASE \E w \in saves : RulesAnswer(w)
  <2>1. fresh' = fresh /\ normalized' = normalized /\ backup' \in {backup, normalized}
    BY <1>5 DEF RulesAnswer
  <2>. QED BY <1>1, <1>3, <2>1
<1>. QED BY <1>1, <1>2, <1>4, <1>5, WhichStep, LoadKeepsBoth, EditorKeepsBoth, DeleteKeepsBoth,
            AddKeepsBoth

\* What is posted of a set of rules.
LEMMA SaveFacts ==
    ASSUME NEW nr, NEW n, StoreOK(nr, n), NEW s \in DOMAIN nr.setRules, NEW k
    PROVE  /\ SaveTyped(Save(k, nr, s)) /\ ~Save(k, nr, s).applied
           /\ <<Save(k, nr, s).owner, Save(k, nr, s).voter>> = PairOf(nr, s)
           /\ Save(k, nr, s).owner = nr.setRules[s].delegator
           /\ Save(k, nr, s).rulesets = DenormalizeSetRules(nr, s)
<1>. DEFINE w == Save(k, nr, s)
<1>1. /\ DOMAIN w = {"n", "voter", "owner", "rulesets", "applied"} /\ ~w.applied
      /\ w.voter = nr.setRules[s].voter /\ w.owner = nr.setRules[s].delegator
      /\ w.rulesets = DenormalizeSetRules(nr, s)
  BY DEF Save
<1>2. nr.setRules[s].voter \in Accounts /\ nr.setRules[s].delegator \in Accounts
  BY DEF StoreOK, StoreTyped, SetRulesTyped
<1>3. IsRulesets(DenormalizeSetRules(nr, s))
  BY PublishedIsRulesets
<1>. HIDE DEF w
<1>4. SaveTyped(w)
  BY <1>1, <1>2, <1>3 DEF SaveTyped
<1>. QED BY <1>1, <1>4 DEF w, PairOf

\* The requests to publish under way.
LEMMA WhichSave ==
    ASSUME [Next]_vars
    PROVE  \/ saves' = saves /\ chain' = chain
           \/ \E w \in saves : saves' = saves \ {w} /\ chain' = chain
           \/ SaveChanges /\ chain' = chain
           \/ DeleteStep /\ chain' = chain
           \/ \E w \in saves : PublishRules(w)
<1>. DEFINE Same == saves' = saves /\ chain' = chain
            Less == \E w \in saves : saves' = saves \ {w} /\ chain' = chain
<1>. USE DEF saveVars
<1>1. UNCHANGED vars => Same
  BY DEF vars, storeVars
<1>2. SessionNext /\ UNCHANGED storeVars => Same
  BY DEF storeVars
<1>3. (\E c \in Routes : Navigate(c)) => Same
  BY DEF Navigate
<1>4. (\E l \in loads : LoadAnswer(l) \/ LoadFails(l)) => Same
  BY DEF LoadAnswer, LoadFails
<1>5. EditorNext => Same
  BY DEF EditorNext, UpdateRule, DeleteRule, RevertRuleDeletion, AddRule, RenameRuleset, InEditor
<1>6. BeginStep => Same
  BY DEF BeginStep, BeginRulesetEdit
<1>7. RevertChanges \/ AddRuleset \/ AddFails => Same
  BY DEF RevertChanges, AddRuleset, AddFails
<1>8. (\E w \in saves : RulesAnswer(w) \/ SaveFails(w)) => Less
  BY DEF RulesAnswer, SaveFails
<1>9. (\E v \in Accounts : AddAnswer(v)) => Same
  BY DEF AddAnswer
<1>10. SaveChanges \/ DeleteStep => chain' = chain
  BY DEF SaveChanges, DeleteStep, DeleteRuleset
<1>. HIDE DEF Same, Less
<1>11. StoreNext => Same \/ Less \/ (SaveChanges /\ chain' = chain) \/ (DeleteStep /\ chain' = chain)
                    \/ \E w \in saves : PublishRules(w)
  BY <1>3, <1>4, <1>5, <1>6, <1>7, <1>8, <1>9, <1>10 DEF StoreNext, EditorNext, BeginStep, DeleteStep
<1>12. Same \/ Less \/ (SaveChanges /\ chain' = chain) \/ (DeleteStep /\ chain' = chain)
       \/ \E w \in saves : PublishRules(w)
  BY <1>1, <1>2, <1>11 DEF Next
<1>. QED BY <1>12 DEF Same, Less

\* saveChanges sends the whole set of rules of the edited ruleset.
LEMMA SaveChangesSends ==
    ASSUME BothOK, JamInv, SaveChanges
    PROVE  \E s \in DOMAIN normalized.setRules :
              /\ edit.ruleset \in RulesetsOf(normalized, s)
              /\ saves' = saves \cup {Save(clicks', normalized, s)}
<1>1. PICK s \in Owners(edit.ruleset) : saves' = saves \cup {Save(clicks', normalized, s)}
  BY DEF SaveChanges
<1>2. s \in DOMAIN normalized.setRules /\ Contains(normalized.setRules[s].rulesets, edit.ruleset)
  BY DEF Owners
<1>3. IsList(normalized.setRules[s].rulesets)
  BY <1>2 DEF BothOK, StoreOK, StoreTyped, SetRulesTyped
<1>4. edit.ruleset \in RulesetsOf(normalized, s)
  BY <1>2, <1>3, InList DEF RulesetsOf
<1>. QED BY <1>1, <1>2, <1>4

\* deleteRuleset sends what is left of the set of rules, or is refused.
LEMMA DeleteSends ==
    ASSUME BothOK, DeleteStep
    PROVE  \/ EditMode /\ UNCHANGED <<normalized, saves, slips>>
           \/ ~EditMode /\ \E s \in DOMAIN normalized.setRules :
                /\ normalized.setRules[s].delegator = username
                /\ DeletedFrom(normalized, normalized', s) /\ StoreOK(normalized', fresh)
                /\ saves' = saves \cup {Save(clicks', normalized', s)}
                /\ slips' = slips \cup Touches
<1>1. PICK s \in DOMAIN normalized.setRules :
          \E r \in ToSet(normalized.setRules[s].rulesets) : DeleteRuleset(s, r)
  BY DEF DeleteStep
<1>2. PICK r \in ToSet(normalized.setRules[s].rulesets) : DeleteRuleset(s, r)
  BY <1>1
<1>. DEFINE new == [normalized EXCEPT !.setRules[s].rulesets = RemoveFirst(@, r)]
<1>3. DeletedFrom(normalized, new, s)
  BY DeleteFacts DEF BothOK, StoreOK
<1>4. /\ EditMode => UNCHANGED <<normalized, saves, slips>>
      /\ ~EditMode => /\ normalized' = new /\ saves' = saves \cup {Save(clicks', new, s)}
                      /\ slips' = slips \cup Touches
      /\ normalized.setRules[s].delegator = username
  BY <1>2 DEF DeleteRuleset
<1>. HIDE DEF new
<1>5. StoreOK(new, fresh)
  BY <1>3, DeleteKeepsStore DEF BothOK
<1>. QED BY <1>3, <1>4, <1>5

LEMMA PublishFacts ==
    ASSUME SavesTyped, NEW w \in saves, PublishRules(w)
    PROVE  LET done == [w EXCEPT !.applied = TRUE]
           IN /\ saves' = (saves \ {w}) \cup {done} /\ SaveTyped(done) /\ done.applied
              /\ done.voter = w.voter /\ done.owner = w.owner /\ done.rulesets = w.rulesets
  BY DEF SavesTyped, SaveTyped, PublishRules

LEMMA NextSavesTyped ==
    ASSUME BothOK, JamInv, SavesTyped, [Next]_vars
    PROVE  SavesTyped'
<1>1. CASE SaveChanges
  <2>1. PICK s \in DOMAIN normalized.setRules : saves' = saves \cup {Save(clicks', normalized, s)}
    BY <1>1, SaveChangesSends
  <2>2. SaveTyped(Save(clicks', normalized, s))
    BY SaveFacts DEF BothOK
  <2>. QED BY <2>1, <2>2 DEF SavesTyped
<1>2. CASE DeleteStep
  <2>1. CASE saves' = saves
    BY <2>1 DEF SavesTyped
  <2>2. CASE \E s \in DOMAIN normalized.setRules :
                 /\ DeletedFrom(normalized, normalized', s) /\ StoreOK(normalized', fresh)
                 /\ saves' = saves \cup {Save(clicks', normalized', s)}
    <3>1. PICK s \in DOMAIN normalized.setRules :
                 /\ DeletedFrom(normalized, normalized', s) /\ StoreOK(normalized', fresh)
                 /\ saves' = saves \cup {Save(clicks', normalized', s)}
      BY <2>2
    <3>2. s \in DOMAIN normalized'.setRules
      BY <3>1 DEF DeletedFrom
    <3>3. SaveTyped(Save(clicks', normalized', s))
      BY <3>1, <3>2, SaveFacts
    <3>. QED BY <3>1, <3>3 DEF SavesTyped
  <2>. QED BY <1>2, <2>1, <2>2, DeleteSends
<1>3. ASSUME NEW w \in saves, PublishRules(w) PROVE SavesTyped'
  <2>1. saves' = (saves \ {w}) \cup {[w EXCEPT !.applied = TRUE]} /\ SaveTyped([w EXCEPT !.applied = TRUE])
    BY <1>3, PublishFacts
  <2>. QED BY <2>1 DEF SavesTyped
<1>4. CASE saves' = saves \/ \E w \in saves : saves' = saves \ {w}
  BY <1>4 DEF SavesTyped
<1>. QED BY <1>1, <1>2, <1>3, <1>4, WhichSave

LEMMA NextChainTyped ==
    ASSUME SavesTyped, ChainTyped, [Next]_vars, cookie \in Accounts \cup {None}
    PROVE  ChainTyped'
<1>1. ASSUME NEW w \in saves, PublishRules(w) PROVE ChainTyped'
  <2>1. chain' = [chain EXCEPT ![<<cookie, w.voter>>] = w.rulesets] /\ IsRulesets(w.rulesets)
    BY <1>1 DEF PublishRules, SavesTyped, SaveTyped
  <2>. QED BY <2>1 DEF ChainTyped
<1>2. CASE chain' = chain
  BY <1>2 DEF ChainTyped
<1>. QED BY <1>1, <1>2, WhichSave

LEMMA NextChoicesOK ==
    ASSUME ChoicesOK, RouteShown, [Next]_vars
    PROVE  ChoicesOK'
<1>1. ASSUME NEW c \in Routes, Navigate(c) PROVE ChoicesOK'
  <2>1. /\ adding' = adding
        /\ \/ UNCHANGED <<loadedFor, loads, delegator>>
           \/ /\ loadedFor' = c
              /\ delegator' = IF c.delegator # None THEN c.delegator ELSE delegator
              /\ loads' = loads \/ loads' = loads \cup {Load(clicks', c)}
    BY <1>1 DEF Navigate, loadVars
  <2>2. c.delegator \in Accounts \cup {None}
    BY RoutesAssumption
  <2>3. Load(clicks', c).for = c
    BY DEF Load
  <2>. QED BY <2>1, <2>2, <2>3 DEF ChoicesOK
<1>2. CASE AddRuleset
  <2>1. adding' /\ UNCHANGED <<loadedFor, loads, delegator>> /\ route.delegator # None
    BY <1>2 DEF AddRuleset, loadVars
  <2>2. route.delegator = delegator /\ route \in Routes
    BY <2>1 DEF ChoicesOK, RouteShown
  <2>3. delegator \in Accounts
    BY <2>1, <2>2, RoutesAssumption
  <2>. QED BY <2>1, <2>3 DEF ChoicesOK
<1>3. ASSUME UNCHANGED <<loadedFor, delegator>>, adding' \in {adding, FALSE}, loads' \subseteq loads
      PROVE  ChoicesOK'
  <2>1. adding' => adding
    BY <1>3
  <2>. QED BY <1>3, <2>1 DEF ChoicesOK
<1>. DEFINE Same == UNCHANGED <<loadedFor, delegator>> /\ adding' \in {adding, FALSE} /\ loads' \subseteq loads
<1>. USE DEF loadVars
<1>4. UNCHANGED vars => Same
  BY DEF vars, storeVars
<1>5. SessionNext /\ UNCHANGED storeVars => Same
  BY DEF storeVars
<1>6. (\E l \in loads : LoadAnswer(l) \/ LoadFails(l)) => Same
  BY DEF LoadAnswer, LoadFails
<1>7. EditorNext => Same
  BY DEF EditorNext, UpdateRule, DeleteRule, RevertRuleDeletion, AddRule, RenameRuleset, InEditor
<1>8. BeginStep \/ DeleteStep => Same
  BY DEF BeginStep, DeleteStep, BeginRulesetEdit, DeleteRuleset
<1>9. RevertChanges \/ SaveChanges \/ AddFails => Same
  BY DEF RevertChanges, SaveChanges, AddFails
<1>10. (\E w \in saves : PublishRules(w) \/ RulesAnswer(w) \/ SaveFails(w)) => Same
  BY DEF PublishRules, RulesAnswer, SaveFails
<1>11. (\E v \in Accounts : AddAnswer(v)) => Same
  BY DEF AddAnswer
<1>. HIDE DEF Same
<1>12. StoreNext => Same \/ AddRuleset \/ \E c \in Routes : Navigate(c)
  BY <1>6, <1>7, <1>8, <1>9, <1>10, <1>11 DEF StoreNext, EditorNext, BeginStep, DeleteStep
<1>13. Same => ChoicesOK'
  BY <1>3 DEF Same
<1>. QED BY <1>1, <1>2, <1>4, <1>5, <1>12, <1>13 DEF Next

-----------------------------------------------------------------------------
\* The accounts of the session, and the call that a spinner stands for.
Known == Accounts \cup {None}
AccountsOK ==
    /\ username \in Known /\ user.account \in Known /\ statsFor \in Known /\ cookie \in Known
    /\ \A c \in calls : c.user.account \in Known
    /\ authLoading => \E c \in calls : c.kind \in {"getUser", "logout"}

ClickOr == clicks' = clicks \/ Click

LEMMA Clicks == [Next]_vars => ClickOr
<1>. USE DEF ClickOr
<1>1. UNCHANGED vars => ClickOr
  BY DEF vars
<1>2. SessionNext => ClickOr
  BY DEF SessionNext, OpenDaemon, SaveSettings, Logout, OtherTab, Serve, UserAnswer, LogoutAnswer,
     SaveAnswer, CallFails, StatAnswer
<1>. USE DEF sessionVars
<1>3. (\E c \in Routes : Navigate(c)) \/ (\E l \in loads : LoadAnswer(l) \/ LoadFails(l)) => ClickOr
  BY DEF Navigate, LoadAnswer, LoadFails
<1>4. EditorNext => ClickOr
  BY DEF EditorNext, UpdateRule, DeleteRule, RevertRuleDeletion, AddRule, RenameRuleset, InEditor
<1>5. BeginStep \/ DeleteStep => ClickOr
  BY DEF BeginStep, DeleteStep, BeginRulesetEdit, DeleteRuleset
<1>6. RevertChanges \/ SaveChanges \/ AddRuleset \/ AddFails => ClickOr
  BY DEF RevertChanges, SaveChanges, AddRuleset, AddFails
<1>7. (\E w \in saves : PublishRules(w) \/ RulesAnswer(w) \/ SaveFails(w)) => ClickOr
  BY DEF PublishRules, RulesAnswer, SaveFails
<1>8. (\E v \in Accounts : AddAnswer(v)) => ClickOr
  BY DEF AddAnswer
<1>. HIDE DEF ClickOr
<1>9. StoreNext => ClickOr
  BY <1>3, <1>4, <1>5, <1>6, <1>7, <1>8 DEF StoreNext, EditorNext, BeginStep, DeleteStep
<1>. QED BY <1>1, <1>2, <1>9 DEF Next

LEMMA StoreKeepsLoading == StoreNext => authLoading' = authLoading
<1>. USE DEF sessionVars, authVars
<1>1. (\E c \in Routes : Navigate(c)) \/ (\E l \in loads : LoadAnswer(l) \/ LoadFails(l))
          => authLoading' = authLoading
  BY DEF Navigate, LoadAnswer, LoadFails
<1>2. EditorNext => authLoading' = authLoading
  BY DEF EditorNext, UpdateRule, DeleteRule, RevertRuleDeletion, AddRule, RenameRuleset, InEditor
<1>3. BeginStep \/ DeleteStep => authLoading' = authLoading
  BY DEF BeginStep, DeleteStep, BeginRulesetEdit, DeleteRuleset
<1>4. RevertChanges \/ SaveChanges \/ AddRuleset \/ AddFails => authLoading' = authLoading
  BY DEF RevertChanges, SaveChanges, AddRuleset, AddFails
<1>5. (\E w \in saves : PublishRules(w) \/ RulesAnswer(w) \/ SaveFails(w)) => authLoading' = authLoading
  BY DEF PublishRules, RulesAnswer, SaveFails
<1>6. (\E v \in Accounts : AddAnswer(v)) => authLoading' = authLoading
  BY DEF AddAnswer
<1>. QED BY <1>1, <1>2, <1>3, <1>4, <1>5, <1>6 DEF StoreNext, EditorNext, BeginStep, DeleteStep

LEMMA CallUser ==
    ASSUME NEW kind, NEW n, NEW arg, NEW from
    PROVE  Call(kind, n, arg, from).user = NoUser
  BY DEF Call

LEMMA NoUserKnown == NoUser.account \in Known
  BY DEF NoUser, Known

\* Every call that is sent knows no user yet.
Fresh(c) == c.user = NoUser
LEMMA ShowSends ==
    ASSUME NEW u, NEW p, NEW others, Show(u, p, others)
    PROVE  user' = u /\ others \subseteq calls' /\ \A c \in calls' : c \in others \/ Fresh(c)
<1>. DEFINE save == Call("save", clicks', TRUE, clicks')
<1>1. user' = u /\ (calls' = others \/ calls' = others \cup {save})
  BY DEF Show
<1>2. Fresh(save)
  BY CallUser DEF Fresh
<1>. HIDE DEF save
<1>. QED BY <1>1, <1>2

LEMMA SameAccounts ==
    ASSUME AccountsOK, UNCHANGED <<username, statsFor, cookie>>, user'.account \in Known,
           calls \subseteq calls', \A c \in calls' : c \in calls \/ Fresh(c),
           authLoading' => authLoading \/ \E c \in calls' : c.kind \in {"getUser", "logout"}
    PROVE  AccountsOK'
<1>1. \A c \in calls' : c.user.account \in Known
  BY NoUserKnown DEF AccountsOK, Fresh
<1>. QED BY <1>1 DEF AccountsOK, Known

LEMMA NextAccountsOK ==
    ASSUME AccountsOK, CallsOK, [Next]_vars
    PROVE  AccountsOK'
<1>1. ASSUME NEW a, NEW query, OpenDaemon(a, query) PROVE AccountsOK'
  <2>1. /\ Show(user, [account |-> a, query |-> query], calls)
        /\ UNCHANGED <<username, authLoading, statsFor, cookie>>
    BY <1>1 DEF OpenDaemon, statusVars, serverVars
  <2>2. user' = user /\ calls \subseteq calls' /\ \A c \in calls' : c \in calls \/ Fresh(c)
    BY <2>1, ShowSends
  <2>. QED BY <2>1, <2>2, SameAccounts DEF AccountsOK
<1>2. ASSUME NEW on, SaveSettings(on) PROVE AccountsOK'
  <2>1. /\ calls' = calls \cup {Call("save", clicks', on, settings.n)}
        /\ UNCHANGED <<username, user, authLoading, statsFor, cookie>>
    BY <1>2 DEF SaveSettings, statusVars, serverVars, authVars
  <2>2. Fresh(Call("save", clicks', on, settings.n))
    BY CallUser DEF Fresh
  <2>. QED BY <2>1, <2>2, SameAccounts DEF AccountsOK
<1>3. CASE Logout
  <2>. DEFINE new == Call("logout", clicks', FALSE, 0)
  <2>1. calls' = calls \cup {new} /\ UNCHANGED <<username, user, statsFor, cookie>>
    BY <1>3 DEF Logout, statusVars, serverVars
  <2>2. Fresh(new)
    BY CallUser DEF Fresh
  <2>3. new.kind = "logout"
    BY DEF Call
  <2>. HIDE DEF new
  <2>. QED BY <2>1, <2>2, <2>3, SameAccounts DEF AccountsOK
<1>4. ASSUME NEW a \in Known, OtherTab(a) PROVE AccountsOK'
  <2>1. cookie' = a /\ UNCHANGED <<username, user, authLoading, calls, statsFor>>
    BY <1>4 DEF OtherTab, authVars, statusVars
  <2>. QED BY <1>4, <2>1 DEF AccountsOK, Known
<1>5. ASSUME NEW c \in calls, Serve(c) PROVE AccountsOK'
  <2>. DEFINE u == IF c.kind = "getUser" /\ cookie # None
                   THEN [account |-> cookie, enabled |-> daemonOn[cookie]] ELSE NoUser
              d == [c EXCEPT !.reply = IF c.kind = "save" /\ cookie = None THEN "refused" ELSE "served",
                             !.user = u]
  <2>1. d.user = u /\ d.kind = c.kind
    BY DEF CallsOK, IsCall
  <2>2. u.account \in Known
    BY NoUserKnown DEF AccountsOK
  <2>3. calls' = (calls \ {c}) \cup {d} /\ UNCHANGED <<username, user, authLoading, statsFor>>
    BY <1>5 DEF Serve, authVars, statusVars
  <2>4. cookie' \in Known
    BY <1>5 DEF Serve, AccountsOK, Known
  <2>. HIDE DEF d, u
  <2>5. \A o \in calls' : o.user.account \in Known
    BY <2>1, <2>2, <2>3 DEF AccountsOK
  <2>6. authLoading => \E o \in calls' : o.kind \in {"getUser", "logout"}
    BY <2>1, <2>3 DEF AccountsOK
  <2>7. username \in Known /\ user.account \in Known /\ statsFor \in Known
    BY DEF AccountsOK
  <2>. QED BY <2>3, <2>4, <2>5, <2>6, <2>7 DEF AccountsOK, Known
<1>6. ASSUME NEW c \in calls, UserAnswer(c) PROVE AccountsOK'
  <2>. DEFINE asks == IF c.user = NoUser THEN {} ELSE StatCalls(c.user.account, c.n)
  <2>1. /\ ~authLoading' /\ username' = c.user.account /\ cookie' = cookie
        /\ Show(c.user, page, (calls \ {c}) \cup asks)
        /\ statsFor' \in {statsFor, c.user.account}
    BY <1>6 DEF UserAnswer, serverVars
  <2>2. \A o \in asks : Fresh(o)
    BY CallUser DEF StatCalls, Fresh
  <2>. HIDE DEF asks
  <2>3. user' = c.user /\ \A o \in calls' : o \in (calls \ {c}) \cup asks \/ Fresh(o)
    BY <2>1, ShowSends
  <2>4. \A o \in calls' : o \in calls \/ Fresh(o)
    BY <2>2, <2>3
  <2>5. \A o \in calls' : o.user.account \in Known
    BY <2>4, NoUserKnown DEF Fresh, AccountsOK
  <2>6. c.user.account \in Known /\ statsFor \in Known /\ cookie \in Known
    BY DEF AccountsOK
  <2>. QED BY <2>1, <2>3, <2>5, <2>6 DEF AccountsOK, Known
<1>7. ASSUME NEW c \in calls, LogoutAnswer(c) PROVE AccountsOK'
  <2>1. /\ ~authLoading' /\ username' = None /\ Show(NoUser, page, calls \ {c})
        /\ UNCHANGED <<statsFor, cookie>>
    BY <1>7 DEF LogoutAnswer, statusVars, serverVars
  <2>2. user' = NoUser /\ \A o \in calls' : o \in calls \/ Fresh(o)
    BY <2>1, ShowSends
  <2>3. \A o \in calls' : o.user.account \in Known
    BY <2>2, NoUserKnown DEF Fresh, AccountsOK
  <2>4. statsFor \in Known /\ cookie \in Known /\ None \in Known
    BY DEF AccountsOK, Known
  <2>. QED BY <2>1, <2>2, <2>3, <2>4, NoUserKnown DEF AccountsOK, Known
<1>8. ASSUME NEW c \in calls, SaveAnswer(c) PROVE AccountsOK'
  <2>. DEFINE new == Call("getUser", c.n, FALSE, 0)
  <2>1. calls' = (calls \ {c}) \cup {new} /\ UNCHANGED <<username, user, statsFor, cookie>>
    BY <1>8 DEF SaveAnswer, statusVars, serverVars
  <2>2. new.user = NoUser
    BY CallUser
  <2>4. new.kind = "getUser"
    BY DEF Call
  <2>. HIDE DEF new
  <2>3. (\A o \in calls' : o.user.account \in Known) /\ \E o \in calls' : o.kind = "getUser"
    BY <2>1, <2>2, <2>4, NoUserKnown DEF AccountsOK
  <2>. QED BY <2>1, <2>3 DEF AccountsOK, Known
<1>9. ASSUME NEW c \in calls, CallFails(c) PROVE AccountsOK'
  <2>. DEFINE u == IF c.kind = "getUser" THEN NoUser ELSE user
  <2>1. /\ authLoading' = (authLoading /\ c.kind = "save")
        /\ username' = IF c.kind = "getUser" THEN None ELSE username
        /\ Show(u, page, calls \ {c}) /\ UNCHANGED <<statsFor, cookie>>
    BY <1>9 DEF CallFails, statusVars, serverVars
  <2>2. u.account \in Known
    BY NoUserKnown DEF AccountsOK
  <2>. HIDE DEF u
  <2>3. user' = u /\ calls \ {c} \subseteq calls' /\ \A o \in calls' : o \in calls \/ Fresh(o)
    BY <2>1, ShowSends
  <2>4. \A o \in calls' : o.user.account \in Known
    BY <2>3, NoUserKnown DEF Fresh, AccountsOK
  <2>5. authLoading' => \E o \in calls' : o.kind \in {"getUser", "logout"}
    BY <2>1, <2>3 DEF AccountsOK
  <2>6. username' \in Known /\ statsFor \in Known /\ cookie \in Known
    BY <2>1 DEF AccountsOK, Known
  <2>. QED BY <2>1, <2>2, <2>3, <2>4, <2>5, <2>6 DEF AccountsOK, Known
<1>10. ASSUME NEW c \in calls, NEW ok, StatAnswer(c, ok) PROVE AccountsOK'
  <2>1. /\ calls' = calls \ {c} /\ c.kind \in Stats \cup General
        /\ UNCHANGED <<username, user, authLoading, statsFor, cookie>>
    BY <1>10 DEF StatAnswer, authVars, serverVars
  <2>2. c.kind \notin {"getUser", "logout"}
    BY <2>1, KindsAssumption
  <2>. QED BY <2>1, <2>2 DEF AccountsOK, Known
<1>11. CASE StoreNext \/ UNCHANGED vars
  <2>1. UNCHANGED <<username, user, calls, cookie, statsFor>>
    BY <1>11, StoreFrame DEF vars, sessionVars, authVars, serverVars, statusVars
  <2>2. authLoading' = authLoading
    BY <1>11, StoreKeepsLoading DEF vars, sessionVars, authVars
  <2>. QED BY <2>1, <2>2 DEF AccountsOK, Known
<1>12. SessionNext => AccountsOK'
  BY <1>1, <1>2, <1>3, <1>4, <1>5, <1>6, <1>7, <1>8, <1>9, <1>10 DEF SessionNext, Known
<1>. QED BY <1>11, <1>12 DEF Next

-----------------------------------------------------------------------------
\* A spinner has a request behind it, unless the editor is jammed.
Awaited == (loading => loads # {}) /\ (publish.loading => saves # {} \/ Jammed)

LEMMA WhichLoads ==
    ASSUME [Next]_vars
    PROVE  UNCHANGED <<loading, loads>> \/ loads' # {} \/ ~loading'
<1>. DEFINE R == UNCHANGED <<loading, loads>> \/ loads' # {} \/ ~loading'
<1>. USE DEF loadVars
<1>1. UNCHANGED vars => R
  BY DEF vars, storeVars
<1>2. SessionNext /\ UNCHANGED storeVars => R
  BY DEF storeVars
<1>3. (\E c \in Routes : Navigate(c)) => R
  BY DEF Navigate
<1>4. (\E l \in loads : LoadAnswer(l) \/ LoadFails(l)) => R
  BY DEF LoadAnswer, LoadFails
<1>5. EditorNext => R
  BY DEF EditorNext, UpdateRule, DeleteRule, RevertRuleDeletion, AddRule, RenameRuleset, InEditor
<1>6. BeginStep \/ DeleteStep => R
  BY DEF BeginStep, DeleteStep, BeginRulesetEdit, DeleteRuleset
<1>7. RevertChanges \/ SaveChanges \/ AddRuleset \/ AddFails => R
  BY DEF RevertChanges, SaveChanges, AddRuleset, AddFails
<1>8. (\E w \in saves : PublishRules(w) \/ RulesAnswer(w) \/ SaveFails(w)) => R
  BY DEF PublishRules, RulesAnswer, SaveFails
<1>9. (\E v \in Accounts : AddAnswer(v)) => R
  BY DEF AddAnswer
<1>. HIDE DEF R
<1>10. StoreNext => R
  BY <1>3, <1>4, <1>5, <1>6, <1>7, <1>8, <1>9 DEF StoreNext, EditorNext, BeginStep, DeleteStep
<1>11. R
  BY <1>1, <1>2, <1>10 DEF Next
<1>. QED BY <1>11 DEF R

LEMMA ProgressShown ==
    ASSUME NEW a, NEW b, NEW c
    PROVE  [loading |-> a, error |-> b, result |-> c].loading = a
  OBVIOUS

LEMMA WhichPublishes ==
    ASSUME [Next]_vars
    PROVE  UNCHANGED <<publish, saves>> \/ saves' # {} \/ ~publish'.loading \/ Jammed
<1>. DEFINE R == UNCHANGED <<publish, saves>> \/ saves' # {} \/ ~publish'.loading \/ Jammed
<1>. USE DEF saveVars
<1>1. UNCHANGED vars => R
  BY DEF vars, storeVars
<1>2. SessionNext /\ UNCHANGED storeVars => R
  BY DEF storeVars
<1>3. (\E c \in Routes : Navigate(c)) => R
  BY DEF Navigate
<1>4. (\E l \in loads : LoadAnswer(l) \/ LoadFails(l)) => R
  BY DEF LoadAnswer, LoadFails
<1>5. EditorNext => R
  BY DEF EditorNext, UpdateRule, DeleteRule, RevertRuleDeletion, AddRule, RenameRuleset, InEditor
<1>6. BeginStep => R
  BY DEF BeginStep, BeginRulesetEdit
<1>7. ASSUME NEW s, NEW r, DeleteRuleset(s, r) PROVE R
  <2>1. CASE EditMode
    <3>1. publish'.loading = (EditMode => Jammed)
      BY <1>7, ProgressShown DEF DeleteRuleset
    <3>. QED BY <2>1, <3>1
  <2>2. CASE ~EditMode
    BY <1>7, <2>2 DEF DeleteRuleset
  <2>. QED BY <2>1, <2>2
<1>8. RevertChanges \/ AddRuleset \/ AddFails => R
  BY DEF RevertChanges, AddRuleset, AddFails
<1>9. SaveChanges => R
  BY DEF SaveChanges
<1>10. (\E w \in saves : PublishRules(w)) => R
  BY DEF PublishRules
<1>11. ASSUME NEW w \in saves, RulesAnswer(w) \/ SaveFails(w) PROVE R
  <2>1. \E b, c : publish' = [loading |-> FALSE, error |-> b, result |-> c]
    BY <1>11, Zenon DEF RulesAnswer, SaveFails
  <2>. QED BY <2>1, ProgressShown
<1>12. (\E v \in Accounts : AddAnswer(v)) => R
  BY DEF AddAnswer
<1>. HIDE DEF R
<1>13. StoreNext => R
  BY <1>3, <1>4, <1>5, <1>6, <1>7, <1>8, <1>9, <1>10, <1>11, <1>12
     DEF StoreNext, EditorNext, BeginStep
<1>14. R
  BY <1>1, <1>2, <1>13 DEF Next
<1>. QED BY <1>14 DEF R

LEMMA NextAwaited ==
    ASSUME JamInv, Awaited, [Next]_vars
    PROVE  Awaited'
<1>1. Jammed => Jammed'
  BY NextJam
<1>. QED BY <1>1, WhichLoads, WhichPublishes DEF Awaited

ClicksOK == clicks \in 0 .. MaxClicks
LEMMA NextClicksOK ==
    ASSUME ClicksOK, [Next]_vars
    PROVE  ClicksOK'
  BY Clicks, ClicksAssumption DEF ClicksOK, ClickOr, Click

-----------------------------------------------------------------------------
(* The inductive invariant behind the types.  Each part is kept by every   *)
(* step given the others, JamInv and ShownInv.                             *)
StoreInv ==
    /\ BothOK /\ ChainTyped /\ SavesTyped /\ ChoicesOK /\ AccountsOK /\ Awaited /\ ClicksOK

LEMMA EmptyOK == StoreOK(Empty, 1) /\ AllApart(Empty, Empty)
<1>1. /\ DOMAIN Empty.rules = {} /\ DOMAIN Empty.rulesets = {} /\ DOMAIN Empty.setRules = {}
      /\ Empty = Entities(Empty.rules, Empty.rulesets, Empty.setRules)
  BY DEF Empty, Entities
<1>. QED BY <1>1 DEF StoreOK, StoreTyped, Resolves, SetRulesApart, StoreUsed, AllApart, RulesApart

LEMMA FirstChainTyped == Init => ChainTyped
<1>. SUFFICES ASSUME Init PROVE ChainTyped
  OBVIOUS
<1>1. chain = [p \in Pairs |-> IF p \in DOMAIN FirstChain THEN FirstChain[p] ELSE <<>>]
  BY DEF Init, StoreInit
<1>2. IsRulesets(<<>>)
  <2>1. IsList(<<>>)
    BY DEF IsList, ToSet
  <2>. QED BY <2>1 DEF IsRulesets
<1>. QED BY <1>1, <1>2, FirstChainAssumption DEF ChainTyped

LEMMA InitAccountsOK == Init => AccountsOK
<1>. SUFFICES ASSUME Init PROVE AccountsOK
  OBVIOUS
<1>. DEFINE first == Call("getUser", 0, FALSE, 0)
<1>1. /\ cookie \in Cookies /\ username \in {None, cookie} /\ user = NoUser /\ statsFor = None
      /\ calls = {first} \cup {Call(s, 0, None, 0) : s \in General}
  BY DEF Init, SessionInit
<1>2. \A c \in calls : c.user = NoUser
  BY <1>1, CallUser
<1>3. first.kind = "getUser"
  BY DEF Call
<1>. HIDE DEF first
<1>4. cookie \in Known /\ None \in Known
  BY <1>1, AccountsAssumption DEF Known
<1>. QED BY <1>1, <1>2, <1>3, <1>4, NoUserKnown DEF AccountsOK

LEMMA InitStoreInv == Init => StoreInv
<1>. SUFFICES ASSUME Init PROVE StoreInv
  OBVIOUS
<1>1. /\ normalized = Empty /\ backup = Empty /\ fresh = 1 /\ saves = {} /\ ~adding
      /\ loadedFor = route /\ route \in Routes /\ delegator = route.delegator
      /\ loads = {Load(0, route)} /\ ~publish.loading /\ clicks = 0
  BY DEF Init, StoreInit, SessionInit
<1>2. BothOK
  BY <1>1, EmptyOK DEF BothOK
<1>3. ChoicesOK
  <2>1. Load(0, route).for = route
    BY DEF Load
  <2>. QED BY <1>1, <2>1 DEF ChoicesOK
<1>4. SavesTyped /\ Awaited /\ ClicksOK
  BY <1>1, ClicksAssumption DEF SavesTyped, Awaited, ClicksOK
<1>. QED BY <1>2, <1>3, <1>4, FirstChainTyped, InitAccountsOK DEF StoreInv

LEMMA FrontendStoreInv == Spec => []StoreInv
<1>1. JamInv /\ ShownInv /\ StoreInv /\ [Next]_vars => StoreInv'
  <2>. SUFFICES ASSUME JamInv, ShownInv, StoreInv, [Next]_vars PROVE StoreInv'
    OBVIOUS
  <2>1. BothOK /\ ChainTyped /\ SavesTyped /\ ChoicesOK /\ AccountsOK /\ Awaited /\ ClicksOK
        /\ CallsOK /\ RouteShown
    BY DEF StoreInv, ShownInv
  <2>2. cookie \in Accounts \cup {None}
    BY <2>1 DEF AccountsOK, Known
  <2>3. BothOK' /\ ChainTyped' /\ SavesTyped' /\ ChoicesOK'
    BY <2>1, <2>2, NextBothOK, NextChainTyped, NextSavesTyped, NextChoicesOK
  <2>4. AccountsOK' /\ Awaited' /\ ClicksOK'
    BY <2>1, NextAccountsOK, NextAwaited, NextClicksOK
  <2>. QED BY <2>3, <2>4 DEF StoreInv
<1>. QED BY <1>1, InitStoreInv, FrontendJamInv, FrontendShownInv, PTL DEF Spec

-----------------------------------------------------------------------------
(* Whose rulesets are on the page.  Those of the delegator whose rulesets  *)
(* were loaded, unless one was added to a page that had moved on.          *)
DelegatorIs(nr, d) == d # None => \A s \in DOMAIN nr.setRules : nr.setRules[s].delegator = d
PageOK ==
    "added elsewhere" \notin slips =>
        DelegatorIs(normalized, shownFor.delegator) /\ DelegatorIs(backup, shownFor.delegator)

\* Who changes the choice whose rulesets are shown.
LEMMA ShownForKept ==
    ASSUME [Next]_vars
    PROVE  shownFor' = shownFor \/ \E l \in loads : LoadAnswer(l)
<1>. USE DEF loadVars
<1>1. UNCHANGED vars \/ (SessionNext /\ UNCHANGED storeVars) => shownFor' = shownFor
  BY DEF vars, storeVars
<1>2. (\E c \in Routes : Navigate(c)) \/ (\E l \in loads : LoadFails(l)) => shownFor' = shownFor
  BY DEF Navigate, LoadFails
<1>3. EditorNext => shownFor' = shownFor
  BY DEF EditorNext, UpdateRule, DeleteRule, RevertRuleDeletion, AddRule, RenameRuleset, InEditor
<1>4. BeginStep \/ DeleteStep => shownFor' = shownFor
  BY DEF BeginStep, DeleteStep, BeginRulesetEdit, DeleteRuleset
<1>5. RevertChanges \/ SaveChanges \/ AddRuleset \/ AddFails => shownFor' = shownFor
  BY DEF RevertChanges, SaveChanges, AddRuleset, AddFails
<1>6. (\E w \in saves : PublishRules(w) \/ RulesAnswer(w) \/ SaveFails(w)) => shownFor' = shownFor
  BY DEF PublishRules, RulesAnswer, SaveFails
<1>7. (\E v \in Accounts : AddAnswer(v)) => shownFor' = shownFor
  BY DEF AddAnswer
<1>. QED BY <1>1, <1>2, <1>3, <1>4, <1>5, <1>6, <1>7
         DEF Next, StoreNext, EditorNext, BeginStep, DeleteStep

LEMMA LoadedDelegator ==
    ASSUME ChainTyped, NEW c, NEW n
    PROVE  DelegatorIs(Normalize(c, n), c.delegator)
<1>. DEFINE nr == Normalize(c, n)
<1>1. DOMAIN nr.setRules = SetRulesIds(c, n)
  BY NormalizeShape
<1>. HIDE DEF nr
<1>2. ASSUME c.delegator # None, NEW s \in SetRulesIds(c, n)
      PROVE  nr.setRules[s].delegator = c.delegator
  <2>1. PairOf(nr, s) = s.p
    BY LoadedSetRules DEF nr
  <2>2. s.p \in Listed(c)
    BY SetRulesIdFacts
  <2>3. s.p[1] = c.delegator
    BY <1>2, <2>2, ListedFacts
  <2>. QED BY <2>1, <2>3 DEF PairOf
<1>3. DelegatorIs(nr, c.delegator)
  BY <1>1, <1>2 DEF DelegatorIs
<1>. QED BY <1>3 DEF nr

\* The sets of rules after an edit, and after a deletion, are those before.
LEMMA EditorFrame ==
    ASSUME BothOK, EditorNext
    PROVE  /\ normalized'.setRules = normalized.setRules /\ backup' = backup /\ ~Jammed /\ EditMode
           /\ edit'.ruleset = edit.ruleset \/ "ruleset" \notin DOMAIN edit
           /\ saves' = saves /\ adding' = adding /\ chain' = chain
<1>1. InEditor
  BY EditorEdits
<1>2. PICK new : \E ids : EditorStep(new, ids)
  BY EditorEdits
<1>3. new.setRules = normalized.setRules /\ Change(new)
  BY <1>2 DEF EditorStep, EditOf
<1>4. edit' = [edit EXCEPT !.modified = new # backup] /\ normalized' = new
  BY <1>3 DEF Change
<1>5. edit'.ruleset = edit.ruleset \/ "ruleset" \notin DOMAIN edit
  BY <1>4
<1>. QED BY <1>1, <1>3, <1>4, <1>5 DEF InEditor, saveVars

LEMMA DeleteFrame ==
    ASSUME BothOK, DeleteStep
    PROVE  /\ backup' = backup /\ edit' = edit /\ adding' = adding /\ chain' = chain
           /\ normalized' = normalized \/ \E s : DeletedFrom(normalized, normalized', s)
<1>1. backup' = backup /\ edit' = edit /\ adding' = adding /\ chain' = chain
  BY DEF DeleteStep, DeleteRuleset
<1>. QED BY <1>1, DeleteSends

LEMMA NextPageOK ==
    ASSUME PageOK, JamInv, BothOK, ChainTyped, ChoicesOK, [Next]_vars
    PROVE  PageOK'
<1>0. slips \subseteq slips'
  BY SlipsGrow
<1>1. ASSUME NEW l \in loads, LoadAnswer(l) PROVE PageOK'
  <2>1. normalized' = Normalize(l.for, fresh) /\ backup' = normalized' /\ shownFor' = l.for
    BY <1>1 DEF LoadAnswer
  <2>. QED BY <2>1, LoadedDelegator DEF PageOK
<1>2. ASSUME shownFor' = shownFor,
             normalized' \in {normalized, backup} \/ normalized'.setRules = normalized.setRules,
             backup' \in {normalized, backup}
      PROVE  PageOK'
  BY <1>0, <1>2 DEF PageOK, DelegatorIs
<1>3. ASSUME shownFor' = shownFor, DeleteStep PROVE PageOK'
  <2>1. \A s : DeletedFrom(normalized, normalized', s)
               => \A t \in DOMAIN normalized'.setRules :
                     /\ t \in DOMAIN normalized.setRules
                     /\ normalized'.setRules[t].delegator = normalized.setRules[t].delegator
    BY DEF DeletedFrom, PairOf
  <2>. QED BY <1>0, <1>3, <2>1, DeleteFrame DEF PageOK, DelegatorIs
<1>4. ASSUME shownFor' = shownFor, NEW v \in Accounts, AddAnswer(v) PROVE PageOK'
  <2>1. CASE Jammed
    <3>1. normalized'.setRules = normalized.setRules
      BY <1>4, <2>1, JammedAdd DEF BothOK, StoreOK, StoreTyped, Entities
    <3>2. backup' = backup
      BY <1>4 DEF AddAnswer
    <3>. QED BY <1>2, <1>4, <3>1, <3>2
  <2>2. CASE ~Jammed
    <3>1. PICK s : AddStep(v, s)
      BY <1>4, <2>2, AddAnswerAdds
    <3>2. /\ \A t \in DOMAIN normalized'.setRules \ {s} :
                 t \in DOMAIN normalized.setRules /\ normalized'.setRules[t] = normalized.setRules[t]
          /\ normalized'.setRules[s].delegator =
                 IF s \in DOMAIN normalized.setRules THEN normalized.setRules[s].delegator ELSE delegator
          /\ shownFor # loadedFor => "added elsewhere" \in slips'
      BY <3>1 DEF AddStep, AddedTo
    <3>3. "added elsewhere" \notin slips' /\ shownFor.delegator # None
            => delegator = shownFor.delegator
      BY <3>2 DEF ChoicesOK
    <3>4. backup' = backup
      BY <1>4 DEF AddAnswer
    <3>. QED BY <1>0, <1>4, <3>2, <3>3, <3>4 DEF PageOK, DelegatorIs
  <2>. QED BY <2>1, <2>2
<1>5. Quiet \/ BeginStep => normalized' = normalized /\ backup' = backup
  BY DEF Quiet, BeginStep, BeginRulesetEdit
<1>6. RevertChanges => normalized' = backup /\ backup' = backup
  BY DEF RevertChanges
<1>7. (\E w \in saves : RulesAnswer(w)) => normalized' = normalized /\ backup' \in {backup, normalized}
  BY DEF RulesAnswer
<1>8. EditorNext => normalized'.setRules = normalized.setRules /\ backup' = backup
  BY EditorFrame
<1>9. ASSUME shownFor' = shownFor PROVE PageOK'
  BY <1>1, <1>2, <1>3, <1>4, <1>5, <1>6, <1>7, <1>8, <1>9, WhichStep
<1>. QED BY <1>1, <1>9, ShownForKept

-----------------------------------------------------------------------------
(* Whose rules are published.  A tab that no other tab and no failure      *)
(* interferes with has one account: the cookie may go, but no other comes. *)
Strays == {"other tab", "call failed", "added elsewhere", "added beside an edit"}
Alone  == cookie # None /\ slips \cap Strays = {}

SessionOne ==
    Alone => /\ username \in {None, cookie}
             /\ \A c \in calls : c.reply = "served" =>
                   (c.kind = "getUser" => c.user.account = cookie) /\ c.kind # "logout"
FormOne  == Alone /\ adding => username = cookie
SavesOne == Alone => \A w \in saves : w.owner = cookie
EditOne  == Alone /\ EditMode =>
                \A s \in DOMAIN normalized.setRules :
                    edit.ruleset \in RulesetsOf(normalized, s)
                        => normalized.setRules[s].delegator = cookie

LEMMA CookieKept ==
    ASSUME [Next]_vars
    PROVE  cookie' = cookie \/ cookie' = None \/ "other tab" \in slips'
<1>. USE DEF serverVars
<1>1. StoreNext => cookie' = cookie
  BY StoreFrame
<1>2. UNCHANGED vars => cookie' = cookie
  BY DEF vars, sessionVars
<1>3. (\E a \in Known : OtherTab(a)) => "other tab" \in slips'
  BY DEF OtherTab
<1>4. ASSUME NEW c, Serve(c) PROVE cookie' = cookie \/ cookie' = None
  BY <1>4 DEF Serve
<1>5. SessionNext => cookie' = cookie \/ cookie' = None \/ "other tab" \in slips'
  BY <1>3, <1>4 DEF SessionNext, Known, OpenDaemon, SaveSettings, Logout, UserAnswer, LogoutAnswer,
     SaveAnswer, CallFails, StatAnswer
<1>. QED BY <1>1, <1>2, <1>5 DEF Next

LEMMA AloneBefore ==
    ASSUME [Next]_vars, Alone'
    PROVE  Alone /\ cookie' = cookie
  BY CookieKept, SlipsGrow DEF Alone, Strays

\* Calls are sent unserved, and the account changes with an answer only.
LEMMA SameSessionOne ==
    ASSUME SessionOne, [Next]_vars,
           Alone => /\ username' \in {username, None}
                    /\ \A c \in calls' : c \in calls \/ c.reply # "served"
    PROVE  SessionOne'
  BY AloneBefore DEF SessionOne

LEMMA NextSessionOne ==
    ASSUME SessionOne, CallsOK, [Next]_vars
    PROVE  SessionOne'
<1>1. ASSUME NEW a, NEW query, OpenDaemon(a, query) PROVE SessionOne'
  <2>1. Show(user, [account |-> a, query |-> query], calls) /\ username' = username
    BY <1>1 DEF OpenDaemon
  <2>2. \A c \in calls' : c \in calls \/ c.reply = "sent"
    BY <2>1, ShowFacts DEF Sent
  <2>. QED BY <2>1, <2>2, SameSessionOne
<1>2. ASSUME NEW on, SaveSettings(on) PROVE SessionOne'
  <2>1. calls' = calls \cup {Call("save", clicks', on, settings.n)} /\ username' = username
    BY <1>2 DEF SaveSettings, authVars
  <2>2. Call("save", clicks', on, settings.n).reply = "sent"
    BY DEF Call
  <2>. QED BY <2>1, <2>2, SameSessionOne
<1>3. CASE Logout
  <2>1. calls' = calls \cup {Call("logout", clicks', FALSE, 0)} /\ username' = username
    BY <1>3 DEF Logout
  <2>2. Call("logout", clicks', FALSE, 0).reply = "sent"
    BY DEF Call
  <2>. QED BY <2>1, <2>2, SameSessionOne
<1>4. ASSUME NEW a, OtherTab(a) PROVE SessionOne'
  <2>1. calls' = calls /\ username' = username
    BY <1>4 DEF OtherTab, authVars
  <2>. QED BY <2>1, SameSessionOne
<1>5. ASSUME NEW c \in calls, Serve(c) PROVE SessionOne'
  <2>. DEFINE u == IF c.kind = "getUser" /\ cookie # None
                   THEN [account |-> cookie, enabled |-> daemonOn[cookie]] ELSE NoUser
              d == [c EXCEPT !.reply = IF c.kind = "save" /\ cookie = None THEN "refused" ELSE "served",
                             !.user = u]
  <2>1. d.user = u /\ d.kind = c.kind
    BY DEF CallsOK, IsCall
  <2>2. calls' = (calls \ {c}) \cup {d} /\ username' = username
        /\ (c.kind = "logout" => cookie' = None)
    BY <1>5 DEF Serve, authVars
  <2>3. c.kind = "getUser" /\ cookie # None => u.account = cookie
    OBVIOUS
  <2>. HIDE DEF d, u
  <2>4. SUFFICES ASSUME Alone' PROVE SessionOne'
    BY DEF SessionOne
  <2>5. Alone /\ cookie' = cookie
    BY <2>4, AloneBefore
  <2>6. cookie # None
    BY <2>5 DEF Alone
  <2>. QED BY <2>1, <2>2, <2>3, <2>5, <2>6 DEF SessionOne
<1>6. ASSUME NEW c \in calls, UserAnswer(c) PROVE SessionOne'
  <2>. DEFINE asks == IF c.user = NoUser THEN {} ELSE StatCalls(c.user.account, c.n)
  <2>1. /\ username' = c.user.account /\ Show(c.user, page, (calls \ {c}) \cup asks)
        /\ c.kind = "getUser" /\ c.reply = "served"
    BY <1>6 DEF UserAnswer
  <2>2. \A o \in asks : o.reply = "sent"
    BY CallFacts DEF StatCalls
  <2>. HIDE DEF asks
  <2>3. \A o \in calls' : o \in (calls \ {c}) \cup asks \/ o.reply = "sent"
    BY <2>1, ShowFacts DEF Sent
  <2>4. \A o \in calls' : o \in calls \/ o.reply # "served"
    BY <2>2, <2>3
  <2>5. SUFFICES ASSUME Alone' PROVE SessionOne'
    BY DEF SessionOne
  <2>6. Alone /\ cookie' = cookie
    BY <2>5, AloneBefore
  <2>. QED BY <2>1, <2>4, <2>6 DEF SessionOne
<1>7. ASSUME NEW c \in calls, LogoutAnswer(c) PROVE SessionOne'
  <2>1. c.kind = "logout" /\ c.reply = "served"
    BY <1>7 DEF LogoutAnswer
  <2>. QED BY <2>1, AloneBefore DEF SessionOne
<1>8. ASSUME NEW c \in calls, SaveAnswer(c) PROVE SessionOne'
  <2>1. calls' = (calls \ {c}) \cup {Call("getUser", c.n, FALSE, 0)} /\ username' = username
    BY <1>8 DEF SaveAnswer
  <2>2. Call("getUser", c.n, FALSE, 0).reply = "sent"
    BY DEF Call
  <2>. QED BY <2>1, <2>2, SameSessionOne
<1>9. ASSUME NEW c \in calls, CallFails(c) PROVE SessionOne'
  BY <1>9 DEF CallFails, SessionOne, Alone, Strays
<1>10. ASSUME NEW c \in calls, NEW ok, StatAnswer(c, ok) PROVE SessionOne'
  <2>1. calls' = calls \ {c} /\ username' = username
    BY <1>10 DEF StatAnswer, authVars
  <2>. QED BY <2>1, SameSessionOne
<1>11. CASE StoreNext \/ UNCHANGED vars
  <2>1. calls' = calls /\ username' = username
    BY <1>11, StoreFrame DEF vars, sessionVars, authVars
  <2>. QED BY <2>1, SameSessionOne
<1>12. SessionNext => SessionOne'
  BY <1>1, <1>2, <1>3, <1>4, <1>5, <1>6, <1>7, <1>8, <1>9, <1>10 DEF SessionNext
<1>. QED BY <1>11, <1>12 DEF Next

\* While the session has one account, only a failed call takes it from the page.
LEMMA UsernameKept ==
    ASSUME SessionOne, [Next]_vars, Alone'
    PROVE  username' = username \/ username' = cookie
<1>0. Alone /\ cookie' = cookie
  BY AloneBefore
<1>1. ASSUME NEW c \in calls, UserAnswer(c) PROVE username' = cookie
  BY <1>0, <1>1 DEF UserAnswer, SessionOne
<1>2. ASSUME NEW c \in calls, LogoutAnswer(c) PROVE FALSE
  BY <1>0, <1>2 DEF LogoutAnswer, SessionOne
<1>3. ASSUME NEW c \in calls, CallFails(c) PROVE FALSE
  BY <1>3 DEF CallFails, Alone, Strays
<1>4. StoreNext \/ UNCHANGED vars => username' = username
  BY StoreFrame DEF vars, sessionVars, authVars
<1>5. SessionNext => username' = username \/ username' = cookie
  BY <1>1, <1>2, <1>3 DEF SessionNext, OpenDaemon, SaveSettings, Logout, OtherTab, Serve,
     SaveAnswer, StatAnswer, authVars
<1>. QED BY <1>4, <1>5 DEF Next

LEMMA WhichAdding ==
    ASSUME [Next]_vars
    PROVE  adding' \in {adding, FALSE} \/ AddRuleset
<1>1. UNCHANGED vars \/ (SessionNext /\ UNCHANGED storeVars) => adding' = adding
  BY DEF vars, storeVars
<1>2. (\E c \in Routes : Navigate(c)) \/ (\E l \in loads : LoadAnswer(l) \/ LoadFails(l))
        => adding' = adding
  BY DEF Navigate, LoadAnswer, LoadFails
<1>3. EditorNext => adding' = adding
  BY DEF EditorNext, UpdateRule, DeleteRule, RevertRuleDeletion, AddRule, RenameRuleset, InEditor
<1>4. BeginStep \/ DeleteStep => adding' = adding
  BY DEF BeginStep, DeleteStep, BeginRulesetEdit, DeleteRuleset
<1>5. RevertChanges \/ SaveChanges => adding' = adding
  BY DEF RevertChanges, SaveChanges
<1>6. (\E w \in saves : PublishRules(w) \/ RulesAnswer(w) \/ SaveFails(w)) => adding' = adding
  BY DEF PublishRules, RulesAnswer, SaveFails
<1>7. AddFails \/ (\E v \in Accounts : AddAnswer(v)) => adding' = FALSE
  BY DEF AddAnswer, AddFails
<1>. QED BY <1>1, <1>2, <1>3, <1>4, <1>5, <1>6, <1>7
         DEF Next, StoreNext, EditorNext, BeginStep, DeleteStep

LEMMA NextFormOne ==
    ASSUME SessionOne, FormOne, [Next]_vars
    PROVE  FormOne'
<1>. SUFFICES ASSUME Alone', adding' PROVE username' = cookie'
  BY DEF FormOne
<1>1. Alone /\ cookie' = cookie /\ (username' = username \/ username' = cookie)
  BY AloneBefore, UsernameKept
<1>2. CASE adding
  BY <1>1, <1>2 DEF FormOne
<1>3. CASE AddRuleset
  <2>1. username # None
    BY <1>3 DEF AddRuleset
  <2>2. username \in {None, cookie}
    BY <1>1 DEF SessionOne
  <2>. QED BY <1>1, <2>1, <2>2
<1>. QED BY <1>2, <1>3, WhichAdding

LEMMA NextSavesOne ==
    ASSUME SessionOne, SavesOne, EditOne, BothOK, JamInv, SavesTyped, [Next]_vars
    PROVE  SavesOne'
<1>. SUFFICES ASSUME Alone' PROVE \A w \in saves' : w.owner = cookie'
  BY DEF SavesOne
<1>1. Alone /\ cookie' = cookie
  BY AloneBefore
<1>2. \A w \in saves : w.owner = cookie
  BY <1>1 DEF SavesOne
<1>3. CASE saves' = saves \/ \E w \in saves : saves' = saves \ {w}
  BY <1>1, <1>2, <1>3
<1>4. CASE SaveChanges
  <2>1. PICK s \in DOMAIN normalized.setRules :
            /\ edit.ruleset \in RulesetsOf(normalized, s)
            /\ saves' = saves \cup {Save(clicks', normalized, s)}
    BY <1>4, SaveChangesSends
  <2>2. Save(clicks', normalized, s).owner = normalized.setRules[s].delegator
    BY SaveFacts DEF BothOK
  <2>3. EditMode
    BY <1>4 DEF SaveChanges
  <2>4. normalized.setRules[s].delegator = cookie
    BY <1>1, <2>1, <2>3 DEF EditOne
  <2>. QED BY <1>1, <1>2, <2>1, <2>2, <2>4
<1>5. CASE DeleteStep
  <2>1. ASSUME NEW s \in DOMAIN normalized.setRules,
               normalized.setRules[s].delegator = username,
               DeletedFrom(normalized, normalized', s), StoreOK(normalized', fresh),
               saves' = saves \cup {Save(clicks', normalized', s)}
        PROVE  \A w \in saves' : w.owner = cookie
    <3>1. s \in DOMAIN normalized'.setRules /\ PairOf(normalized', s) = PairOf(normalized, s)
      BY <2>1 DEF DeletedFrom
    <3>2. Save(clicks', normalized', s).owner = normalized'.setRules[s].delegator
      BY <2>1, <3>1, SaveFacts
    <3>3. normalized.setRules[s].delegator \in Accounts
      BY DEF BothOK, StoreOK, StoreTyped, SetRulesTyped
    <3>4. username \in {None, cookie}
      BY <1>1 DEF SessionOne
    <3>5. username = cookie
      BY <2>1, <3>3, <3>4, AccountsAssumption
    <3>. QED BY <1>2, <2>1, <3>1, <3>2, <3>5 DEF PairOf
  <2>. QED BY <1>1, <1>2, <1>5, <2>1, DeleteSends
<1>6. ASSUME NEW w \in saves, PublishRules(w) PROVE \A o \in saves' : o.owner = cookie
  <2>1. saves' = (saves \ {w}) \cup {[w EXCEPT !.applied = TRUE]}
        /\ [w EXCEPT !.applied = TRUE].owner = w.owner
    BY <1>6, PublishFacts
  <2>. QED BY <1>2, <2>1
<1>. QED BY <1>1, <1>3, <1>4, <1>5, <1>6, WhichSave

\* Only one set of rules has the ruleset r.
LEMMA OneSetRules ==
    ASSUME NEW nr, NEW n, StoreOK(nr, n), NEW s \in DOMAIN nr.setRules, NEW t \in DOMAIN nr.setRules,
           NEW r, r \in RulesetsOf(nr, s), r \in RulesetsOf(nr, t)
    PROVE  s = t
  BY DEF StoreOK, SetRulesApart

LEMMA NotInStore ==
    ASSUME NEW nr, NEW n, StoreOK(nr, n), NEW r, r \notin DOMAIN nr.rulesets,
           NEW s \in DOMAIN nr.setRules
    PROVE  r \notin RulesetsOf(nr, s)
  BY DEF StoreOK, Resolves, RulesetsOf

LEMMA NextEditOne ==
    ASSUME SessionOne, FormOne, EditOne, PageOK, BothOK, JamInv, ChainTyped, ChoicesOK, [Next]_vars
    PROVE  EditOne'
<1>. SUFFICES ASSUME Alone', EditMode', NEW s \in DOMAIN normalized'.setRules,
                     edit'.ruleset \in RulesetsOf(normalized', s)
              PROVE  normalized'.setRules[s].delegator = cookie
  BY AloneBefore DEF EditOne, RulesetsOf
<1>0. Alone /\ cookie' = cookie /\ BothOK'
  BY AloneBefore, NextBothOK
<1>1. CASE edit' = edit /\ normalized' = normalized
  BY <1>0, <1>1 DEF EditOne, EditMode
<1>2. CASE edit'.ruleset \notin DOMAIN normalized'.rulesets
  BY <1>0, <1>2, NotInStore DEF BothOK
<1>3. CASE edit'.ruleset = NoId
  BY <1>3 DEF EditMode
<1>4. ASSUME NEW l \in loads, LoadAnswer(l)
      PROVE  edit'.ruleset = NoId \/ edit'.ruleset \notin DOMAIN normalized'.rulesets
  <2>1. edit' = edit \/ edit'.ruleset = NoId
    BY <1>4, LoadAnswerFacts
  <2>2. normalized' = Normalize(l.for, fresh)
    BY <1>4, LoadAnswerFacts
  <2>3. \A r \in DOMAIN normalized'.rulesets : r.n = fresh
    BY <2>2, NormalizeFacts
  <2>. QED BY <2>1, <2>3 DEF JamInv, EditOK, Used
<1>5. CASE EditorNext
  <2>1. normalized'.setRules = normalized.setRules /\ edit'.ruleset = edit.ruleset /\ EditMode
    BY <1>5, EditorFrame DEF JamInv, EditOK
  <2>. QED BY <1>0, <2>1 DEF EditOne, RulesetsOf
<1>6. CASE BeginStep
  <2>1. PICK t \in DOMAIN normalized.setRules :
            \E r \in ToSet(normalized.setRules[t].rulesets) : BeginRulesetEdit(t, r)
    BY <1>6 DEF BeginStep
  <2>2. PICK r \in ToSet(normalized.setRules[t].rulesets) : BeginRulesetEdit(t, r)
    BY <2>1
  <2>3. normalized' = normalized /\ edit'.ruleset = r /\ normalized.setRules[t].delegator = username
    BY <2>2 DEF BeginRulesetEdit
  <2>4. s = t
    BY <2>2, <2>3, OneSetRules DEF BothOK, RulesetsOf
  <2>5. normalized.setRules[t].delegator \in Accounts
    BY DEF BothOK, StoreOK, StoreTyped, SetRulesTyped
  <2>6. username \in {None, cookie}
    BY <1>0 DEF SessionOne
  <2>. QED BY <2>3, <2>4, <2>5, <2>6, AccountsAssumption
<1>7. CASE DeleteStep
  <2>1. edit' = edit
    BY <1>7, DeleteFrame
  <2>2. EditMode
    BY <2>1 DEF EditMode
  <2>3. normalized' = normalized
    BY <1>7, <2>2, DeleteSends
  <2>. QED BY <1>1, <2>1, <2>3
<1>8. CASE RevertChanges
  <2>1. edit'.ruleset = NoId \/ edit'.ruleset \notin DOMAIN normalized'.rulesets
    BY <1>8 DEF RevertChanges, Missing
  <2>. QED BY <1>2, <1>3, <2>1
<1>9. CASE \E w \in saves : RulesAnswer(w)
  <2>1. normalized' = normalized /\ (edit' = edit \/ edit'.ruleset = NoId)
    BY <1>9 DEF RulesAnswer
  <2>. QED BY <1>1, <1>3, <2>1
<1>10. ASSUME NEW v \in Accounts, AddAnswer(v) PROVE normalized'.setRules[s].delegator = cookie
  <2>1. CASE Jammed
    <3>1. normalized'.setRules = normalized.setRules /\ edit' = edit
      BY <1>10, <2>1, JammedAdd DEF BothOK, StoreOK, StoreTyped, Entities
    <3>. QED BY <1>0, <3>1 DEF EditOne, EditMode, RulesetsOf
  <2>2. CASE ~Jammed
    <3>1. PICK t : AddStep(v, t)
      BY <1>10, <2>2, AddAnswerAdds
    <3>. DEFINE r == Id(fresh, <<delegator, v>>, 1, 0)
                x == Id(fresh, <<delegator, v>>, 1, 1)
    <3>2. /\ AddedTo(normalized, normalized', t, r, x)
          /\ EditMode => "added beside an edit" \in slips'
          /\ ~EditMode => edit'.ruleset = r
          /\ shownFor # loadedFor \/ loadedFor.delegator # username => "added elsewhere" \in slips'
          /\ normalized'.setRules[t].delegator =
                 IF t \in DOMAIN normalized.setRules THEN normalized.setRules[t].delegator ELSE delegator
      BY <3>1 DEF AddStep
    <3>. HIDE DEF r, x
    <3>3. ~EditMode /\ shownFor = loadedFor /\ loadedFor.delegator = username
          /\ "added elsewhere" \notin slips
      BY <3>2, <1>0 DEF Alone, Strays
    <3>4. username = cookie /\ cookie # None
      BY <1>0, <1>10 DEF FormOne, Alone, AddAnswer
    <3>5. r \in RulesetsOf(normalized', t) /\ t \in DOMAIN normalized'.setRules
      BY <3>2 DEF AddedTo
    <3>6. s = t
      BY <1>0, <3>2, <3>3, <3>5, OneSetRules DEF BothOK
    <3>7. delegator = cookie
      BY <3>3, <3>4 DEF ChoicesOK
    <3>8. t \in DOMAIN normalized.setRules => normalized.setRules[t].delegator = cookie
      BY <3>3, <3>4 DEF PageOK, DelegatorIs
    <3>. QED BY <3>2, <3>6, <3>7, <3>8
  <2>. QED BY <2>1, <2>2
<1>11. Quiet => edit' = edit /\ normalized' = normalized
  BY DEF Quiet
<1>. QED BY <1>1, <1>2, <1>3, <1>4, <1>5, <1>6, <1>7, <1>8, <1>9, <1>10, <1>11, WhichStep

-----------------------------------------------------------------------------
(* EditOne needs all the others: an edit begins with a set of rules of the *)
(* account (SessionOne) or with a ruleset that was added (FormOne, PageOK).*)
OneAccount == PageOK /\ SessionOne /\ FormOne /\ SavesOne /\ EditOne

LEMMA InitOneAccount == Init => OneAccount
<1>. SUFFICES ASSUME Init PROVE OneAccount
  OBVIOUS
<1>1. /\ normalized = Empty /\ backup = Empty /\ saves = {} /\ ~adding /\ edit.ruleset = NoId
      /\ username \in {None, cookie}
      /\ calls = {Call("getUser", 0, FALSE, 0)} \cup {Call(s, 0, None, 0) : s \in General}
  BY DEF Init, StoreInit, SessionInit
<1>2. DOMAIN Empty.setRules = {}
  BY DEF Empty
<1>3. \A c \in calls : c.reply = "sent"
  BY <1>1 DEF Call
<1>. QED BY <1>1, <1>2, <1>3 DEF OneAccount, PageOK, DelegatorIs, SessionOne, FormOne, SavesOne,
         EditOne, EditMode

LEMMA FrontendOneAccount == Spec => []OneAccount
<1>1. JamInv /\ ShownInv /\ StoreInv /\ OneAccount /\ [Next]_vars => OneAccount'
  <2>. SUFFICES ASSUME JamInv, ShownInv, StoreInv, OneAccount, [Next]_vars PROVE OneAccount'
    OBVIOUS
  <2>1. BothOK /\ ChainTyped /\ SavesTyped /\ ChoicesOK /\ CallsOK
    BY DEF StoreInv, ShownInv
  <2>2. PageOK /\ SessionOne /\ FormOne /\ SavesOne /\ EditOne
    BY DEF OneAccount
  <2>3. PageOK' /\ SessionOne' /\ FormOne'
    BY <2>1, <2>2, NextPageOK, NextSessionOne, NextFormOne
  <2>4. SavesOne' /\ EditOne'
    BY <2>1, <2>2, NextSavesOne, NextEditOne
  <2>. QED BY <2>3, <2>4 DEF OneAccount
<1>. QED BY <1>1, InitOneAccount, FrontendJamInv, FrontendShownInv, FrontendStoreInv, PTL DEF Spec

-----------------------------------------------------------------------------
(* What is on the blockchain.  In a tab that nothing disturbed, either no  *)
(* set of rules is on its way and all that is on the page has been saved,  *)
(* but the set of rules with the edited ruleset, or one set of rules is on *)
(* its way and the others have been saved.                                 *)
Undisturbed == slips \ {"late answer", "late statistics"} = {}
OnChain(nr, s, ch) == DenormalizeSetRules(nr, s) = ch[PairOf(nr, s)]
AllOnChain(nr, ch) == \A s \in DOMAIN nr.setRules : OnChain(nr, s, ch)
AtRest(s) == EditMode => ~Jammed /\ edit.ruleset \notin RulesetsOf(normalized, s)

Idle ==
    /\ saves = {} /\ AllOnChain(backup, chain)
    /\ \A s \in DOMAIN normalized.setRules : AtRest(s) => OnChain(normalized, s, chain)

\* The set of rules s of the store is the one that w saves.
Sends(nr, s, w, ch) ==
    /\ s \in DOMAIN nr.setRules /\ PairOf(nr, s) = <<w.owner, w.voter>>
    /\ DenormalizeSetRules(nr, s) = w.rulesets
    /\ w.applied => ch[PairOf(nr, s)] = w.rulesets
    /\ \A t \in DOMAIN nr.setRules \ {s} : OnChain(nr, t, ch)
Saving == ~Jammed /\ \E w, s : saves = {w} /\ Sends(normalized, s, w, chain)

SavedOK == Undisturbed => Idle \/ Saving

Still == UNCHANGED <<normalized, backup, edit, saves, chain>>

LEMMA WhichTouch ==
    ASSUME [Next]_vars
    PROVE  \/ Still
           \/ (\E l \in loads : LoadAnswer(l)) \/ EditorNext \/ BeginStep \/ DeleteStep
           \/ RevertChanges \/ SaveChanges
           \/ \E w \in saves : PublishRules(w) \/ RulesAnswer(w) \/ SaveFails(w)
           \/ \E v \in Accounts : AddAnswer(v)
<1>. USE DEF editVars, saveVars, Still
<1>1. UNCHANGED vars \/ (SessionNext /\ UNCHANGED storeVars) => Still
  BY DEF vars, storeVars
<1>2. (\E c \in Routes : Navigate(c)) => Still
  BY DEF Navigate
<1>3. (\E l \in loads : LoadFails(l)) => Still
  BY DEF LoadFails
<1>4. AddRuleset \/ AddFails => Still
  BY DEF AddRuleset, AddFails
<1>. HIDE DEF Still
<1>. QED BY <1>1, <1>2, <1>3, <1>4 DEF Next, StoreNext, EditorNext, BeginStep, DeleteStep

LEMMA UndisturbedBefore ==
    ASSUME [Next]_vars, Undisturbed'
    PROVE  Undisturbed
  BY SlipsGrow DEF Undisturbed

\* A change of the page while something is on its way to the blockchain.
LEMMA NoTouch ==
    ASSUME Undisturbed', Touches \subseteq slips'
    PROVE  saves = {}
<1>1. \A e \in slips' : e \in {"late answer", "late statistics"}
  BY DEF Undisturbed
<1>2. "touched while saving" \notin slips'
  BY <1>1
<1>. QED BY <1>2 DEF Touches

LEMMA StillKeeps ==
    ASSUME Still
    PROVE  (Idle => Idle') /\ (Saving => Saving')
<1>1. Idle => Idle'
  BY DEF Still, Idle, AtRest, EditMode, Jammed
<1>2. Saving => Saving'
  BY DEF Still, Saving, Jammed
<1>. QED BY <1>1, <1>2

\* A page without an edited ruleset that is on the blockchain.
LEMMA AllSaved ==
    ASSUME saves' = {}, AllOnChain(backup', chain'), AllOnChain(normalized', chain')
    PROVE  Idle'
  BY DEF Idle, AllOnChain

LEMMA LoadSaves ==
    ASSUME ChainTyped, Idle \/ Saving, Undisturbed', NEW l \in loads, LoadAnswer(l)
    PROVE  Idle'
<1>. DEFINE nr == Normalize(l.for, fresh)
<1>1. /\ normalized' = nr /\ backup' = nr /\ saves' = saves /\ chain' = chain
      /\ Touches \subseteq slips'
  BY DEF LoadAnswer, saveVars
<1>2. saves = {}
  BY <1>1, NoTouch
<1>3. DOMAIN nr.setRules = SetRulesIds(l.for, fresh)
  BY NormalizeShape
<1>4. \A s \in SetRulesIds(l.for, fresh) : DenormalizeSetRules(nr, s) = chain[s.p] /\ PairOf(nr, s) = s.p
  BY LoadedIsOnChain, LoadedSetRules
<1>. HIDE DEF nr
<1>5. AllOnChain(nr, chain)
  BY <1>3, <1>4 DEF AllOnChain, OnChain
<1>. QED BY <1>1, <1>2, <1>5, AllSaved

LEMMA EditorSaves ==
    ASSUME BothOK, JamInv, Idle \/ Saving, Undisturbed', EditorNext
    PROVE  Idle'
<1>1. PICK new : \E ids : EditorStep(new, ids)
  BY EditorEdits
<1>2. PICK ids : EditorStep(new, ids)
  BY <1>1
<1>3. normalized' = new /\ EditOf(normalized, new, edit.ruleset, ids) /\ Touches \subseteq slips'
  BY <1>2 DEF EditorStep, Change
<1>4. saves = {} /\ saves' = {}
  BY <1>3, NoTouch, EditorFrame
<1>5. Idle
  BY <1>4 DEF Saving
<1>6. /\ new.setRules = normalized.setRules /\ backup' = backup /\ chain' = chain
      /\ edit'.ruleset = edit.ruleset /\ EditMode /\ ~Jammed
  BY <1>3, EditorFrame DEF JamInv, EditOK
<1>7. ASSUME NEW s \in DOMAIN normalized.setRules, edit.ruleset \notin RulesetsOf(normalized, s)
      PROVE  OnChain(new, s, chain)
  <2>1. OnChain(normalized, s, chain)
    BY <1>5, <1>6, <1>7 DEF Idle, AtRest
  <2>2. DenormalizeSetRules(new, s) = DenormalizeSetRules(normalized, s)
    BY <1>3, <1>7, EditKeepsOthers DEF BothOK
  <2>. QED BY <1>6, <2>1, <2>2 DEF OnChain, PairOf
<1>. QED BY <1>3, <1>4, <1>5, <1>6, <1>7 DEF Idle, AtRest, EditMode, RulesetsOf

LEMMA BeginSaves ==
    ASSUME BeginStep
    PROVE  (Idle => Idle') /\ (Saving => Saving')
<1>1. /\ ~EditMode /\ \E r \in DOMAIN normalized.rulesets : edit' = [ruleset |-> r, modified |-> FALSE]
      /\ UNCHANGED <<normalized, backup, saves, chain>>
  BY DEF BeginStep, BeginRulesetEdit, saveVars
<1>2. ~Jammed'
  BY <1>1 DEF Jammed, Missing
<1>3. Idle => Idle'
  BY <1>1 DEF Idle, AtRest
<1>4. Saving => Saving'
  BY <1>1, <1>2 DEF Saving
<1>. QED BY <1>3, <1>4

LEMMA RevertSaves ==
    ASSUME Idle \/ Saving, Undisturbed', RevertChanges
    PROVE  Idle'
<1>1. /\ normalized' = backup /\ backup' = backup /\ saves' = saves /\ chain' = chain
      /\ Touches \subseteq slips'
  BY DEF RevertChanges, saveVars
<1>2. saves = {}
  BY <1>1, NoTouch
<1>3. Idle
  BY <1>2 DEF Saving
<1>. QED BY <1>1, <1>2, <1>3, AllSaved DEF Idle

LEMMA SaveSaves ==
    ASSUME BothOK, JamInv, Idle \/ Saving, Undisturbed', SaveChanges
    PROVE  Saving'
<1>1. PICK s \in DOMAIN normalized.setRules :
          /\ edit.ruleset \in RulesetsOf(normalized, s)
          /\ saves' = saves \cup {Save(clicks', normalized, s)}
  BY SaveChangesSends
<1>. DEFINE w == Save(clicks', normalized, s)
<1>2. /\ UNCHANGED <<normalized, backup, edit, chain>> /\ EditMode /\ ~Jammed
      /\ Touches \subseteq slips'
  BY DEF SaveChanges, editVars
<1>3. saves = {}
  BY <1>2, NoTouch
<1>4. Idle
  BY <1>3 DEF Saving
<1>5. /\ ~w.applied /\ <<w.owner, w.voter>> = PairOf(normalized, s)
      /\ w.rulesets = DenormalizeSetRules(normalized, s)
  BY SaveFacts DEF BothOK
<1>. HIDE DEF w
<1>6. ASSUME NEW t \in DOMAIN normalized.setRules \ {s} PROVE OnChain(normalized, t, chain)
  <2>1. edit.ruleset \notin RulesetsOf(normalized, t)
    BY <1>1, OneSetRules DEF BothOK
  <2>. QED BY <1>2, <1>4, <2>1 DEF Idle, AtRest
<1>7. Sends(normalized, s, w, chain)
  BY <1>5, <1>6 DEF Sends
<1>8. saves' = {w}
  BY <1>1, <1>3 DEF w
<1>9. ~Jammed'
  BY <1>2 DEF Jammed
<1>. QED BY <1>2, <1>7, <1>8, <1>9 DEF Saving

LEMMA DeleteSaves ==
    ASSUME BothOK, Idle \/ Saving, Undisturbed', DeleteStep
    PROVE  Idle' \/ Saving'
<1>1. backup' = backup /\ edit' = edit /\ chain' = chain
  BY DeleteFrame
<1>2. CASE EditMode
  <2>1. Still
    BY <1>1, <1>2, DeleteSends DEF Still
  <2>. QED BY <2>1, StillKeeps
<1>3. CASE ~EditMode
  <2>1. PICK s \in DOMAIN normalized.setRules :
            /\ DeletedFrom(normalized, normalized', s) /\ StoreOK(normalized', fresh)
            /\ saves' = saves \cup {Save(clicks', normalized', s)}
            /\ slips' = slips \cup Touches
    BY <1>3, DeleteSends
  <2>. DEFINE w == Save(clicks', normalized', s)
  <2>2. saves = {}
    BY <2>1, NoTouch
  <2>3. Idle
    BY <2>2 DEF Saving
  <2>4. s \in DOMAIN normalized'.setRules /\ DOMAIN normalized'.setRules = DOMAIN normalized.setRules
    BY <2>1 DEF DeletedFrom
  <2>5. /\ ~w.applied /\ <<w.owner, w.voter>> = PairOf(normalized', s)
        /\ w.rulesets = DenormalizeSetRules(normalized', s)
    BY <2>1, <2>4, SaveFacts
  <2>. HIDE DEF w
  <2>6. ASSUME NEW t \in DOMAIN normalized'.setRules \ {s} PROVE OnChain(normalized', t, chain)
    <3>1. OnChain(normalized, t, chain)
      BY <1>3, <2>3, <2>4 DEF Idle, AtRest
    <3>2. DenormalizeSetRules(normalized', t) = DenormalizeSetRules(normalized, t)
      BY <2>1, <2>4, DeleteKeepsOthers
    <3>3. PairOf(normalized', t) = PairOf(normalized, t)
      BY <2>1, <2>4 DEF DeletedFrom, PairOf
    <3>. QED BY <3>1, <3>2, <3>3 DEF OnChain
  <2>7. Sends(normalized', s, w, chain)
    BY <2>4, <2>5, <2>6 DEF Sends
  <2>8. saves' = {w}
    BY <2>1, <2>2 DEF w
  <2>9. ~Jammed'
    BY <1>1, <1>3 DEF Jammed, Missing, EditMode
  <2>. QED BY <1>1, <2>7, <2>8, <2>9 DEF Saving
<1>. QED BY <1>2, <1>3

LEMMA AddSaves ==
    ASSUME BothOK, JamInv, ChoicesOK, Idle \/ Saving, Undisturbed', NEW v \in Accounts, AddAnswer(v)
    PROVE  Idle'
<1>0. backup' = backup /\ saves' = saves /\ chain' = chain
  BY DEF AddAnswer, saveVars
<1>1. CASE Jammed
  <2>1. normalized'.rulesets = normalized.rulesets /\ edit' = edit
    BY <1>1, JammedAdd DEF BothOK, StoreOK, StoreTyped, Entities
  <2>2. Jammed' /\ EditMode'
    BY <1>1, <2>1 DEF Jammed, Missing, EditMode
  <2>3. Idle
    BY <1>1 DEF Saving
  <2>. QED BY <1>0, <2>2, <2>3 DEF Idle, AtRest
<1>2. CASE ~Jammed
  <2>1. PICK s : AddStep(v, s)
    BY <1>2, AddAnswerAdds
  <2>. DEFINE r == Id(fresh, <<delegator, v>>, 1, 0)
              x == Id(fresh, <<delegator, v>>, 1, 1)
  <2>2. /\ AddedTo(normalized, normalized', s, r, x) /\ Touches \subseteq slips'
        /\ EditMode => "added beside an edit" \in slips'
        /\ ~EditMode => edit'.ruleset = r
        /\ r.n = fresh
    BY <2>1 DEF AddStep
  <2>. HIDE DEF r, x
  <2>3. saves = {}
    BY <2>2, NoTouch
  <2>4. Idle
    BY <2>3 DEF Saving
  <2>5. \A e \in slips' : e \in {"late answer", "late statistics"}
    BY DEF Undisturbed
  <2>6. ~EditMode
    BY <2>2, <2>5
  <2>7. ASSUME NEW t \in DOMAIN normalized'.setRules, AtRest(t)' PROVE OnChain(normalized', t, chain)
    <3>1. s # t
      <4>1. r \in RulesetsOf(normalized', s) /\ r \in DOMAIN normalized'.rulesets
        BY <2>2 DEF AddedTo
      <4>2. r # NoId => EditMode'
        BY <2>2, <2>6 DEF EditMode
      <4>3. r # NoId
        <5>1. NoId.n = 0
          BY IdFields DEF NoId
        <5>2. fresh # 0
          BY DEF JamInv, EditOK, Used
        <5>. QED BY <2>2, <5>1, <5>2
      <4>. QED BY <2>2, <2>6, <2>7, <4>1, <4>2, <4>3 DEF AtRest, RulesetsOf
    <3>2. t \in DOMAIN normalized.setRules \ {s}
      BY <2>2, <3>1 DEF AddedTo
    <3>3. OnChain(normalized, t, chain)
      BY <2>4, <2>6, <3>2 DEF Idle, AtRest
    <3>4. DenormalizeSetRules(normalized', t) = DenormalizeSetRules(normalized, t)
      BY <2>2, <3>2, AddKeepsOthers DEF BothOK
    <3>5. PairOf(normalized', t) = PairOf(normalized, t)
      BY <2>2, <3>2 DEF AddedTo, PairOf
    <3>. QED BY <3>3, <3>4, <3>5 DEF OnChain
  <2>. QED BY <1>0, <2>3, <2>4, <2>7 DEF Idle
<1>. QED BY <1>1, <1>2

LEMMA PublishSaves ==
    ASSUME BothOK, SavesTyped, ChainTyped, SavesOne, SavedOK, Undisturbed,
           NEW o \in saves, PublishRules(o), Undisturbed'
    PROVE  Saving'
<1>1. ~Jammed
  BY DEF SavedOK, Idle, Saving
<1>2. PICK w, s : saves = {w} /\ Sends(normalized, s, w, chain)
  BY DEF SavedOK, Idle, Saving
<1>. DEFINE done == [w EXCEPT !.applied = TRUE]
            p == PairOf(normalized, s)
<1>3. /\ saves' = (saves \ {w}) \cup {done} /\ SaveTyped(done) /\ done.applied
      /\ done.voter = w.voter /\ done.owner = w.owner /\ done.rulesets = w.rulesets
  BY <1>2, PublishFacts
<1>4. cookie # None /\ chain' = [chain EXCEPT ![<<cookie, w.voter>>] = w.rulesets]
  BY <1>2 DEF PublishRules
<1>5. UNCHANGED <<normalized, edit>>
  BY DEF PublishRules, editVars
<1>. HIDE DEF done
<1>6. w.owner = cookie
  <2>1. \A e \in slips : e \in {"late answer", "late statistics"}
    BY DEF Undisturbed
  <2>2. Alone
    BY <1>4, <2>1 DEF Alone, Strays
  <2>. QED BY <1>2, <2>2 DEF SavesOne
<1>7. p = <<cookie, w.voter>> /\ p \in DOMAIN chain
  <2>1. p = <<w.owner, w.voter>> /\ w.owner \in Accounts /\ w.voter \in Accounts
    BY <1>2 DEF Sends, SavesTyped, SaveTyped
  <2>. QED BY <1>6, <2>1 DEF ChainTyped, Pairs
<1>8. chain'[p] = w.rulesets /\ \A q \in DOMAIN chain \ {p} : chain'[q] = chain[q]
  BY <1>4, <1>7
<1>9. ASSUME NEW t \in DOMAIN normalized.setRules \ {s} PROVE OnChain(normalized, t, chain')
  <2>1. PairOf(normalized, t) # p
    BY <1>2 DEF BothOK, StoreOK, SetRulesApart, Sends
  <2>2. PairOf(normalized, t) \in DOMAIN chain
    BY DEF BothOK, StoreOK, StoreTyped, SetRulesTyped, ChainTyped, Pairs, PairOf
  <2>3. OnChain(normalized, t, chain)
    BY <1>2 DEF Sends
  <2>. QED BY <1>8, <2>1, <2>2, <2>3 DEF OnChain
<1>10. Sends(normalized, s, done, chain')
  BY <1>2, <1>3, <1>8, <1>9 DEF Sends
<1>11. saves' = {done} /\ ~Jammed'
  BY <1>1, <1>2, <1>3, <1>5 DEF Jammed
<1>. QED BY <1>5, <1>10, <1>11 DEF Saving

LEMMA AnswerSaves ==
    ASSUME Idle \/ Saving, NEW o \in saves, RulesAnswer(o)
    PROVE  Idle'
<1>1. ~Jammed
  BY DEF Idle, Saving
<1>2. PICK w, s : saves = {w} /\ Sends(normalized, s, w, chain)
  BY DEF Idle, Saving
<1>3. /\ o.applied /\ saves' = saves \ {o} /\ backup' = normalized /\ normalized' = normalized
      /\ chain' = chain
  BY <1>1 DEF RulesAnswer
<1>4. o = w /\ saves' = {}
  BY <1>2, <1>3
<1>5. AllOnChain(normalized, chain)
  BY <1>2, <1>3, <1>4 DEF AllOnChain, OnChain, Sends
<1>. QED BY <1>3, <1>4, <1>5, AllSaved

LEMMA NextSavedOK ==
    ASSUME SavedOK, SavesOne, JamInv, BothOK, ChainTyped, SavesTyped, ChoicesOK, [Next]_vars
    PROVE  SavedOK'
<1>. SUFFICES ASSUME Undisturbed' PROVE Idle' \/ Saving'
  BY DEF SavedOK
<1>1. Undisturbed
  BY UndisturbedBefore
<1>2. Idle \/ Saving
  BY <1>1 DEF SavedOK
<1>3. CASE Still
  BY <1>2, <1>3, StillKeeps
<1>4. CASE \E l \in loads : LoadAnswer(l)
  BY <1>2, <1>4, LoadSaves
<1>5. CASE EditorNext
  BY <1>2, <1>5, EditorSaves
<1>6. CASE BeginStep
  BY <1>2, <1>6, BeginSaves
<1>7. CASE DeleteStep
  BY <1>2, <1>7, DeleteSaves
<1>8. CASE RevertChanges
  BY <1>2, <1>8, RevertSaves
<1>9. CASE SaveChanges
  BY <1>2, <1>9, SaveSaves
<1>10. CASE \E w \in saves : PublishRules(w)
  BY <1>1, <1>10, PublishSaves
<1>11. CASE \E w \in saves : RulesAnswer(w)
  BY <1>2, <1>11, AnswerSaves
<1>12. CASE \E w \in saves : SaveFails(w)
  <2>1. "save failed" \in slips'
    BY <1>12 DEF SaveFails
  <2>2. \A e \in slips' : e \in {"late answer", "late statistics"}
    BY DEF Undisturbed
  <2>. QED BY <2>1, <2>2
<1>13. CASE \E v \in Accounts : AddAnswer(v)
  BY <1>2, <1>13, AddSaves
<1>. QED BY <1>3, <1>4, <1>5, <1>6, <1>7, <1>8, <1>9, <1>10, <1>11, <1>12, <1>13, WhichTouch

LEMMA InitSavedOK == Init => SavedOK
<1>. SUFFICES ASSUME Init PROVE SavedOK
  OBVIOUS
<1>1. normalized = Empty /\ backup = Empty /\ saves = {}
  BY DEF Init, StoreInit
<1>2. DOMAIN Empty.setRules = {}
  BY DEF Empty
<1>. QED BY <1>1, <1>2 DEF SavedOK, Idle, AllOnChain

-----------------------------------------------------------------------------
(* Whatever is clicked and whatever is answered, an editor whose ruleset   *)
(* has gone stays jammed, and only a replacement of the whole store by the *)
(* backup or by loaded rulesets jams it (RulesetsModuleImpl.ts:535, :256). *)
THEOREM FrontendJammedForGood == Spec => JammedForGood
<1>1. JamInv /\ [Next]_vars =>
        [(Jammed => Jammed') /\ (~Jammed /\ Jammed' => normalized' = backup')]_vars
  BY NextJam
<1>. QED BY <1>1, FrontendJamInv, PTL DEF Spec, JammedForGood

(* Once every answer has come, the page shows the route, the session and   *)
(* the statistics asked for last, unless answers raced, a call failed or   *)
(* another tab was used (RulesetsModuleImpl.ts:256, AuthModuleImpl.ts:69,  *)
(* StatusModuleImpl.ts:174).                                               *)
THEOREM FrontendWhatIsShown == Spec => []WhatIsShown
<1>1. SessionSettled => SessionCalls = {}
  BY DEF SessionSettled, SessionCalls, SessionKinds
<1>2. ShownInv => WhatIsShown
  BY <1>1 DEF ShownInv, UserShown, StatsShown, RouteShown, Fits, WhatIsShown
<1>. QED BY <1>2, FrontendShownInv, PTL

(* The session and the store keep their shapes, every reference of the     *)
(* page and of the backup leads to a ruleset or a rule that is there, and  *)
(* no spinner turns without a request under way, but in a jammed editor    *)
(* (Result.validate, rulesets/Result.ts; RulesetsModuleImpl.ts:296).       *)
THEOREM FrontendTypeOK == Spec => []TypeOK
<1>1. StoreInv => TypeOK
  <2>. SUFFICES ASSUME StoreInv PROVE TypeOK
    OBVIOUS
  <2>1. Resolves(normalized) /\ Resolves(backup)
    BY DEF StoreInv, BothOK, StoreOK
  <2>2. /\ username \in Accounts \cup {None} /\ user.account \in Accounts \cup {None}
        /\ statsFor \in Accounts \cup {None} /\ cookie \in Accounts \cup {None}
    BY DEF StoreInv, AccountsOK, Known
  <2>3. authLoading => ~SessionSettled
    BY DEF StoreInv, AccountsOK, SessionSettled
  <2>. QED BY <2>1, <2>2, <2>3 DEF StoreInv, Awaited, ClicksOK, TypeOK
<1>. QED BY <1>1, FrontendStoreInv, PTL

(* Without a race, a failure or another tab, the rules published for an    *)
(* account are those of a set of rules of this account, sent for the voter *)
(* concerned (RulesetsModuleImpl.ts:334, AddRulesetActionComponent.vue:57).*)
THEOREM FrontendOwnRulesPublished == Spec => OwnRulesPublished
<1>1. ASSUME SavesTyped, ChainTyped, OneAccount, [Next]_vars, slips = {},
             NEW p \in Pairs, chain'[p] # chain[p]
      PROVE  \E s \in saves : s.owner = p[1] /\ s.voter = p[2]
  <2>1. PICK w \in saves : PublishRules(w)
    BY <1>1, WhichSave
  <2>2. chain' = [chain EXCEPT ![<<cookie, w.voter>>] = w.rulesets] /\ cookie # None
    BY <2>1 DEF PublishRules
  <2>3. p = <<cookie, w.voter>>
    BY <1>1, <2>2 DEF ChainTyped
  <2>4. Alone
    BY <1>1, <2>2 DEF Alone
  <2>5. w.owner = cookie
    BY <1>1, <2>4 DEF OneAccount, SavesOne
  <2>. QED BY <2>3, <2>5
<1>2. StoreInv /\ OneAccount /\ [Next]_vars
        => [\A p \in Pairs : chain'[p] # chain[p] /\ slips = {} =>
              \E s \in saves : s.owner = p[1] /\ s.voter = p[2]]_vars
  BY <1>1 DEF StoreInv
<1>. QED BY <1>2, FrontendStoreInv, FrontendOneAccount, PTL DEF Spec, OwnRulesPublished

(* When nothing is being edited, loaded or saved, and the page has gone    *)
(* through no race and no failure, every set of rules on the page is on    *)
(* the blockchain as shown, although the answer to a save takes the whole  *)
(* store for saved (RulesetsModuleImpl.ts:544).                            *)
THEOREM FrontendCleanMeansSaved == Spec => []CleanMeansSaved
<1>1. JamInv /\ StoreInv /\ OneAccount /\ SavedOK /\ [Next]_vars => SavedOK'
  BY NextSavedOK DEF StoreInv, OneAccount
<1>2. SavedOK => CleanMeansSaved
  <2>. SUFFICES ASSUME SavedOK, Clean, Undisturbed, NEW s \in DOMAIN normalized.setRules
                PROVE  OnChain(normalized, s, chain)
    BY DEF CleanMeansSaved, Undisturbed, OnChain, PairOf
  <2>. QED BY DEF SavedOK, Idle, Saving, Clean, AtRest
<1>. QED BY <1>1, <1>2, InitSavedOK, FrontendJamInv, FrontendStoreInv, FrontendOneAccount, PTL DEF Spec
=============================================================================
