------------------------------ MODULE Frontend ------------------------------
(***************************************************************************)
(* The frontend in one browser tab: the session, the status store and the  *)
(* rulesets store side by side, sharing the logged-in account, the page    *)
(* that is open, the session cookie and the number of clicks.  The API and *)
(* the blockchain are the environment.                                     *)
(***************************************************************************)
EXTENDS RulesetsStore

vars == <<sessionVars, storeVars, clicks, slips>>

Init == SessionInit /\ StoreInit

Next == \/ StoreNext
        \/ SessionNext /\ UNCHANGED storeVars

Spec == Init /\ [][Next]_vars

-----------------------------------------------------------------------------
\* Normal form of the store, which Result.validate demands of every mutation.
Resolves(nr) ==
    /\ \A r \in DOMAIN nr.rulesets : ToSet(nr.rulesets[r].rules) \subseteq DOMAIN nr.rules
    /\ \A s \in DOMAIN nr.setRules : ToSet(nr.setRules[s].rulesets) \subseteq DOMAIN nr.rulesets

SessionSettled == \A c \in calls : c.kind \notin {"getUser", "logout", "save"}

(* TypeOK: the shape of both stores, with every reference of the page and  *)
(* of the backup resolved, and no progress shown without a request: a      *)
(* spinner for rulesets has a load behind it, and one for publishing has a *)
(* save behind it unless the editor is jammed.                             *)
TypeOK ==
    /\ username \in Accounts \cup {None} /\ user.account \in Accounts \cup {None}
    /\ statsFor \in Accounts \cup {None} /\ cookie \in Accounts \cup {None}
    /\ clicks \in 0 .. MaxClicks
    /\ Resolves(normalized) /\ Resolves(backup)
    /\ loading => loads # {}
    /\ publish.loading => saves # {} \/ Jammed
    /\ authLoading => ~SessionSettled

(* WhatIsShown: once no request is under way, the page shows what the user *)
(* asked for last: the rulesets of the current route, the account that the *)
(* session cookie stands for with the settings the API keeps, and the      *)
(* statistics of the account that was logged in last.  It takes a race     *)
(* between answers, a failure or another tab (slips) to break this: no     *)
(* handler checks that an answer belongs to the current question           *)
(* (RulesetsModuleImpl.ts:256, StatusModuleImpl.ts:174,                    *)
(* AuthModuleImpl.ts:69).                                                  *)
WhatIsShown ==
    /\ loads = {} /\ ~Jammed /\ slips \cap {"loads overlap", "load failed"} = {} =>
           shownFor = loadedFor /\ loadedFor = route
    /\ SessionSettled /\ slips \cap {"late answer", "call failed", "other tab"} = {} =>
           /\ user.account = cookie /\ username = cookie
           /\ cookie # None => user.enabled = daemonOn[cookie]
    /\ "late statistics" \notin slips =>
           \A s \in Stats : stats[s].of \in {statsFor, None}

Clean == ~EditMode /\ loads = {} /\ saves = {} /\ ~error

(* CleanMeansSaved: when nothing is being edited, loaded or saved, and the *)
(* page has gone through no race and no failure, every ruleset on the page *)
(* is on the blockchain as shown.  saveChanges and deleteRuleset take the  *)
(* whole store for saved when their answer arrives                         *)
(* (RulesetsModuleImpl.ts:544), so an edit or a revert made while they     *)
(* wait, or a ruleset added beside the edited one, breaks it.              *)
CleanMeansSaved ==
    Clean /\ slips \ {"late answer", "late statistics"} = {} =>
        \A s \in DOMAIN normalized.setRules :
            DenormalizeSetRules(normalized, s) =
                chain[<<normalized.setRules[s].delegator, normalized.setRules[s].voter>>]

(* OwnRulesPublished: the rules published for an account are those of a    *)
(* set of rules of this account.  A ruleset added before the rulesets of   *)
(* the new route have arrived goes to the set of rules of the earlier      *)
(* delegator, all of which is then published as one's own                  *)
(* (RulesetsModuleImpl.ts:334); one added when the page has moved on while *)
(* the account was checked goes to the delegator now shown                 *)
(* (AddRulesetActionComponent.vue:57); and the API uses the account of the *)
(* cookie, which another tab can change.                                   *)
OwnRulesPublished ==
    [][\A p \in Pairs : chain'[p] # chain[p] /\ slips = {} =>
          \E s \in saves : s.owner = p[1] /\ s.voter = p[2]]_vars

(* JammedForGood: it takes a replacement of the whole store, by the backup *)
(* or by rulesets that were loaded, to remove the ruleset being edited     *)
(* from the store; and once it has gone, no click and no answer leaves the *)
(* edit mode again, because every mutation throws before the one that      *)
(* would clear it.  The page must be loaded anew.  Reverting a newly added *)
(* ruleset and loading another route while editing lead there              *)
(* (RulesetsModuleImpl.ts:535, :256).                                      *)
JammedForGood ==
    [][(Jammed => Jammed') /\ (~Jammed /\ Jammed' => normalized' = backup')]_vars
=============================================================================
