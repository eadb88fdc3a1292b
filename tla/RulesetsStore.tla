--------------------------- MODULE RulesetsStore ---------------------------
(***************************************************************************)
(* The rulesets store of the frontend with the view and the components     *)
(* that work on it: loading the rulesets of the route, editing one ruleset *)
(* at a time, saving it to the blockchain, deleting, adding, reverting.    *)
(* The store keeps what is on the page (normalizedRulesets) and a backup   *)
(* of what is believed to be on the blockchain.  A mutation assigns first  *)
(* and validates the whole state afterwards: when the ruleset being edited *)
(* has gone from the store, every mutation assigns and then throws, so     *)
(* that the rest of its handler does not run.                              *)
(***************************************************************************)
EXTENDS Session, RuleEditors, SequencesExt

CONSTANTS
    Routes,     \* the routes of RulesetsView: a delegator, a voter or both
    FirstChain,  \* the rulesets on the blockchain at the start, per <<delegator, voter>>
    AddKinds,    \* the types of rules that the user adds
    Names        \* the names the user gives to rulesets

Pairs == Accounts \X Accounts

\* A sequence, of whatever elements.
IsList(s) == s \in Seq(ToSet(s))
\* The rulesets of a delegator for a voter, as they are on the blockchain.
IsRulesets(list) ==
    /\ IsList(list)
    /\ \A i \in DOMAIN list :
          list[i] = [name |-> list[i].name, rules |-> list[i].rules] /\ IsList(list[i].rules)

ASSUME RoutesAssumption ==
    Routes \subseteq [delegator : Accounts \cup {None}, voter : Accounts \cup {None}]
ASSUME FirstChainAssumption == \A p \in DOMAIN FirstChain : p \in Pairs /\ IsRulesets(FirstChain[p])

VARIABLES
    route,       \* the choice that RulesetsView shows
    normalized,  \* normalizedRulesets.entities
    backup,      \* backupNormalizedRulesets.entities
    edit,        \* the ruleset being edited, and the modified flag
    publish,     \* the progress shown for the last save or delete
    loading, error, loadedFor, delegator,
    shownFor,    \* history: the choice whose rulesets fill the store
    loads,       \* requests for rulesets under way
    saves,       \* sets of rules on their way to the blockchain
    adding,      \* the form that adds a ruleset waits (one form at a time)
    fresh,       \* the next unused number for ids
    chain        \* external: the rulesets on the blockchain

loadVars  == <<loading, error, loadedFor, delegator, shownFor, loads>>
editVars  == <<normalized, backup, edit>>
saveVars  == <<publish, saves>>
storeVars == <<route, editVars, loadVars, saveVars, adding, fresh, chain>>

\* idIncrementer and uniqueId: ids of setRules (i = 0), rulesets (j = 0) and rules.
Id(n, p, i, j) == [n |-> n, p |-> p, i |-> i, j |-> j]
NoId == Id(0, <<None, None>>, 0, 0)
NoRoute == [delegator |-> None, voter |-> None]
Empty == [rules |-> <<>>, rulesets |-> <<>>, setRules |-> <<>>]
Entities(rules, rulesets, setRules) ==
    [rules |-> rules, rulesets |-> rulesets, setRules |-> setRules]
Put(f, k, v) == [x \in DOMAIN f \cup {k} |-> IF x = k THEN v ELSE f[x]]
Drop(f, k)   == [x \in DOMAIN f \ {k} |-> f[x]]

\* External: the rulesets that wiseSQL lists for a choice.
Listed(c) == {p \in Pairs : /\ chain[p] # <<>>
                            /\ c.delegator \in {None, p[1]} /\ c.voter \in {None, p[2]}}

\* normalize: every set of rules, ruleset and rule gets an id.
Normalize(c, n) ==
    LET rulesetIds == UNION {{Id(n, p, i, 0) : i \in DOMAIN chain[p]} : p \in Listed(c)}
        ruleIds == UNION {{Id(n, r.p, r.i, j) : j \in DOMAIN chain[r.p][r.i].rules} : r \in rulesetIds}
    IN Entities(
         [x \in ruleIds |-> chain[x.p][x.i].rules[x.j]],
         [r \in rulesetIds |-> [name |-> chain[r.p][r.i].name,
              rules |-> [j \in DOMAIN chain[r.p][r.i].rules |-> Id(n, r.p, r.i, j)]]],
         [s \in {Id(n, p, 0, 0) : p \in Listed(c)} |-> [delegator |-> s.p[1], voter |-> s.p[2],
              rulesets |-> [i \in DOMAIN chain[s.p] |-> Id(n, s.p, i, 0)]]])

\* Defect for the mutation check: the set of rules is taken from the backup.
DenormalizeBackup(nr, s) ==
    LET of == IF s \in DOMAIN backup.setRules THEN backup ELSE nr
    IN [i \in DOMAIN of.setRules[s].rulesets |->
          LET r == of.rulesets[of.setRules[s].rulesets[i]]
          IN [name |-> r.name, rules |-> [j \in DOMAIN r.rules |-> of.rules[r.rules[j]]]]]

\* denormalizeSetRules, of one set of rules, as it is published.
DenormalizeSetRules(nr, s) ==
    [i \in DOMAIN nr.setRules[s].rulesets |->
        LET r == nr.rulesets[nr.setRules[s].rulesets[i]]
        IN [name |-> r.name, rules |-> [j \in DOMAIN r.rules |-> nr.rules[r.rules[j]]]]]

\* The clause of validateState that can fail: the edited ruleset is not in the store.
Missing(r, nr) == r # NoId /\ r \notin DOMAIN nr.rulesets
Jammed == Missing(edit.ruleset, normalized)

EditMode == edit.ruleset # NoId
Owners(r) == {s \in DOMAIN normalized.setRules : Contains(normalized.setRules[s].rulesets, r)}
OnPage == page = NoPage
Touches == IF saves # {} THEN {"touched while saving"} ELSE {}

Load(n, c) == [n |-> n, for |-> c]

StoreInit ==
    /\ route \in Routes
    /\ normalized = Empty /\ backup = Empty
    /\ edit = [ruleset |-> NoId, modified |-> FALSE]
    /\ publish = [loading |-> FALSE, error |-> FALSE, result |-> FALSE]
    /\ loading = TRUE /\ error = FALSE
    /\ loadedFor = route /\ delegator = route.delegator /\ shownFor = NoRoute
    /\ loads = {Load(0, route)}
    /\ saves = {}
    /\ adding = FALSE
    /\ fresh = 1
    /\ chain = [p \in Pairs |-> IF p \in DOMAIN FirstChain THEN FirstChain[p] ELSE <<>>]

(* Another route, or back from another page: setVoterAndOrDelegator, and   *)
(* reloadRulesets up to its await unless the store was loaded for c.       *)
Navigate(c) ==
    /\ Click
    /\ c # route \/ ~OnPage
    /\ route' = c
    /\ page' = NoPage
    /\ IF loadedFor = c THEN UNCHANGED loadVars
       ELSE /\ loadedFor' = c
            /\ delegator' = IF c.delegator # None THEN c.delegator ELSE delegator
            /\ loading' = ~Jammed
            /\ error' = (error \/ Jammed)
            /\ loads' = IF Jammed THEN loads ELSE loads \cup {Load(clicks', c)}
            /\ UNCHANGED shownFor
    /\ UNCHANGED <<editVars, saveVars, adding, fresh, chain,
                   authVars, statusVars, settings, calls, serverVars, slips>>

(* reloadRulesets after its await, for whatever choice it was asked.       *)
LoadAnswer(l) ==
    /\ l \in loads
    /\ LET nr == Normalize(l.for, fresh)
       IN /\ normalized' = nr
          /\ backup' = nr
          /\ edit' = IF Missing(edit.ruleset, nr) THEN edit
                     ELSE [ruleset |-> NoId, modified |-> FALSE]
          /\ error' = (error \/ Missing(edit.ruleset, nr))
    /\ loading' = FALSE
    /\ loads' = loads \ {l}
    /\ shownFor' = l.for
    /\ fresh' = fresh + 1
    /\ slips' = slips \cup Touches \cup IF loads' # {} THEN {"loads overlap"} ELSE {}
    /\ UNCHANGED <<route, loadedFor, delegator, saveVars, adding, chain, sessionVars, clicks>>

LoadFails(l) ==
    /\ Click
    /\ l \in loads
    /\ loads' = loads \ {l}
    /\ loading' = FALSE
    /\ error' = TRUE
    /\ slips' = slips \cup {"load failed"}
    /\ UNCHANGED <<route, editVars, loadedFor, delegator, shownFor, saveVars, adding, fresh, chain,
                   sessionVars>>

(* A change of the store followed by checkIfModified, which compares the   *)
(* whole store with the backup.                                            *)
Change(nr) ==
    /\ normalized' = nr
    /\ edit' = [edit EXCEPT !.modified = nr # backup]
    /\ slips' = slips \cup Touches

\* What the editor of the ruleset being edited does shares this frame.
InEditor ==
    /\ Click
    /\ OnPage /\ EditMode /\ ~Jammed
    /\ UNCHANGED <<route, backup, loadVars, saveVars, adding, chain, sessionVars>>

Edited == normalized.rulesets[edit.ruleset]
PutRules(rules, ids) ==
    [normalized EXCEPT !.rules = rules, !.rulesets[edit.ruleset].rules = ids]

UpdateRule ==
    /\ InEditor
    /\ \E id \in ToSet(Edited.rules) : \E new \in Edits(normalized.rules[id]) :
          Change([normalized EXCEPT !.rules[id] = new])
    /\ UNCHANGED fresh

\* Defect for the mutation check: the ruleset keeps the id of the rule.
DeleteRuleOnly ==
    /\ InEditor
    /\ \E id \in ToSet(Edited.rules) : Change(PutRules(Drop(normalized.rules, id), Edited.rules))
    /\ UNCHANGED fresh

DeleteRule ==
    /\ InEditor
    /\ \E id \in ToSet(Edited.rules) :
          Change(PutRules(Drop(normalized.rules, id), RemoveFirst(Edited.rules, id)))
    /\ UNCHANGED fresh

AddRule(kind) ==
    /\ InEditor
    /\ LET id == Id(fresh, <<None, None>>, 0, 1)
       IN Change(PutRules(Put(normalized.rules, id, DefaultRule[kind]), Append(Edited.rules, id)))
    /\ fresh' = fresh + 1

\* A rule that the backup has and the edited ruleset has not is put back, at the end.
RevertRuleDeletion ==
    /\ InEditor
    /\ edit.ruleset \in DOMAIN backup.rulesets
    /\ \E id \in ToSet(backup.rulesets[edit.ruleset].rules) \ ToSet(Edited.rules) :
          Change(PutRules(Put(normalized.rules, id, backup.rules[id]), Append(Edited.rules, id)))
    /\ UNCHANGED fresh

RenameRuleset(name) ==
    /\ InEditor
    /\ name # Edited.name
    /\ Change([normalized EXCEPT !.rulesets[edit.ruleset].name = name])
    /\ UNCHANGED fresh

\* Defect for the mutation check: anybody's ruleset can be edited.
BeginAnyEdit(s, r) ==
    /\ Click
    /\ OnPage /\ ~EditMode
    /\ s \in DOMAIN normalized.setRules /\ r \in ToSet(normalized.setRules[s].rulesets)
    /\ edit' = [ruleset |-> r, modified |-> FALSE]
    /\ UNCHANGED <<route, normalized, backup, loadVars, saveVars, adding, fresh, chain,
                   sessionVars, slips>>

\* "edit" on the title of a ruleset of one's own, while no other is being edited.
BeginRulesetEdit(s, r) ==
    /\ Click
    /\ OnPage /\ ~EditMode
    /\ s \in DOMAIN normalized.setRules /\ r \in ToSet(normalized.setRules[s].rulesets)
    /\ r \in DOMAIN normalized.rulesets
    /\ normalized.setRules[s].delegator = username
    /\ edit' = [ruleset |-> r, modified |-> FALSE]
    /\ UNCHANGED <<route, normalized, backup, loadVars, saveVars, adding, fresh, chain,
                   sessionVars, slips>>

\* Defect for the mutation check: the edit mode is left before the store is validated.
RevertLeavesFirst ==
    /\ Click
    /\ OnPage /\ EditMode
    /\ normalized' = backup
    /\ edit' = [ruleset |-> NoId, modified |-> FALSE]
    /\ slips' = slips \cup Touches
    /\ UNCHANGED <<route, backup, loadVars, saveVars, adding, fresh, chain, sessionVars>>

(* revertChanges: by its button, by "edit" once more or from the warning   *)
(* about unsaved changes.  A ruleset that the backup does not have stays   *)
(* the edited one: resetChanges has thrown.                                *)
RevertChanges ==
    /\ Click
    /\ OnPage /\ EditMode
    /\ normalized' = backup
    /\ edit' = IF Missing(edit.ruleset, backup) THEN edit ELSE [ruleset |-> NoId, modified |-> FALSE]
    /\ slips' = slips \cup Touches
    /\ UNCHANGED <<route, backup, loadVars, saveVars, adding, fresh, chain, sessionVars>>

\* A set of rules posted to /api/rulesets/publish.
Save(n, nr, s) ==
    [n |-> n, voter |-> nr.setRules[s].voter, owner |-> nr.setRules[s].delegator,
     rulesets |-> DenormalizeSetRules(nr, s), applied |-> FALSE]

\* saveChanges up to its await: the whole set of rules with the edited ruleset is sent.
SaveChanges ==
    /\ Click
    /\ OnPage /\ EditMode /\ ~Jammed
    /\ edit.modified /\ ~publish.loading
    /\ publish' = [loading |-> TRUE, error |-> FALSE, result |-> FALSE]
    /\ \E s \in Owners(edit.ruleset) : saves' = saves \cup {Save(clicks', normalized, s)}
    /\ slips' = slips \cup Touches
    /\ UNCHANGED <<route, editVars, loadVars, adding, fresh, chain, sessionVars>>

(* deleteRuleset up to its await.  The panel that confirms stays open when *)
(* an edit begins; it is then refused, or throws with the progress shown.  *)
DeleteRuleset(s, r) ==
    /\ Click
    /\ OnPage
    /\ s \in DOMAIN normalized.setRules /\ r \in ToSet(normalized.setRules[s].rulesets)
    /\ normalized.setRules[s].delegator = username
    /\ publish' = [loading |-> (EditMode => Jammed), error |-> (EditMode /\ ~Jammed), result |-> FALSE]
    /\ IF EditMode THEN UNCHANGED <<normalized, saves, slips>>
       ELSE LET nr == [normalized EXCEPT !.setRules[s].rulesets = RemoveFirst(@, r)]
            IN /\ normalized' = nr
               /\ saves' = saves \cup {Save(clicks', nr, s)}
               /\ slips' = slips \cup Touches
    /\ UNCHANGED <<route, backup, edit, loadVars, adding, fresh, chain, sessionVars>>

\* The API broadcasts the rules as those of the account of the session cookie.
PublishRules(s) ==
    /\ s \in saves /\ ~s.applied /\ cookie # None
    /\ chain' = [chain EXCEPT ![<<cookie, s.voter>>] = s.rulesets]
    /\ saves' = (saves \ {s}) \cup {[s EXCEPT !.applied = TRUE]}
    /\ UNCHANGED <<route, editVars, loadVars, publish, adding, fresh, sessionVars, clicks, slips>>

(* saveChanges and deleteRuleset after their await: whatever is being      *)
(* edited by now is no longer, and the whole store is taken for saved.     *)
RulesAnswer(s) ==
    /\ s \in saves /\ s.applied
    /\ saves' = saves \ {s}
    /\ publish' = [loading |-> FALSE, error |-> Jammed, result |-> ~Jammed]
    /\ edit' = IF Jammed THEN edit ELSE [ruleset |-> NoId, modified |-> FALSE]
    /\ backup' = IF Jammed THEN backup ELSE normalized
    /\ UNCHANGED <<route, normalized, loadVars, adding, fresh, chain, sessionVars, clicks, slips>>

SaveFails(s) ==
    /\ Click
    /\ s \in saves
    /\ saves' = saves \ {s}
    /\ publish' = [loading |-> FALSE, error |-> TRUE, result |-> FALSE]
    /\ slips' = slips \cup {"save failed"}
    /\ UNCHANGED <<route, editVars, loadVars, adding, fresh, chain, sessionVars>>

\* The form asks whether the voter's account exists.
AddRuleset ==
    /\ Click
    /\ OnPage /\ ~EditMode /\ ~adding
    /\ route.delegator # None /\ username = route.delegator
    /\ adding' = TRUE
    /\ UNCHANGED <<route, editVars, loadVars, saveVars, fresh, chain, sessionVars, slips>>

\* The store with a new ruleset for v, in the set of rules s of that voter.
WithRuleset(v, s) ==
    LET r    == Id(fresh, <<delegator, v>>, 1, 0)
        rule == Id(fresh, <<delegator, v>>, 1, 1)
        old  == IF s \in DOMAIN normalized.setRules THEN normalized.setRules[s]
                ELSE [delegator |-> delegator, voter |-> v, rulesets |-> <<>>]
    IN Entities(Put(normalized.rules, rule, DefaultRule.first_post),
                Put(normalized.rulesets, r, [name |-> "new", rules |-> <<rule>>]),
                Put(normalized.setRules, s, [old EXCEPT !.rulesets = Append(@, r)]))

(* The answer: addRulesetToSetRules for the voter the form holds by now,   *)
(* then beginRulesetEdit, which sets modified to FALSE again and refuses   *)
(* while another ruleset is being edited.                                  *)
AddAnswer(v) ==
    /\ adding
    /\ adding' = FALSE
    /\ fresh' = fresh + 1
    /\ LET own == {s \in DOMAIN normalized.setRules : normalized.setRules[s].voter = v}
       IN IF Jammed
          THEN /\ normalized' = [normalized EXCEPT !.rules =
                      Put(@, Id(fresh, <<delegator, v>>, 1, 1), DefaultRule.first_post)]
               /\ UNCHANGED <<edit, slips>>
          ELSE \E s \in (IF own = {} THEN {Id(fresh, <<delegator, v>>, 0, 0)} ELSE own) :
               /\ normalized' = WithRuleset(v, s)
               /\ edit' = IF EditMode THEN [edit EXCEPT !.modified = TRUE]
                          ELSE [ruleset |-> Id(fresh, <<delegator, v>>, 1, 0), modified |-> FALSE]
               /\ slips' = slips \cup Touches
                      \cup (IF EditMode THEN {"added beside an edit"} ELSE {})
                      \cup (IF shownFor # loadedFor \/ loadedFor.delegator # username
                          THEN {"added elsewhere"} ELSE {})
    /\ UNCHANGED <<route, backup, loadVars, saveVars, chain, sessionVars, clicks>>

AddFails ==
    /\ Click
    /\ adding
    /\ adding' = FALSE
    /\ UNCHANGED <<route, editVars, loadVars, saveVars, fresh, chain, sessionVars, slips>>

StoreNext ==
    \/ \E c \in Routes : Navigate(c)
    \/ \E l \in loads : LoadAnswer(l) \/ LoadFails(l)
    \/ UpdateRule \/ DeleteRule \/ RevertRuleDeletion
    \/ \E kind \in AddKinds : AddRule(kind)
    \/ \E name \in Names : RenameRuleset(name)
    \/ \E s \in DOMAIN normalized.setRules : \E r \in ToSet(normalized.setRules[s].rulesets) :
         BeginRulesetEdit(s, r) \/ DeleteRuleset(s, r)
    \/ RevertChanges \/ SaveChanges \/ AddRuleset \/ AddFails
    \/ \E s \in saves : PublishRules(s) \/ RulesAnswer(s) \/ SaveFails(s)
    \/ \E v \in Accounts : AddAnswer(v)
=============================================================================
