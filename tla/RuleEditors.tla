---------------------------- MODULE RuleEditors ----------------------------
(***************************************************************************)
(* The editors of the frontend for the rules of a ruleset, one per type    *)
(* of rule (components/rulesets/rules/*.vue).  Each one reads its rule     *)
(* from the store, lets the user change one field at a time and hands the  *)
(* whole changed rule to the store's updateRule.  A number is typed in     *)
(* tenths of the unit its input shows (step 0.1), so that an editor which  *)
(* cuts the fraction off can be told from one which keeps it.  An entry    *)
(* that steem-wise-core refuses leaves the store as it is.                 *)
(***************************************************************************)
EXTENDS Integers

CONSTANTS
    Typed,      \* what the user types into a number input, in tenths
    NameLists,  \* what a list of names typed with commas comes to
    Offset      \* getTimezoneOffset of the user's clock, in minutes

ASSUME TypedAssumption == Typed \subseteq Nat
ASSUME OffsetAssumption == Offset \in Int

Rule(kind, mode, unit, list, value, more) ==
    [kind |-> kind, mode |-> mode, unit |-> unit, list |-> list, value |-> value, more |-> more]

Units == {"day", "hour"}

\* The rule that "Add rule" starts from, by type.
DefaultRule ==
    [age_of_post       |-> Rule("age_of_post", "younger_than", "day", <<>>, 7, 0),
     authors           |-> Rule("authors", "allow", "", <<"noisy">>, 0, 0),
     expiration_date   |-> Rule("expiration_date", "", "", <<>>, 525600, 0),
     first_post        |-> Rule("first_post", "", "", <<>>, 0, 0),
     payout            |-> Rule("payout", "less_than", "", <<>>, 1, 0),
     tags              |-> Rule("tags", "allow", "", <<"wise">>, 0, 0),
     voters            |-> Rule("voters", "any", "", <<"dan">>, 0, 0),
     votes_count       |-> Rule("votes_count", "less_than", "", <<>>, 100, 0),
     voting_power      |-> Rule("voting_power", "more_than", "", <<>>, 0, 0),
     weight            |-> Rule("weight", "", "", <<>>, 0, 10000),
     weight_for_period |-> Rule("weight_for_period", "", "day", <<>>, 30, 40000)]

\* parseInt cuts the fraction off; the others round parseFloat after scaling.
Whole(t)           == t \div 10
Hundredths(t)      == t * 10
TenThousandths(t)  == t * 1000

\* What an input shows, in tenths, for a stored number.
ShowWhole(v)          == v * 10
ShowHundredths(v)     == v \div 10
ShowTenThousandths(v) == v \div 1000

ModeEdits(rule, modes) == {[rule EXCEPT !.mode = m] : m \in modes}
UnitEdits(rule)        == {[rule EXCEPT !.unit = u] : u \in Units}
ListEdits(rule)        == {[rule EXCEPT !.list = l] : l \in NameLists}
Bounds                 == {"more_than", "less_than", "equal"}

AgeOfPostEdits(rule) ==
    {[rule EXCEPT !.value = Whole(t)] : t \in Typed} \cup UnitEdits(rule)
        \cup ModeEdits(rule, {"older_than", "younger_than"})
AuthorsEdits(rule) == ListEdits(rule) \cup ModeEdits(rule, {"allow", "deny"})
TagsEdits(rule)    == ListEdits(rule) \cup ModeEdits(rule, {"allow", "deny", "require", "any"})
VotersEdits(rule)  == ListEdits(rule) \cup ModeEdits(rule, {"all", "one", "any", "none"})
PayoutEdits(rule) ==
    {[rule EXCEPT !.value = Whole(t)] : t \in Typed} \cup ModeEdits(rule, Bounds)
VotesCountEdits(rule) ==
    {[rule EXCEPT !.value = Whole(t)] : t \in Typed} \cup ModeEdits(rule, Bounds)
VotingPowerEdits(rule) ==
    {[rule EXCEPT !.value = Hundredths(t)] : t \in Typed} \cup ModeEdits(rule, Bounds)
WeightEdits(rule) ==
    {[rule EXCEPT !.value = Hundredths(t)] : t \in Typed}
        \cup {[rule EXCEPT !.more = Hundredths(t)] : t \in Typed}
WeightForPeriodEdits(rule) ==
    {[rule EXCEPT !.value = Whole(t)] : t \in Typed}
        \cup {[rule EXCEPT !.more = TenThousandths(t)] : t \in Typed} \cup UnitEdits(rule)
\* The input holds local time, the rule an instant in UTC.
ToUtc(local) == local + Offset
ToLocal(utc) == utc - Offset
ExpirationDateEdits(rule) == {[rule EXCEPT !.value = ToUtc(t)] : t \in Typed}
FirstPostEdits(rule) == {}
\* The JSON editor of a rule of an unknown type can turn it into any rule.
UnknownEdits(rule) == {DefaultRule[k] : k \in DOMAIN DefaultRule}

\* The editor that HorizontalRuleComponent shows for a rule.
Edits(rule) ==
    CASE rule.kind = "age_of_post"       -> AgeOfPostEdits(rule)
      [] rule.kind = "authors"           -> AuthorsEdits(rule)
      [] rule.kind = "tags"              -> TagsEdits(rule)
      [] rule.kind = "voters"            -> VotersEdits(rule)
      [] rule.kind = "payout"            -> PayoutEdits(rule)
      [] rule.kind = "votes_count"       -> VotesCountEdits(rule)
      [] rule.kind = "voting_power"      -> VotingPowerEdits(rule)
      [] rule.kind = "weight"            -> WeightEdits(rule)
      [] rule.kind = "weight_for_period" -> WeightForPeriodEdits(rule)
      [] rule.kind = "expiration_date"   -> ExpirationDateEdits(rule)
      [] rule.kind = "first_post"        -> FirstPostEdits(rule)
      [] OTHER                           -> UnknownEdits(rule)
=============================================================================
