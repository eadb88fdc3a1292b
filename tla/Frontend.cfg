SPECIFICATION Spec
CONSTANTS
    ann = ann
    bob = bob
    Accounts = {ann, bob}
    None = None
    Scoped = {ann}
    Cookies = {ann}
    Stats = {"supporting"}
    General = {}
    MaxClicks = 4
    Typed = {15}
    NameLists <- MCNameLists
    Offset = 60
    Routes <- MCRoutes
    FirstChain <- MCFirstChain
    AddKinds = {"authors"}
    Names = {"new"}
INVARIANTS TypeOK WhatIsShown CleanMeansSaved
PROPERTIES OwnRulesPublished JammedForGood
CHECK_DEADLOCK FALSE
