SPECIFICATION MCSpec
CONSTANTS
    MaxUpdates = 3
    MaxCrashes = 1
    BatchSize = 2
    Events <- MCEvents
    Rules <- MCRules
    ActionOf <- MCActionOf
    NoRow = NoRow
    StaleAfter = 2
    NewsMaxTime = 3
    MaxEvaluations = 1
INVARIANTS
    BotKeepsItsPlace
    SnapshotsFollowTheirEvents
    ReplaysAgreeUnlessReinterpreted
PROPERTIES
    UpdatesArePassed
CHECK_DEADLOCK FALSE
