SPECIFICATION Spec
CONSTANTS
    Lanes = {h1, h2, h3}
    Cap = 2
    MaxInserts = 6
INVARIANTS Bounded AttributionFollowsTemplate ClaimedOncePerIssue
PROPERTIES SolvedIsFinal ImplementsLedger
