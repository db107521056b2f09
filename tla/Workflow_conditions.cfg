SPECIFICATION Spec
CONSTANTS
    Skill <- Skills
    Place <- Places
    Number <- Numbers
    Fragment <- Pieces
    Variables <- OneVariable
    Result <- Results
INVARIANTS RunsAsWritten GivenAsWritten
CHECK_DEADLOCK FALSE
