SPECIFICATION Spec
CONSTANTS
    m1 = m1
    m2 = m2
    here = here
    there = there
    Skill <- Names
    Length <- Lengths
    MaxLength = 12
    Texts <- Mentions
    NoSkill = 0
    Chat = {c1}
    Model = {m1, m2}
    Listed = {m2}
    NoModel = NoModel
    Dir = {here, there}
    Fallback = here
    Patches <- OneSetting
    Default <- Bundled
    Keep = Keep
    AnySkill = AnySkill
    Unknown = Unknown
    Absent = Absent
    Unusable = Unusable
    Void = Void
INVARIANTS ObeysSaved RoutesAsTold Remembered
