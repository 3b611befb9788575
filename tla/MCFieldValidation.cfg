CONSTANTS
    NoTime = NoTime
    Absent = Absent
    FieldRules <- MCFieldRules
    Ranges <- MCRanges
    Strings <- MCStrings
SPECIFICATION RulesSpec
INVARIANTS
    RulesTypeOK
    ViolationsExact
    ViolationsOrdered
    GateCoversHandler
