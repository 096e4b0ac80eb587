\* Branches longer and shorter than a span; ids that win and lose ties.
CONSTANTS
    History <- Branching
    Depth = 2
    MaxSupport = 4
    Issued <- Sequences
SPECIFICATION Spec
INVARIANTS
    WellFormed
    SupportExact
    PreferredByBranch
    PreferenceIsStable
PROPERTIES
    CountsSupport
