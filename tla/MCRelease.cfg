SPECIFICATION Spec
CONSTANTS
    own = own
    other = other
    Own = own
    Builders = {own, other}
    Contents = {1, 2}
    First = 1
    Absent = Absent
    MaxEdits = 2
    MaxBuilds = 2
    MaxStops = 1
INVARIANTS
    PublishedTogether
    ManifestIsFaithful
    FreshIsSound
    FreshAfterBuild
    ValidatedReportIsHonest
CHECK_DEADLOCK FALSE
