SPECIFICATION FairSpec
CONSTANTS
    Caller = {c1, c2, c3}
    Threshold = 3
    Window = 3
    Recovery = 2
    ProbeTTL = 3
    MaxLag = 1
INVARIANT OneProbe
INVARIANT CountedFailuresAreRecent
PROPERTY CoolDown
PROPERTY OpenRecovers
PROPERTY ProbeReissued
