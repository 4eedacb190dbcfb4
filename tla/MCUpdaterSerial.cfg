\* One update at a time, on either channel, with faults, crashes, stale
\* manifests and releases that appear while it runs.
SPECIFICATION FairSpec
CONSTANTS
    r1 = r1
    r2 = r2
    Proc = {p1}
    Ino = {i1, i2, i3}
    Row = {r1, r2}
    Val = {"a", "b"}
    MaxVersion = 4
    Truth <- FourReleases
    MaxChain = 2
    Channel = {"stable", "daily"}
    FirstReleases <- OneOut
    FirstLocal = {0, 1}
    Lag = 3
    None = None
    Torn = Torn
INVARIANTS
    TypeOK
    ContentMatchesLabel
    FailedUpdateLeavesShard
    DeltaResultHonest
PROPERTIES
    DailyNeverRegresses
    ImplementsReleasedShard
    ReachesHead
