\* Three daily updates of an installed shard at once, from one manifest: every
\* interleaving, with failures, lost races for the lock and crashes.
SPECIFICATION FairSpec
CONSTANTS
    r1 = r1
    r2 = r2
    Proc = {p1, p2, p3}
    Ino = {i1}
    Row = {r1, r2}
    Val = {"a", "b"}
    MaxVersion = 4
    Truth <- FourReleases
    MaxChain = 3
    Channel = {"daily"}
    FirstReleases <- AllOut
    FirstLocal = {1, 2}
    Lag = 0
    None = None
    Torn = Torn
INVARIANTS
    ContentMatchesLabel
    DeltaResultHonest
    LockProtocol
PROPERTIES
    DailyNeverRegresses
    ImplementsReleasedShard
    ReachesHead
