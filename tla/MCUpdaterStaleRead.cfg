\* Two daily updates at once, one of which got the previous manifest.
SPECIFICATION Spec
CONSTANTS
    r1 = r1
    r2 = r2
    Proc = {p1, p2}
    Ino = {i1}
    Row = {r1, r2}
    Val = {"a", "b"}
    MaxVersion = 4
    Truth <- FourReleases
    MaxChain = 3
    Channel = {"daily"}
    FirstReleases <- AllOut
    FirstLocal = {2}
    Lag = 1
    None = None
    Torn = Torn
INVARIANT ContentMatchesLabel
