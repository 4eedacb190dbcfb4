\* Two installs of one baseline at once; one of them cannot finish its copy.
SPECIFICATION Spec
CONSTANTS
    r1 = r1
    r2 = r2
    Proc = {p1, p2}
    Ino = {i1, i2, i3, i4}
    Row = {r1, r2}
    Val = {"a", "b"}
    MaxVersion = 4
    Truth <- FourReleases
    MaxChain = 3
    Channel = {"stable"}
    FirstReleases <- AllOut
    FirstLocal = {0}
    Lag = 0
    None = None
    Torn = Torn
INVARIANT InstallAtomic
