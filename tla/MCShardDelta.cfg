\* Two skus, two tables with child rows: every pair of shards in AnyShard.
SPECIFICATION Spec
CONSTANTS
    s1 = s1
    s2 = s2
    v1 = v1
    v2 = v2
    Sku = {s1, s2}
    Child = {"health"}
    PriceKey = {p1}
    MetaKey = {m1}
    Val = {v1, v2}
    Input <- AnyShard
    NoRow = NoRow
    One = One
    Any = Any
INVARIANTS
    TypeOK
    RoundTrip
    NeverOrphaned
