\* One sku is enough: health rows may disappear while the sku stays.
SPECIFICATION Spec
CONSTANTS
    s1 = s1
    s2 = s2
    v1 = v1
    v2 = v2
    Sku = {s1}
    Child = {"health"}
    PriceKey = {p1}
    MetaKey = {m1}
    Val = {v1, v2}
    Input <- AnyShard
    NoRow = NoRow
    One = One
    Any = Any
INVARIANT DeltaReproducesToday
