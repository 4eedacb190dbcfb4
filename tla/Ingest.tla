------------------------------- MODULE Ingest -------------------------------
(***************************************************************************)
(* One shard from an upstream price list: pipeline/ingest turns the items  *)
(* a provider lists into rows, pipeline/package builds the shard from them *)
(* and checks it against the one published before.                         *)
(*                                                                         *)
(* The ingest modules run the same loop, each with its own choices: which  *)
(* items it takes, which cells of which rows an item fills, what a second  *)
(* item for the same cell does, when a row is complete and what its sku_id *)
(* is.  The loop is here; the choices of a source are its policy, a record *)
(* of the modules AwsSources, GcpSources and AzureSources.                 *)
(*                                                                         *)
(* A price is a natural number, 0 being free; a tier starts and ends at a  *)
(* bound of 0..Unbounded; units, terms and attributes are left out.        *)
(***************************************************************************)
EXTENDS Naturals, Sequences, FiniteSetsExt

CONSTANTS Policy,      \* source -> its policy
          Tracked,     \* the regions pipeline/normalize knows
          Feeds,       \* the runs: records [src, doc, first, prev], see Init
          Tolerance    \* percentage by which the number of rows may move

Unbounded == 9         \* the upper bound of a last tier
None == "none"         \* no label, or no region, in a sku_id
Nobody == 0            \* instead of an item's number, from 1, or id

\* The choices most sources make: one flat price per item, from the first
\* rate listed, in the item's first region, and no second price for a cell.
Plain ==
  [ sells    |-> <<>>,     \* kind of item -> the <<row name, dimension>>s it prices
    where    |-> "first",  \* the regions of an item it prices: first, each, one
    wide     |-> {},       \* kinds priced once, whatever the region
    virtual  |-> {},       \* regions of its own, those of an item that has none
    nowhere  |-> "skip",   \* an item of an unknown region is skipped or raises
    odd      |-> "keep",   \* so is one of an unknown unit, or it is kept
    rate     |-> "head",   \* the tiers made of the rates, see Tiers
    based    |-> {},       \* dimensions whose first rate must start at 0
    bounds   |-> <<>>,     \* dimension -> the bounds rates are zipped with
    paid     |-> {},       \* dimensions of which a price of 0 is dropped
    free     |-> {},       \* <<row name, dimension>>s published as 0
    own      |-> {},       \* row names of which every item has its own row
    keep     |-> "last",   \* which price of a cell stays: first or last
    append   |-> {},       \* row names that keep all of them
    once     |-> "no",     \* an id is used once: from its first price (priced),
                           \* or from its first cell (filled)
    ladder   |-> <<>>,     \* dimension whose items are tiers of one price -> how
    spare    |-> {},       \* dimensions of no use where there is another
    spread   |-> {},       \* dimensions a global item prices where no other does
    default  |-> <<>>,     \* <<row name, dimension>> -> its price when none is listed
    needs    |-> <<>>,     \* row name -> dimensions without which it is dropped
    costs    |-> {},       \* row names dropped at a price of 0
    shown    |-> <<>>,     \* dimension -> the name it is published under
    anchor   |-> {},       \* dimensions whose items name the row, {} for all
    lead     |-> "all",    \* of them, those that do: all, first, lowest (tier)
    minted   |-> {},       \* row names whose sku_id is not made of item ids
    labelled |-> <<>>,     \* row name -> what is added to the sku_id
    suffix   |-> "none",   \* the region is part of it: none, always, minted, or
                           \* for items of several regions (shared)
    unique   |-> FALSE,    \* so is the item, when several have the id
    filed    |-> <<>>,     \* zone or geography -> the region published for its rows
    summed   |-> {},       \* row names whose one price is the sum of the parts
    family   |-> <<>>,     \* row name of a compute.vm -> its family
    sorted   |-> FALSE,    \* items are read in the order of their number
    empty    |-> 2 ]       \* the exit code when there is no row

At(f, x, otherwise) == IF x \in DOMAIN f THEN f[x] ELSE otherwise

\* What a provider lists: numbered from 1 in the order of the document, each
\* with the id it has upstream and rates that start at different points.
Rate == [from : 0..Unbounded - 1, to : 1..Unbounded, usd : Nat]
Item(i) ==
  /\ {i.n, i.id} \subseteq Nat \ {Nobody}
  /\ i.at \in Seq(Tracked \union {"global", "nowhere"})
  /\ i.payg \in BOOLEAN /\ i.unit \in {"known", "odd"}
  /\ i.rates \in Seq(Rate)
  /\ \A k, l \in DOMAIN i.rates : k # l => i.rates[k].from # i.rates[l].from

\* Documents list items, numbered; a published shard has finitely many rows.
ASSUME FeedsListed ==
  \A f \in Feeds :
    /\ f.src \in DOMAIN Policy /\ IsFiniteSet(f.prev) /\ IsFiniteSet(f.doc)
    /\ \A i \in f.doc : Item(i)
    /\ \A i, j \in f.doc : i.n = j.n => i = j

\* What a source publishes under a name: by an item, or by default.
Priced(how) == (UNION Range(how.sells)) \union DOMAIN how.default
DimsOf(how, m) == {x[2] : x \in {y \in Priced(how) : y[1] = m}}
Label(how, m) == At(how.labelled, m, None)

(* What all policies have in common. *)

\* They are made of names and dimensions and of one of the ways of Tiers;
\* a region that is known has a name of its own.
ASSUME ChoicesMade ==
  /\ \A s \in DOMAIN Policy :
       /\ \A x \in Priced(Policy[s]) : x = <<x[1], x[2]>>
       /\ Policy[s].rate \in {"head", "positive", "top", "stated", "chain", "zip", "open", "split"}
  /\ Tracked \intersect {"global", "nowhere"} = {}

\* A source that passes over an id it has used takes ids for unique.
ASSUME OnceUnique ==
  \A s \in DOMAIN Policy :
    Policy[s].once # "no" => ~Policy[s].unique /\ Policy[s].suffix # "always"

\* A row needs what some item can price, and never waits for a second item
\* where every item has a row of its own.
ASSUME NeedsPriced ==
  \A s \in DOMAIN Policy : \A m \in DOMAIN Policy[s].needs :
    /\ Policy[s].needs[m] \subseteq DimsOf(Policy[s], m) \ Policy[s].spare
    /\ m \notin Policy[s].own

\* Sources of global prices make none of the other choices, and each of their
\* rows has a price of its region, or a default.
ASSUME SpreadPlain ==
  \A s \in DOMAIN Policy : LET how == Policy[s] IN how.spread # {} =>
    /\ how.own = {} /\ how.spare = {} /\ how.costs = {} /\ how.ladder = <<>>
    /\ how.once = "no" /\ how.rate = "head"
    /\ \A x \in Priced(how) : x[2] \notin how.spread
          \/ \E y \in Priced(how) : y[1] = x[1] /\ (y[2] \notin how.spread \/ y \in DOMAIN how.default)

\* What is published as 0 may cost nothing.
ASSUME FreeKept ==
  \A s \in DOMAIN Policy : LET how == Policy[s] IN
    /\ \A x \in how.free : x[1] \notin how.costs
    /\ how.rate \in {"zip", "split"} => how.costs = {}

\* Prices of 0 are dropped, and items make tiers together, only where an item
\* gives one flat price; bounds of a source rise from 0.
ASSUME TiersPlain ==
  \A s \in DOMAIN Policy : LET how == Policy[s] IN
    /\ how.paid # {} => how.rate \in {"head", "positive", "top", "open"}
    /\ how.ladder # <<>> => how.rate \in {"head", "open"}
    /\ \A d \in DOMAIN how.bounds : LET b == how.bounds[d] IN
         /\ b \in Seq(0..Unbounded - 1) /\ b # <<>> /\ b[1] = 0
         /\ \A k, l \in DOMAIN b : k < l => b[k] < b[l]

\* A dimension is shown under the name of another only in its place, or above
\* the free tier that is the other.
ASSUME ShownApart ==
  \A s \in DOMAIN Policy : LET how == Policy[s] IN
    \A x, y \in Priced(how) :
      x[1] = y[1] /\ x[2] # y[2] /\ At(how.shown, x[2], x[2]) = At(how.shown, y[2], y[2]) =>
        /\ how.default = <<>>
        /\ \/ (x[2] \in how.spare) # (y[2] \in how.spare)
           \/ /\ how.rate = "split"
              /\ (x[2] = "free") # (y[2] = "free")

\* Where items give one free and one open tier, each kind that prices one
\* prices the other, and the two are shown as one.
ASSUME SplitPaired ==
  \A s \in DOMAIN Policy : LET how == Policy[s] IN how.rate = "split" =>
    /\ how.spare = {} /\ how.based = {}
    /\ \A k \in DOMAIN how.sells : \A x \in how.sells[k] : \E y \in how.sells[k] :
         /\ y[1] = x[1] /\ At(how.shown, y[2], y[2]) = At(how.shown, x[2], x[2])
         /\ (y[2] = "free") # (x[2] = "free")

\* A row by default is no item's.
ASSUME DefaultsShared ==
  \A s \in DOMAIN Policy : \A x \in DOMAIN Policy[s].default : x[1] \notin Policy[s].own

\* A minted sku_id names the row and, if it has one in several, the region; a
\* name of which every item has a row is of one dimension.
ASSUME MintedTell ==
  \A s \in DOMAIN Policy : LET how == Policy[s] IN how.minted # {} =>
    /\ \/ how.suffix \in {"always", "minted"}
       \/ how.where = "one" /\ how.spread = {} /\ how.default = <<>>
    /\ \A x, y \in Priced(how) :
         x[1] = y[1] /\ x[1] \in how.minted \intersect how.own => x = y /\ x[1] \notin how.append

\* Any other is made of the id of some item; one of several regions, or of
\* several rows, is told apart by the region, a label or the other ids.
ASSUME IdsTell ==
  \A s \in DOMAIN Policy :
    LET how   == Policy[s]
        names == {x[1] : x \in Priced(how)} \ how.minted
    IN  names # {} =>
        /\ \A x \in DOMAIN how.default : x[1] \in how.minted
        /\ how.spread # {} => how.anchor # {} /\ how.anchor \intersect how.spread = {}
        /\ how.anchor # {} => \A m \in names : how.anchor \intersect At(how.needs, m, {}) # {}
        /\ how.lead = "lowest" => how.rate = "open" /\ how.anchor = {}
        /\ how.lead \in {"all", "first", "lowest"}
        /\ how.unique => names \subseteq how.own
        /\ how.where = "each" \/ how.virtual # {} =>
             how.suffix = "always" \/ (how.suffix = "shared" /\ how.virtual = {})
        /\ \A k \in DOMAIN how.sells : \A x, y \in how.sells[k] :
             x[1] # y[1] /\ {x[1], y[1]} \subseteq names =>
               \/ Label(how, x[1]) # Label(how, y[1])
               \/ \E d \in At(how.needs, x[1], {}) :
                    /\ how.lead = "all" /\ (how.anchor = {} \/ d \in how.anchor)
                    /\ \A l \in DOMAIN how.sells :
                         <<x[1], d>> \in how.sells[l] => \A z \in how.sells[l] : z[1] = x[1]

ASSUME TolerancePercent == Tolerance \in Nat

VARIABLES feed,   \* the run at hand
          todo,   \* the items not read yet
          seen,   \* the ids not to be used again
          acc,    \* the prices kept so far
          rows,   \* the rows written
          phase   \* where the run stands

vars == <<feed, todo, seen, acc, rows, phase>>

How == Policy[feed.src]

Phases == {"reading", "raised", "empty", "written", "conflict", "built",
           "insane", "sane"}
-----------------------------------------------------------------------------
(* What one item is worth to a source. *)

\* The regions the item is priced in.
Places(how, i) ==
  LET named == IF i.at = <<>> THEN how.virtual
               ELSE IF how.where = "each" THEN Range(i.at) ELSE {Head(i.at)}
      known == Tracked \union how.virtual \union (IF how.spread = {} THEN {} ELSE {"global"})
  IN  IF how.where = "one" \/ i.kind \in how.wide THEN {"global"} ELSE named \cap known

\* Prices that are not pay-as-you-go taken as well.
TakenAnyTerm(how, i) == i.kind \in DOMAIN how.sells /\ i.rates # <<>>

Taken(how, i) == i.payg /\ i.kind \in DOMAIN how.sells /\ i.rates # <<>>

Flat(usd) == {[from |-> 0, to |-> Unbounded, usd |-> usd]}

\* Stands for rates that are not as many as the bounds: no row can have it.
Misfit == [from |-> 0, to |-> 0, usd |-> 0]

\* The tier below the last one is open as well.
FollowingButOne(starts, b) ==
  LET later == {c \in starts : c > b}
  IN  IF Cardinality(later) <= 1 THEN Unbounded ELSE Min(later)

\* The start of the tier that follows one that starts at b.
Following(starts, b) ==
  LET later == {c \in starts : c > b}
  IN  IF later = {} THEN Unbounded ELSE Min(later)

\* The tiers an item gives dimension d: its first rate as a flat price (head),
\* the first that is not free (positive), the highest one (top); its rates
\* with the bounds stated (stated), with the next start as upper bound (chain),
\* zipped in order with the source's own bounds (zip); the first rate from where
\* it starts, for a ladder (open); or one free and one open tier, each of the last
\* rate there is for it (split).
Tiers(how, i, d) ==
  LET rates == Range(i.rates)
      starts == {t.from : t \in rates}
      rank(t) == Cardinality({c \in starts : c <= t.from})
      paid == {k \in DOMAIN i.rates : i.rates[k].usd > 0
                                     /\ \A l \in 1..k - 1 : i.rates[l].usd = 0}
      half == {k \in DOMAIN i.rates : (i.rates[k].from = 0) <=> (d = "free")}
      last == {i.rates[k] : k \in {x \in half : \A l \in half : l <= x}}
  IN  IF d \in how.based /\ Head(i.rates).from # 0 THEN {}
      ELSE CASE how.rate = "head" -> Flat(Head(i.rates).usd)
           [] how.rate = "positive" -> UNION {Flat(i.rates[k].usd) : k \in paid}
           [] how.rate = "top" ->
                UNION {Flat(t.usd) : t \in {u \in rates : Following(starts, u.from) = Unbounded}}
           [] how.rate = "stated" -> rates
           [] how.rate = "chain" -> {[t EXCEPT !.to = Following(starts, t.from)] : t \in rates}
           [] how.rate = "zip" ->
                IF d \notin DOMAIN how.bounds THEN Flat(Head(i.rates).usd)
                ELSE IF Len(i.rates) # Len(how.bounds[d]) THEN {Misfit}
                ELSE LET b == how.bounds[d]
                     IN  {[from |-> b[rank(t)], to |-> Following(Range(b), b[rank(t)]),
                           usd |-> t.usd] : t \in rates}
           [] how.rate = "open" ->
                IF d \in DOMAIN how.ladder THEN {[Head(i.rates) EXCEPT !.to = Unbounded]}
                ELSE Flat(Head(i.rates).usd)
           [] how.rate = "split" ->
                IF d = "free" THEN {[t EXCEPT !.usd = 0] : t \in last}
                ELSE {[t EXCEPT !.to = Unbounded] : t \in last}

\* The price an item gives dimension s[2] of row name s[1] in region r.
FillOf(how, i, s, r, t) ==
  [row |-> [name |-> s[1], region |-> r, by |-> IF s[1] \in how.own THEN i.n ELSE Nobody],
   dim |-> s[2], from |-> t.from, to |-> t.to, usd |-> IF s \in how.free THEN 0 ELSE t.usd,
   n |-> i.n, id |-> i.id, shared |-> Len(i.at) > 1]

\* The prices the item fills in: for a cell, a dimension of a row, its tiers.
Fills(how, i) ==
  IF ~Taken(how, i) \/ (how.odd = "skip" /\ i.unit = "odd") THEN {}
  ELSE UNION {{FillOf(how, i, s, r, t) :
                 t \in {u \in Tiers(how, i, s[2]) : s[2] \in how.paid => u.usd > 0}}
                : s \in how.sells[i.kind], r \in Places(how, i)}

\* The item ends the run with an exception: for its region, or, if it would
\* have been priced, for its unit.
Raises(how, i) ==
  \/ how.nowhere = "raise" /\ Taken(how, i) /\ "nowhere" \in Range(i.at)
  \/ how.odd = "raise" /\ i.unit = "odd" /\ Fills(how, i) # {}

Cell(p) == <<p.row, p.dim>>
Cells(ps) == {Cell(p) : p \in ps}

\* A new price takes the place of its row, not of its cell.
AbsorbRow(how, old, new) ==
  {p \in old : \A q \in new : p.row # q.row} \union new

\* The prices kept when those of one more item come in.
Absorb(how, old, new) ==
  LET more == {p \in new : p.row.name \in how.append}
      kept == IF how.keep = "last"
              THEN {p \in old : Cell(p) \notin Cells(new \ more)} \union (new \ more)
              ELSE old \union {p \in new \ more : Cell(p) \notin Cells(old)}
  IN  kept \union more
-----------------------------------------------------------------------------
(* The rows made of the prices kept. *)

\* The tiers that several items of one dimension make together: three prices,
\* the highest first, above a free tier (falling); the highest price above a
\* free tier (highest); as many tiers as there are starts, in their order, with
\* the next of Tokens as bound (steps); a flat price, the first start (lowest).
Tokens == 7
Rungs(way, ps) ==
  LET dearer(p)  == {q \in ps : q.usd > p.usd \/ (q.usd = p.usd /\ q.n < p.n)}
      earlier(p) == {q \in ps : q.from < p.from \/ (q.from = p.from /\ q.n < p.n)}
      paid == {p \in ps : way = "falling" \/ dearer(p) = {}}
      step(p, below, all) ==
        [p EXCEPT !.from = Cardinality(below),
                  !.to = IF Cardinality(below) + 1 = all THEN Unbounded ELSE Cardinality(below) + 1]
  IN  CASE way = "steps" ->
             {step(p, earlier(p), Min({Cardinality(ps), Tokens}))
                : p \in {q \in ps : Cardinality(earlier(q)) < Tokens}}
        [] way = "lowest" ->
             {[p EXCEPT !.from = 0, !.to = Unbounded] : p \in {q \in ps : earlier(q) = {}}}
        [] way = "falling" /\ Cardinality(ps) # 3 -> {}
        [] OTHER ->
             {[p EXCEPT !.from = 0, !.to = 1, !.usd = 0] : p \in {q \in ps : dearer(q) = {}}}
             \union {[p EXCEPT !.from = 1 + Cardinality(dearer(p)),
                              !.to = IF Cardinality(dearer(p)) + 1 = Cardinality(paid)
                                     THEN Unbounded ELSE 2 + Cardinality(dearer(p))]
                        : p \in paid}

Laddered(how, ps) ==
  {p \in ps : p.dim \notin DOMAIN how.ladder} \union
  UNION {Rungs(how.ladder[d], {p \in ps : p.dim = d}) : d \in DOMAIN how.ladder}

\* Global prices only for a row that has none of its own.
PartsOneSided(how, kept, row) ==
  LET own == Laddered(how, {p \in kept : p.row = row})
  IN  IF own # {} THEN own
      ELSE {p \in kept : p.row = [row EXCEPT !.region = "global"] /\ p.dim \in how.spread}

\* The prices of a row: its own, and for a dimension none of its own items
\* price the one a global item has, or the source's default.
Parts(how, kept, row) ==
  LET ps   == {p \in kept : p.row = row}
      own  == Laddered(how, {p \in ps : p.dim \in how.spare => \A q \in ps : q.dim \in how.spare})
      wide == {p \in kept : /\ p.row = [row EXCEPT !.region = "global"]
                            /\ p.dim \in how.spread
                            /\ \A q \in own : q.dim # p.dim}
      dims == {p.dim : p \in own \union wide}
      lack == {s \in DOMAIN how.default : s[1] = row.name /\ s[2] \notin dims}
  IN  own \union wide \union
        {[row |-> row, dim |-> s[2], from |-> 0, to |-> Unbounded, usd |-> how.default[s],
          n |-> Nobody, id |-> Nobody, shared |-> FALSE] : s \in lack}

\* The rows some item opened, and those a default opens everywhere.
Opened(how, kept) ==
  {p.row : p \in {q \in kept : how.spread = {} \/ q.row.region # "global"}} \union
  {[name |-> s[1], region |-> r, by |-> Nobody] : s \in DOMAIN how.default, r \in Tracked}

\* The parts whose items name the row.
Namers(how, parts) ==
  LET named == {p \in parts : how.anchor = {} \/ p.dim \in how.anchor}
  IN  CASE how.lead = "all"    -> named
        [] how.lead = "first"  -> {p \in named : \A q \in named : p.n <= q.n}
        [] how.lead = "lowest" -> {p \in named : p.from = 0}

\* The region left out of the sku_id.
SkuIdAnywhere(how, kept, row, parts) ==
  [ids    |-> IF row.name \in how.minted THEN {} ELSE {p.id : p \in Namers(how, parts)},
   label  |-> IF row.name \in how.minted THEN row.name ELSE Label(how, row.name),
   region |-> None, copy |-> Nobody]

SkuId(how, kept, row, parts) ==
  LET ids  == {p.id : p \in Namers(how, parts)}
      many == \/ how.suffix = "always"
              \/ how.suffix = "minted" /\ row.name \in how.minted
              \/ how.suffix = "shared" /\ \E p \in parts : p.shared
      twin == how.unique /\ \E p \in kept : p.row # row /\ p.id \in ids
  IN  [ids    |-> IF row.name \in how.minted THEN {} ELSE ids,
       label  |-> IF row.name \in how.minted THEN row.name ELSE Label(how, row.name),
       region |-> IF many THEN row.region ELSE None,
       copy   |-> IF twin THEN row.by ELSE Nobody]

PriceList(how, row, parts) ==
  IF row.name \in how.summed
  THEN {[dim |-> "compute", from |-> 0, to |-> Unbounded, n |-> Nobody,
         usd |-> MapThenSumSet(LAMBDA p : p.usd, parts)]}
  ELSE {[dim |-> At(how.shown, p.dim, p.dim), from |-> p.from, to |-> p.to, usd |-> p.usd,
         n |-> p.n] : p \in parts}

\* An incomplete row passes for a whole one.
WholeIfAny(how, row, parts) == parts # {}

Whole(how, row, parts) ==
  /\ parts # {}
  /\ At(how.needs, row.name, {}) \subseteq {p.dim : p \in parts}
  /\ row.name \in how.costs => \E p \in parts : p.usd > 0

RowsOf(how, kept) ==
  {[sku    |-> SkuId(how, kept, row, Parts(how, kept, row)),
    name   |-> row.name,
    region |-> row.region,
    prices |-> PriceList(how, row, Parts(how, kept, row))]
     : row \in {r \in Opened(how, kept) : Whole(how, r, Parts(how, kept, r))}}

\* Two rows with one sku_id, or two prices of a row with one dimension and
\* tier: the primary keys of tables skus and prices.
KeyClash(rs) ==
  \/ \E r, q \in rs : r # q /\ r.sku = q.sku
  \/ \E r \in rs : \E p, q \in r.prices : p # q /\ p.dim = q.dim /\ p.from = q.from

Malformed(how, kept) ==
  \E row \in Opened(how, kept) :
     LET parts == Parts(how, kept, row)
     IN  Whole(how, row, parts) /\ \E p \in parts : p.to = 0

Families(how, names) == {how.family[m] : m \in names \cap DOMAIN how.family}

\* What sanity_check lets through, against the rows published before.
Plausible(how, first, prev, rs) ==
  IF first THEN rs # {}
  ELSE LET now  == Cardinality(rs)
           then == Cardinality(prev)
           gap  == IF now > then THEN now - then ELSE then - now
       IN  /\ 100 * gap <= Tolerance * then \/ then = 0
           /\ Families(how, {p.name : p \in prev}) \subseteq Families(how, {r.name : r \in rs})
-----------------------------------------------------------------------------
Init ==
  /\ feed \in Feeds
  /\ todo = feed.doc
  /\ seen = {}
  /\ acc = {}
  /\ rows = {}
  /\ phase = "reading"

\* Whether a later item with the id of i is passed over.
Uses(how, i) ==
  CASE how.once = "no" -> FALSE
    [] how.once = "priced" -> Taken(how, i) /\ Head(i.rates).usd > 0
    [] how.once = "filled" -> Fills(how, i) # {}

\* One turn of the loop of ingest().
ReadItem(i) ==
  /\ phase = "reading" /\ i \in todo
  /\ How.sorted => \A j \in todo : i.n <= j.n
  /\ todo' = todo \ {i}
  /\ \/ i.id \in seen /\ UNCHANGED <<seen, acc, phase>>
     \/ i.id \notin seen /\ Raises(How, i) /\ phase' = "raised" /\ UNCHANGED <<seen, acc>>
     \/ /\ i.id \notin seen /\ ~Raises(How, i)
        /\ acc' = Absorb(How, acc, Fills(How, i))
        /\ seen' = IF Uses(How, i) THEN seen \union {i.id} ELSE seen
        /\ UNCHANGED phase
  /\ UNCHANGED <<feed, rows>>

\* Rows written one by one, those before the malformed one too.
WriteRowsAsYielded ==
  /\ phase = "reading" /\ todo = {}
  /\ rows' = {r \in RowsOf(How, acc) : \A p \in r.prices : p.to # 0}
  /\ phase' = IF Malformed(How, acc) THEN "raised" ELSE "written"
  /\ UNCHANGED <<feed, todo, seen, acc>>

\* The rest of ingest(), and main()'s exit code.
WriteRows ==
  /\ phase = "reading" /\ todo = {}
  /\ IF Malformed(How, acc)
     THEN phase' = "raised" /\ UNCHANGED rows
     ELSE /\ rows' = RowsOf(How, acc)
          /\ phase' = IF rows' = {} /\ How.empty = 2 THEN "empty" ELSE "written"
  /\ UNCHANGED <<feed, todo, seen, acc>>

\* build_shard: all rows go in, in one transaction, or none does.
BuildShard ==
  /\ phase = "written"
  /\ phase' = IF KeyClash(rows) THEN "conflict" ELSE "built"
  /\ UNCHANGED <<feed, todo, seen, acc, rows>>

SanityCheck ==
  /\ phase = "built"
  /\ phase' = IF Plausible(How, feed.first, feed.prev, rows) THEN "sane" ELSE "insane"
  /\ UNCHANGED <<feed, todo, seen, acc, rows>>

Next == (\E i \in todo : ReadItem(i)) \/ WriteRows \/ BuildShard \/ SanityCheck

Spec == Init /\ [][Next]_vars
-----------------------------------------------------------------------------
(* What the shards are checked for. *)

TypeOK ==
  /\ feed.src \in DOMAIN Policy /\ \A i \in feed.doc : Item(i)
  /\ todo \subseteq feed.doc
  /\ seen \subseteq {i.id : i \in feed.doc}
  /\ acc \subseteq UNION {Fills(How, i) : i \in feed.doc \ todo}
  /\ phase \in Phases
  /\ rows # {} => phase \in {"written", "conflict", "built", "insane", "sane"}

\* The rows have just been written; nothing changes them afterwards.
Written == phase \in {"empty", "written"}

\* Two items speak of one thing: they have one id though the source takes ids
\* for unique, or they price one cell, and a row has place for one of them only.
AddUp(how, p, q) ==
  /\ p.row.name \in how.append
  /\ p.from # q.from \/ At(how.ladder, p.dim, "none") \in {"falling", "highest"}

Contend(how, i, j) ==
  \/ /\ i.id = j.id /\ ~how.unique
     /\ how.suffix = "always" =>
          \E p \in Fills(how, i), q \in Fills(how, j) :
             p.row # q.row /\ p.row.region = q.row.region
  \/ \E p \in Fills(how, i), q \in Fills(how, j) :
        /\ p.dim = q.dim /\ p.row.name = q.row.name /\ p.row.region = q.row.region
        /\ p.row.name \in how.own => p.row.name \in how.minted
        /\ ~AddUp(how, p, q)

Unambiguous(how, doc) == \A i, j \in doc : i # j => ~Contend(how, i, j)

\* The rows depend on what is listed, not on the order it is listed in.
OrderFree ==
  Written /\ Unambiguous(How, feed.doc)
    => rows = RowsOf(How, UNION {Fills(How, i) : i \in feed.doc})

\* Item i lists a price for dimension d of row m in region r.
Offers(how, i, m, d, r) ==
  /\ i.payg /\ i.kind \in DOMAIN how.sells /\ <<m, d>> \in how.sells[i.kind]
  /\ r \in IF how.where = "one" \/ i.kind \in how.wide THEN {"global"}
           ELSE IF i.at = <<>> THEN how.virtual ELSE Range(i.at)

\* It does so in a unit, a form and an amount the source can use, and the
\* source reads as far as r.
Usable(how, i, d, r) ==
  /\ i.unit = "known" /\ i.rates # <<>>
  /\ IF how.rate = "split" THEN \E t \in Range(i.rates) : (t.from = 0) <=> (d = "free")
     ELSE \A t \in Range(i.rates) : t.usd > 0
  /\ d \in how.based => Head(i.rates).from = 0
  /\ how.where \in {"each", "one"} \/ i.kind \in how.wide \/ i.at = <<>> \/ r = Head(i.at)

\* Every price of a row is a pay-as-you-go price the document lists for that
\* dimension in that region (or the free tier below one); a global price stands
\* for a region only where the region has none of its own.
PricesAsListed ==
  Written => \A r \in rows : \A p \in {q \in r.prices : q.n # Nobody} :
    \E i \in feed.doc : \E s \in UNION Range(How.sells) :
      LET d == s[2]
      IN  /\ i.n = p.n /\ s[1] = r.name /\ At(How.shown, d, d) = p.dim
          /\ \/ p.usd \in {t.usd : t \in Range(i.rates)}
             \/ /\ p.usd = 0
                /\ \/ s \in How.free
                   \/ d \in DOMAIN How.ladder
                   \/ How.rate = "split" /\ d = "free"
          /\ \/ Offers(How, i, r.name, d, r.region)
             \/ /\ Offers(How, i, r.name, d, "global")
                /\ ~\E j \in feed.doc :
                     Offers(How, j, r.name, d, r.region) /\ Usable(How, j, d, r.region)

\* A source whose items do not make tiers together publishes a row wherever
\* each of its dimensions has a usable price, there or, if spread, globally.
RowsWhereSold ==
  Written /\ Unambiguous(How, feed.doc) /\ How.ladder = <<>> =>
    \A m \in {s[1] : s \in UNION Range(How.sells)}, r \in Tracked :
      LET dims == {s[2] : s \in {t \in UNION Range(How.sells) : t[1] = m}}
          sold(d, at) == \E i \in feed.doc : Offers(How, i, m, d, at) /\ Usable(How, i, d, at)
      IN  (\A d \in dims : sold(d, r) \/ (d \in How.spread /\ sold(d, "global")))
            => \E row \in rows : row.name = m /\ row.region = r

\* Rows of one name are priced in the same dimensions wherever they are sold,
\* so that comparing regions compares whole prices.  Sources that publish a row
\* with what there is, or with a price it may lack, are Partial.
Partial(how) == \E m \in {x[1] : x \in Priced(how)} :
  LET dims == DimsOf(how, m)
      default == {x[2] : x \in {y \in DOMAIN how.default : y[1] = m}}
  IN  /\ ~dims \subseteq At(how.needs, m, {}) \union default
      /\ \E d, e \in dims : At(how.shown, d, d) # At(how.shown, e, e)

PricedAlike ==
  Written /\ ~Partial(How) => \A r, q \in rows :
     r.name = q.name => {p.dim : p \in r.prices} = {p.dim : p \in q.prices}

\* A shard can be built from an unambiguous document: no two rows have one
\* sku_id, no two prices of a row one key.
ShardBuilds == phase = "conflict" => ~Unambiguous(How, feed.doc)

\* Where those of the items do, the tiers of a price follow each other from 0
\* to the open end, without a gap or an overlap.
Tile(ts) ==
  /\ \E t \in ts : t.from = 0
  /\ \A t \in ts : t.from < t.to /\ (t.to = Unbounded \/ \E u \in ts : u.from = t.to)
  /\ \A t \in ts : t.from = 0 \/ \E u \in ts : u.to = t.from
  /\ \A t, u \in ts : t # u => t.from # u.from

TiersTile ==
  Written /\ Unambiguous(How, feed.doc)
  /\ (\A i \in feed.doc : Taken(How, i) =>
        Tile(Range(i.rates)) /\ (How.rate = "split" => Len(i.rates) = 2)) =>
    \A r \in rows : \A d \in {p.dim : p \in r.prices} : Tile({p \in r.prices : p.dim = d})
=============================================================================
